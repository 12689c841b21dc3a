---------------------------- MODULE IngestProofs ----------------------------
(* Theorems about EvidenceIngest: what the persisted evidence stands on, for *)
(* any plans, indexes, texts, limits, edits and number of builds.            *)
EXTENDS EvidenceIngest, FiniteSetTheorems, WellFoundedInduction, SequenceTheorems, TLAPS

-----------------------------------------------------------------------------
(* A set of naturals has a least element, and Min finds it.                 *)
LEMMA MinIs ==
    ASSUME NEW S \in SUBSET Nat, S # {}
    PROVE  Min(S) \in S /\ \A x \in S : Min(S) <= x
<1>1. PICK m \in S : \A x \in S : <<x, m>> \notin OpToRel(<, Nat)
    BY NatLessThanWellFounded, WFMin
<1>2. \A x \in S : ~ (x < m)
    BY <1>1 DEF OpToRel
<1>3. \E k \in S : \A x \in S : k <= x
    BY <1>2
<1>. QED BY <1>3 DEF Min

(* Of finitely many integers one is the greatest.                           *)
LEMMA GreatestIs ==
    ASSUME NEW S \in SUBSET Int, S # {}, IsFiniteSet(S)
    PROVE  \E m \in S : \A x \in S : x <= m
<1>. DEFINE above(x) == {y \in S : y > x}
            counts == {Cardinality(above(x)) : x \in S}
<1>1. ASSUME NEW x \in S
      PROVE  IsFiniteSet(above(x)) /\ Cardinality(above(x)) \in Nat
    <2>1. above(x) \in SUBSET S
        OBVIOUS
    <2>2. IsFiniteSet(above(x))
        BY <2>1, FS_Subset
    <2>. QED BY <2>2, FS_CardinalityType
<1>2. counts \in SUBSET Nat /\ counts # {}
    BY <1>1
<1>3. PICK least \in counts : \A n \in counts : least <= n
    <2>. HIDE DEF counts
    <2>. QED BY <1>2, MinIs
<1>4. PICK m \in S : least = Cardinality(above(m))
    BY <1>3
<1>5. ASSUME NEW x \in S, ~ (x <= m)
      PROVE  FALSE
    <2>1. x > m
        BY <1>5
    <2>2. above(x) \in SUBSET above(m) /\ x \in above(m) /\ x \notin above(x)
        <3>1. \A z \in S : z > x => z > m
            BY <2>1
        <3>2. ~ (x > x) /\ x > m
            BY <2>1
        <3>. QED BY <3>1, <3>2
    <2>3. Cardinality(above(m)) <= Cardinality(above(x))
        BY <1>3, <1>4
    <2>. HIDE DEF above
    <2>4. Cardinality(above(x)) <= Cardinality(above(m)) /\ Cardinality(above(x)) # Cardinality(above(m))
        BY <1>1, <2>2, FS_Subset
    <2>. QED BY <1>1, <2>3, <2>4
<1>. QED BY <1>5

-----------------------------------------------------------------------------
(* Spans.                                                                   *)

Line == [chars : Seq(Nat \X Nat), ending : Nat]

(* A byte offset that is given is that of a position of the text.           *)
LEMMA OffsetIsPlace ==
    ASSUME NEW text \in Seq(Line),
           NEW line \in Int, NEW column \in Int, NEW encoding,
           ByteOffset(text, line, column, encoding) # NoPlace
    PROVE  <<line, column, ByteOffset(text, line, column, encoding)>> \in Places(text, encoding)
<1>1. Len(text) \in Nat /\ DOMAIN text = 1 .. Len(text)
    BY LenProperties
<1>2. PICK at : at = ByteOffset(text, line, column, encoding)
    OBVIOUS
<1>3. line \in 0 .. Len(text) /\ at # NoPlace
    BY <1>2 DEF ByteOffset
<1>4. CASE line = Len(text)
    <2>1. column = 0 /\ at = BytesBefore(text, line)
        BY <1>2, <1>3, <1>4 DEF ByteOffset
    <2>. QED BY <1>2, <1>4, <2>1 DEF Places
<1>5. CASE line # Len(text)
    <2>0. line + 1 \in DOMAIN text
        <3>1. PICK k \in Nat : k = Len(text)
            BY <1>1
        <3>2. line + 1 \in 1 .. k
            BY <1>3, <1>5, <3>1
        <3>. QED BY <1>1, <3>1, <3>2
    <2>1. PICK l \in DOMAIN text : l = line + 1
        BY <2>0
    <2>2. PICK chars : chars = text[l].chars
        OBVIOUS
    <2>3. chars \in Seq(Nat \X Nat)
        <3>1. \A i \in 1 .. Len(text) : text[i] \in Line
            BY ElementOfSeq
        <3>2. text[l] \in Line
            BY <1>1, <3>1
        <3>. QED BY <2>2, <3>2 DEF Line
    <2>4. Len(chars) \in Nat
        BY <2>3, LenProperties
    <2>5. /\ WithinLine(chars, column, encoding) # NoPlace
          /\ at = BytesBefore(text, line) + WithinLine(chars, column, encoding)
        BY <1>2, <1>3, <1>5, <2>1, <2>2 DEF ByteOffset
    <2>6. PICK ends : ends = {n \in 0 .. Len(chars) : Units(SubSeq(chars, 1, n), encoding) = column}
        OBVIOUS
    <2>7. ends # {} /\ WithinLine(chars, column, encoding) = Bytes(SubSeq(chars, 1, Min(ends)))
        BY <2>5, <2>6 DEF WithinLine
    <2>8. ends \in SUBSET Nat
        BY <2>4, <2>6
    <2>9. Min(ends) \in ends
        BY <2>7, <2>8, MinIs
    <2>10. PICK n \in 0 .. Len(text[l].chars) :
               /\ n = Min(ends) /\ Units(SubSeq(text[l].chars, 1, n), encoding) = column
        BY <2>2, <2>6, <2>9
    <2>11. l - 1 = line
        BY <2>1, <1>1
    <2>12. at = BytesBefore(text, l - 1) + Bytes(SubSeq(text[l].chars, 1, n))
        BY <2>2, <2>5, <2>7, <2>10, <2>11
    <2>13. PlaceOf(text, l, n, encoding) \in Places(text, encoding)
        BY DEF Places
    <2>14. PlaceOf(text, l, n, encoding) = <<line, column, at>>
        BY <2>10, <2>11, <2>12 DEF PlaceOf
    <2>. QED BY <1>2, <2>13, <2>14
<1>. QED BY <1>4, <1>5

(* The span of a persisted symbol is at its position in the text read.      *)
SpanOk(s) ==
    LET places == Places(Texts[s.run[2]][s.saw], s.encoding)
    IN  /\ <<s.range[1], s.range[2], s.start>> \in places
        /\ <<s.range[3], s.range[4], s.end>> \in places

DiskOk == onDisk \in [Document -> Nat] /\ \A d \in Document : onDisk[d] \in 1 .. Len(Texts[d])

(* So is that of each symbol that a document of an index defines.           *)
LEMMA SpansFit ==
    ASSUME DiskOk, NEW i \in DOMAIN Plans, NEW index \in Plans[i].indexes,
           NEW doc \in PresentDocuments(index), NEW s \in SemanticSymbolFacts(Plans[i], doc)
    PROVE  SpanOk(s)
<1>1. PICK path \in Document : path = PathOf(doc)
    BY DEF PresentDocuments
<1>2. PICK text : text = Texts[path][onDisk[path]]
    OBVIOUS
<1>3. text \in Seq(Line)
    <2>1. Texts[path] \in Seq(Seq(Line))
        BY IngestAssumption DEF Line
    <2>2. \A k \in 1 .. Len(Texts[path]) : Texts[path][k] \in Seq(Line)
        BY <2>1, ElementOfSeq
    <2>. QED BY <1>2, <2>2 DEF DiskOk
<1>4. PICK encoding : encoding = EncodingOf(Plans[i], doc)
    OBVIOUS
<1>5. PICK d \in DefinitionsOf(doc) :
          /\ s = [run |-> RunOf(Plans[i], path), key |-> KeyOf(d.symbol, path), range |-> d.range,
                  encoding |-> encoding, saw |-> onDisk[path],
                  start |-> ByteOffset(text, d.range[1], d.range[2], encoding),
                  end |-> ByteOffset(text, d.range[3], d.range[4], encoding)]
          /\ s.start # NoPlace /\ s.end # NoPlace
    <2>. DEFINE row(d) ==
                    [run |-> RunOf(Plans[i], path), key |-> KeyOf(d.symbol, path), range |-> d.range,
                     encoding |-> encoding, saw |-> onDisk[path],
                     start |-> ByteOffset(text, d.range[1], d.range[2], encoding),
                     end |-> ByteOffset(text, d.range[3], d.range[4], encoding)]
                rows == {row(d) : d \in DefinitionsOf(doc)}
    <2>1. SemanticSymbolFacts(Plans[i], doc) = {r \in rows : r.start # NoPlace /\ r.end # NoPlace /\ r.end >= r.start}
        BY <1>1, <1>2, <1>4 DEF SemanticSymbolFacts
    <2>2. s \in rows /\ s.start # NoPlace /\ s.end # NoPlace
        <3>. HIDE DEF rows
        <3>. QED BY <2>1
    <2>3. PICK d \in DefinitionsOf(doc) : s = row(d)
        BY <2>2
    <2>. QED BY <2>2, <2>3
<1>6. PICK o \in ToSet(All(doc, "occurrence")) : d.range = RangeOf(o)
    <2>1. PICK o \in {x \in Named(doc) : "definition" \in Roles(x)} :
              d = [symbol |-> LastField(o, "symbol", ""), range |-> RangeOf(o)]
        BY DEF DefinitionsOf
    <2>2. o \in ToSet(All(doc, "occurrence")) /\ d.range = RangeOf(o)
        BY <2>1 DEF Named
    <2>. QED BY <2>2
<1>7. doc \in ToSet(All(index, "document"))
    BY DEF PresentDocuments
<1>8. PICK range : range = d.range
    OBVIOUS
<1>9. \A k \in 1 .. 4 : range[k] \in Int
    BY <1>6, <1>7, <1>8, IngestAssumption
<1>10. range[1] \in Int /\ range[2] \in Int /\ range[3] \in Int /\ range[4] \in Int
    BY <1>9
<1>11. /\ s.range = range /\ s.encoding = encoding /\ s.saw = onDisk[path] /\ s.run[2] = path
       /\ s.start = ByteOffset(text, range[1], range[2], encoding)
       /\ s.end = ByteOffset(text, range[3], range[4], encoding)
    BY <1>5, <1>8 DEF RunOf
<1>12. <<range[1], range[2], s.start>> \in Places(text, encoding)
    BY <1>3, <1>5, <1>10, <1>11, OffsetIsPlace
<1>13. <<range[3], range[4], s.end>> \in Places(text, encoding)
    BY <1>3, <1>5, <1>10, <1>11, OffsetIsPlace
<1>14. Texts[s.run[2]][s.saw] = text
    BY <1>2, <1>11
<1>. QED BY <1>11, <1>12, <1>13, <1>14 DEF SpanOk

(* Insert-or-ignore adds only rows it was given.                            *)
LEMMA InsertedAre ==
    ASSUME NEW table, NEW rows
    PROVE  \A r \in Inserted(table, rows) : r \in table \/ r \in rows
<1>. SUFFICES ASSUME NEW r \in Inserted(table, rows), r \notin table PROVE r \in rows
    OBVIOUS
<1>1. PICK id \in {RowId(x) : x \in rows} : r = CHOOSE x \in rows : RowId(x) = id
    BY DEF Inserted
<1>2. \E x \in rows : RowId(x) = id
    BY <1>1
<1>. QED BY <1>1, <1>2

-----------------------------------------------------------------------------
(* The resolution pass.                                                     *)

Priorities == {Plans[i].priority : i \in DOMAIN Plans}
Providers == {Plans[i].provider : i \in DOMAIN Plans}

LEMMA PriorityKnown ==
    ASSUME NEW r, r.run[1] \in Providers
    PROVE  PriorityOf(r) \in Priorities
<1>1. ToSet(Plans) = {Plans[i] : i \in DOMAIN Plans}
    BY DEF ToSet
<1>2. \E p \in ToSet(Plans) : p.provider = r.run[1]
    BY <1>1 DEF Providers
<1>3. (CHOOSE p \in ToSet(Plans) : p.provider = r.run[1]) \in ToSet(Plans)
    BY <1>2
<1>. QED BY <1>1, <1>3 DEF PriorityOf, Priorities

LEMMA PrioritiesFinite == Priorities \in SUBSET Int /\ IsFiniteSet(Priorities)
<1>1. Priorities \in SUBSET Int
    BY IngestAssumption DEF Priorities
<1>2. IsFiniteSet(DOMAIN Plans)
    BY FS_Interval, IngestAssumption
<1>. DEFINE f == [i \in DOMAIN Plans |-> Plans[i].priority]
<1>3. f \in Surjection(DOMAIN Plans, Priorities)
    BY DEF Surjection, Priorities
<1>4. IsFiniteSet(Priorities)
    BY <1>2, <1>3, FS_Surjection
<1>. QED BY <1>1, <1>4

(* No fact outranks the one that is preferred.                              *)
LEMMA PreferredFirst ==
    ASSUME NEW facts, facts # {}, \A r \in facts : r.run[1] \in Providers
    PROVE  \A other \in facts : PriorityOf(other) <= PriorityOf(PreferredOf(facts))
<1>. DEFINE found == {PriorityOf(r) : r \in facts}
<1>1. found \in SUBSET Priorities /\ found # {}
    BY PriorityKnown
<1>2. IsFiniteSet(found) /\ found \in SUBSET Int
    BY <1>1, PrioritiesFinite, FS_Subset
<1>3. PICK m \in found : \A x \in found : x <= m
    <2>. HIDE DEF found
    <2>. QED BY <1>1, <1>2, GreatestIs
<1>4. \E r \in facts : \A other \in facts : PriorityOf(other) <= PriorityOf(r)
    BY <1>3
<1>. QED BY <1>4 DEF PreferredOf

(* What the pass computes is of the candidate's tables alone.               *)
LEMMA SameResolution ==
    ASSUME UNCHANGED <<generation, files, linked, symbols, refs>>
    PROVE  /\ Visible' = Visible
           /\ \A r : ResolutionOf(r)' = ResolutionOf(r)
           /\ \A key : ClusterOf(key)' = ClusterOf(key)
<1>1. Visible' = Visible /\ SymbolRows' = SymbolRows
    BY DEF Visible, SymbolRows, InCandidate
<1>2. DefinedKeys' = DefinedKeys
    BY <1>1 DEF DefinedKeys
<1>3. ASSUME NEW r
      PROVE  Outcome(r)' = Outcome(r)
    <2>1. Homonyms(r)' = Homonyms(r)
        BY <1>1 DEF Homonyms
    <2>. QED BY <1>2, <2>1 DEF Outcome
<1>4. \A r : ResolutionOf(r)' = ResolutionOf(r)
    BY <1>3 DEF ResolutionOf
<1>5. \A key : ClusterOf(key)' = ClusterOf(key)
    BY <1>1, <1>3 DEF ClusterOf
<1>. QED BY <1>1, <1>4, <1>5

-----------------------------------------------------------------------------
(* Every step keeps the evidence backed.                                    *)

(* The resolutions and clusters of the generation, after its build, are     *)
(* those of what is visible in it; before, there are none.                  *)
PassOk ==
    /\ generation \in Nat
    /\ \A x \in resolutions \union clusters :
          /\ x.generation \in Nat /\ x.generation <= generation
          /\ step # "idle" => x.generation # generation
    /\ Built =>
          /\ {x \in resolutions : x.generation = generation} = {ResolutionOf(r) : r \in Visible}
          /\ {c \in clusters : c.generation = generation} =
                {ClusterOf(key) : key \in {ClusterKey(r) : r \in Visible}}

IngestInv ==
    /\ DiskOk /\ PassOk
    /\ step = "plans" => next \in 1 .. Len(Plans)
    /\ \A s \in symbols : SpanOk(s)
    /\ \A r \in refs : r.run[1] \in Providers

LEMMA IngestStarts == IngestInit => IngestInv
<1>. SUFFICES ASSUME IngestInit PROVE IngestInv
    OBVIOUS
<1>1. DiskOk
    <2>1. ASSUME NEW d \in Document
          PROVE  1 \in 1 .. Len(Texts[d])
        <3>1. Texts[d] # <<>> /\ Texts[d] \in Seq(Seq(Line))
            BY IngestAssumption DEF Line
        <3>2. Len(Texts[d]) \in Nat /\ Len(Texts[d]) # 0
            BY <3>1, LenProperties, EmptySeq
        <3>. QED BY <3>2
    <2>. QED BY <2>1 DEF IngestInit, DiskOk
<1>2. PassOk
    BY DEF IngestInit, PassOk, Built
<1>. QED BY <1>1, <1>2 DEF IngestInit, IngestInv

(* While a plan is at work nothing is resolved.                             *)
LEMMA PlanKeeps ==
    ASSUME IngestInv, step = "plans", Advance,
           \A s \in symbols' : SpanOk(s), \A r \in refs' : r.run[1] \in Providers
    PROVE  IngestInv'
<1>1. /\ step' \in {"plans", "resolve"}
      /\ next' = next + 1
      /\ step' = "plans" => next # Len(Plans)
      /\ UNCHANGED <<generation, files, onDisk, resolutions, clusters>>
    BY DEF Advance
<1>2. next \in 1 .. Len(Plans) /\ Len(Plans) \in Nat
    BY IngestAssumption DEF IngestInv
<1>3. step' = "plans" => next' \in 1 .. Len(Plans)
    BY <1>1, <1>2
<1>4. DiskOk'
    BY <1>1 DEF IngestInv, DiskOk
<1>5. PassOk'
    <2>1. ~ Built' /\ step' # "idle"
        BY <1>1 DEF Built
    <2>. QED BY <1>1, <2>1 DEF IngestInv, PassOk
<1>6. \A s : SpanOk(s)' <=> SpanOk(s)
    BY DEF SpanOk
<1>. QED BY <1>3, <1>4, <1>5, <1>6 DEF IngestInv

LEMMA IngestContinues == IngestInv /\ [IngestNext]_ingestVars => IngestInv'
<1>. SUFFICES ASSUME IngestInv, [IngestNext]_ingestVars PROVE IngestInv'
    OBVIOUS
<1>0. \A s : SpanOk(s)' <=> SpanOk(s)
    BY DEF SpanOk
<1>1. CASE BeginBuild
    <2>1. /\ generation' = generation + 1 /\ step' = "plans" /\ next' = 1
          /\ UNCHANGED <<onDisk, symbols, refs, resolutions, clusters>>
        BY <1>1 DEF BeginBuild
    <2>2. PassOk'
        <3>1. ~ Built' /\ generation' \in Nat
            BY <2>1 DEF Built, IngestInv, PassOk
        <3>2. \A x \in resolutions \union clusters :
                 /\ x.generation \in Nat /\ x.generation <= generation' /\ x.generation # generation'
            BY <2>1 DEF IngestInv, PassOk
        <3>. QED BY <2>1, <3>1, <3>2 DEF PassOk
    <2>3. DiskOk'
        BY <2>1 DEF IngestInv, DiskOk
    <2>4. next' \in 1 .. Len(Plans)
        BY <2>1, IngestAssumption
    <2>. QED BY <1>0, <2>1, <2>2, <2>3, <2>4 DEF IngestInv
<1>2. CASE KeepEvidence
    BY <1>2, PlanKeeps DEF KeepEvidence, IngestInv
<1>3. CASE RejectIndex
    BY <1>3, PlanKeeps DEF RejectIndex, IngestInv
<1>4. CASE IngestIndex
    <2>1. step = "plans" /\ Advance
        BY <1>4 DEF IngestIndex
    <2>2. PICK i \in DOMAIN Plans : i = next
        BY <2>1, IngestAssumption DEF IngestInv
    <2>3. PICK index \in Plans[i].indexes :
              /\ symbols' = Inserted(symbols, UNION {SemanticSymbolFacts(Plans[i], doc) : doc \in PresentDocuments(index)})
              /\ refs' = Inserted(refs, UNION {RefFacts(Plans[i], index, doc) : doc \in PresentDocuments(index)})
        BY <1>4, <2>2 DEF IngestIndex
    <2>4. ASSUME NEW s \in symbols'
          PROVE  SpanOk(s)
        <3>1. CASE s \in symbols
            BY <3>1 DEF IngestInv
        <3>2. CASE s \notin symbols
            <4>1. s \in UNION {SemanticSymbolFacts(Plans[i], doc) : doc \in PresentDocuments(index)}
                BY <2>3, <3>2, InsertedAre
            <4>2. PICK doc \in PresentDocuments(index) : s \in SemanticSymbolFacts(Plans[i], doc)
                BY <4>1
            <4>. QED BY <4>2, SpansFit DEF IngestInv
        <3>. QED BY <3>1, <3>2
    <2>5. ASSUME NEW r \in refs'
          PROVE  r.run[1] \in Providers
        <3>1. CASE r \in refs
            BY <3>1 DEF IngestInv
        <3>2. CASE r \notin refs
            <4>1. r \in UNION {RefFacts(Plans[i], index, doc) : doc \in PresentDocuments(index)}
                BY <2>3, <3>2, InsertedAre
            <4>2. PICK doc \in PresentDocuments(index) : r \in RefFacts(Plans[i], index, doc)
                BY <4>1
            <4>3. r.run = RunOf(Plans[i], PathOf(doc))
                BY <4>2 DEF RefFacts
            <4>. QED BY <4>3 DEF RunOf, Providers
        <3>. QED BY <3>1, <3>2
    <2>. QED BY <2>1, <2>4, <2>5, PlanKeeps
<1>5. CASE RunResolutionPass
    <2>1. /\ step = "resolve" /\ step' = "idle"
          /\ resolutions' = resolutions \union {ResolutionOf(r) : r \in Visible}
          /\ clusters' = clusters \union {ClusterOf(key) : key \in {ClusterKey(r) : r \in Visible}}
          /\ UNCHANGED <<generation, files, onDisk, next, linked, symbols, refs>>
        BY <1>5 DEF RunResolutionPass
    <2>2. /\ Visible' = Visible
          /\ \A r : ResolutionOf(r)' = ResolutionOf(r)
          /\ \A key : ClusterOf(key)' = ClusterOf(key)
        BY <2>1, SameResolution
    <2>3. /\ generation \in Nat
          /\ \A x \in resolutions \union clusters :
                x.generation \in Nat /\ x.generation <= generation /\ x.generation # generation
        BY <2>1 DEF IngestInv, PassOk
    <2>4. /\ \A r : ResolutionOf(r).generation = generation
          /\ \A key : ClusterOf(key).generation = generation
        BY DEF ResolutionOf, ClusterOf
    <2>5. PICK now : now = {ResolutionOf(r) : r \in Visible}
        OBVIOUS
    <2>6. PICK grouped : grouped = {ClusterOf(key) : key \in {ClusterKey(r) : r \in Visible}}
        OBVIOUS
    <2>7. \A x \in now \union grouped : x.generation = generation
        BY <2>4, <2>5, <2>6
    <2>8. resolutions' = resolutions \union now /\ clusters' = clusters \union grouped
        BY <2>1, <2>5, <2>6
    <2>9. /\ {x \in resolutions' : x.generation = generation} = now
          /\ {c \in clusters' : c.generation = generation} = grouped
        BY <2>3, <2>7, <2>8
    <2>10. \A x \in resolutions' \union clusters' : x.generation \in Nat /\ x.generation <= generation
        BY <2>3, <2>7, <2>8
    <2>11. {ResolutionOf(r)' : r \in Visible'} = now
        BY <2>2, <2>5
    <2>12. {ClusterOf(key)' : key \in {ClusterKey(r) : r \in Visible'}} = grouped
        BY <2>2, <2>6
    <2>13. PassOk'
        BY <2>1, <2>3, <2>9, <2>10, <2>11, <2>12 DEF PassOk
    <2>14. DiskOk'
        BY <2>1 DEF IngestInv, DiskOk
    <2>. QED BY <1>0, <2>1, <2>13, <2>14 DEF IngestInv
<1>6. ASSUME NEW d \in Document, EditDocument(d)
      PROVE  IngestInv'
    <2>1. /\ onDisk[d] < Len(Texts[d]) /\ onDisk' = [onDisk EXCEPT ![d] = onDisk[d] + 1]
          /\ UNCHANGED <<step, generation, files, next, linked, symbols, refs, resolutions, clusters>>
        BY <1>6 DEF EditDocument
    <2>2. DiskOk'
        <3>1. Len(Texts[d]) \in Nat
            BY LenProperties, IngestAssumption
        <3>. QED BY <2>1, <3>1 DEF IngestInv, DiskOk
    <2>3. PassOk'
        <3>1. /\ Visible' = Visible
              /\ \A r : ResolutionOf(r)' = ResolutionOf(r)
              /\ \A key : ClusterOf(key)' = ClusterOf(key)
            BY <2>1, SameResolution
        <3>2. /\ {ResolutionOf(r)' : r \in Visible'} = {ResolutionOf(r) : r \in Visible}
              /\ {ClusterOf(key)' : key \in {ClusterKey(r) : r \in Visible'}} =
                    {ClusterOf(key) : key \in {ClusterKey(r) : r \in Visible}}
            BY <3>1
        <3>3. Built' = Built
            BY <2>1 DEF Built
        <3>. QED BY <2>1, <3>2, <3>3 DEF IngestInv, PassOk
    <2>. QED BY <1>0, <2>1, <2>2, <2>3 DEF IngestInv
<1>7. CASE UNCHANGED ingestVars
    <2>1. UNCHANGED <<step, generation, files, onDisk, next, linked, symbols, refs, resolutions, clusters>>
        BY <1>7 DEF ingestVars
    <2>2. PassOk'
        <3>1. /\ Visible' = Visible
              /\ \A r : ResolutionOf(r)' = ResolutionOf(r)
              /\ \A key : ClusterOf(key)' = ClusterOf(key)
            BY <2>1, SameResolution
        <3>2. /\ {ResolutionOf(r)' : r \in Visible'} = {ResolutionOf(r) : r \in Visible}
              /\ {ClusterOf(key)' : key \in {ClusterKey(r) : r \in Visible'}} =
                    {ClusterOf(key) : key \in {ClusterKey(r) : r \in Visible}}
            BY <3>1
        <3>3. Built' = Built
            BY <2>1 DEF Built
        <3>. QED BY <2>1, <3>2, <3>3 DEF IngestInv, PassOk
    <2>3. DiskOk'
        BY <2>1 DEF IngestInv, DiskOk
    <2>. QED BY <1>0, <2>1, <2>2, <2>3 DEF IngestInv
<1>. QED BY <1>1, <1>2, <1>3, <1>4, <1>5, <1>6, <1>7 DEF IngestNext

(* A reference of the finished generation has one resolution, and is in one *)
(* cluster.                                                                 *)
LEMMA ResolvedOnce ==
    ASSUME IngestInv, Built, NEW r \in Visible
    PROVE  LET rows == {x \in resolutions : x.generation = generation /\ x.fact = r}
               within == {c \in clusters : c.generation = generation /\ r \in c.facts}
           IN  rows = {ResolutionOf(r)} /\ within = {ClusterOf(ClusterKey(r))}
<1>1. /\ {x \in resolutions : x.generation = generation} = {ResolutionOf(q) : q \in Visible}
      /\ {c \in clusters : c.generation = generation} =
            {ClusterOf(key) : key \in {ClusterKey(q) : q \in Visible}}
    BY DEF IngestInv, PassOk
<1>2. \A q : ResolutionOf(q).fact = q
    BY DEF ResolutionOf
<1>3. {x \in resolutions : x.generation = generation /\ x.fact = r} =
         {x \in {ResolutionOf(q) : q \in Visible} : x.fact = r}
    BY <1>1
<1>4. {x \in {ResolutionOf(q) : q \in Visible} : x.fact = r} = {ResolutionOf(r)}
    BY <1>2
<1>5. \A key : r \in ClusterOf(key).facts <=> key = ClusterKey(r)
    BY DEF ClusterOf
<1>6. {c \in clusters : c.generation = generation /\ r \in c.facts} =
         {c \in {ClusterOf(key) : key \in {ClusterKey(q) : q \in Visible}} : r \in c.facts}
    BY <1>1
<1>7. {c \in {ClusterOf(key) : key \in {ClusterKey(q) : q \in Visible}} : r \in c.facts} =
         {ClusterOf(ClusterKey(r))}
    BY <1>5
<1>. QED BY <1>3, <1>4, <1>6, <1>7

(* EvidenceIsBacked: for any plans and indexes, whatever is edited between  *)
(* the scan and a provider's run, an index that is refused or a document    *)
(* that left, a persisted span is at its position in the text read; and     *)
(* after each build every visible reference has one resolution, by key      *)
(* exactly where the generation has the symbol, and one cluster, whose      *)
(* preferred fact none outranks.                                            *)
THEOREM Backed == IngestSpec => []EvidenceIsBacked
<1>1. IngestInv => EvidenceIsBacked
    <2>. SUFFICES ASSUME IngestInv PROVE EvidenceIsBacked
        OBVIOUS
    <2>1. \A s \in symbols : SpanOk(s)
        BY DEF IngestInv
    <2>2. ASSUME Built, NEW r \in Visible,
                 NEW rows, rows = {x \in resolutions : x.generation = generation /\ x.fact = r},
                 NEW within, within = {c \in clusters : c.generation = generation /\ r \in c.facts}
          PROVE  /\ Cardinality(rows) = 1 /\ Cardinality(within) = 1
                 /\ \A x \in rows :
                       x.reason = "exact_canonical_symbol" <=>
                          \E s \in symbols : s.key = TargetKey(r) /\ files[s.run[2]] = s.run[3]
                 /\ \A c \in within : \A other \in c.facts : PriorityOf(other) <= PriorityOf(c.preferred)
        <3>1. rows = {ResolutionOf(r)} /\ within = {ClusterOf(ClusterKey(r))}
            BY <2>2, ResolvedOnce
        <3>2. Cardinality(rows) = 1 /\ Cardinality(within) = 1
            BY <3>1, FS_Singleton
        <3>3. Outcome(r).reason = "exact_canonical_symbol" <=> TargetKey(r) \in DefinedKeys
            BY DEF Outcome
        <3>4. TargetKey(r) \in DefinedKeys <=>
                 \E s \in symbols : s.key = TargetKey(r) /\ files[s.run[2]] = s.run[3]
            <4>1. DefinedKeys = {s.key : s \in {x \in symbols : InCandidate(x.run)}}
                <5>1. \A s : <<s.key, s.run[2]>>[1] = s.key
                    OBVIOUS
                <5>. QED BY <5>1 DEF DefinedKeys, SymbolRows
            <4>2. \A s : InCandidate(s.run) <=> files[s.run[2]] = s.run[3]
                BY DEF InCandidate
            <4>. QED BY <4>1, <4>2
        <3>5. ResolutionOf(r).reason = Outcome(r).reason
            BY DEF ResolutionOf
        <3>6. PICK facts : facts = {q \in Visible : ClusterKey(q) = ClusterKey(r)}
            OBVIOUS
        <3>7. ClusterOf(ClusterKey(r)).facts = facts /\ ClusterOf(ClusterKey(r)).preferred = PreferredOf(facts)
            BY <3>6 DEF ClusterOf
        <3>8. facts # {} /\ \A q \in facts : q.run[1] \in Providers
            BY <3>6 DEF IngestInv, Visible
        <3>9. \A other \in facts : PriorityOf(other) <= PriorityOf(PreferredOf(facts))
            BY <3>8, PreferredFirst
        <3>. QED BY <3>1, <3>2, <3>3, <3>4, <3>5, <3>7, <3>9
    <2>. QED BY <2>1, <2>2 DEF EvidenceIsBacked, SpanOk
<1>2. IngestInit => IngestInv
    BY IngestStarts
<1>3. IngestInv /\ [IngestNext]_ingestVars => IngestInv'
    BY IngestContinues
<1>. QED BY <1>1, <1>2, <1>3, PTL DEF IngestSpec
=============================================================================
