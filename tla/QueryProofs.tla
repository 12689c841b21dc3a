----------------------------- MODULE QueryProofs -----------------------------
(* Proofs about QueryReads: what find, inspect, trace, source and context   *)
(* answer, statement by statement, while reconciles commit facts and        *)
(* activate generations and files are edited between any two of their steps.*)
EXTENDS QueryReads, FiniteSetTheorems, WellFoundedInduction, TLAPS

-----------------------------------------------------------------------------
(* The catalogue and the tree.                                              *)
File == [text : Content \cup {NoFile}, ino : Nat, stamp : Nat]

(* Edits are stamped in their order, what a file holds now is among what it *)
(* held during the call, and a generation is activated once.                *)
IndexInv ==
    /\ store \in Stores
    /\ committed \in 0 .. Len(store.files) /\ candidates \subseteq 1 .. committed
    /\ current \in 0 .. committed /\ current \notin candidates
    /\ disk \in [Path -> File] /\ written \in 0 .. MaxWrites
    /\ held \in [Path -> SUBSET (Content \cup {NoFile})]
    /\ \A p \in Path : disk[p].text \in held[p] /\ disk[p].stamp <= written

(* A call is a record of its step.                                          *)
Reference == [ref : Nat, depth : Nat]
Edge == [depth : Nat, from : Nat, to : Nat]
Finding == [step : {"find"}, gen : Nat, query : SUBSET Nat, after : Nat]
Inspecting == [step : {"inspect"}, gen : Nat, path : Path, since : Nat]
Symbols ==
    [step : {"symbols"}, gen : Nat, path : Path, since : Nat, text : Content \cup {NoFile}]
Outbound ==
    [step : {"outbound"}, gen : Nat, path : Path, since : Nat, text : Content \cup {NoFile},
     symbols : SUBSET Nat]
Inbound ==
    [step : {"inbound"}, gen : Nat, path : Path, since : Nat, text : Content \cup {NoFile},
     symbols : SUBSET Nat, outbound : SUBSET Nat]
Tracing ==
    [step : {"trace"}, gen : Nat, since : Nat, deepest : Nat, way : SUBSET {"out", "in"},
     resolved : BOOLEAN, queue : Seq(Reference), visited : SUBSET Nat, edges : Seq(Edge),
     at : Reference, todo : SUBSET {"out", "in"}, along : {"out", "in"}, rows : SUBSET Nat,
     byDepth : BOOLEAN, byRecords : BOOLEAN, stable : BOOLEAN]
Impacting ==
    [step : {"impact"}, gen : Nat, seeds : SUBSET Path, left : SUBSET Path, half : BOOLEAN,
     dependents : SUBSET Nat, verified : SUBSET Nat, uncertain : SUBSET Nat]
Sourcing == [step : {"source"}, gen : Nat, path : Path]
Opened ==
    [step : {"opened"}, gen : Nat, path : Path, indexed : Content \cup {NoFile}, file : File]
Reading ==
    [step : {"read"}, gen : Nat, path : Path, indexed : Content \cup {NoFile}, file : File,
     bytes : Content \cup {NoFile}]

Working ==
    Finding \cup Inspecting \cup Symbols \cup Outbound \cup Inbound \cup Tracing \cup Impacting
    \cup Sourcing \cup Opened \cup Reading

(* A client that follows cursors.                                           *)
Cursor == [gen : Nat, query : SUBSET Nat, after : Nat]
Walking ==
    [cursor : Cursor, gen : Nat, query : SUBSET Nat, pages : Seq(SUBSET Nat), there : SUBSET Nat,
     state : {"none", "walking", "ended"}]

CallInv ==
    /\ \/ call = NoCall
       \/ call \in Working /\ call.gen \in 1 .. committed
       \/ call.step = "done"
    /\ call.step \in {"inspect", "symbols", "outbound", "inbound", "trace"} => call.since <= committed
    /\ call.step = "trace" => call.rows \subseteq DOMAIN store.rels
    /\ walk \in Walking

(* The world moves forward.                                                 *)
LEMMA WorldMoves ==
    ASSUME IndexInv, [QueriesNext]_queriesVars
    PROVE  /\ IndexInv' /\ store' = store
           /\ committed \in Nat /\ committed' \in {committed, committed + 1}
           /\ candidates' \subseteq candidates \cup {committed + 1}
           /\ current' = current \/ current' \in candidates
<1>. USE QueryStoreAssumption DEF IndexInv
<1>0. Len(store.files) \in Nat
    BY DEF Catalogues
<1>1. CASE ActivateNext
  <2>. PICK g \in candidates : current' = g /\ candidates' = candidates \ {g}
    BY <1>1 DEF ActivateNext
  <2>1. g \in 0 .. committed /\ committed \in Nat /\ g \notin candidates \ {g}
    BY <1>0
  <2>2. UNCHANGED <<store, committed, disk, written, held>>
    BY <1>1 DEF ActivateNext
  <2>. QED BY <2>1, <2>2
<1>7. CASE CommitFacts
    BY <1>0, <1>7 DEF CommitFacts
<1>2. CASE EditTree
  <2>. PICK p \in Path, t \in Content \cup {NoFile}, inPlace \in BOOLEAN :
           /\ disk' = [disk EXCEPT ![p] = [text |-> t, stamp |-> written + 1,
                                           ino |-> IF inPlace THEN @.ino ELSE written + 1]]
           /\ held' = [held EXCEPT ![p] = @ \cup {t}]
    BY <1>2 DEF EditTree
  <2>. PICK i \in Nat : i = IF inPlace THEN disk[p].ino ELSE written + 1
    BY DEF File
  <2>1. /\ disk' = [disk EXCEPT ![p] = [text |-> t, stamp |-> written + 1, ino |-> i]]
        /\ held' = [held EXCEPT ![p] = @ \cup {t}]
    OBVIOUS
  <2>2. written + 1 \in Nat /\ written' = written + 1 /\ written' \in 0 .. MaxWrites
    BY <1>2 DEF EditTree
  <2>3. disk' \in [Path -> File] /\ held' \in [Path -> SUBSET (Content \cup {NoFile})]
    BY <2>1, <2>2 DEF File
  <2>4. \A q \in Path : disk'[q].text \in held'[q] /\ disk'[q].stamp <= written'
    BY <2>1, <2>2 DEF File
  <2>. QED BY <1>0, <1>2, <2>2, <2>3, <2>4 DEF EditTree, catalogueVars
<1>3. CASE /\ UNCHANGED <<store, committed, candidates, current, disk, written>>
           /\ held' = held \/ held' = [p \in Path |-> {disk[p].text}]
    BY <1>0, <1>3 DEF File
<1>4. CASE Querying
    BY <1>3, <1>4 DEF Querying, BeginFind, FindRows, BeginInspect, InspectFile, InspectSymbols, InspectOutbound, InspectInbound,
        BeginTrace, TraceVisit, TraceRows, TraceRow, TraceEnd, BeginImpact, ImpactDependents,
        ImpactFrontier, ImpactEnd, BeginSource, SourceOpen, SourceRead, SourceCheck, EndCall,
        Watch, worldVars, catalogueVars
<1>5. CASE Brokering
    BY <1>3, <1>5 DEF Brokering, BeginPacket, PacketSymbols, PacketScan, PacketExpand, PacketRank,
        PacketNext, PacketHash, PacketText, PacketEnd, PacketReturned, Watch, worldVars, catalogueVars
<1>6. CASE UNCHANGED queriesVars
    BY <1>3, <1>6 DEF queriesVars, worldVars, catalogueVars
<1>. QED BY <1>1, <1>2, <1>4, <1>5, <1>6, <1>7 DEF QueriesNext

(* Rows and files of the catalogue.                                         *)
LEMMA RowTypes ==
    ASSUME IndexInv
    PROVE  /\ store \in Catalogues /\ ResolvedAtCommit(store)
           /\ \A i \in DOMAIN store.rels : store.rels[i] \in RelationRow /\ i \in Nat
           /\ \A r \in ToSet(store.rels) : r \in RelationRow
           /\ \A i \in DOMAIN store.symbols : store.symbols[i] \in SymbolRow /\ i \in Nat
           /\ \A g \in 1 .. committed :
                /\ g \in DOMAIN store.files
                /\ store.files[g] \in [Path -> Content \cup {NoFile}]
                /\ CurrentPaths(g) \subseteq Path
<1>1. store \in Catalogues /\ ResolvedAtCommit(store)
    BY QueryStoreAssumption DEF IndexInv
<1>2. store.rels \in Seq(RelationRow) /\ store.symbols \in Seq(SymbolRow)
      /\ store.files \in Seq([Path -> Content \cup {NoFile}])
    BY <1>1 DEF Catalogues
<1>3. \A g \in 1 .. committed : g \in DOMAIN store.files
    BY <1>2 DEF IndexInv
<1>4. \A g : CurrentPaths(g) \subseteq Path
    BY DEF CurrentPaths
<1>. QED BY <1>1, <1>2, <1>3, <1>4 DEF ToSet

-----------------------------------------------------------------------------
(* Pages.                                                                   *)
(* A set of numbers has a least one.                                        *)
LEMMA Least ==
    ASSUME NEW T, T \subseteq Nat, T # {}
    PROVE  \E m \in T : \A n \in T : m <= n
<1>1. PICK x \in T : \A y \in T : <<y, x>> \notin OpToRel(<, Nat)
    BY NatLessThanWellFounded, WFMin
<1>2. \A y \in T : ~ (y < x)
    BY <1>1 DEF OpToRel
<1>. QED BY <1>2

(* Rows are finitely many and in a line.                                    *)
LEMMA RowOrder ==
    ASSUME IndexInv, NEW rows \in SUBSET DOMAIN store.symbols
    PROVE  /\ IsFiniteSet(rows)
           /\ \A i, j \in rows : i # j => RowBefore(i, j) \/ RowBefore(j, i)
           /\ \A i, j, k \in rows : RowBefore(i, j) /\ RowBefore(j, k) => RowBefore(i, k)
           /\ \A i \in rows : ~ RowBefore(i, i)
           /\ \A i, j \in rows :
                 RowBefore(i, j) => store.symbols[i].path <= store.symbols[j].path
<1>1. /\ store.symbols \in Seq(SymbolRow)
      /\ \A i \in rows : store.symbols[i].path \in Nat /\ i \in Nat
    BY RowTypes, QueryStoreAssumption DEF SymbolRow, Catalogues
<1>2. PICK n \in Nat : DOMAIN store.symbols = 1 .. n
    BY <1>1
<1>3. IsFiniteSet(rows)
  <2>1. IsFiniteSet(1 .. n)
    BY FS_Interval
  <2>. QED BY <1>2, <2>1, FS_Subset
<1>. QED BY <1>1, <1>3 DEF RowBefore

(* The rows before another are fewer the earlier it is.                     *)
LEMMA RankGrows ==
    ASSUME IndexInv, NEW rows \in SUBSET DOMAIN store.symbols,
           NEW i \in rows, NEW j \in rows, RowBefore(i, j)
    PROVE  /\ Cardinality({k \in rows : RowBefore(k, i)}) \in Nat
           /\ Cardinality({k \in rows : RowBefore(k, j)}) \in Nat
           /\ Cardinality({k \in rows : RowBefore(k, i)})
                < Cardinality({k \in rows : RowBefore(k, j)})
<1>. DEFINE A == {k \in rows : RowBefore(k, i)}
            B == {k \in rows : RowBefore(k, j)}
<1>1. A \subseteq B /\ i \in B /\ i \notin A /\ B \in SUBSET rows
    BY RowOrder
<1>2. IsFiniteSet(A) /\ IsFiniteSet(B)
    BY <1>1, RowOrder, FS_Subset
<1>. HIDE DEF A, B
<1>3. Cardinality(A) \in Nat /\ Cardinality(B) \in Nat /\ Cardinality(A) <= Cardinality(B)
      /\ Cardinality(A) # Cardinality(B)
    BY <1>1, <1>2, FS_CardinalityType, FS_Subset
<1>4. Cardinality(A) < Cardinality(B)
    BY <1>3
<1>. QED BY <1>3, <1>4 DEF A, B

(* A page is what comes first, and everything when the rows fit.            *)
LEMMA PageIsFirst ==
    ASSUME IndexInv, NEW rows \in SUBSET DOMAIN store.symbols
    PROVE  /\ PageOf(rows) \subseteq rows
           /\ \A i \in PageOf(rows), j \in rows \ PageOf(rows) : RowBefore(i, j)
           /\ ~ Cardinality(rows) > Limit => PageOf(rows) = rows
           /\ Cardinality(rows) > Limit =>
                 /\ LastOf(PageOf(rows)) \in PageOf(rows)
                 /\ \A j \in PageOf(rows) \ {LastOf(PageOf(rows))} :
                       RowBefore(j, LastOf(PageOf(rows)))
<1>. DEFINE rank(i) == Cardinality({k \in rows : RowBefore(k, i)})
            page == PageOf(rows)
<1>0. IsFiniteSet(rows) /\ Cardinality(rows) \in Nat
    BY RowOrder, FS_CardinalityType
<1>1. \A i \in rows : rank(i) \in Nat /\ rank(i) < Cardinality(rows)
  <2>. SUFFICES ASSUME NEW i \in rows PROVE rank(i) \in Nat /\ rank(i) < Cardinality(rows)
    OBVIOUS
  <2>1. PICK A \in SUBSET rows : A = {k \in rows : RowBefore(k, i)}
    OBVIOUS
  <2>2. i \notin A /\ IsFiniteSet(A)
    BY <2>1, <1>0, RowOrder, FS_Subset
  <2>3. Cardinality(A) \in Nat /\ Cardinality(A) <= Cardinality(rows)
        /\ Cardinality(A) # Cardinality(rows)
    BY <2>2, <1>0, FS_CardinalityType, FS_Subset
  <2>. QED BY <2>1, <2>3, <1>0
<1>2. \A i, j \in rows : RowBefore(i, j) => rank(i) < rank(j)
    BY RankGrows
<1>3. page = {i \in rows : rank(i) < Limit}
    BY DEF PageOf
<1>. HIDE DEF rank, page
<1>4. page \subseteq rows /\ (~ Cardinality(rows) > Limit => page = rows)
    BY <1>0, <1>1, <1>3, QueriesAssumption
<1>5. \A i \in page, j \in rows \ page : RowBefore(i, j)
  <2>. SUFFICES ASSUME NEW i \in page, NEW j \in rows \ page, ~ RowBefore(i, j) PROVE FALSE
    OBVIOUS
  <2>1. RowBefore(j, i)
    BY <1>4, RowOrder
  <2>2. rank(j) < rank(i) /\ rank(i) < Limit /\ rank(i) \in Nat /\ rank(j) \in Nat
    BY <1>1, <1>2, <1>3, <2>1
  <2>3. rank(j) < Limit
    BY <2>2, QueriesAssumption
  <2>. QED BY <2>3, <1>3
<1>6. ASSUME Cardinality(rows) > Limit
      PROVE  \E i \in page : \A j \in page \ {i} : RowBefore(j, i)
  <2>1. rows # {}
    BY <1>6, FS_EmptySet, QueriesAssumption
  <2>2. PICK i \in rows : \A j \in rows : rank(i) <= rank(j)
    <3>. DEFINE T == {rank(i) : i \in rows}
    <3>1. T \subseteq Nat /\ T # {}
      BY <2>1, <1>1
    <3>. HIDE DEF T
    <3>2. PICK m \in T : \A n \in T : m <= n
      BY <3>1, Least
    <3>. QED BY <3>2 DEF T
  <2>3. \A j \in rows : ~ RowBefore(j, i)
    BY <2>2, <1>1, <1>2
  <2>4. {k \in rows : RowBefore(k, i)} = {}
    BY <2>3
  <2>5. rank(i) = 0
    BY <2>4, FS_EmptySet DEF rank
  <2>6. i \in page
    BY <2>5, <1>3, QueriesAssumption
  <2>7. \A j \in page : Limit - rank(j) \in Nat
    BY <1>1, <1>3, <1>4, QueriesAssumption
  <2>9. PICK last \in page : \A j \in page : Limit - rank(last) <= Limit - rank(j)
    <3>. DEFINE T == {Limit - rank(j) : j \in page}
    <3>1. T \subseteq Nat /\ T # {}
      BY <2>6, <2>7
    <3>. HIDE DEF T
    <3>2. PICK m \in T : \A n \in T : m <= n
      BY <3>1, Least
    <3>. QED BY <3>2 DEF T
  <2>10. \A j \in page : rank(j) <= rank(last)
    BY <2>9, <1>1, <1>4, QueriesAssumption
  <2>11. \A j \in page : ~ RowBefore(last, j)
    BY <2>10, <1>1, <1>2, <1>4
  <2>. QED BY <2>11, <1>4, RowOrder
<1>7. Cardinality(rows) > Limit =>
        /\ LastOf(page) \in page
        /\ \A j \in page \ {LastOf(page)} : RowBefore(j, LastOf(page))
    BY <1>6 DEF LastOf
<1>. QED BY <1>4, <1>5, <1>7 DEF page

-----------------------------------------------------------------------------
(* What a row of a trace does: it ends the loop or adds an edge.            *)
LEMMA RowSteps ==
    ASSUME IndexInv, call \in Tracing, call.gen \in 1 .. committed,
           call.rows \subseteq DOMAIN store.rels, TraceRow
    PROVE  \E i \in call.rows :
              \/ call' = [call EXCEPT !.byRecords = TRUE, !.rows = {}]
              \/ \E e \in Edge, n \in Nat :
                    /\ call' = [Follow(e, n) EXCEPT !.rows = @ \ {i}]
                    /\ e.depth = call.at.depth + 1
                    /\ IF call.along = "out"
                       THEN /\ e.from = call.at.ref /\ e.to = n
                            /\ n = Target(store.rels[i], call.resolved)
                       ELSE /\ e.from = n /\ e.to = call.at.ref
                            /\ n = store.rels[i].from
<1>1. PICK i \in call.rows :
        LET r == store.rels[i]
            to == Target(r, call.resolved)
            edge(from, into) == [depth |-> call.at.depth + 1, from |-> from, to |-> into]
        IN  call' = IF Len(call.edges) >= MaxRecords
                    THEN [call EXCEPT !.byRecords = TRUE, !.rows = {}]
                    ELSE [IF call.along = "out" THEN Follow(edge(call.at.ref, to), to)
                          ELSE Follow(edge(r.from, call.at.ref), r.from)
                          EXCEPT !.rows = @ \ {i}]
    BY DEF TraceRow
<1>2. PICK r \in RelationRow : r = store.rels[i]
    BY RowTypes
<1>3. /\ r.from \in Nat /\ Target(r, call.resolved) \in Nat /\ call.at.ref \in Nat
      /\ call.at.depth + 1 \in Nat
    BY DEF RelationRow, Target, Tracing, Reference
<1>4. CASE Len(call.edges) >= MaxRecords
    BY <1>1, <1>4
<1>5. CASE ~ Len(call.edges) >= MaxRecords /\ call.along = "out"
  <2>1. PICK n \in Nat : n = Target(r, call.resolved)
    BY <1>3
  <2>2. PICK e \in Edge : e = [depth |-> call.at.depth + 1, from |-> call.at.ref, to |-> n]
    BY <1>3 DEF Edge
  <2>3. call' = [Follow(e, n) EXCEPT !.rows = @ \ {i}]
    BY <1>1, <1>2, <1>5, <2>1, <2>2
  <2>. QED BY <1>2, <1>5, <2>1, <2>2, <2>3
<1>6. CASE ~ Len(call.edges) >= MaxRecords /\ call.along # "out"
  <2>1. PICK n \in Nat : n = r.from
    BY <1>3
  <2>2. PICK e \in Edge : e = [depth |-> call.at.depth + 1, from |-> n, to |-> call.at.ref]
    BY <1>3 DEF Edge
  <2>3. call' = [Follow(e, n) EXCEPT !.rows = @ \ {i}]
    BY <1>1, <1>2, <1>6, <2>1, <2>2
  <2>. QED BY <1>2, <1>6, <2>1, <2>2, <2>3
<1>. QED BY <1>4, <1>5, <1>6

(* A traced row keeps the types.                                            *)
LEMMA FollowTypes ==
    ASSUME call \in Tracing, NEW e \in Edge, NEW n \in Nat
    PROVE  /\ Follow(e, n) \in Tracing
           /\ Follow(e, n).gen = call.gen /\ Follow(e, n).rows = call.rows
           /\ Follow(e, n).since = call.since
<1>1. [ref |-> n, depth |-> e.depth] \in Reference
    BY DEF Edge, Reference
<1>2. /\ Append(call.edges, e) \in Seq(Edge)
      /\ Append(call.queue, [ref |-> n, depth |-> e.depth]) \in Seq(Reference)
    BY <1>1 DEF Tracing
<1>. DEFINE deep == call.byDepth \/ (n \notin call.visited /\ e.depth >= call.deepest)
            seen == [call EXCEPT !.edges = Append(@, e), !.visited = @ \cup {n}, !.byDepth = deep]
<1>3. deep \in BOOLEAN
    OBVIOUS
<1>. HIDE DEF deep
<1>4. /\ seen \in Tracing /\ seen.gen = call.gen /\ seen.queue = call.queue /\ seen.rows = call.rows
      /\ seen.since = call.since
    BY <1>2, <1>3 DEF Tracing
<1>5. [seen EXCEPT !.queue = Append(call.queue, [ref |-> n, depth |-> e.depth])] \in Tracing
    BY <1>2, <1>4 DEF Tracing
<1>. QED BY <1>4, <1>5 DEF Follow, deep, Tracing

(* Which call is at which step.                                             *)
LEMMA StepOf ==
    ASSUME CallInv
    PROVE  /\ call.step = "find" => call \in Finding
           /\ call.step = "inspect" => call \in Inspecting
           /\ call.step = "symbols" => call \in Symbols
           /\ call.step = "outbound" => call \in Outbound
           /\ call.step = "inbound" => call \in Inbound
           /\ call.step = "trace" => call \in Tracing
           /\ call.step = "impact" => call \in Impacting
           /\ call.step = "source" => call \in Sourcing
           /\ call.step = "opened" => call \in Opened
           /\ call.step = "read" => call \in Reading
           /\ call.step \in {"find", "inspect", "symbols", "outbound", "inbound", "trace", "impact",
                             "source", "opened", "read"} => call.gen \in 1 .. committed
           /\ call.step \in {"idle", "find", "inspect", "symbols", "outbound", "inbound", "trace",
                             "impact", "source", "opened", "read", "done"}
           /\ call.step = "idle" <=> call = NoCall
<1>1. /\ \A c \in Finding : c.step = "find"
      /\ \A c \in Inspecting : c.step = "inspect"
      /\ \A c \in Symbols : c.step = "symbols"
      /\ \A c \in Outbound : c.step = "outbound"
      /\ \A c \in Inbound : c.step = "inbound"
      /\ \A c \in Tracing : c.step = "trace"
      /\ \A c \in Impacting : c.step = "impact"
      /\ \A c \in Sourcing : c.step = "source"
      /\ \A c \in Opened : c.step = "opened"
      /\ \A c \in Reading : c.step = "read"
    BY DEF Finding, Inspecting, Symbols, Outbound, Inbound, Tracing, Impacting, Sourcing, Opened, Reading
<1>2. NoCall.step = "idle"
    BY DEF NoCall
<1>. QED BY <1>1, <1>2 DEF CallInv, Working

(* A trace stays one.                                                       *)
LEMMA TraceTypes ==
    ASSUME IndexInv, CallInv, TraceVisit \/ TraceRows \/ TraceRow
    PROVE  /\ call \in Tracing /\ call' \in Tracing
           /\ call'.gen = call.gen /\ call'.since = call.since
           /\ call'.rows \subseteq DOMAIN store.rels
<1>1. /\ call \in Tracing /\ call.gen \in 1 .. committed
      /\ call.rows \subseteq DOMAIN store.rels
    BY StepOf DEF TraceVisit, TraceRows, TraceRow, CallInv
<1>2. CASE TraceVisit
  <2>1. Head(call.queue) \in Reference /\ Tail(call.queue) \in Seq(Reference)
    BY <1>1, <1>2 DEF TraceVisit, Tracing
  <2>2. CASE call' = [call EXCEPT !.queue = Tail(call.queue)]
    BY <1>1, <2>1, <2>2 DEF Tracing
  <2>3. CASE call' = [call EXCEPT !.byRecords = TRUE, !.queue = <<>>]
    BY <1>1, <2>3, <<>> \in Seq(Reference) DEF Tracing
  <2>4. CASE call' = [call EXCEPT !.at = Head(call.queue), !.queue = Tail(call.queue),
                                  !.todo = call.way]
    BY <1>1, <2>1, <2>4 DEF Tracing
  <2>. QED BY <1>2, <2>2, <2>3, <2>4 DEF TraceVisit
<1>3. CASE TraceRows
  <2>1. PICK way \in {"out", "in"}, rows \in SUBSET Nat, stable \in BOOLEAN :
           /\ call' = [call EXCEPT !.todo = call.todo \ {way}, !.along = way, !.stable = stable,
                                   !.rows = rows]
           /\ rows \subseteq DOMAIN store.rels
    <3>1. /\ OutRows(call.gen, call.at.ref, call.resolved) \in SUBSET Nat
          /\ InRows(call.gen, call.at.ref, call.resolved) \in SUBSET Nat
          /\ OutRows(call.gen, call.at.ref, call.resolved) \subseteq DOMAIN store.rels
          /\ InRows(call.gen, call.at.ref, call.resolved) \subseteq DOMAIN store.rels
      BY <1>1, RowTypes DEF OutRows, InRows
    <3>2. (call.stable /\ current = call.gen) \in BOOLEAN
      OBVIOUS
    <3>. QED BY <1>3, <3>1, <3>2 DEF TraceRows
  <2>2. call.todo \ {way} \in SUBSET {"out", "in"}
    BY <1>1 DEF Tracing
  <2>. QED BY <1>1, <2>1, <2>2 DEF Tracing
<1>4. CASE TraceRow
  <2>1. PICK i \in call.rows :
           \/ call' = [call EXCEPT !.byRecords = TRUE, !.rows = {}]
           \/ \E e \in Edge, n \in Nat : call' = [Follow(e, n) EXCEPT !.rows = @ \ {i}]
    BY <1>1, <1>4, RowSteps
  <2>2. CASE call' = [call EXCEPT !.byRecords = TRUE, !.rows = {}]
    BY <1>1, <2>2 DEF Tracing
  <2>3. ASSUME NEW e \in Edge, NEW n \in Nat, call' = [Follow(e, n) EXCEPT !.rows = @ \ {i}]
        PROVE  /\ call' \in Tracing /\ call'.gen = call.gen /\ call'.since = call.since
               /\ call'.rows \subseteq DOMAIN store.rels
    <3>1. PICK c \in Tracing : /\ c = Follow(e, n) /\ c.gen = call.gen
                              /\ c.rows = call.rows /\ c.since = call.since
      BY <1>1, FollowTypes
    <3>2. call' = [c EXCEPT !.rows = c.rows \ {i}]
      BY <2>3, <3>1
    <3>3. c.rows \ {i} \in SUBSET Nat
      BY DEF Tracing
    <3>. QED BY <1>1, <3>1, <3>2, <3>3 DEF Tracing
  <2>. QED BY <1>1, <2>1, <2>2, <2>3
<1>. QED BY <1>2, <1>3, <1>4

(* What following cursors has collected.                                    *)
LEMMA WalkTypes ==
    ASSUME IndexInv, CallInv, BeginFind \/ FindRows
    PROVE  walk' \in Walking
<1>. USE QueriesAssumption
<1>1. CASE BeginFind
  <2>1. PICK query \in Names, pages \in Seq(SUBSET Nat), there \in SUBSET Nat :
           walk' = [cursor |-> NoCursor, gen |-> current, query |-> query, state |-> "walking",
                    pages |-> pages, there |-> there]
    <3>1. /\ walk.pages \in Seq(SUBSET Nat) /\ <<>> \in Seq(SUBSET Nat) /\ walk.there \in SUBSET Nat
      BY DEF CallInv, Walking
    <3>2. \A query : Matches(current, query, 0) \in SUBSET Nat
      BY RowTypes DEF Matches
    <3>. QED BY <1>1, <3>1, <3>2 DEF BeginFind
  <2>. QED BY <2>1 DEF Walking, NoCursor, Cursor, IndexInv
<1>2. CASE FindRows
  <2>1. call \in Finding /\ call.gen \in 1 .. committed
    BY <1>2, StepOf DEF FindRows
  <2>2. PICK rows \in SUBSET DOMAIN store.symbols :
           rows = Matches(call.gen, call.query, call.after)
    BY DEF Matches
  <2>3. PICK page \in SUBSET Nat : page = PageOf(rows) /\ page \subseteq rows
    BY <2>1, RowTypes, PageIsFirst
  <2>4. PICK cursor \in Cursor, state \in {"walking", "ended"} :
           walk' = [walk EXCEPT !.pages = Append(walk.pages, page), !.state = state, !.cursor = cursor]
    <3>1. CASE Cardinality(rows) > Limit
      <4>1. LastOf(page) \in rows
        BY <2>1, <2>2, <2>3, <3>1, PageIsFirst
      <4>2. store.symbols[LastOf(page)].path \in Nat
        BY <4>1, <2>1, RowTypes, QueryStoreAssumption DEF SymbolRow
      <4>3. [gen |-> call.gen, query |-> call.query,
             after |-> store.symbols[LastOf(page)].path] \in Cursor
        BY <4>2, <2>1 DEF Finding, Cursor
      <4>. QED BY <1>2, <2>2, <2>3, <3>1, <4>3 DEF FindRows
    <3>2. CASE ~ Cardinality(rows) > Limit
      <4>1. NoCursor \in Cursor
        BY DEF NoCursor, Cursor
      <4>. QED BY <1>2, <2>2, <2>3, <3>2, <4>1 DEF FindRows
    <3>. QED BY <3>1, <3>2
  <2>5. Append(walk.pages, page) \in Seq(SUBSET Nat)
    BY DEF CallInv, Walking
  <2>. QED BY <2>4, <2>5 DEF CallInv, Walking
<1>. QED BY <1>1, <1>2

(* Every step of a call ends in a call of the next step.                    *)
LEMMA CallMoves ==
    ASSUME IndexInv, CallInv, [QueriesNext]_queriesVars
    PROVE  CallInv'
<1>. USE QueryStoreAssumption, QueriesAssumption
<1>0. /\ IndexInv' /\ store' = store /\ committed \in Nat /\ committed' \in Nat
      /\ committed <= committed' /\ 1 .. committed \subseteq 1 .. committed'
      /\ current \in Nat /\ (current # 0 => current \in 1 .. committed)
  <2>1. IndexInv' /\ store' = store /\ committed \in Nat /\ committed' \in {committed, committed + 1}
    BY WorldMoves
  <2>2. current \in 0 .. committed
    BY DEF IndexInv
  <2>. QED BY <2>1, <2>2
<1>w. walk' \in Walking
  <2>1. CASE walk' = walk
    BY <2>1 DEF CallInv
  <2>. QED BY <2>1, WalkTypes DEF QueriesNext, Querying, queriesVars, queryVars, BeginInspect,
        InspectFile, InspectSymbols, InspectOutbound, InspectInbound, BeginTrace, TraceVisit, TraceRows, TraceRow, TraceEnd, BeginImpact,
        ImpactDependents, ImpactFrontier, ImpactEnd, BeginSource, SourceOpen, SourceRead,
        SourceCheck, EndCall
<1>. DEFINE
        Fine(c) ==
            /\ c = NoCall \/ (c \in Working /\ c.gen \in 1 .. committed') \/ c.step = "done"
            /\ c.step \in {"inspect", "symbols", "outbound", "inbound", "trace"} => c.since <= committed'
            /\ c.step = "trace" => c.rows \subseteq DOMAIN store.rels
<1>f. SUFFICES Fine(call')
    BY <1>0, <1>w DEF CallInv
<1>s. /\ \A c \in Finding \cup Impacting \cup Sourcing \cup Opened \cup Reading :
            c.step \notin {"inspect", "symbols", "outbound", "inbound", "trace"}
      /\ \A c \in Inspecting \cup Symbols \cup Outbound \cup Inbound : c.step # "trace"
      /\ NoCall.step = "idle"
    BY DEF Finding, Inspecting, Symbols, Outbound, Inbound, Impacting, Sourcing, Opened, Reading, NoCall
<1>1. CASE UNCHANGED call
  <2>1. CASE call = NoCall \/ call.step = "done"
    BY <1>1, <1>s, <2>1
  <2>2. CASE call \in Working /\ call.gen \in 1 .. committed
    <3>1. CASE call.step \in {"inspect", "symbols", "outbound", "inbound", "trace"}
      <4>1. call.since \in Nat /\ call.since <= committed
        BY <1>s, <2>2, <3>1 DEF CallInv, Working, Inspecting, Symbols, Outbound, Inbound, Tracing
      <4>. QED BY <1>0, <1>1, <2>2, <4>1 DEF CallInv
    <3>2. CASE call.step \notin {"inspect", "symbols", "outbound", "inbound", "trace"}
      BY <1>0, <1>1, <2>2, <3>2
    <3>. QED BY <3>1, <3>2
  <2>. QED BY <2>1, <2>2 DEF CallInv
<1>2. CASE BeginFind
  <2>1. call' \in Finding /\ call'.gen = current /\ current # 0
    <3>1. PICK query \in Names, after \in Nat :
            call' = [step |-> "find", gen |-> current, query |-> query, after |-> after]
      <4>1. walk.cursor.after \in Nat /\ NoCursor.after = 0
        BY DEF CallInv, Walking, Cursor, NoCursor
      <4>2. PICK query \in Names, cursor \in {NoCursor, walk.cursor} :
              call' = [step |-> "find", gen |-> current, query |-> query,
                       after |-> IF ValidFor(cursor, current, query) THEN cursor.after ELSE 0]
        BY <1>2 DEF BeginFind
      <4>3. PICK after \in Nat :
              after = IF ValidFor(cursor, current, query) THEN cursor.after ELSE 0
        BY <4>1
      <4>. QED BY <4>2, <4>3
    <3>. QED BY <1>2, <3>1, <1>0 DEF Finding, BeginFind
  <2>. QED BY <2>1, <1>0, <1>s DEF Working
<1>3. CASE BeginInspect
  <2>1. call' \in Inspecting /\ call'.gen = current /\ current # 0 /\ call'.since = committed
    BY <1>3, <1>0 DEF BeginInspect, Inspecting
  <2>. QED BY <2>1, <1>0, <1>s DEF Working
<1>4. CASE BeginTrace
  <2>1. PICK p \in Nat, deepest \in Depths, way \in SUBSET {"out", "in"}, resolved \in BOOLEAN :
           call' = [step |-> "trace", gen |-> current, since |-> committed,
                    deepest |-> deepest, way |-> way, resolved |-> resolved,
                    queue |-> <<[ref |-> p, depth |-> 0]>>, visited |-> {p}, edges |-> <<>>,
                    at |-> [ref |-> p, depth |-> 0], todo |-> {}, along |-> "out", rows |-> {},
                    byDepth |-> FALSE, byRecords |-> FALSE, stable |-> TRUE]
    <3>1. \A way \in {{"out"}, {"in"}, {"out", "in"}} : way \in SUBSET {"out", "in"}
      OBVIOUS
    <3>2. Seeds \subseteq Nat
      <4>1. \A i \in DOMAIN store.rels : store.rels[i].key \in Nat
        BY RowTypes DEF RelationRow
      <4>2. Path \subseteq Nat
        OBVIOUS
      <4>. QED BY ONLY <4>1, <4>2 DEF Seeds
    <3>. QED BY <1>4, <3>1, <3>2 DEF BeginTrace
  <2>2. [ref |-> p, depth |-> 0] \in Reference /\ {p} \in SUBSET Nat /\ deepest \in Nat
    BY DEF Reference
  <2>3. <<[ref |-> p, depth |-> 0]>> \in Seq(Reference) /\ <<>> \in Seq(Edge)
    BY <2>2
  <2>4. call' \in Tracing /\ call'.gen = current /\ call'.rows = {} /\ call'.since = committed
    BY <2>1, <2>2, <2>3, <1>0 DEF Tracing
  <2>. QED BY <2>4, <1>0, <1>4 DEF Working, BeginTrace
<1>5. CASE BeginImpact
  <2>1. call' \in Impacting /\ call'.gen = current /\ current # 0
    BY <1>5, <1>0 DEF BeginImpact, Impacting
  <2>. QED BY <2>1, <1>0, <1>s DEF Working
<1>6. CASE BeginSource
  <2>1. call' \in Sourcing /\ call'.gen = current /\ current # 0
    BY <1>6, <1>0 DEF BeginSource, Sourcing
  <2>. QED BY <2>1, <1>0, <1>s DEF Working
<1>7. ASSUME NEW answer, call' = [step |-> "done", answer |-> answer] PROVE Fine(call')
    BY <1>7
<1>8. CASE FindRows \/ InspectInbound \/ TraceEnd \/ ImpactEnd
    BY <1>8, <1>7 DEF FindRows, InspectInbound, TraceEnd, ImpactEnd, Finish
<1>9. CASE SourceCheck
    BY <1>9, <1>7 DEF SourceCheck, SourceFails, Finish
<1>10. CASE EndCall
    BY <1>10, <1>s DEF EndCall
<1>11. CASE TraceVisit \/ TraceRows \/ TraceRow
  <2>1. call.step = "trace" /\ call \in Working /\ call.gen \in 1 .. committed /\ call.since <= committed
    BY <1>11, StepOf DEF TraceVisit, TraceRows, TraceRow, CallInv, Working
  <2>2. call' \in Tracing /\ call'.gen = call.gen /\ call'.since = call.since
        /\ call'.rows \subseteq DOMAIN store.rels
    BY <1>11, TraceTypes
  <2>3. call'.since \in Nat /\ call'.since <= committed'
    BY <1>0, <2>1, <2>2 DEF Tracing
  <2>. QED BY <1>0, <2>1, <2>2, <2>3 DEF Working
<1>12. CASE InspectFile \/ InspectSymbols \/ InspectOutbound
  <2>1. call \in Inspecting \cup Symbols \cup Outbound /\ call.gen \in 1 .. committed
        /\ call.since <= committed
    BY <1>12, StepOf DEF InspectFile, InspectSymbols, InspectOutbound, CallInv
  <2>2. call.gen \in Nat /\ call.since \in Nat /\ call.path \in Path
    BY <2>1 DEF Inspecting, Symbols, Outbound
  <2>3. ASSUME call' \in Symbols \cup Outbound \cup Inbound, call'.gen = call.gen, call'.since = call.since
        PROVE  Fine(call')
    BY <2>1, <2>2, <2>3, <1>0, <1>s DEF Working
  <2>4. CASE InspectFile
    <3>1. store.files[call.gen][call.path] \in Content \cup {NoFile}
      BY <2>1, <2>2, RowTypes
    <3>2. CASE call' = [step |-> "symbols", gen |-> call.gen, path |-> call.path, since |-> call.since,
                        text |-> store.files[call.gen][call.path]]
      <4>1. call' \in Symbols /\ call'.gen = call.gen /\ call'.since = call.since
        BY <2>2, <3>1, <3>2 DEF Symbols
      <4>. QED BY <4>1, <2>3
    <3>. QED BY <2>4, <3>2, <1>7 DEF InspectFile, Finish
  <2>5. CASE InspectSymbols
    <3>1. call \in Symbols
      BY <2>5, StepOf DEF InspectSymbols
    <3>2. HeldBy(call.path, call.text) \in SUBSET Nat
      BY RowTypes DEF HeldBy, SymbolsOf
    <3>3. call' \in Outbound /\ call'.gen = call.gen /\ call'.since = call.since
      BY <2>2, <2>5, <3>1, <3>2 DEF InspectSymbols, Symbols, Outbound
    <3>. QED BY <3>3, <2>3
  <2>6. CASE InspectOutbound
    <3>1. call \in Outbound
      BY <2>6, StepOf DEF InspectOutbound
    <3>2. {i \in OutboundOf(call.path, call.text) : Stored(store.rels[i])} \in SUBSET Nat
      BY RowTypes DEF OutboundOf
    <3>3. call' \in Inbound /\ call'.gen = call.gen /\ call'.since = call.since
      BY <2>2, <2>6, <3>1, <3>2 DEF InspectOutbound, Outbound, Inbound
    <3>. QED BY <3>3, <2>3
  <2>. QED BY <1>12, <2>4, <2>5, <2>6
<1>13. CASE ImpactDependents \/ ImpactFrontier
  <2>1. call \in Impacting /\ call.gen \in 1 .. committed
    BY <1>13, StepOf DEF ImpactDependents, ImpactFrontier
  <2>2. \A r \in ToSet(store.rels) : r.path \in Nat /\ r.from \in Nat
    BY RowTypes DEF RelationRow
  <2>3. call' \in Impacting /\ call'.gen = call.gen
    <3>1. CASE ImpactDependents
      <4>. PICK rows \in SUBSET ToSet(store.rels) :
              rows = {e \in ToSet(store.rels) :
                         /\ e.target \in {"path", "external"} /\ e.to = Min(call.left)
                         /\ Current(call.gen, e)}
        OBVIOUS
      <4>2. {r.path : r \in rows} \subseteq Nat
        BY <2>2
      <4>0. PICK d \in SUBSET Nat : d = {r.path : r \in rows}
        BY <4>2
      <4>1. call' = [call EXCEPT !.half = TRUE, !.dependents = @ \cup d]
        BY <3>1, <4>0 DEF ImpactDependents
      <4>. QED BY <2>1, <4>1 DEF Impacting
    <3>2. CASE ImpactFrontier
      <4>. PICK rows \in SUBSET ToSet(store.rels) :
              rows = {e \in ToSet(store.rels) :
                         Judged(call.gen, e) /\ e.from \in Path /\ e.to = Min(call.left)}
        OBVIOUS
      <4>2. /\ {r.from : r \in {e \in rows : call.gen \in e.resolvedIn}} \subseteq Nat
            /\ {r.from : r \in {e \in rows : call.gen \notin e.resolvedIn}} \subseteq Nat
        BY <2>2
      <4>0. PICK v \in SUBSET Nat, u \in SUBSET Nat, m \in {Min(call.left)} :
               /\ v = {r.from : r \in {e \in rows : call.gen \in e.resolvedIn}}
               /\ u = {r.from : r \in {e \in rows : call.gen \notin e.resolvedIn}}
        BY <4>2
      <4>1. call' = [call EXCEPT !.half = FALSE, !.left = @ \ {m}, !.verified = @ \cup v,
                                 !.uncertain = @ \cup u]
        BY <3>2, <4>0 DEF ImpactFrontier
      <4>. QED BY <2>1, <4>1 DEF Impacting
    <3>. QED BY <1>13, <3>1, <3>2
  <2>. QED BY <2>1, <2>3, <1>0, <1>s DEF Working
<1>14. CASE SourceOpen
  <2>1. call \in Sourcing /\ call.gen \in 1 .. committed
    BY <1>14, StepOf DEF SourceOpen
  <2>2. call.gen \in Nat /\ store.files[call.gen][call.path] \in Content \cup {NoFile}
    BY <2>1, RowTypes DEF Sourcing
  <2>4. disk[call.path] \in File
    BY <2>1 DEF Sourcing, IndexInv
  <2>3. CASE call' = [step |-> "opened", gen |-> call.gen, path |-> call.path,
                      indexed |-> store.files[call.gen][call.path], file |-> disk[call.path]]
    <3>1. call' \in Opened /\ call'.gen = call.gen
      BY <2>1, <2>2, <2>3, <2>4 DEF Sourcing, Opened
    <3>. QED BY <2>1, <3>1, <1>0, <1>s DEF Working
  <2>. QED BY <2>3, <1>14, <1>7 DEF SourceOpen, SourceFails, Finish
<1>15. CASE SourceRead
  <2>1. call \in Opened /\ call.gen \in 1 .. committed
    BY <1>15, StepOf DEF SourceRead
  <2>2. OpenFile \in File
    BY <2>1 DEF OpenFile, Opened, IndexInv
  <2>3. PICK bytes \in Content \cup {NoFile} :
           call' = [step |-> "read", gen |-> call.gen, path |-> call.path, indexed |-> call.indexed,
                    file |-> call.file, bytes |-> bytes]
    BY <1>15, <2>2 DEF SourceRead, File
  <2>4. call' \in Reading /\ call'.gen = call.gen
    BY <2>1, <2>3 DEF Opened, Reading
  <2>. QED BY <2>1, <2>4, <1>0, <1>s DEF Working
<1>. QED BY <1>1, <1>2, <1>3, <1>4, <1>5, <1>6, <1>8, <1>9, <1>10, <1>11, <1>12, <1>13, <1>14, <1>15
         DEF QueriesNext, Querying, queriesVars, queryVars

-----------------------------------------------------------------------------
(* Packets.                                                                 *)
ExcerptRow ==
    [path : Path, status : {"read_failed", "hash_mismatch", "verified"}, text : Content \cup {NoFile}]

(* What the packet calls verified was in the file, and so was the indexed   *)
(* text.                                                                    *)
Backed(excerpts, gen) ==
    /\ excerpts \in Seq(ExcerptRow)
    /\ \A i \in DOMAIN excerpts : excerpts[i].status = "verified" =>
           {excerpts[i].text, store.files[gen][excerpts[i].path]} \subseteq held[excerpts[i].path]

(* One client works at a time; a packet whose candidate is being read has   *)
(* its file, and past the first read the file held what was indexed.        *)
PacketInv ==
    /\ packet = NoPacket \/ call = NoCall
    /\ \/ packet = NoPacket
       \/ /\ packet.step \in {"symbols", "scan", "expand", "select", "hash", "text", "built"}
          /\ packet.gen \in 1 .. committed
    /\ packet.step \in {"symbols", "scan"} =>
         DOMAIN packet = {"step", "gen", "request", "stable", "scored"}
    /\ packet.step = "expand" =>
         DOMAIN packet = {"step", "gen", "request", "stable", "scored", "todo", "seen"}
    /\ packet.step \in {"select", "hash", "text"} =>
         /\ DOMAIN packet = {"step", "gen", "request", "stable", "scored", "ranking", "left",
                             "selected", "unselected", "used", "excerpts"}
         /\ Backed(packet.excerpts, packet.gen)
    /\ packet.step \in {"hash", "text"} => Head(packet.left)[1] \in Path
    /\ packet.step = "text" =>
         store.files[packet.gen][Head(packet.left)[1]] \in held[Head(packet.left)[1]]
    /\ packet.step = "built" => Backed(packet.excerpts, packet.gen)

(* What a file held stays what it held.                                     *)
LEMMA BackedStays ==
    ASSUME NEW excerpts, NEW gen, Backed(excerpts, gen), store' = store,
           held \in [Path -> SUBSET (Content \cup {NoFile})], \A p \in Path : held[p] \subseteq held'[p]
    PROVE  Backed(excerpts, gen)'
<1>1. \A i \in DOMAIN excerpts : excerpts[i] \in ExcerptRow
    BY DEF Backed
<1>. QED BY <1>1 DEF Backed, ExcerptRow

(* One more excerpt.                                                        *)
LEMMA BackedGrows ==
    ASSUME NEW excerpts, NEW gen, Backed(excerpts, gen), NEW row \in ExcerptRow,
           row.status = "verified" => {row.text, store.files[gen][row.path]} \subseteq held[row.path]
    PROVE  Backed(excerpts \o <<row>>, gen)
<1>1. excerpts \in Seq(ExcerptRow) /\ <<row>> \in Seq(ExcerptRow)
    BY DEF Backed
<1>2. excerpts \o <<row>> \in Seq(ExcerptRow)
    BY <1>1
<1>3. \A i \in DOMAIN (excerpts \o <<row>>) :
         \/ i \in DOMAIN excerpts /\ (excerpts \o <<row>>)[i] = excerpts[i]
         \/ (excerpts \o <<row>>)[i] = row
    BY <1>1
<1>. QED BY <1>2, <1>3 DEF Backed

(* The steps of a packet keep that.                                         *)
LEMMA PacketMoves ==
    ASSUME IndexInv, CallInv, PacketInv, [QueriesNext]_queriesVars
    PROVE  PacketInv'
<1>. USE DEF NoPacket, NoCall
<1>0. /\ IndexInv' /\ store' = store /\ current \in Nat /\ (current # 0 => current \in 1 .. committed)
      /\ 1 .. committed \subseteq 1 .. committed'
  <2>1. IndexInv' /\ store' = store /\ committed \in Nat /\ committed' \in {committed, committed + 1}
    BY WorldMoves
  <2>2. current \in 0 .. committed
    BY DEF IndexInv
  <2>. QED BY <2>1, <2>2
<1>1. ASSUME packet' = packet, \A p \in Path : held[p] \subseteq held'[p],
             packet = NoPacket \/ call' = NoCall
      PROVE  PacketInv'
  <2>. PICK e, g : e = packet.excerpts /\ g = packet.gen
    OBVIOUS
  <2>1. packet'.excerpts = e /\ packet'.gen = g
    BY <1>1
  <2>2. Backed(e, g) => Backed(e, g)'
    BY <1>0, <1>1, BackedStays DEF IndexInv
  <2>3. Backed(packet.excerpts, packet.gen) => Backed(packet.excerpts, packet.gen)'
    BY <2>1, <2>2
  <2>. QED BY <1>0, <1>1, <2>3 DEF PacketInv
<1>2. ASSUME packet' = NoPacket PROVE PacketInv'
    BY <1>2 DEF PacketInv
<1>3. CASE (CommitFacts \/ ActivateNext \/ EditTree) /\ UNCHANGED <<queryVars, packet>>
  <2>1. \A p \in Path : held[p] \subseteq held'[p]
    BY <1>3 DEF CommitFacts, ActivateNext, EditTree, IndexInv
  <2>. QED BY <1>1, <1>3, <2>1 DEF PacketInv, queryVars
<1>4. CASE packet = NoPacket /\ Querying /\ UNCHANGED packet
    BY <1>2, <1>4
<1>5. CASE UNCHANGED queriesVars
  <2>1. \A p \in Path : held[p] \subseteq held'[p]
    BY <1>5 DEF queriesVars, worldVars
  <2>. QED BY <1>1, <1>5, <2>1 DEF PacketInv, queriesVars, queryVars
<1>6. CASE call = NoCall /\ Brokering /\ UNCHANGED queryVars
  <2>0. call' = NoCall
    BY <1>6 DEF queryVars
  <2>1. CASE BeginPacket
    BY <1>0, <2>0, <2>1 DEF BeginPacket, PacketInv
  <2>2. CASE PacketReturned
    BY <1>2, <2>2 DEF PacketReturned
  <2>. SUFFICES ASSUME UNCHANGED worldVars PROVE PacketInv'
    BY <2>1, <2>2, <1>6 DEF Brokering, PacketSymbols, PacketScan, PacketExpand, PacketRank, PacketNext,
        PacketHash, PacketText, PacketEnd
  <2>. /\ store' = store /\ held' = held /\ current' = current /\ disk' = disk
       /\ committed' = committed
    BY DEF worldVars, catalogueVars
  <2>3. CASE PacketSymbols
    <3>1. PICK scored : packet' = [packet EXCEPT !.step = "scan", !.stable = Stays, !.scored = scored]
      BY <2>3 DEF PacketSymbols
    <3>. QED BY <1>0, <2>0, <2>3, <3>1 DEF PacketSymbols, PacketInv
  <2>4. CASE PacketScan
    BY <1>0, <2>0, <2>4 DEF PacketScan, PacketInv
  <2>5. CASE PacketExpand
    <3>1. PICK seed, seen, scored :
            packet' = [packet EXCEPT !.seen = seen, !.scored = scored, !.todo = @ \ {seed},
                                     !.stable = Stays]
      BY <2>5 DEF PacketExpand
    <3>. QED BY <1>0, <2>0, <2>5, <3>1 DEF PacketExpand, PacketInv
  <2>6. CASE PacketRank
    <3>1. PICK g : g = packet.gen /\ packet'.gen = g /\ packet'.excerpts = <<>>
      BY <2>6 DEF PacketRank
    <3>2. Backed(<<>>, g)'
      BY DEF Backed
    <3>3. Backed(packet.excerpts, packet.gen)'
      BY <3>1, <3>2
    <3>. QED BY <1>0, <2>0, <2>6, <3>3 DEF PacketRank, PacketInv
  <2>7. ASSUME packet.step \in {"select", "hash", "text"}, packet'.step = "select",
               packet'.gen = packet.gen, DOMAIN packet' = DOMAIN packet,
               \/ packet'.excerpts = packet.excerpts
               \/ \E row \in ExcerptRow :
                     /\ packet'.excerpts = packet.excerpts \o <<row>>
                     /\ row.status = "verified" =>
                          {row.text, store.files[packet.gen][row.path]} \subseteq held[row.path]
        PROVE  PacketInv'
    <3>1. Backed(packet.excerpts, packet.gen) /\ packet.gen \in 1 .. committed
      BY <2>7 DEF PacketInv
    <3>2. PICK e, g : e = packet'.excerpts /\ g = packet.gen
      OBVIOUS
    <3>3. Backed(e, g)
      <4>1. CASE packet'.excerpts = packet.excerpts
        BY <4>1, <3>1, <3>2
      <4>2. ASSUME NEW row \in ExcerptRow, packet'.excerpts = packet.excerpts \o <<row>>,
                   row.status = "verified" =>
                       {row.text, store.files[packet.gen][row.path]} \subseteq held[row.path]
            PROVE  Backed(e, g)
        <5>1. Backed(packet.excerpts \o <<row>>, packet.gen)
          BY <4>2, <3>1, BackedGrows
        <5>. QED BY <5>1, <4>2, <3>2
      <4>. QED BY <2>7, <4>1, <4>2
    <3>4. Backed(e, g)'
      BY <3>3 DEF Backed
    <3>5. Backed(packet.excerpts, packet.gen)'
      BY <2>7, <3>2, <3>4
    <3>. QED BY <1>0, <2>0, <2>7, <3>1, <3>5 DEF PacketInv
  <2>8. CASE PacketEnd
    <3>1. PICK e, g : e = packet.excerpts /\ g = packet.gen
      OBVIOUS
    <3>2. Backed(e, g)'
      BY <2>8, <3>1 DEF PacketEnd, PacketInv, Backed
    <3>3. packet'.excerpts = e /\ packet'.gen = g /\ packet'.step = "built"
      BY <2>8, <3>1 DEF PacketEnd
    <3>4. Backed(packet.excerpts, packet.gen)'
      BY <3>2, <3>3
    <3>. QED BY <1>0, <2>0, <2>8, <3>1, <3>3, <3>4 DEF PacketEnd, PacketInv
  <2>9. CASE PacketHash
    <3>1. PICK p \in Path : p = Head(packet.left)[1]
      BY <2>9 DEF PacketHash, PacketInv
    <3>2. CASE disk[p].text # NoFile /\ HashMatches(p)
      <4>1. packet' = [packet EXCEPT !.step = "text"]
        BY <2>9, <3>1, <3>2 DEF PacketHash
      <4>2. store.files[packet.gen][p] \in held[p]
        BY <3>2 DEF HashMatches, IndexInv
      <4>3. PICK e, g : e = packet.excerpts /\ g = packet.gen /\ Backed(e, g)
        BY <2>9 DEF PacketHash, PacketInv
      <4>4. Backed(e, g)'
        BY <4>3 DEF Backed
      <4>5. /\ packet'.excerpts = e /\ packet'.gen = g /\ packet'.left = packet.left
            /\ packet'.step = "text" /\ DOMAIN packet' = DOMAIN packet
        BY <4>1, <4>3, <2>9 DEF PacketHash, PacketInv
      <4>6. Backed(packet.excerpts, packet.gen)'
        BY <4>4, <4>5
      <4>. QED BY <1>0, <2>0, <2>9, <3>1, <4>2, <4>3, <4>5, <4>6 DEF PacketHash, PacketInv
    <3>3. CASE disk[p].text = NoFile \/ ~ HashMatches(p)
      <4>1. PICK row \in ExcerptRow :
               packet' = Take(packet, <<row>>) /\ row.status # "verified"
        <5>1. /\ [path |-> p, status |-> "read_failed", text |-> NoFile] \in ExcerptRow
              /\ [path |-> p, status |-> "hash_mismatch", text |-> NoFile] \in ExcerptRow
          BY DEF ExcerptRow
        <5>. QED BY <2>9, <3>1, <3>3, <5>1 DEF PacketHash, Excerpt
      <4>. QED BY <2>7, <2>9, <4>1 DEF Take, PacketHash, PacketInv
    <3>. QED BY <3>2, <3>3
  <2>10. CASE PacketText
    <3>1. PICK p \in Path : p = Head(packet.left)[1]
      BY <2>10 DEF PacketText, PacketInv
    <3>2. PICK text \in Content \cup {NoFile} : text = disk[p].text
      BY DEF IndexInv, File
    <3>3. CASE text = NoFile
      <4>1. PICK row \in ExcerptRow :
               packet' = Take(packet, <<row>>) /\ row.status # "verified"
        <5>1. [path |-> p, status |-> "read_failed", text |-> NoFile] \in ExcerptRow
          BY DEF ExcerptRow
        <5>. QED BY <2>10, <3>1, <3>2, <3>3, <5>1 DEF PacketText, Excerpt
      <4>. QED BY <2>7, <2>10, <4>1 DEF Take, PacketText, PacketInv
    <3>4. CASE text # NoFile /\ OverBudget(4 * text)
      <4>1. packet' = Omit(packet)
        BY <2>10, <3>1, <3>2, <3>4 DEF PacketText
      <4>. QED BY <2>7, <2>10, <4>1 DEF Omit, PacketText, PacketInv
    <3>5. CASE text # NoFile /\ ~ OverBudget(4 * text)
      <4>1. PICK row \in ExcerptRow : row = [path |-> p, status |-> "verified", text |-> text]
        BY DEF ExcerptRow
      <4>2. packet' = [Take(packet, <<row>>) EXCEPT !.used = @ + 4 * text]
        BY <2>10, <3>1, <3>2, <3>5, <4>1 DEF PacketText, Excerpt
      <4>3. {row.text, store.files[packet.gen][row.path]} \subseteq held[row.path]
        BY <2>10, <3>1, <3>2, <4>1 DEF PacketText, PacketInv, IndexInv
      <4>. QED BY <2>7, <2>10, <4>2, <4>3 DEF Take, PacketText, PacketInv
    <3>. QED BY <3>3, <3>4, <3>5
  <2>11. CASE PacketNext
    <3>0. /\ packet.step = "select"
          /\ DOMAIN packet = {"step", "gen", "request", "stable", "scored", "ranking", "left",
                              "selected", "unselected", "used", "excerpts"}
          /\ Backed(packet.excerpts, packet.gen)
      BY <2>11 DEF PacketNext, PacketInv
    <3>1. packet.excerpts \o <<>> = packet.excerpts
      BY <3>0 DEF Backed
    <3>2. \/ packet' = Omit(packet)
          \/ packet' = Take(packet, <<>>)
          \/ packet' = [Take(packet, <<>>) EXCEPT !.stable = Stays]
          \/ /\ packet' = [[packet EXCEPT !.step = "hash"] EXCEPT !.stable = Stays]
             /\ Head(packet.left)[1] \in CurrentPaths(packet.gen)
      BY <2>11 DEF PacketNext
    <3>3. CASE packet' = Omit(packet)
      BY <2>7, <3>0, <3>3 DEF Omit
    <3>4. CASE packet' = Take(packet, <<>>)
      BY <2>7, <3>0, <3>1, <3>4 DEF Take
    <3>5. CASE packet' = [Take(packet, <<>>) EXCEPT !.stable = Stays]
      BY <2>7, <3>0, <3>1, <3>5 DEF Take
    <3>6. CASE /\ packet' = [[packet EXCEPT !.step = "hash"] EXCEPT !.stable = Stays]
               /\ Head(packet.left)[1] \in CurrentPaths(packet.gen)
      <4>1. Head(packet.left)[1] \in Path
        BY <3>6 DEF CurrentPaths
      <4>3. PICK e, g : e = packet.excerpts /\ g = packet.gen /\ Backed(e, g)
        BY <3>0
      <4>4. Backed(e, g)'
        BY <4>3 DEF Backed
      <4>5. /\ packet'.excerpts = e /\ packet'.gen = g /\ packet'.left = packet.left
            /\ packet'.step = "hash" /\ DOMAIN packet' = DOMAIN packet
        BY <3>6, <4>3, <3>0
      <4>6. Backed(packet.excerpts, packet.gen)'
        BY <4>4, <4>5
      <4>. QED BY <1>0, <2>0, <3>0, <4>1, <4>3, <4>5, <4>6 DEF PacketInv
    <3>. QED BY <3>2, <3>3, <3>4, <3>5, <3>6
  <2>. QED BY <2>3, <2>4, <2>5, <2>6, <2>8, <2>9, <2>10, <2>11, <1>6, <2>1, <2>2 DEF Brokering
<1>. QED BY <1>3, <1>4, <1>5, <1>6 DEF QueriesNext

-----------------------------------------------------------------------------
QueryInv == IndexInv /\ CallInv /\ PacketInv

(* All of it is inductive.                                                  *)
LEMMA QueryInvHolds == QueriesSpec => []QueryInv
<1>1. QueriesInit => QueryInv
  <2>. SUFFICES ASSUME QueriesInit PROVE QueryInv
    OBVIOUS
  <2>1. /\ store \in Stores /\ store \in Catalogues /\ Len(store.files) \in Nat \ {0}
        /\ store.files[1] \in [Path -> Content \cup {NoFile}]
    <3>1. /\ store \in Stores /\ store \in Catalogues
          /\ store.files \in Seq([Path -> Content \cup {NoFile}]) /\ store.files # <<>>
      BY QueryStoreAssumption DEF QueriesInit, IndexInit, Catalogues
    <3>2. Len(store.files) \in Nat \ {0} /\ 1 \in DOMAIN store.files
      BY <3>1
    <3>. QED BY <3>1, <3>2
  <2>3. IndexInv
    <3>1. disk \in [Path -> File] /\ \A p \in Path : disk[p].stamp = 0
      BY <2>1 DEF QueriesInit, IndexInit, File
    <3>2. held = [p \in Path |-> {disk[p].text}]
      BY DEF QueriesInit, IndexInit
    <3>3. held \in [Path -> SUBSET (Content \cup {NoFile})] /\ \A p \in Path : disk[p].text \in held[p]
      BY <3>1, <3>2 DEF File
    <3>4. written = 0 /\ current \in {0, 1} /\ committed = current /\ candidates = {}
      BY DEF QueriesInit, IndexInit
    <3>. QED BY <2>1, <3>1, <3>3, <3>4, QueryStoreAssumption DEF IndexInv
  <2>4. CallInv
    BY DEF QueriesInit, QueryInit, CallInv, Walking, Cursor, NoCursor, NoCall
  <2>5. PacketInv
    BY DEF QueriesInit, BrokerInit, PacketInv, NoPacket
  <2>. QED BY <2>3, <2>4, <2>5 DEF QueryInv
<1>2. QueryInv /\ [QueriesNext]_queriesVars => QueryInv'
    BY WorldMoves, CallMoves, PacketMoves DEF QueryInv
<1>. QED BY <1>1, <1>2, PTL DEF QueriesSpec

(* Every variable of the queries keeps its type.                            *)
THEOREM QueriesTyped == QueriesSpec => []QueriesTypeOK
<1>1. QueryInv => QueriesTypeOK
    BY StepOf DEF QueryInv, IndexInv, IndexTypeOK, File, CallInv, Walking, PacketInv, QueriesTypeOK,
        NoPacket
<1>. QED BY <1>1, QueryInvHolds, PTL

-----------------------------------------------------------------------------
(* Inspect and exact source.                                                *)
(* Which steps matter to their answers.                                     *)
LEMMA OtherCalls ==
    ASSUME IndexInv, CallInv, PacketInv, [QueriesNext]_queriesVars
    PROVE  \/ call' = call /\ (call = NoCall \/ \A p \in Path : held[p] \subseteq held'[p])
           \/ call'.step \in {"idle", "find", "inspect", "trace", "impact", "source"}
           \/ call'.step = "done" /\ call'.answer.kind \in {"find", "trace", "impact"}
           \/ InspectFile \/ InspectSymbols \/ InspectOutbound \/ InspectInbound \/ SourceOpen \/ SourceRead \/ SourceCheck
<1>1. CASE call' = call /\ (held' = held \/ EditTree)
    BY <1>1 DEF EditTree, IndexInv
<1>2. CASE TraceVisit \/ TraceRows \/ TraceRow
  <2>1. call' \in Tracing
    BY <1>2, TraceTypes
  <2>. QED BY <2>1 DEF Tracing
<1>3. CASE ImpactDependents \/ ImpactFrontier
  <2>1. call \in Impacting
    BY <1>3, StepOf DEF ImpactDependents, ImpactFrontier
  <2>2. call'.step = "impact"
    BY <1>3, <2>1 DEF ImpactDependents, ImpactFrontier, Impacting
  <2>. QED BY <2>2
<1>4. CASE BeginFind \/ BeginInspect \/ BeginTrace \/ BeginImpact \/ BeginSource \/ EndCall
    BY <1>4 DEF BeginFind, BeginInspect, BeginTrace, BeginImpact, BeginSource, EndCall, NoCall
<1>5. CASE FindRows \/ TraceEnd \/ ImpactEnd
    BY <1>5 DEF FindRows, TraceEnd, ImpactEnd, Finish
<1>. QED BY <1>1, <1>2, <1>3, <1>4, <1>5 DEF QueriesNext, Querying, queriesVars, queryVars, worldVars,
        catalogueVars, CommitFacts, ActivateNext

(* An inspect reads one revision, and each statement all of it that was     *)
(* there when the call began.                                               *)
SymbolsWhole(listed, p, t, since) ==
    /\ listed \subseteq SymbolsOf(p, t)
    /\ \A i \in SymbolsOf(p, t) : store.symbols[i].commit <= since => i \in listed
OutboundWhole(listed, p, t, since) ==
    /\ listed \subseteq OutboundOf(p, t)
    /\ \A i \in OutboundOf(p, t) : store.rels[i].commit <= since => i \in listed

InspectInv ==
    /\ call.step \in {"symbols", "outbound", "inbound"} => call.text = store.files[call.gen][call.path]
    /\ call.step \in {"outbound", "inbound"} =>
         SymbolsWhole(call.symbols, call.path, call.text, call.since)
    /\ call.step = "inbound" => OutboundWhole(call.outbound, call.path, call.text, call.since)
    /\ InspectIsOneRevision

LEMMA InspectMoves ==
    ASSUME QueryInv, InspectInv, [QueriesNext]_queriesVars
    PROVE  InspectInv'
<1>. USE DEF QueryInv
<1>0. store' = store
    BY WorldMoves
<1>1. CASE call' = call
    BY <1>0, <1>1 DEF InspectInv, InspectIsOneRevision, Answered, SymbolsWhole, OutboundWhole,
        SymbolsOf, OutboundOf
<1>2. CASE \/ call'.step \in {"idle", "find", "inspect", "trace", "impact", "source", "opened", "read"}
           \/ call'.step = "done" /\ call'.answer.kind \in {"find", "trace", "impact", "source"}
    BY <1>2 DEF InspectInv, InspectIsOneRevision, Answered
<1>3. CASE InspectFile
    BY <1>0, <1>3 DEF InspectFile, Finish, InspectInv, InspectIsOneRevision, Answered
<1>c. ASSUME call.step \in {"symbols", "outbound"}
      PROVE  call.since \in Nat /\ call.since <= committed /\ committed \in Nat
    BY <1>c, StepOf, WorldMoves DEF CallInv, Symbols, Outbound
<1>4. CASE InspectSymbols
  <2>1. SymbolsWhole(HeldBy(call.path, call.text), call.path, call.text, call.since)
    <3>1. \A i \in SymbolsOf(call.path, call.text) :
             store.symbols[i].commit \in Nat
             /\ (store.symbols[i].commit <= call.since => store.symbols[i].commit <= committed)
      BY <1>4, <1>c, RowTypes DEF InspectSymbols, SymbolsOf, SymbolRow
    <3>. QED BY <3>1 DEF SymbolsWhole, HeldBy, Stored
  <2>2. /\ call'.step = "outbound" /\ call'.gen = call.gen /\ call'.path = call.path
        /\ call'.text = call.text /\ call'.since = call.since
        /\ call'.symbols = HeldBy(call.path, call.text)
    BY <1>4 DEF InspectSymbols
  <2>3. call'.text = store'.files[call'.gen][call'.path]
    BY <1>0, <1>4, <2>2 DEF InspectInv, InspectSymbols
  <2>4. SymbolsWhole(call.symbols, call.path, call.text, call.since)'
    BY <1>0, <2>1, <2>2 DEF SymbolsWhole, SymbolsOf
  <2>. QED BY <2>2, <2>3, <2>4 DEF InspectInv, InspectIsOneRevision, Answered
<1>5. CASE InspectOutbound
  <2>. DEFINE listed == {i \in OutboundOf(call.path, call.text) : Stored(store.rels[i])}
  <2>1. OutboundWhole(listed, call.path, call.text, call.since)
    <3>1. \A i \in OutboundOf(call.path, call.text) :
             store.rels[i].commit \in Nat
             /\ (store.rels[i].commit <= call.since => store.rels[i].commit <= committed)
      BY <1>5, <1>c, RowTypes DEF InspectOutbound, OutboundOf, RelationRow
    <3>. QED BY <3>1 DEF OutboundWhole, Stored
  <2>2. /\ call'.step = "inbound" /\ call'.gen = call.gen /\ call'.path = call.path
        /\ call'.text = call.text /\ call'.since = call.since /\ call'.symbols = call.symbols
        /\ call'.outbound = listed
    BY <1>5 DEF InspectOutbound
  <2>. HIDE DEF listed
  <2>3. call'.text = store'.files[call'.gen][call'.path]
    BY <1>0, <1>5, <2>2 DEF InspectInv, InspectOutbound
  <2>4. OutboundWhole(call.outbound, call.path, call.text, call.since)'
    BY <1>0, <2>1, <2>2 DEF OutboundWhole, OutboundOf
  <2>5. SymbolsWhole(call.symbols, call.path, call.text, call.since)'
    BY <1>0, <1>5, <2>2 DEF InspectInv, InspectOutbound, SymbolsWhole, SymbolsOf
  <2>. QED BY <2>2, <2>3, <2>4, <2>5 DEF InspectInv, InspectIsOneRevision, Answered
<1>6. CASE InspectInbound
  <2>1. /\ SymbolsWhole(call.symbols, call.path, call.text, call.since)
        /\ OutboundWhole(call.outbound, call.path, call.text, call.since)
        /\ call.text = store.files[call.gen][call.path]
    BY <1>6 DEF InspectInbound, InspectInv
  <2>2. /\ call'.step = "done" /\ call'.answer.gen = call.gen /\ call'.answer.path = call.path
        /\ call'.answer.since = call.since /\ call'.answer.symbols = call.symbols
        /\ call'.answer.outbound = call.outbound
    BY <1>6 DEF InspectInbound, Finish
  <2>. QED BY <1>0, <2>1, <2>2 DEF InspectInv, InspectIsOneRevision, SymbolsWhole, OutboundWhole,
              SymbolsOf, OutboundOf
<1>7. CASE SourceOpen \/ SourceRead \/ SourceCheck
    BY <1>2, <1>7 DEF SourceOpen, SourceRead, SourceCheck, SourceFails, Finish
<1>. QED BY <1>1, <1>2, <1>3, <1>4, <1>5, <1>6, <1>7, OtherCalls

(* The answer of an inspect has the facts of the revision that its          *)
(* generation lists, all those stored when it began and no others, whatever *)
(* is committed and activated between the statements of inspect.            *)
THEOREM InspectedOnce == QueriesSpec => []InspectIsOneRevision
<1>1. QueriesInit => InspectInv
    BY DEF QueriesInit, QueryInit, NoCall, InspectInv, InspectIsOneRevision, Answered
<1>2. QueryInv /\ InspectInv /\ [QueriesNext]_queriesVars => InspectInv'
    BY InspectMoves
<1>3. InspectInv => InspectIsOneRevision
    BY DEF InspectInv
<1>. QED BY <1>1, <1>2, <1>3, QueryInvHolds, PTL DEF QueriesSpec

(* An edit is stamped later than everything before it.                      *)
LEMMA TreeMoves ==
    ASSUME IndexInv, [QueriesNext]_queriesVars
    PROVE  /\ \A p \in Path : disk'[p] = disk[p] \/ disk'[p].stamp > written
           /\ written' >= written /\ written \in Nat /\ written' \in Nat
<1>0. written \in Nat
    BY QueryStoreAssumption DEF IndexInv
<1>1. CASE EditTree
  <2>1. PICK p \in Path, t \in Content \cup {NoFile}, inPlace \in BOOLEAN :
           disk' = [disk EXCEPT ![p] = [text |-> t, stamp |-> written + 1,
                                        ino |-> IF inPlace THEN @.ino ELSE written + 1]]
    BY <1>1 DEF EditTree
  <2>2. \A q \in Path : disk'[q] = disk[q] \/ disk'[q].stamp = written + 1
    BY <2>1 DEF IndexInv
  <2>. QED BY <1>0, <1>1, <2>2 DEF EditTree
<1>2. CASE UNCHANGED <<disk, written>>
    BY <1>0, <1>2
<1>3. CASE Querying
    BY <1>2, <1>3 DEF Querying, BeginFind, FindRows, BeginInspect, InspectFile, InspectSymbols, InspectOutbound, InspectInbound,
        BeginTrace, TraceVisit, TraceRows, TraceRow, TraceEnd, BeginImpact, ImpactDependents,
        ImpactFrontier, ImpactEnd, BeginSource, SourceOpen, SourceRead, SourceCheck, EndCall,
        worldVars
<1>4. CASE Brokering
    BY <1>2, <1>4 DEF Brokering, BeginPacket, PacketSymbols, PacketScan, PacketExpand, PacketRank,
        PacketNext, PacketHash, PacketText, PacketEnd, PacketReturned, worldVars
<1>. QED BY <1>1, <1>2, <1>3, <1>4 DEF QueriesNext, queriesVars, worldVars, catalogueVars, CommitFacts,
        ActivateNext

(* What verify_exact_source_at_generation knows at its steps: the open file *)
(* held its text, and as long as nothing is written after that, it is the   *)
(* file at the path and what was read from it is that text.                 *)
SourceInv ==
    /\ call.step \in {"opened", "read"} =>
         /\ call.indexed = store.files[call.gen][call.path]
         /\ call.file.text \in held[call.path] /\ call.file.stamp <= written
         /\ disk[call.path].stamp = call.file.stamp => disk[call.path] = call.file
    /\ call.step = "read" =>
         (disk[call.path].stamp = call.file.stamp => call.bytes = call.file.text)
    /\ Answered("source") /\ call.answer.status = "verified" => call.answer.path \in Path
    /\ VerifiedSourceWasThere

LEMMA SourceMoves ==
    ASSUME QueryInv, SourceInv, [QueriesNext]_queriesVars
    PROVE  SourceInv'
<1>. USE DEF QueryInv
<1>0. store' = store /\ IndexInv'
    BY WorldMoves
<1>1. CASE call' = call /\ (call = NoCall \/ \A p \in Path : held[p] \subseteq held'[p])
  <2>1. CASE call = NoCall
    BY <1>1, <2>1 DEF NoCall, SourceInv, VerifiedSourceWasThere, Answered
  <2>2. CASE call # NoCall
    <3>1. \A p \in Path : /\ held[p] \subseteq held'[p]
                          /\ \/ disk'[p] = disk[p]
                             \/ disk'[p].stamp > written
      BY <1>1, <2>2, TreeMoves
    <3>2. written' >= written /\ written \in Nat /\ written' \in Nat
      BY TreeMoves
    <3>3. ASSUME call.step \in {"opened", "read"}
          PROVE  call.path \in Path /\ call.file \in File
      BY <2>2, <3>3, StepOf DEF Opened, Reading
    <3>4. ASSUME call.step \in {"opened", "read"}
          PROVE  /\ disk'[call.path].stamp = call.file.stamp =>
                      disk[call.path].stamp = call.file.stamp /\ disk'[call.path] = call.file
                 /\ call.file.text \in held'[call.path] /\ call.file.stamp <= written'
      BY <3>1, <3>2, <3>3, <3>4 DEF SourceInv, File
    <3>5. (Answered("source") /\ call.answer.status = "verified") =>
             call.answer.path \in Path /\ held[call.answer.path] \subseteq held'[call.answer.path]
      BY <3>1 DEF SourceInv
    <3>6. /\ call.step \in {"opened", "read"} => call.indexed = store.files[call.gen][call.path]
          /\ call.step = "read" =>
                (disk'[call.path].stamp = call.file.stamp => call.bytes = call.file.text)
      BY <3>4 DEF SourceInv
    <3>. QED BY <1>0, <1>1, <3>4, <3>5, <3>6 DEF SourceInv, VerifiedSourceWasThere, Answered
  <2>. QED BY <2>1, <2>2
<1>2. CASE \/ call'.step \in {"idle", "find", "inspect", "symbols", "outbound", "inbound", "trace",
                             "impact", "source"}
           \/ call'.step = "done" /\ call'.answer.kind \in {"find", "trace", "impact", "inspect"}
    BY <1>2 DEF SourceInv, VerifiedSourceWasThere, Answered
<1>3. CASE InspectFile \/ InspectSymbols \/ InspectOutbound \/ InspectInbound
    BY <1>2, <1>3 DEF InspectFile, InspectSymbols, InspectOutbound, InspectInbound, Finish
<1>4. CASE SourceOpen
  <2>1. call \in Sourcing /\ call.path \in Path
    BY <1>4, StepOf DEF SourceOpen, Sourcing
  <2>2. disk[call.path].text \in held[call.path] /\ disk[call.path].stamp <= written
    BY <2>1 DEF IndexInv
  <2>. QED BY <1>0, <1>4, <2>1, <2>2 DEF SourceOpen, SourceFails, Finish, SourceInv,
              VerifiedSourceWasThere, Answered, worldVars
<1>5. CASE SourceRead
  <2>1. call \in Opened /\ call.path \in Path
    BY <1>5, StepOf DEF SourceRead, Opened
  <2>2. disk[call.path].stamp = call.file.stamp => OpenFile = call.file
    BY <1>5, <2>1 DEF SourceRead, SourceInv, OpenFile
  <2>. QED BY <1>0, <1>5, <2>1, <2>2 DEF SourceRead, SourceInv, VerifiedSourceWasThere, Answered,
              worldVars
<1>6. CASE SourceCheck
  <2>1. call \in Reading /\ call.path \in Path
    BY <1>6, StepOf DEF SourceCheck, Reading
  <2>2. Undisturbed => OpenFile = disk[call.path] /\ disk[call.path].stamp = call.file.stamp
    BY DEF Undisturbed, OpenFile
  <2>. QED BY <1>0, <1>6, <2>1, <2>2 DEF SourceCheck, SourceFails, Finish, SourceInv,
              VerifiedSourceWasThere, Answered, worldVars
<1>. QED BY <1>1, <1>2, <1>3, <1>4, <1>5, <1>6, OtherCalls

(* Exact source is handed out only as the text the captured generation      *)
(* indexed and the file held while the call ran; an excerpt of a packet has *)
(* a text the file held, and the indexed text was there as well.            *)
THEOREM VerifiedThere == QueriesSpec => []VerifiedWasThere
<1>1. QueriesInit => SourceInv
    BY DEF QueriesInit, QueryInit, NoCall, SourceInv, VerifiedSourceWasThere, Answered
<1>2. QueryInv /\ SourceInv /\ [QueriesNext]_queriesVars => SourceInv'
    BY SourceMoves
<1>3. QueryInv /\ SourceInv => VerifiedWasThere
    BY DEF QueryInv, SourceInv, PacketInv, Backed, VerifiedWasThere, PacketTextWasThere
<1>. QED BY <1>1, <1>2, <1>3, QueryInvHolds, PTL DEF QueriesSpec

-----------------------------------------------------------------------------
(* Find and its cursor.                                                     *)
PathAt(i) == store.symbols[i].path

(* A list that stops at a path: nothing later, and every path up to it that *)
(* matched when the client began.                                           *)
UpTo(listed, there, after) ==
    /\ \A i \in listed : PathAt(i) <= after
    /\ \A j \in there : PathAt(j) <= after => \E i \in listed : PathAt(i) = PathAt(j)

Whole(listed, there) == \A j \in there : \E i \in listed : PathAt(i) = PathAt(j)

(* What matches still matches when a reconcile has committed.               *)
LEMMA MatchesGrow ==
    ASSUME IndexInv, [QueriesNext]_queriesVars, current' = current
    PROVE  \A g, query, after : Matches(g, query, after) \subseteq Matches(g, query, after)'
<1>1. store' = store /\ committed \in Nat /\ committed' \in Nat /\ committed <= committed'
    BY WorldMoves
<1>2. \A i \in DOMAIN store.symbols : store.symbols[i].commit \in Nat
    BY RowTypes DEF SymbolRow
<1>. QED BY <1>1, <1>2 DEF Matches, Current, Stored, OfGeneration

(* A sequence with one more element.                                        *)
LEMMA Appended ==
    ASSUME NEW S, NEW s \in Seq(S), NEW x \in S
    PROVE  /\ \A k \in DOMAIN s : k \in DOMAIN Append(s, x) /\ Append(s, x)[k] = s[k]
           /\ \A k \in DOMAIN Append(s, x) : (k \in DOMAIN s /\ Append(s, x)[k] = s[k]) \/ Append(s, x)[k] = x
           /\ \E k \in DOMAIN Append(s, x) : Append(s, x)[k] = x
<1>1. PICK n \in Nat : n = Len(s) /\ DOMAIN s = 1 .. n
    OBVIOUS
<1>2. DOMAIN Append(s, x) = 1 .. n + 1 /\ \A k \in 1 .. n : Append(s, x)[k] = s[k]
    BY <1>1
<1>3. Append(s, x)[n + 1] = x
    BY <1>1
<1>. QED BY <1>1, <1>2, <1>3

(* The next page of such a list continues it to the path of the cursor, or  *)
(* completes it: rows of the cursor's path that did not fit are of a path   *)
(* already listed, and rows committed meanwhile only add to a page.         *)
LEMMA NextPage ==
    ASSUME IndexInv, NEW g \in 1 .. committed, NEW query \in SUBSET Nat, NEW after \in Nat,
           NEW there, there \subseteq Matches(g, query, 0),
           NEW listed, listed \subseteq Matches(g, query, 0), UpTo(listed, there, after),
           NEW rows, rows = Matches(g, query, after), NEW page, page = PageOf(rows)
    PROVE  /\ page \subseteq Matches(g, query, 0) /\ page \cap listed = {}
           /\ Cardinality(rows) > Limit =>
                /\ PathAt(LastOf(page)) \in Nat
                /\ UpTo(listed \cup page, there, PathAt(LastOf(page)))
           /\ ~ Cardinality(rows) > Limit => Whole(listed \cup page, there)
<1>1. \A i \in DOMAIN store.symbols : PathAt(i) \in Nat \ {0}
    BY RowTypes, QueryStoreAssumption DEF PathAt, SymbolRow
<1>2. /\ rows \in SUBSET DOMAIN store.symbols
      /\ Matches(g, query, 0) \in SUBSET DOMAIN store.symbols
      /\ rows = {i \in Matches(g, query, 0) : PathAt(i) > after}
    BY <1>1 DEF Matches, PathAt
<1>3. /\ page \subseteq rows
      /\ \A i \in page, j \in rows \ page : RowBefore(i, j)
      /\ ~ Cardinality(rows) > Limit => page = rows
      /\ Cardinality(rows) > Limit =>
            /\ LastOf(page) \in page
            /\ \A j \in page \ {LastOf(page)} : RowBefore(j, LastOf(page))
    BY <1>2, PageIsFirst
<1>4. page \subseteq Matches(g, query, 0) /\ page \cap listed = {}
    BY <1>1, <1>2, <1>3 DEF UpTo
<1>5. ASSUME Cardinality(rows) > Limit
      PROVE  /\ PathAt(LastOf(page)) \in Nat
             /\ UpTo(listed \cup page, there, PathAt(LastOf(page)))
  <2>1. PICK l \in page : l = LastOf(page) /\ \A j \in page \ {l} : RowBefore(j, l)
    BY <1>3, <1>5
  <2>2. PathAt(l) \in Nat /\ PathAt(l) > after
    BY <1>1, <1>2, <1>3
  <2>3. \A i \in page : PathAt(i) <= PathAt(l)
    <3>1. \A i \in page \ {l} : store.symbols[i].path <= store.symbols[l].path
      BY <1>2, <1>3, <2>1, RowOrder
    <3>. QED BY <2>2, <3>1 DEF PathAt
  <2>4. \A i \in listed : PathAt(i) <= PathAt(l)
    BY <1>1, <1>2, <2>2 DEF UpTo
  <2>5. ASSUME NEW j \in there, PathAt(j) <= PathAt(l)
        PROVE  \E i \in listed \cup page : PathAt(i) = PathAt(j)
    <3>1. CASE PathAt(j) <= after
      BY <3>1 DEF UpTo
    <3>2. CASE j \in page
      BY <3>2
    <3>3. CASE ~ PathAt(j) <= after /\ j \notin page
      <4>1. j \in rows \ page
        BY <3>3, <1>1, <1>2
      <4>2. store.symbols[l].path <= store.symbols[j].path
        BY <4>1, <1>2, <1>3, RowOrder
      <4>3. PathAt(l) = PathAt(j)
        BY <4>2, <2>5, <2>2, <1>1, <1>2 DEF PathAt
      <4>. QED BY <4>3
    <3>. QED BY <3>1, <3>2, <3>3
  <2>. QED BY <2>1, <2>2, <2>3, <2>4, <2>5 DEF UpTo
<1>6. ASSUME ~ Cardinality(rows) > Limit PROVE Whole(listed \cup page, there)
  <2>. SUFFICES ASSUME NEW j \in there
                PROVE  \E i \in listed \cup page : PathAt(i) = PathAt(j)
    BY DEF Whole
  <2>1. CASE PathAt(j) <= after
    BY <2>1 DEF UpTo
  <2>2. CASE ~ PathAt(j) <= after
    <3>1. j \in page
      BY <2>2, <1>1, <1>2, <1>3, <1>6
    <3>. QED BY <3>1
  <2>. QED BY <2>1, <2>2
<1>. QED BY <1>4, <1>5, <1>6

Listed == UNION ToSet(walk.pages)

(* What a client that follows cursors has, while the generation it reads is *)
(* active: a list up to its cursor, or to where the running find resumes.   *)
FindInv ==
    /\ call.step = "find" =>
         walk.state = "walking" /\ call.gen = walk.gen /\ call.query = walk.query
    /\ walk.cursor # NoCursor =>
         walk.state = "walking" /\ walk.cursor.gen = walk.gen /\ walk.cursor.query = walk.query
    /\ walk.gen <= committed /\ walk.gen \notin candidates
    /\ walk.gen = current /\ walk.state # "none" =>
         /\ Listed \subseteq Matches(walk.gen, walk.query, 0)
         /\ walk.there \subseteq Matches(walk.gen, walk.query, 0)
         /\ \A m, n \in DOMAIN walk.pages : m # n => walk.pages[m] \cap walk.pages[n] = {}
         /\ call.step = "find" => UpTo(Listed, walk.there, call.after)
         /\ walk.cursor # NoCursor => UpTo(Listed, walk.there, walk.cursor.after)
         /\ walk.state = "ended" => Whole(Listed, walk.there)

(* Only find concerns a walk, and only an activation the active generation. *)
LEMMA OtherWalks ==
    ASSUME IndexInv, CallInv, PacketInv, [QueriesNext]_queriesVars
    PROVE  \/ call' = call /\ walk' = walk
           \/ walk' = walk /\ current' = current /\ call'.step # "find"
           \/ (BeginFind \/ FindRows) /\ current' = current
<1>1. CASE call' = call /\ walk' = walk
    BY <1>1
<1>2. CASE TraceVisit \/ TraceRows \/ TraceRow
  <2>1. call' \in Tracing
    BY <1>2, TraceTypes
  <2>. QED BY <1>2, <2>1 DEF Tracing, TraceVisit, TraceRows, TraceRow, worldVars, catalogueVars
<1>3. CASE ImpactDependents \/ ImpactFrontier
  <2>1. call \in Impacting
    BY <1>3, StepOf DEF ImpactDependents, ImpactFrontier
  <2>2. call'.step = "impact"
    BY <1>3, <2>1 DEF ImpactDependents, ImpactFrontier, Impacting
  <2>. QED BY <1>3, <2>2 DEF ImpactDependents, ImpactFrontier, worldVars, catalogueVars
<1>4. CASE BeginInspect \/ BeginTrace \/ BeginImpact \/ BeginSource \/ EndCall
    BY <1>4 DEF BeginInspect, BeginTrace, BeginImpact, BeginSource, EndCall, NoCall, worldVars, catalogueVars
<1>5. CASE InspectFile \/ InspectSymbols \/ InspectOutbound \/ InspectInbound \/ TraceEnd \/ ImpactEnd
    BY <1>5 DEF InspectFile, InspectSymbols, InspectOutbound, InspectInbound, TraceEnd, ImpactEnd, Finish,
        worldVars, catalogueVars
<1>6. CASE SourceOpen \/ SourceRead \/ SourceCheck
    BY <1>6 DEF SourceOpen, SourceRead, SourceCheck, SourceFails, Finish, worldVars, catalogueVars
<1>7. CASE BeginFind \/ FindRows
    BY <1>7 DEF BeginFind, FindRows, worldVars, catalogueVars
<1>. QED BY <1>1, <1>2, <1>3, <1>4, <1>5, <1>6, <1>7 DEF QueriesNext, Querying, queriesVars, queryVars

LEMMA FindMoves ==
    ASSUME QueryInv, FindInv, [QueriesNext]_queriesVars
    PROVE  FindInv'
<1>. USE QueryStoreAssumption, QueriesAssumption DEF QueryInv
<1>0. /\ store' = store /\ current \in 0 .. committed /\ committed \in Nat /\ committed' \in Nat
      /\ committed <= committed' /\ walk \in Walking /\ walk.gen \in Nat /\ IndexInv
      /\ current' = current \/ current' \in candidates
      /\ current \notin candidates
  <2>1. /\ store' = store /\ committed \in Nat /\ committed' \in {committed, committed + 1}
        /\ current' = current \/ current' \in candidates
    BY WorldMoves
  <2>2. current \in 0 .. committed /\ IndexInv /\ current \notin candidates
    BY DEF IndexInv
  <2>3. walk \in Walking /\ walk.gen \in Nat
    BY DEF CallInv, Walking
  <2>. QED BY <2>1, <2>2, <2>3
<1>c. \A g \in 0 .. committed : g <= committed' /\ (g \notin candidates => g \notin candidates')
  <2>1. candidates' \subseteq candidates \cup {committed + 1}
    BY WorldMoves
  <2>. QED BY <1>0, <2>1
<1>g. ASSUME current' = current
      PROVE  \A query, after : Matches(current, query, after) \subseteq Matches(current, query, after)'
    BY <1>g, MatchesGrow
<1>1. CASE walk' = walk /\ (call' = call \/ call'.step # "find") /\ current' = current
  <2>1. walk.gen <= committed' /\ walk.gen \notin candidates'
    BY <1>0, <1>c DEF FindInv
  <2>2. ASSUME walk.gen = current, walk.state # "none"
        PROVE  /\ (Listed \subseteq Matches(walk.gen, walk.query, 0))'
               /\ (walk.there \subseteq Matches(walk.gen, walk.query, 0))'
               /\ \A after : UpTo(Listed, walk.there, after) => UpTo(Listed, walk.there, after)'
               /\ Whole(Listed, walk.there) => Whole(Listed, walk.there)'
    <3>1. PICK g, query, listed, there :
            g = walk.gen /\ query = walk.query /\ listed = Listed /\ there = walk.there
      OBVIOUS
    <3>2. Listed' = listed /\ walk'.gen = g /\ walk'.query = query /\ walk'.there = there
      BY <1>1, <3>1 DEF Listed
    <3>3. /\ listed \subseteq Matches(g, query, 0)'
          /\ there \subseteq Matches(g, query, 0)'
      BY <1>1, <1>g, <2>2, <3>1 DEF FindInv
    <3>4. /\ \A after : UpTo(listed, there, after) => UpTo(listed, there, after)'
          /\ Whole(listed, there) => Whole(listed, there)'
      BY <1>0 DEF UpTo, Whole, PathAt
    <3>. QED BY <3>1, <3>2, <3>3, <3>4
  <2>3. CASE walk.gen = current /\ walk.state # "none"
    BY <1>1, <2>1, <2>2, <2>3 DEF FindInv
  <2>4. CASE ~ (walk.gen = current /\ walk.state # "none")
    BY <1>1, <2>1, <2>4 DEF FindInv
  <2>. QED BY <2>3, <2>4
<1>2. CASE call' = call /\ walk' = walk /\ current' # current
  <2>1. walk.gen <= committed' /\ walk.gen \notin candidates' /\ walk.gen # current'
    BY <1>0, <1>c, <1>2 DEF FindInv
  <2>. QED BY <1>0, <1>2, <2>1 DEF FindInv
<1>4. CASE BeginFind /\ current' = current
  <2>1. PICK query \in Names, cursor \in {NoCursor, walk.cursor} :
           /\ call' = [step |-> "find", gen |-> current, query |-> query,
                       after |-> IF ValidFor(cursor, current, query) THEN cursor.after ELSE 0]
           /\ walk' = [cursor |-> NoCursor, gen |-> current, query |-> query, state |-> "walking",
                       pages |-> IF ValidFor(cursor, current, query) THEN walk.pages ELSE <<>>,
                       there |-> IF ValidFor(cursor, current, query) THEN walk.there
                                 ELSE Matches(current, query, 0)]
    BY <1>4 DEF BeginFind
  <2>2. PICK after, pages, there :
           /\ after = IF ValidFor(cursor, current, query) THEN cursor.after ELSE 0
           /\ pages = IF ValidFor(cursor, current, query) THEN walk.pages ELSE <<>>
           /\ there = IF ValidFor(cursor, current, query) THEN walk.there
                      ELSE Matches(current, query, 0)
    OBVIOUS
  <2>3. PICK g, listed : g = current /\ listed = UNION ToSet(pages)
    OBVIOUS
  <2>4. /\ listed \subseteq Matches(g, query, 0) /\ there \subseteq Matches(g, query, 0)
        /\ \A m, n \in DOMAIN pages : m # n => pages[m] \cap pages[n] = {}
        /\ UpTo(listed, there, after)
    <3>1. CASE ValidFor(cursor, current, query)
      <4>1. /\ cursor = walk.cursor /\ walk.cursor # NoCursor /\ walk.state = "walking"
            /\ walk.gen = g /\ walk.query = query /\ after = walk.cursor.after
            /\ pages = walk.pages /\ listed = Listed /\ there = walk.there
        BY <2>2, <2>3, <3>1 DEF ValidFor, FindInv, Listed
      <4>. QED BY <2>3, <4>1 DEF FindInv
    <3>2. CASE ~ ValidFor(cursor, current, query)
      <4>1. listed = {} /\ after = 0 /\ pages = <<>> /\ there = Matches(g, query, 0)
        BY <2>2, <2>3, <3>2 DEF ToSet
      <4>2. \A j \in Matches(g, query, 0) : ~ PathAt(j) <= 0
        <5>1. \A j \in Matches(g, query, 0) : PathAt(j) \in Nat /\ PathAt(j) > 0
          BY <1>0, RowTypes DEF Matches, PathAt, SymbolRow
        <5>. QED BY <5>1
      <4>. QED BY <4>1, <4>2 DEF UpTo
    <3>. QED BY <3>1, <3>2
  <2>5. /\ listed \subseteq Matches(g, query, 0)' /\ there \subseteq Matches(g, query, 0)'
        /\ UpTo(listed, there, after)'
    BY <1>0, <1>4, <1>g, <2>3, <2>4 DEF UpTo, PathAt
  <2>6. /\ call'.gen = g /\ call'.query = query /\ call'.after = after
        /\ walk'.gen = g /\ walk'.query = query /\ walk'.pages = pages /\ walk'.state = "walking"
        /\ walk'.cursor = NoCursor /\ walk'.there = there
    BY <2>1, <2>2, <2>3
  <2>7. Listed' = listed
    BY <2>3, <2>6 DEF Listed
  <2>8. g <= committed' /\ g \notin candidates'
    BY <1>0, <1>c, <2>3
  <2>. QED BY <1>0, <1>4, <2>3, <2>4, <2>5, <2>6, <2>7, <2>8 DEF FindInv
<1>5. CASE FindRows /\ current' = current
  <2>1. call \in Finding /\ call.gen \in 1 .. committed
    BY <1>5, StepOf DEF FindRows
  <2>2. PICK g \in 1 .. committed, query \in SUBSET Nat, after \in Nat :
           g = call.gen /\ query = call.query /\ after = call.after
    BY <2>1 DEF Finding
  <2>c. g <= committed' /\ g \notin candidates'
    BY <1>0, <1>c, <1>5, <2>2 DEF FindInv, FindRows
  <2>3. PICK rows, page : rows = Matches(g, query, after) /\ page = PageOf(rows)
    OBVIOUS
  <2>4. PICK pages, listed, there : pages = walk.pages /\ listed = Listed /\ there = walk.there
    OBVIOUS
  <2>5. PICK state, cursor :
           /\ state = IF Cardinality(rows) > Limit THEN "walking" ELSE "ended"
           /\ cursor = IF Cardinality(rows) > Limit
                       THEN [gen |-> g, query |-> query, after |-> PathAt(LastOf(page))]
                       ELSE NoCursor
    OBVIOUS
  <2>6. /\ walk' = [walk EXCEPT !.pages = Append(pages, page), !.state = state, !.cursor = cursor]
        /\ call'.step = "done"
    BY <1>5, <2>2, <2>3, <2>4, <2>5 DEF FindRows, Finish, PathAt
  <2>7. /\ walk'.pages = Append(pages, page) /\ walk'.state = state /\ walk'.cursor = cursor
        /\ walk'.gen = g /\ walk'.query = query /\ walk.gen = g /\ walk.query = query
        /\ walk.state = "walking" /\ walk'.there = there
    BY <1>0, <1>5, <2>2, <2>4, <2>6 DEF Walking, FindInv, FindRows
  <2>8. pages \in Seq(SUBSET Nat)
    BY <1>0, <2>4 DEF Walking
  <2>9. Listed' = listed \cup page
    <3>1. rows \in SUBSET DOMAIN store.symbols /\ page \subseteq rows
      BY <2>3 DEF Matches, PageOf
    <3>2. page \in SUBSET Nat
      BY <1>0, <3>1, RowTypes
    <3>3. /\ \A k \in DOMAIN pages : k \in DOMAIN Append(pages, page) /\ Append(pages, page)[k] = pages[k]
          /\ \A k \in DOMAIN Append(pages, page) :
                (k \in DOMAIN pages /\ Append(pages, page)[k] = pages[k]) \/ Append(pages, page)[k] = page
          /\ \E k \in DOMAIN Append(pages, page) : Append(pages, page)[k] = page
      <4>1. PICK S : S = SUBSET Nat
        OBVIOUS
      <4>2. pages \in Seq(S) /\ page \in S
        BY <2>8, <3>2, <4>1
      <4>. QED BY ONLY <4>2, Appended
    <3>. QED BY <2>4, <2>7, <3>3 DEF Listed, ToSet
  <2>10. CASE g = current
    <3>1. /\ listed \subseteq Matches(g, query, 0) /\ UpTo(listed, there, after)
          /\ there \subseteq Matches(g, query, 0)
          /\ \A m, n \in DOMAIN pages : m # n => pages[m] \cap pages[n] = {}
      BY <1>5, <2>2, <2>4, <2>7, <2>10 DEF FindInv, FindRows
    <3>2. /\ page \subseteq Matches(g, query, 0) /\ page \cap listed = {}
          /\ Cardinality(rows) > Limit =>
               UpTo(listed \cup page, there, PathAt(LastOf(page)))
          /\ ~ Cardinality(rows) > Limit => Whole(listed \cup page, there)
      <4>1. /\ IndexInv /\ listed \subseteq Matches(g, query, 0) /\ UpTo(listed, there, after)
            /\ there \subseteq Matches(g, query, 0)
        BY <1>0, <3>1
      <4>. HIDE DEF QueryInv
      <4>2. page \subseteq Matches(g, query, 0) /\ page \cap listed = {}
        <5>1. \A i \in PageOf(Matches(g, query, after)) :
                 i \in Matches(g, query, 0) /\ i \notin listed
          BY ONLY <4>1, NextPage, ZenonT(20)
        <5>. QED BY <2>3, <5>1
      <4>3. /\ Cardinality(rows) > Limit =>
                 UpTo(listed \cup page, there, PathAt(LastOf(page)))
            /\ ~ Cardinality(rows) > Limit => Whole(listed \cup page, there)
        <5>1. /\ Cardinality(Matches(g, query, after)) > Limit =>
                   UpTo(listed \cup PageOf(Matches(g, query, after)), there,
                        PathAt(LastOf(PageOf(Matches(g, query, after)))))
              /\ ~ Cardinality(Matches(g, query, after)) > Limit =>
                   Whole(listed \cup PageOf(Matches(g, query, after)), there)
          BY ONLY <4>1, NextPage
        <5>. QED BY <2>3, <5>1
      <4>. QED BY <4>2, <4>3, <2>3
    <3>3. cursor # NoCursor => UpTo(listed \cup page, there, cursor.after)
      BY <3>2, <2>5
    <3>4. state = "ended" => Whole(listed \cup page, there)
      BY <3>2, <2>5
    <3>5. PICK all : all = listed \cup page
      OBVIOUS
    <3>6. /\ cursor # NoCursor => UpTo(all, there, cursor.after)'
          /\ state = "ended" => Whole(all, there)'
          /\ all \subseteq Matches(g, query, 0)' /\ there \subseteq Matches(g, query, 0)'
      BY <1>0, <1>5, <1>g, <2>10, <3>1, <3>2, <3>3, <3>4, <3>5 DEF UpTo, Whole, PathAt
    <3>7. \A m, n \in DOMAIN walk'.pages : m # n => walk'.pages[m] \cap walk'.pages[n] = {}
      <4>1. \A m \in DOMAIN pages : pages[m] \cap page = {}
        BY <2>4, <3>2 DEF Listed, ToSet
      <4>2. \A m \in DOMAIN Append(pages, page) :
               \/ m \in DOMAIN pages /\ Append(pages, page)[m] = pages[m]
               \/ m = Len(pages) + 1 /\ Append(pages, page)[m] = page
        BY <2>8
      <4>. QED BY <4>1, <4>2, <3>1, <2>7
    <3>8. cursor # NoCursor => cursor.gen = g /\ cursor.query = query /\ state = "walking"
      BY <2>5
    <3>. QED BY <1>0, <1>5, <2>6, <2>7, <2>9, <2>10, <2>c, <3>5, <3>6, <3>7, <3>8 DEF FindInv
  <2>11. CASE g # current
    <3>1. cursor # NoCursor => cursor.gen = g /\ cursor.query = query /\ state = "walking"
      BY <2>5
    <3>. QED BY <1>0, <1>5, <2>6, <2>7, <2>11, <2>c, <3>1 DEF FindInv
  <2>. QED BY <2>10, <2>11
<1>. QED BY <1>0, <1>1, <1>2, <1>4, <1>5, OtherWalks

(* A client of find_filtered that follows its cursors to the end of the     *)
(* active generation has every path that matched when it began, only rows   *)
(* that match and no row twice, whatever the page size, however rows of one *)
(* path fall on its pages, and whatever is committed between them.          *)
THEOREM FindIsWhole == QueriesSpec => []FindReachesEveryPath
<1>1. QueriesInit => FindInv
    BY QueryStoreAssumption DEF QueriesInit, IndexInit, QueryInit, NoCall, NoCursor, FindInv
<1>2. QueryInv /\ FindInv /\ [QueriesNext]_queriesVars => FindInv'
    BY FindMoves
<1>3. FindInv => FindReachesEveryPath
  <2>. SUFFICES ASSUME FindInv, walk.state = "ended", walk.gen = current
                PROVE  FindReachesEveryPath
    BY DEF FindReachesEveryPath
  <2>1. /\ Listed \subseteq Matches(walk.gen, walk.query, 0)
        /\ \A m, n \in DOMAIN walk.pages : m # n => walk.pages[m] \cap walk.pages[n] = {}
        /\ \A j \in walk.there : \E i \in Listed : PathAt(i) = PathAt(j)
    BY DEF FindInv, Whole
  <2>. QED BY <2>1 DEF FindReachesEveryPath, Listed, PathAt, Matches
<1>. QED BY <1>1, <1>2, <1>3, QueryInvHolds, PTL DEF QueriesSpec

-----------------------------------------------------------------------------
(* Trace and its flags.                                                     *)
(* A row that a trace must have: it crosses a reference in a direction and  *)
(* was stored when the trace began.                                         *)
Concerns(c, i, way, ref) ==
    store.rels[i].commit <= c.since /\ Crosses(c.gen, store.rels[i], way, ref, c.resolved)

(* A row that a statement may return.                                       *)
Joins(c, i, way, ref) ==
    IF way = "out" THEN store.rels[i].from = ref ELSE Target(store.rels[i], c.resolved) = ref

(* A row that a trace has, with both its ends.                              *)
Traced(c, i) ==
    LET r == store.rels[i]
    IN  /\ r.from \in c.visited /\ Target(r, c.resolved) \in c.visited
        /\ \E k \in DOMAIN c.edges : c.edges[k].from = r.from /\ c.edges[k].to = Target(r, c.resolved)

(* A row it still meets: its reference is queued, or at work with this      *)
(* direction to do or this row fetched.                                     *)
Ahead(c, i, way, ref) ==
    \/ \E k \in DOMAIN c.queue : c.queue[k].ref = ref
    \/ c.at.ref = ref /\ way \in c.todo
    \/ c.at.ref = ref /\ way = c.along /\ i \in c.rows

Unflagged(c) == c.stable /\ ~ c.byDepth /\ ~ c.byRecords

(* A trace loses no row in silence: as long as no flag is set and no        *)
(* activation met a statement, each row that concerns a visited reference   *)
(* is an edge or ahead.                                                     *)
Tracks(c) ==
    /\ c.todo \subseteq c.way /\ c.at.ref \in c.visited
    /\ \A k \in DOMAIN c.queue : c.queue[k].ref \in c.visited /\ c.queue[k].depth < c.deepest
    /\ \A i \in c.rows : Joins(c, i, c.along, c.at.ref)
    /\ Unflagged(c) =>
         \A ref \in c.visited, way \in c.way, i \in DOMAIN store.rels :
            Concerns(c, i, way, ref) => Traced(c, i) \/ Ahead(c, i, way, ref)

(* Its question stays.                                                      *)
SameTask(d, c) ==
    /\ d.gen = c.gen /\ d.since = c.since /\ d.deepest = c.deepest
    /\ d.way = c.way /\ d.resolved = c.resolved

LEMMA SameConcerns ==
    ASSUME NEW c, NEW d, SameTask(d, c)
    PROVE  \A i, way, ref : /\ Concerns(d, i, way, ref) <=> Concerns(c, i, way, ref)
                            /\ Joins(d, i, way, ref) <=> Joins(c, i, way, ref)
BY DEF SameTask, Concerns, Joins

(* Taking the next reference.                                               *)
LEMMA VisitTracks ==
    ASSUME NEW c \in Tracing, NEW d \in Tracing, Tracks(c),
           c.todo = {}, c.rows = {}, c.queue # <<>>,
           SameTask(d, c), d.visited = c.visited, d.edges = c.edges,
           d.along = c.along, d.rows = c.rows, d.stable = c.stable, d.byDepth = c.byDepth,
           \/ d.byRecords /\ d.queue = <<>> /\ d.at = c.at /\ d.todo = {}
           \/ d.byRecords = c.byRecords /\ d.queue = Tail(c.queue) /\ d.at = Head(c.queue)
              /\ d.todo = c.way
    PROVE  Tracks(d)
<1>. USE DEF SameTask
<1>1. CASE d.byRecords /\ d.queue = <<>> /\ d.at = c.at /\ d.todo = {}
    BY <1>1 DEF Tracks, Unflagged
<1>2. CASE d.byRecords = c.byRecords /\ d.queue = Tail(c.queue) /\ d.at = Head(c.queue)
           /\ d.todo = c.way
  <2>1. /\ c.queue \in Seq(Reference) /\ 1 \in DOMAIN c.queue /\ d.at = c.queue[1]
        /\ \A k \in DOMAIN c.queue : k # 1 => k - 1 \in DOMAIN d.queue /\ d.queue[k - 1] = c.queue[k]
        /\ \A k \in DOMAIN d.queue : k + 1 \in DOMAIN c.queue /\ d.queue[k] = c.queue[k + 1]
    BY <1>2 DEF Tracing
  <2>2. /\ d.todo \subseteq d.way /\ d.at.ref \in d.visited /\ d.rows = {}
        /\ \A k \in DOMAIN d.queue : d.queue[k].ref \in d.visited /\ d.queue[k].depth < d.deepest
    BY <1>2, <2>1 DEF Tracks
  <2>3. ASSUME Unflagged(d), NEW ref \in d.visited, NEW way \in d.way, NEW i \in DOMAIN store.rels,
               Concerns(d, i, way, ref)
        PROVE  Traced(d, i) \/ Ahead(d, i, way, ref)
    <3>1. Traced(c, i) \/ Ahead(c, i, way, ref)
      BY <1>2, <2>3, SameConcerns DEF Tracks, Unflagged
    <3>2. CASE Traced(c, i)
      BY <3>2 DEF Traced
    <3>3. CASE Ahead(c, i, way, ref)
      <4>1. PICK k \in DOMAIN c.queue : c.queue[k].ref = ref
        BY <3>3 DEF Ahead
      <4>2. CASE k = 1
        BY <1>2, <2>1, <4>1, <4>2 DEF Ahead
      <4>3. CASE k # 1
        BY <2>1, <4>1, <4>3 DEF Ahead
      <4>. QED BY <4>2, <4>3
    <3>. QED BY <3>1, <3>2, <3>3
  <2>. QED BY <2>2, <2>3 DEF Tracks
<1>. QED BY <1>1, <1>2

(* Fetching the rows of a direction.                                        *)
LEMMA RowsTrack ==
    ASSUME NEW c \in Tracing, NEW d \in Tracing, Tracks(c), c.rows = {},
           SameTask(d, c), d.visited = c.visited, d.edges = c.edges,
           d.byDepth = c.byDepth, d.byRecords = c.byRecords, d.queue = c.queue, d.at = c.at,
           d.stable => c.stable, d.todo = c.todo \ {d.along},
           \A i \in d.rows : Joins(d, i, d.along, d.at.ref),
           d.stable => \A i \in DOMAIN store.rels :
                          Concerns(d, i, d.along, d.at.ref) => i \in d.rows
    PROVE  Tracks(d)
<1>. USE DEF SameTask
<1>1. /\ d.todo \subseteq d.way /\ d.at.ref \in d.visited
      /\ \A k \in DOMAIN d.queue : d.queue[k].ref \in d.visited /\ d.queue[k].depth < d.deepest
    BY DEF Tracks
<1>2. ASSUME Unflagged(d), NEW ref \in d.visited, NEW way \in d.way, NEW i \in DOMAIN store.rels,
             Concerns(d, i, way, ref)
      PROVE  Traced(d, i) \/ Ahead(d, i, way, ref)
  <2>1. Traced(c, i) \/ Ahead(c, i, way, ref)
    BY <1>2, SameConcerns DEF Tracks, Unflagged
  <2>2. CASE Traced(c, i)
    BY <2>2 DEF Traced
  <2>3. CASE Ahead(c, i, way, ref)
    <3>1. CASE c.at.ref = ref /\ way = d.along
      BY <1>2, <3>1 DEF Ahead, Unflagged
    <3>. QED BY <2>3, <3>1 DEF Ahead
  <2>. QED BY <2>1, <2>2, <2>3
<1>. QED BY <1>1, <1>2 DEF Tracks

(* Following a row.                                                         *)
LEMMA FollowTracks ==
    ASSUME NEW c \in Tracing, NEW d \in Tracing, Tracks(c), NEW row \in c.rows,
           NEW e \in Edge, NEW n \in Nat,
           SameTask(d, c), d.at = c.at, d.todo = c.todo,
           d.along = c.along, d.stable = c.stable, d.byRecords = c.byRecords,
           d.rows = c.rows \ {row}, d.edges = Append(c.edges, e), d.visited = c.visited \cup {n},
           IF n \notin c.visited /\ e.depth < c.deepest
           THEN d.queue = Append(c.queue, [ref |-> n, depth |-> e.depth]) ELSE d.queue = c.queue,
           n \notin c.visited /\ e.depth >= c.deepest => d.byDepth, c.byDepth => d.byDepth,
           IF c.along = "out" THEN e.from = c.at.ref /\ e.to = n /\ n = Target(store.rels[row], c.resolved)
           ELSE e.from = n /\ e.to = c.at.ref /\ n = store.rels[row].from
    PROVE  Tracks(d)
<1>. USE DEF SameTask
<1>0. c.queue \in Seq(Reference) /\ c.edges \in Seq(Edge) /\ e.depth \in Nat /\ c.deepest \in Nat
    BY DEF Tracing, Edge
<1>1. /\ \A k \in DOMAIN c.edges : k \in DOMAIN d.edges /\ d.edges[k] = c.edges[k]
      /\ \E k \in DOMAIN d.edges : d.edges[k] = e
    BY ONLY <1>0, e \in Edge, d.edges = Append(c.edges, e), Appended
<1>2. /\ \A k \in DOMAIN c.queue : k \in DOMAIN d.queue /\ d.queue[k] = c.queue[k]
      /\ \A k \in DOMAIN d.queue : \/ k \in DOMAIN c.queue /\ d.queue[k] = c.queue[k]
                                   \/ d.queue[k].ref = n /\ d.queue[k].depth < c.deepest
      /\ (n \notin c.visited /\ e.depth < c.deepest) => \E k \in DOMAIN d.queue : d.queue[k].ref = n
  <2>1. CASE n \notin c.visited /\ e.depth < c.deepest
    <3>1. d.queue = Append(c.queue, [ref |-> n, depth |-> e.depth])
      BY <2>1
    <3>2. PICK q \in Reference : q = [ref |-> n, depth |-> e.depth]
      BY <1>0 DEF Reference
    <3>3. d.queue = Append(c.queue, q) /\ q.ref = n /\ q.depth = e.depth
      BY <3>1, <3>2
    <3>4. /\ \A k \in DOMAIN c.queue : k \in DOMAIN d.queue /\ d.queue[k] = c.queue[k]
          /\ \A k \in DOMAIN d.queue : (k \in DOMAIN c.queue /\ d.queue[k] = c.queue[k]) \/ d.queue[k] = q
          /\ \E k \in DOMAIN d.queue : d.queue[k] = q
      <4>1. c.queue \in Seq(Reference) /\ q \in Reference /\ d.queue = Append(c.queue, q)
        BY <1>0, <3>3
      <4>. QED BY ONLY <4>1, Appended
    <3>. QED BY <2>1, <3>3, <3>4
  <2>2. CASE ~ (n \notin c.visited /\ e.depth < c.deepest)
    BY <2>2
  <2>. QED BY <2>1, <2>2
<1>3. /\ d.todo \subseteq d.way /\ d.at.ref \in d.visited
      /\ \A k \in DOMAIN d.queue : d.queue[k].ref \in d.visited /\ d.queue[k].depth < d.deepest
      /\ \A i \in d.rows : Joins(d, i, d.along, d.at.ref)
    BY <1>2, SameConcerns DEF Tracks
<1>4. ASSUME Unflagged(d), NEW ref \in d.visited, NEW way \in d.way, NEW i \in DOMAIN store.rels,
             Concerns(d, i, way, ref)
      PROVE  Traced(d, i) \/ Ahead(d, i, way, ref)
  <2>1. CASE ref \notin c.visited
    <3>1. ref = n /\ n \notin c.visited /\ e.depth < c.deepest
      <4>1. ref = n
        BY <2>1
      <4>2. ~ e.depth >= c.deepest
        BY <1>4, <2>1, <4>1 DEF Unflagged
      <4>. QED BY ONLY <1>0, <2>1, <4>1, <4>2
    <3>. QED BY <1>2, <3>1 DEF Ahead
  <2>2. CASE ref \in c.visited
    <3>1. Traced(c, i) \/ Ahead(c, i, way, ref)
      <4>1. Unflagged(c)
        BY <1>4 DEF Unflagged
      <4>. QED BY <1>4, <2>2, <4>1, SameConcerns DEF Tracks
    <3>2. CASE Traced(c, i)
      BY <1>1, <3>2 DEF Traced
    <3>3. CASE i = row /\ c.at.ref = ref /\ way = c.along
      <4>1. Joins(c, row, c.along, c.at.ref) /\ c.at.ref \in c.visited
        BY DEF Tracks
      <4>2. store.rels[row].from \in d.visited /\ Target(store.rels[row], c.resolved) \in d.visited
            /\ e.from = store.rels[row].from /\ e.to = Target(store.rels[row], c.resolved)
        BY <4>1 DEF Joins
      <4>. QED BY <1>1, <3>3, <4>2 DEF Traced
    <3>4. CASE Ahead(c, i, way, ref) /\ ~ (i = row /\ c.at.ref = ref /\ way = c.along)
      BY <1>2, <3>4 DEF Ahead
    <3>. QED BY <3>1, <3>2, <3>3, <3>4
  <2>. QED BY <2>1, <2>2
<1>. QED BY <1>3, <1>4 DEF Tracks

(* A statement returns rows that join, and all that concern the trace when  *)
(* its generation is the active one: what was stored stays stored.          *)
LEMMA StatementRows ==
    ASSUME IndexInv, NEW c \in Tracing, c.gen \in 1 .. committed, c.since <= committed,
           NEW ref \in Nat
    PROVE  /\ \A i \in OutRows(c.gen, ref, c.resolved) : Joins(c, i, "out", ref)
           /\ \A i \in InRows(c.gen, ref, c.resolved) : Joins(c, i, "in", ref)
           /\ current = c.gen => \A i \in DOMAIN store.rels :
                /\ Concerns(c, i, "out", ref) => i \in OutRows(c.gen, ref, c.resolved)
                /\ Concerns(c, i, "in", ref) => i \in InRows(c.gen, ref, c.resolved)
<1>1. /\ \A i \in OutRows(c.gen, ref, c.resolved) : Joins(c, i, "out", ref)
      /\ \A i \in InRows(c.gen, ref, c.resolved) : Joins(c, i, "in", ref)
    BY DEF OutRows, InRows, Joins, Target
<1>2. ASSUME current = c.gen, NEW i \in DOMAIN store.rels, NEW way, Concerns(c, i, way, ref)
      PROVE  /\ Stored(store.rels[i]) /\ Current(c.gen, store.rels[i])
             /\ c.resolved => Resolved(c.gen, store.rels[i])
  <2>1. store.rels[i].commit \in Nat /\ c.since \in Nat /\ committed \in Nat
    BY RowTypes DEF RelationRow, Tracing, IndexInv
  <2>2. store.rels[i].commit <= committed
    BY <1>2, <2>1 DEF Concerns
  <2>3. OfGeneration(store, c.gen, store.rels[i])
    BY <1>2, RowTypes DEF Concerns, Crosses, ResolvedAtCommit
  <2>. QED BY <1>2, <2>2, <2>3 DEF Stored, Current, Resolved, Concerns, Crosses
<1>3. ASSUME current = c.gen, NEW i \in DOMAIN store.rels
      PROVE  /\ Concerns(c, i, "out", ref) => i \in OutRows(c.gen, ref, c.resolved)
             /\ Concerns(c, i, "in", ref) => i \in InRows(c.gen, ref, c.resolved)
    BY <1>2, <1>3 DEF OutRows, InRows, Concerns, Crosses, Target
<1>. QED BY <1>1, <1>3

(* What following a row leaves and changes.                                 *)
LEMMA FollowChanges ==
    ASSUME call \in Tracing, NEW e \in Edge, NEW n \in Nat, NEW f, f = Follow(e, n)
    PROVE  /\ SameTask(f, call) /\ f.at = call.at
           /\ f.todo = call.todo /\ f.along = call.along /\ f.stable = call.stable
           /\ f.byRecords = call.byRecords /\ f.edges = Append(call.edges, e)
           /\ f.visited = call.visited \cup {n}
           /\ IF n \notin call.visited /\ e.depth < call.deepest
              THEN f.queue = Append(call.queue, [ref |-> n, depth |-> e.depth])
              ELSE f.queue = call.queue
           /\ n \notin call.visited /\ e.depth >= call.deepest => f.byDepth
           /\ call.byDepth => f.byDepth
<1>1. PICK deep \in BOOLEAN : deep = (call.byDepth \/ (n \notin call.visited /\ e.depth >= call.deepest))
    OBVIOUS
<1>2. PICK seen : seen = [call EXCEPT !.edges = Append(@, e), !.visited = @ \cup {n}, !.byDepth = deep]
    OBVIOUS
<1>3. /\ DOMAIN seen = DOMAIN call
      /\ SameTask(seen, call) /\ seen.at = call.at
      /\ seen.todo = call.todo /\ seen.along = call.along /\ seen.stable = call.stable
      /\ seen.byRecords = call.byRecords /\ seen.edges = Append(call.edges, e)
      /\ seen.visited = call.visited \cup {n} /\ seen.queue = call.queue /\ seen.byDepth = deep
    BY <1>2 DEF Tracing, SameTask
<1>4. f = IF n \notin call.visited /\ e.depth < call.deepest
          THEN [seen EXCEPT !.queue = Append(call.queue, [ref |-> n, depth |-> e.depth])] ELSE seen
    BY <1>1, <1>2, <1>3 DEF Follow
<1>5. CASE n \notin call.visited /\ e.depth < call.deepest
  <2>1. f = [seen EXCEPT !.queue = Append(call.queue, [ref |-> n, depth |-> e.depth])]
    BY <1>4, <1>5
  <2>2. f.queue = Append(call.queue, [ref |-> n, depth |-> e.depth])
    BY <1>3, <2>1 DEF Tracing
  <2>3. /\ SameTask(f, seen) /\ f.at = seen.at /\ f.todo = seen.todo /\ f.along = seen.along
        /\ f.stable = seen.stable /\ f.byRecords = seen.byRecords /\ f.edges = seen.edges
        /\ f.visited = seen.visited /\ f.byDepth = seen.byDepth
    BY <2>1 DEF SameTask
  <2>4. SameTask(f, call)
    BY <1>3, <2>3 DEF SameTask
  <2>5. e.depth >= call.deepest /\ n \notin call.visited => deep
    BY <1>1
  <2>. QED BY <1>1, <1>3, <1>5, <2>2, <2>3, <2>4, <2>5
<1>6. CASE ~ (n \notin call.visited /\ e.depth < call.deepest)
    BY <1>1, <1>3, <1>4, <1>6 DEF SameTask
<1>. QED BY <1>5, <1>6

(* A trace keeps its question.                                              *)
LEMMA TraceKeepsTask ==
    ASSUME IndexInv, CallInv, TraceVisit \/ TraceRows \/ TraceRow
    PROVE  SameTask(call', call)
<1>1. call \in Tracing /\ call.gen \in 1 .. committed /\ call.rows \subseteq DOMAIN store.rels
    BY StepOf DEF CallInv, TraceVisit, TraceRows, TraceRow
<1>2. CASE TraceVisit
    BY <1>1, <1>2 DEF TraceVisit, Tracing, SameTask
<1>3. CASE TraceRows
    BY <1>1, <1>3 DEF TraceRows, Tracing, SameTask
<1>4. CASE TraceRow
  <2>1. PICK i \in call.rows :
           \/ call' = [call EXCEPT !.byRecords = TRUE, !.rows = {}]
           \/ \E e \in Edge, n \in Nat : call' = [Follow(e, n) EXCEPT !.rows = @ \ {i}]
    BY <1>1, <1>4, RowSteps
  <2>2. CASE call' = [call EXCEPT !.byRecords = TRUE, !.rows = {}]
    BY <1>1, <2>2 DEF Tracing, SameTask
  <2>3. ASSUME NEW e \in Edge, NEW n \in Nat, call' = [Follow(e, n) EXCEPT !.rows = @ \ {i}]
        PROVE  SameTask(call', call)
    <3>1. PICK f \in Tracing : f = Follow(e, n)
      BY <1>1, FollowTypes
    <3>2. call' = [f EXCEPT !.rows = f.rows \ {i}]
      BY <2>3, <3>1
    <3>3. SameTask(f, call)
      BY <1>1, <3>1, FollowChanges
    <3>. QED BY <3>2, <3>3 DEF Tracing, SameTask
  <2>. QED BY <2>1, <2>2, <2>3
<1>. QED BY <1>2, <1>3, <1>4

TraceInv ==
    /\ call.step = "trace" /\ call.deepest # 0 => Tracks(call)
    /\ TraceFlagsAreHonest

(* Only the steps of a trace concern it.                                    *)
LEMMA OtherTraces ==
    ASSUME IndexInv, CallInv, PacketInv, [QueriesNext]_queriesVars
    PROVE  \/ call' = call
           \/ call'.step \notin {"trace", "done"}
           \/ call'.step = "done" /\ call'.answer.kind # "trace"
           \/ BeginTrace \/ TraceVisit \/ TraceRows \/ TraceRow \/ TraceEnd
<1>1. CASE call' = call
    BY <1>1
<1>2. CASE ImpactDependents \/ ImpactFrontier
  <2>1. call \in Impacting
    BY <1>2, StepOf DEF ImpactDependents, ImpactFrontier
  <2>2. call'.step = "impact"
    BY <1>2, <2>1 DEF ImpactDependents, ImpactFrontier, Impacting
  <2>. QED BY <2>2
<1>3. CASE BeginFind \/ BeginInspect \/ BeginImpact \/ BeginSource \/ EndCall
    BY <1>3 DEF BeginFind, BeginInspect, BeginImpact, BeginSource, EndCall, NoCall
<1>4. CASE FindRows \/ InspectFile \/ InspectSymbols \/ InspectOutbound \/ InspectInbound \/ ImpactEnd
    BY <1>4 DEF FindRows, InspectFile, InspectSymbols, InspectOutbound, InspectInbound, ImpactEnd, Finish
<1>5. CASE SourceOpen \/ SourceRead \/ SourceCheck
    BY <1>5 DEF SourceOpen, SourceRead, SourceCheck, SourceFails, Finish
<1>. QED BY <1>1, <1>2, <1>3, <1>4, <1>5 DEF QueriesNext, Querying, queriesVars, queryVars

LEMMA TraceMoves ==
    ASSUME QueryInv, TraceInv, [QueriesNext]_queriesVars
    PROVE  TraceInv'
<1>. USE QueryStoreAssumption, QueriesAssumption
<1>0. IndexInv /\ CallInv /\ PacketInv /\ store' = store
    BY WorldMoves DEF QueryInv
<1>t. ASSUME call'.step = "trace", NEW d, d = call', d.deepest # 0 => Tracks(d)
      PROVE  TraceInv'
  <2>1. d.deepest # 0 => Tracks(d)'
    BY <1>0, <1>t DEF Tracks, Concerns, Crosses, OfGeneration, Joins, Unflagged, Traced, Ahead, Target
  <2>2. call'.deepest # 0 => Tracks(call)'
    BY <1>t, <2>1
  <2>. QED BY <1>t, <2>2 DEF TraceInv, TraceFlagsAreHonest, Answered
<1>1. CASE call' = call
  <2>1. CASE call.step = "trace"
    BY <1>1, <2>1, <1>t DEF TraceInv
  <2>2. CASE call.step # "trace"
    BY <1>0, <1>1, <2>2 DEF TraceInv, TraceFlagsAreHonest, Answered, Target, Crosses, OfGeneration
  <2>. QED BY <2>1, <2>2
<1>2. CASE call'.step \notin {"trace", "done"} \/ (call'.step = "done" /\ call'.answer.kind # "trace")
    BY <1>2 DEF TraceInv, TraceFlagsAreHonest, Answered
<1>3. CASE BeginTrace
  <2>1. PICK p \in Seeds, deepest \in Depths, way \in {{"out"}, {"in"}, {"out", "in"}}, resolved \in BOOLEAN :
           call' = [step |-> "trace", gen |-> current, since |-> committed,
                    deepest |-> deepest, way |-> way, resolved |-> resolved,
                    queue |-> <<[ref |-> p, depth |-> 0]>>, visited |-> {p}, edges |-> <<>>,
                    at |-> [ref |-> p, depth |-> 0], todo |-> {}, along |-> "out", rows |-> {},
                    byDepth |-> FALSE, byRecords |-> FALSE, stable |-> TRUE]
    BY <1>3 DEF BeginTrace
  <2>2. PICK d : d = call'
    OBVIOUS
  <2>3. /\ d.visited = {p} /\ d.at.ref = p /\ d.todo = {} /\ d.rows = {} /\ d.deepest = deepest
        /\ DOMAIN d.queue = {1} /\ d.queue[1].ref = p /\ d.queue[1].depth = 0
    BY <2>1, <2>2
  <2>4. d.deepest # 0 => Tracks(d)
    <3>1. d.deepest # 0 => 0 < d.deepest
      BY <2>3
    <3>. QED BY <2>3, <3>1 DEF Tracks, Ahead
  <2>5. call'.step = "trace"
    BY <2>1
  <2>. QED BY <1>t, <2>2, <2>4, <2>5
<1>4. CASE TraceVisit \/ TraceRows \/ TraceRow
  <2>1. PICK c \in Tracing : c = call
    BY <1>0, <1>4, TraceTypes
  <2>2. PICK d \in Tracing : d = call'
    BY <1>0, <1>4, TraceTypes
  <2>3. PICK g \in 1 .. committed : g = call.gen /\ call.rows \subseteq DOMAIN store.rels
    BY <1>0, <1>4, StepOf DEF CallInv, TraceVisit, TraceRows, TraceRow
  <2>4. call'.step = "trace" /\ call.step = "trace" /\ SameTask(d, c)
    <3>1. call.step = "trace"
      BY <1>4 DEF TraceVisit, TraceRows, TraceRow
    <3>2. d.step = "trace"
      BY DEF Tracing
    <3>3. SameTask(call', call)
      BY <1>0, <1>4, TraceKeepsTask
    <3>. QED BY <2>1, <2>2, <3>1, <3>2, <3>3
  <2>5. c.deepest # 0 => Tracks(c)
    BY <2>1, <2>4 DEF TraceInv
  <2>6. SUFFICES ASSUME c.deepest # 0, Tracks(c) PROVE Tracks(d)
    BY <1>t, <2>2, <2>4, <2>5 DEF SameTask
  <2>7. CASE TraceVisit
    <3>1. c.todo = {} /\ c.rows = {} /\ c.queue # <<>>
      BY <2>1, <2>7 DEF TraceVisit
    <3>2. ~ Head(c.queue).depth >= c.deepest
      <4>1. PICK q \in Reference : q = Head(c.queue) /\ q = c.queue[1] /\ 1 \in DOMAIN c.queue
        BY <3>1 DEF Tracing
      <4>2. q.depth < c.deepest /\ q.depth \in Nat /\ c.deepest \in Nat
        BY <2>6, <4>1 DEF Tracks, Reference, Tracing
      <4>. QED BY <4>1, <4>2
    <3>3. \/ d = [c EXCEPT !.byRecords = TRUE, !.queue = <<>>]
          \/ d = [c EXCEPT !.at = Head(c.queue), !.queue = Tail(c.queue), !.todo = c.way]
      BY <2>1, <2>2, <2>7, <3>2 DEF TraceVisit
    <3>4. CASE d = [c EXCEPT !.byRecords = TRUE, !.queue = <<>>]
      <4>1. /\ d.visited = c.visited
            /\ d.edges = c.edges /\ d.along = c.along /\ d.rows = c.rows /\ d.stable = c.stable
            /\ d.byDepth = c.byDepth
            /\ d.byRecords /\ d.queue = <<>> /\ d.at = c.at /\ d.todo = {}
        BY <3>1, <3>4 DEF Tracing
      <4>. QED BY ONLY c \in Tracing, d \in Tracing, <2>4, <2>6, <3>1, <4>1, VisitTracks
    <3>5. CASE d = [c EXCEPT !.at = Head(c.queue), !.queue = Tail(c.queue), !.todo = c.way]
      <4>1. /\ d.visited = c.visited
            /\ d.edges = c.edges /\ d.along = c.along /\ d.rows = c.rows /\ d.stable = c.stable
            /\ d.byDepth = c.byDepth
            /\ d.byRecords = c.byRecords /\ d.queue = Tail(c.queue) /\ d.at = Head(c.queue)
            /\ d.todo = c.way
        BY <3>5 DEF Tracing
      <4>. QED BY ONLY c \in Tracing, d \in Tracing, <2>4, <2>6, <3>1, <4>1, VisitTracks
    <3>. QED BY <3>3, <3>4, <3>5
  <2>8. CASE TraceRows
    <3>a. PICK way \in {"out", "in"} : way = IF "out" \in call.todo THEN "out" ELSE "in"
      OBVIOUS
    <3>b. PICK rows : rows = IF way = "out" THEN OutRows(call.gen, call.at.ref, call.resolved)
                             ELSE InRows(call.gen, call.at.ref, call.resolved)
      OBVIOUS
    <3>c. PICK stable \in BOOLEAN : stable = (call.stable /\ current = call.gen)
      OBVIOUS
    <3>1. /\ d = [c EXCEPT !.todo = c.todo \ {way}, !.along = way, !.stable = stable, !.rows = rows]
          /\ stable => c.stable /\ current = g
          /\ rows = IF way = "out" THEN OutRows(g, c.at.ref, c.resolved)
                    ELSE InRows(g, c.at.ref, c.resolved)
      <4>1. call' = [call EXCEPT !.todo = call.todo \ {way}, !.along = way, !.stable = stable,
                                 !.rows = rows]
        BY <2>8, <3>a, <3>b, <3>c DEF TraceRows
      <4>2. d = [c EXCEPT !.todo = c.todo \ {way}, !.along = way, !.stable = stable, !.rows = rows]
        BY <2>1, <2>2, <4>1
      <4>3. stable => c.stable /\ current = g
        BY <2>1, <2>3, <3>c
      <4>4. rows = IF way = "out" THEN OutRows(g, c.at.ref, c.resolved)
                   ELSE InRows(g, c.at.ref, c.resolved)
        BY <2>1, <2>3, <3>b
      <4>. QED BY <4>2, <4>3, <4>4
    <3>2. /\ d.visited = c.visited
          /\ d.edges = c.edges /\ d.byDepth = c.byDepth /\ d.byRecords = c.byRecords
          /\ d.queue = c.queue /\ d.at = c.at /\ d.stable = stable /\ d.along = way
          /\ d.todo = c.todo \ {d.along} /\ d.rows = rows
      BY <3>1 DEF Tracing
    <3>3. c.at.ref \in Nat /\ c.resolved \in BOOLEAN
      BY DEF Tracing, Reference
    <3>4. /\ \A i \in rows : Joins(c, i, way, c.at.ref)
          /\ stable => \A i \in DOMAIN store.rels : Concerns(c, i, way, c.at.ref) => i \in rows
      BY <1>0, <2>1, <2>3, <2>4, <3>1, <3>3, StatementRows DEF CallInv
    <3>5. c.rows = {} /\ (d.stable => c.stable)
      BY <2>1, <2>8, <3>1, <3>2 DEF TraceRows
    <3>6. /\ \A i \in d.rows : Joins(d, i, d.along, d.at.ref)
          /\ d.stable => \A i \in DOMAIN store.rels :
                            Concerns(d, i, d.along, d.at.ref) => i \in d.rows
      BY <2>4, <3>2, <3>4, SameConcerns
    <3>. QED BY ONLY c \in Tracing, d \in Tracing, <2>4, <2>6, <3>2, <3>5, <3>6, RowsTrack
  <2>9. CASE TraceRow
    <3>1. PICK i \in call.rows :
             \/ call' = [call EXCEPT !.byRecords = TRUE, !.rows = {}]
             \/ \E e \in Edge, n \in Nat :
                   /\ call' = [Follow(e, n) EXCEPT !.rows = @ \ {i}]
                   /\ IF call.along = "out"
                      THEN /\ e.from = call.at.ref /\ e.to = n
                           /\ n = Target(store.rels[i], call.resolved)
                      ELSE /\ e.from = n /\ e.to = call.at.ref
                           /\ n = store.rels[i].from
      BY <1>0, <2>1, <2>3, <2>9, RowSteps
    <3>2. CASE call' = [call EXCEPT !.byRecords = TRUE, !.rows = {}]
      <4>1. /\ d.todo = c.todo /\ d.at = c.at /\ d.visited = c.visited
            /\ d.queue = c.queue /\ d.rows = {} /\ d.byRecords
        BY <2>1, <2>2, <3>2 DEF Tracing
      <4>. QED BY <2>4, <2>6, <4>1 DEF Tracks, Unflagged, SameTask
    <3>3. ASSUME NEW e \in Edge, NEW n \in Nat,
                 call' = [Follow(e, n) EXCEPT !.rows = @ \ {i}],
                 IF call.along = "out"
                 THEN /\ e.from = call.at.ref /\ e.to = n
                      /\ n = Target(store.rels[i], call.resolved)
                 ELSE /\ e.from = n /\ e.to = call.at.ref
                      /\ n = store.rels[i].from
          PROVE  Tracks(d)
      <4>1. PICK f \in Tracing : f = Follow(e, n) /\ f.rows = c.rows
        BY <2>1, FollowTypes
      <4>2. d = [f EXCEPT !.rows = c.rows \ {i}]
        BY <2>2, <3>3, <4>1
      <4>3. /\ f.at = c.at
            /\ f.todo = c.todo /\ f.along = c.along /\ f.stable = c.stable
            /\ f.byRecords = c.byRecords /\ f.edges = Append(c.edges, e)
            /\ f.visited = c.visited \cup {n}
            /\ IF n \notin c.visited /\ e.depth < c.deepest
               THEN f.queue = Append(c.queue, [ref |-> n, depth |-> e.depth])
               ELSE f.queue = c.queue
            /\ n \notin c.visited /\ e.depth >= c.deepest => f.byDepth
            /\ c.byDepth => f.byDepth
        BY <2>1, <4>1, FollowChanges
      <4>4. /\ d.at = f.at /\ d.todo = f.todo
            /\ d.along = f.along /\ d.stable = f.stable /\ d.byRecords = f.byRecords
            /\ d.edges = f.edges /\ d.visited = f.visited /\ d.queue = f.queue
            /\ d.byDepth = f.byDepth /\ d.rows = c.rows \ {i}
        BY <4>2 DEF Tracing
      <4>5. /\ d.at = c.at
            /\ d.todo = c.todo /\ d.along = c.along /\ d.stable = c.stable
            /\ d.byRecords = c.byRecords /\ d.edges = Append(c.edges, e)
            /\ d.visited = c.visited \cup {n} /\ d.rows = c.rows \ {i}
            /\ IF n \notin c.visited /\ e.depth < c.deepest
               THEN d.queue = Append(c.queue, [ref |-> n, depth |-> e.depth])
               ELSE d.queue = c.queue
            /\ n \notin c.visited /\ e.depth >= c.deepest => d.byDepth
            /\ c.byDepth => d.byDepth
        BY <4>3, <4>4
      <4>6. i \in c.rows
        BY <2>1
      <4>7. IF c.along = "out" THEN e.from = c.at.ref /\ e.to = n /\ n = Target(store.rels[i], c.resolved)
            ELSE e.from = n /\ e.to = c.at.ref /\ n = store.rels[i].from
        BY <2>1, <3>3
      <4>. QED BY ONLY c \in Tracing, d \in Tracing, e \in Edge, n \in Nat, <2>4, <2>6, <4>5, <4>6, <4>7,
                  FollowTracks
    <3>. QED BY <3>1, <3>2, <3>3
  <2>. QED BY <1>4, <2>7, <2>8, <2>9
<1>5. CASE TraceEnd
  <2>1. PICK c \in Tracing : c = call
    BY <1>0, <1>5, StepOf DEF TraceEnd
  <2>2. c.deepest # 0 => Tracks(c)
    BY <1>5, <2>1 DEF TraceInv, TraceEnd
  <2>3. c.todo = {} /\ c.rows = {} /\ c.queue = <<>>
    BY <1>5, <2>1 DEF TraceEnd
  <2>4. PICK a : a = [kind |-> "trace", gen |-> c.gen, since |-> c.since,
                      deepest |-> c.deepest, way |-> c.way, resolved |-> c.resolved,
                      visited |-> c.visited, edges |-> c.edges, stable |-> c.stable,
                      byDepth |-> c.byDepth, byRecords |-> c.byRecords]
    OBVIOUS
  <2>5. call' = [step |-> "done", answer |-> a]
    BY <1>5, <2>1, <2>4 DEF TraceEnd, Finish
  <2>6. ASSUME a.stable, ~ a.byDepth, ~ a.byRecords, NEW i \in DOMAIN store.rels,
               NEW way \in a.way, NEW ref \in a.visited, a.deepest # 0,
               store.rels[i].commit <= a.since, Crosses(a.gen, store.rels[i], way, ref, a.resolved)
        PROVE  /\ store.rels[i].from \in a.visited /\ Target(store.rels[i], a.resolved) \in a.visited
               /\ \E k \in DOMAIN a.edges :
                     /\ a.edges[k].from = store.rels[i].from
                     /\ a.edges[k].to = Target(store.rels[i], a.resolved)
    <3>1. Unflagged(c)
      BY <2>4, <2>6 DEF Unflagged
    <3>2. ~ Ahead(c, i, way, ref)
      BY <2>3 DEF Ahead
    <3>3. way \in c.way /\ ref \in c.visited /\ Concerns(c, i, way, ref)
      BY <2>4, <2>6 DEF Concerns
    <3>4. Tracks(c)
      BY <2>2, <2>4, <2>6
    <3>5. Traced(c, i)
      BY <3>1, <3>2, <3>3, <3>4 DEF Tracks
    <3>. QED BY <2>4, <3>5 DEF Traced
  <2>7. call'.step = "done" /\ call'.answer = a
    BY <2>5
  <2>. QED BY <1>0, <2>6, <2>7 DEF TraceInv, TraceFlagsAreHonest, Answered, Target, Crosses, OfGeneration
<1>. QED BY <1>0, <1>1, <1>2, <1>3, <1>4, <1>5, OtherTraces

(* A trace of trace_query that reports neither bound has every relationship *)
(* of what it visited that was stored when it began, for every positive     *)
(* depth, every number of records and every order in which its statements   *)
(* return their rows, whatever is committed meanwhile.                      *)
THEOREM TraceIsWhole == QueriesSpec => []TraceFlagsAreHonest
<1>1. QueriesInit => TraceInv
    BY DEF QueriesInit, QueryInit, NoCall, TraceInv, TraceFlagsAreHonest, Answered
<1>2. QueryInv /\ TraceInv /\ [QueriesNext]_queriesVars => TraceInv'
    BY TraceMoves
<1>3. TraceInv => TraceFlagsAreHonest
    BY DEF TraceInv
<1>. QED BY <1>1, <1>2, <1>3, QueryInvHolds, PTL DEF QueriesSpec
=============================================================================
