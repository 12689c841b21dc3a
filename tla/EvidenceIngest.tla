--------------------------- MODULE EvidenceIngest ---------------------------
(* From a provider's index to evidence: the decoder (scip_decoder.rs), the  *)
(* mapping of its documents (scip_mapping.rs), the facts it leaves          *)
(* (provider_persistence.rs), and the pass that resolves them and weighs    *)
(* them against each other (semantic_reconcile.rs, resolution.rs). One      *)
(* candidate generation after the other; each is one transaction.           *)
EXTENDS Integers, FiniteSets, FiniteSetsExt, Sequences, SequencesExt

CONSTANTS
    Plans,          \* <<[provider, priority, indexes], ...>>, in the cycle's order
    Texts,          \* document -> <<text of revision 1, text of revision 2, ...>>
    Scip,           \* symbol -> [local, scheme, name, plain]
    MaxDocuments, MaxOccurrences, MaxSymbols, MaxRelationships,   \* DecodeLimits
    LastGeneration  \* bound: the generations that are built

VARIABLES
    step,        \* "idle", "plans", "resolve"
    generation,  \* how many generations were begun
    files,       \* document -> its revision in the candidate, 0 = not present
    onDisk,      \* document -> the revision whose text is on disk
    next,        \* the plan that is next
    linked,      \* the extractor runs an execution is linked to
    symbols,     \* symbol_fact
    refs,        \* relationship_fact
    resolutions, \* relationship_resolution
    clusters     \* evidence_conflict

ingestVars ==
    <<step, generation, files, onDisk, next, linked, symbols, refs,
      resolutions, clusters>>

Document == DOMAIN Texts
Revision == UNION {DOMAIN Texts[d] : d \in Document}
NoPlace == -1

(***************************************************************************)
(* Decoding: a message is the sequence of its fields, <<tag, body>>         *)
(***************************************************************************)

All(message, tag) ==
    LET fields == SelectSeq(message, LAMBDA f : f[1] = tag)
    IN  [i \in DOMAIN fields |-> fields[i][2]]

(* A scalar that comes twice has its last value; an unknown one is skipped. *)
LastField(message, tag, default) ==
    IF All(message, tag) = <<>> THEN default ELSE Last(All(message, tag))

(* An unreadable field, or one more than a limit, fails the whole index.    *)
TooMany(message, tag, limit) == Len(All(message, tag)) > limit

InformationFails(information) ==
    \/ All(information, "unreadable") # <<>>
    \/ TooMany(information, "relationship", MaxRelationships)

DocumentFails(doc) ==
    \/ All(doc, "unreadable") # <<>>
    \/ TooMany(doc, "occurrence", MaxOccurrences)
    \/ TooMany(doc, "symbol", MaxSymbols)
    \/ \E i \in DOMAIN All(doc, "symbol") : InformationFails(All(doc, "symbol")[i])

DecodeFails(index) ==
    \/ All(index, "unreadable") # <<>>
    \/ TooMany(index, "document", MaxDocuments)
    \/ \E i \in DOMAIN All(index, "document") : DocumentFails(All(index, "document")[i])

(* A range is <<start line, start column, end line, end column>>; the       *)
(* deprecated packed form counts where the others say nothing.              *)
RangeOf(occurrence) ==
    LET declared == LastField(occurrence, "range", <<0, 0, 0, 0>>)
        packed == LastField(occurrence, "packed", <<>>)
    IN  IF declared # <<0, 0, 0, 0>> THEN declared
        ELSE IF Len(packed) = 3 THEN <<packed[1], packed[2], packed[1], packed[3]>>
        ELSE IF Len(packed) = 4 THEN packed ELSE <<0, 0, 0, 0>>

(***************************************************************************)
(* Mapping                                                                  *)
(***************************************************************************)

PathOf(doc) == LastField(doc, "path", "")

(* map_document_path: a path that is empty or leaves the workspace.         *)
Escapes(doc) == PathOf(doc) \in {"", "outside"}

(* canonical_symbol_key                                                     *)
KeyOf(symbol, document) ==
    IF Scip[symbol].local THEN <<"local", document, symbol>> ELSE <<"global", "", symbol>>

(* locally_defined_symbol_set: what the index has information on.           *)
InformedOf(index) ==
    UNION {{LastField(info, "symbol", "") : info \in ToSet(All(doc, "symbol"))} :
              doc \in ToSet(All(index, "document"))}

KindOf(index, symbol) ==
    IF symbol \in InformedOf(index) \/ Scip[symbol].local THEN "symbol" ELSE "external"

Named(doc) ==
    {o \in ToSet(All(doc, "occurrence")) : LastField(o, "symbol", "") # ""}

Roles(occurrence) == LastField(occurrence, "roles", {})

DefinitionsOf(doc) ==
    {[symbol |-> LastField(o, "symbol", ""), range |-> RangeOf(o)] :
        o \in {x \in Named(doc) : "definition" \in Roles(x)}}

(* Every occurrence is a reference, an import as well where its role says   *)
(* so.                                                                      *)
Occurring(index, doc, type, o) ==
    [type |-> type, source |-> PathOf(doc), by |-> "path", target |-> LastField(o, "symbol", ""),
     kind |-> KindOf(index, LastField(o, "symbol", "")), at |-> SubSeq(RangeOf(o), 1, 2)]

(* What a symbol says of another one has no place of its own.               *)
Related(index, info, type, rel) ==
    [type |-> type, source |-> LastField(info, "symbol", ""), by |-> "symbol",
     target |-> LastField(rel, "symbol", ""), kind |-> KindOf(index, LastField(rel, "symbol", "")),
     at |-> <<-1, -1>>]

RelatedOf(index, info) ==
    UNION {{Related(index, info, type, rel) :
               rel \in {x \in ToSet(All(info, "relationship")) : type \in Roles(x)}} :
           type \in {"implements", "type_definition", "defined_by"}}

Mapped(index, doc) ==
    {Occurring(index, doc, "references", o) : o \in Named(doc)}
    \union {Occurring(index, doc, "imports", o) : o \in {x \in Named(doc) : "import" \in Roles(x)}}
    \union UNION {RelatedOf(index, info) : info \in ToSet(All(doc, "symbol"))}

(***************************************************************************)
(* Facts                                                                    *)
(***************************************************************************)

(* A line is [chars, ending]: a character <<bytes, UTF-16 units>>, and the  *)
(* bytes of the line's end.                                                 *)
SumOf(seq) == FoldLeft(LAMBDA a, b : a + b, 0, seq)
Bytes(chars) == SumOf([i \in DOMAIN chars |-> chars[i][1]])
Units(chars, encoding) ==
    SumOf([i \in DOMAIN chars |->
        CASE encoding = "utf8" -> chars[i][1] [] encoding = "utf16" -> chars[i][2] [] OTHER -> 1])

BytesBefore(text, line) ==
    SumOf([i \in 1 .. line |-> Bytes(text[i].chars) + text[i].ending])

(* Mutant: the column counts characters, whatever the encoding.             *)
MutByteOffset(text, line, column, encoding) ==
    IF line \notin 0 .. Len(text) - 1 \/ column \notin 0 .. Len(text[line + 1].chars) THEN NoPlace
    ELSE BytesBefore(text, line) + Bytes(SubSeq(text[line + 1].chars, 1, column))

(* byte_offset_for_units: a column inside a character, or past the line's   *)
(* end, is no place; nor is any but the first where the encoding is not     *)
(* known.                                                                   *)
WithinLine(chars, column, encoding) ==
    LET ends == {n \in 0 .. Len(chars) : Units(SubSeq(chars, 1, n), encoding) = column}
    IN  IF ends = {} \/ (column > 0 /\ encoding \notin {"utf8", "utf16", "utf32"}) THEN NoPlace
        ELSE Bytes(SubSeq(chars, 1, Min(ends)))

(* scip_position_to_byte_offset: after the last line ending the text may    *)
(* also be left.                                                            *)
ByteOffset(text, line, column, encoding) ==
    LET inside == WithinLine(text[line + 1].chars, column, encoding)
        isEnd == line > 0 /\ column = 0 /\ text[line].ending > 0
    IN  IF line \notin 0 .. Len(text) \/ column < 0 THEN NoPlace
        ELSE IF line = Len(text) THEN (IF isEnd THEN BytesBefore(text, line) ELSE NoPlace)
        ELSE IF inside = NoPlace THEN NoPlace ELSE BytesBefore(text, line) + inside

(* Only scip-typescript may leave its encoding out.                         *)
EncodingOf(plan, doc) ==
    LET declared == LastField(doc, "encoding", "unspecified")
    IN  IF declared = "unspecified" /\ plan.provider = "scip-typescript" THEN "utf16" ELSE declared

(* ensure_semantic_extractor_run: one per revision and provider.            *)
RunOf(plan, document) == <<plan.provider, document, files[document]>>

(* record_semantic_symbol_fact: a span that is not in the text is skipped.  *)
SemanticSymbolFacts(plan, doc) ==
    LET text == Texts[PathOf(doc)][onDisk[PathOf(doc)]]
        encoding == EncodingOf(plan, doc)
        rows == {[run |-> RunOf(plan, PathOf(doc)), key |-> KeyOf(d.symbol, PathOf(doc)),
                  range |-> d.range, encoding |-> encoding, saw |-> onDisk[PathOf(doc)],
                  start |-> ByteOffset(text, d.range[1], d.range[2], encoding),
                  end |-> ByteOffset(text, d.range[3], d.range[4], encoding)] :
                     d \in DefinitionsOf(doc)}
    IN  {r \in rows : r.start # NoPlace /\ r.end # NoPlace /\ r.end >= r.start}

StoredType(type) == IF type \in {"type_definition", "defined_by"} THEN "other" ELSE type

(* record_semantic_relationship_fact                                        *)
RefFacts(plan, index, doc) ==
    {[run |-> RunOf(plan, PathOf(doc)), type |-> StoredType(m.type), source |-> m.source,
      by |-> m.by, target |-> m.target, kind |-> m.kind, at |-> m.at, said |-> m.type] :
        m \in Mapped(index, doc)}

(* INSERT OR IGNORE: what their ids are made of, and one row of each id.    *)
RowId(r) == IF "key" \in DOMAIN r THEN <<r.run, r.key, r.start, r.end>>
            ELSE <<r.run, r.type, r.source, r.target, r.at>>

Inserted(table, rows) ==
    LET ids == {RowId(r) : r \in rows} \ {RowId(t) : t \in table}
    IN  table \union {CHOOSE r \in rows : RowId(r) = id : id \in ids}

(* Documents of the index that are present in the candidate; a partial one  *)
(* leaves no facts.                                                         *)
PresentDocuments(index) ==
    {doc \in ToSet(All(index, "document")) :
        ~Escapes(doc) /\ PathOf(doc) \in Document /\ files[PathOf(doc)] # 0}

(***************************************************************************)
(* The resolution pass                                                      *)
(***************************************************************************)

(* The facts of the candidate's revisions.                                  *)
InCandidate(run) == files[run[2]] = run[3]
Visible == {r \in refs : InCandidate(r.run) /\ r.run \in linked}

SymbolRows == {<<s.key, s.run[2]>> : s \in {x \in symbols : InCandidate(x.run)}}

DefinedKeys == {row[1] : row \in SymbolRows}

(* The key a target is looked up by: an external one keeps its raw name,    *)
(* and a local one is of the source, if that is a path.                     *)
TargetKey(r) ==
    IF r.kind = "external" THEN <<"raw", "", r.target>>
    ELSE KeyOf(r.target, IF r.by = "path" THEN r.source ELSE "")

(* The last segment of a key: that of a name which ends in punctuation is   *)
(* empty, while the one it is looked up with is trimmed.                    *)
NameOfKey(key) == IF Scip[key[3]].plain THEN Scip[key[3]].name ELSE ""

Homonyms(r) == {row \in SymbolRows : NameOfKey(row[1]) = Scip[r.target].name}

(* resolve_relationship                                                     *)
Outcome(r) ==
    IF TargetKey(r) \in DefinedKeys THEN
        [status |-> "resolved_symbol", reason |-> "exact_canonical_symbol", target |-> TargetKey(r)]
    ELSE IF r.type = "implements" /\ r.kind = "symbol" THEN
        [status |-> "resolved_symbol", reason |-> "alias_or_reexport", target |-> TargetKey(r)]
    ELSE IF r.kind = "external" THEN
        [status |-> "external", reason |-> "scip_external_symbol", target |-> TargetKey(r)]
    ELSE IF Cardinality(Homonyms(r)) > 1 THEN
        [status |-> "ambiguous", reason |-> "multiple_valid_targets", target |-> <<>>]
    ELSE [status |-> "unresolved", reason |-> "missing_document", target |-> <<>>]

(* record_relationship_resolution                                           *)
ResolutionOf(r) ==
    LET outcome == Outcome(r)
    IN  [generation |-> generation, fact |-> r, status |-> outcome.status,
         reason |-> outcome.reason, target |-> outcome.target]

(* preference_key                                                           *)
PriorityOf(r) == (CHOOSE p \in ToSet(Plans) : p.provider = r.run[1]).priority
PreferredOf(facts) ==
    CHOOSE r \in facts : \A other \in facts : PriorityOf(other) <= PriorityOf(r)

(* The clusters: by type, source, and the first word of the target.         *)
ClusterKey(r) == <<r.type, r.source, Scip[r.target].scheme>>

(* project_cluster, persist_cluster_outcome                                 *)
ClusterOf(key) ==
    LET facts == {r \in Visible : ClusterKey(r) = key}
        targets == {Outcome(r).target : r \in facts} \ {<<>>}
    IN  [generation |-> generation, key |-> key, facts |-> facts, preferred |-> PreferredOf(facts),
         status |-> IF Cardinality(targets) > 1 THEN "conflict" ELSE "corroborated"]

(***************************************************************************)
(* Actions                                                                  *)
(***************************************************************************)

(* There is a plan, an index has places made of numbers, and a text is its  *)
(* lines.                                                                   *)
ASSUME IngestAssumption ==
    /\ Len(Plans) \in Nat \ {0} /\ DOMAIN Plans = 1 .. Len(Plans)
    /\ \A i \in DOMAIN Plans :
          /\ Plans[i].priority \in Int
          /\ \A index \in Plans[i].indexes : \A doc \in ToSet(All(index, "document")) :
                \A o \in ToSet(All(doc, "occurrence")) : \A k \in 1 .. 4 : RangeOf(o)[k] \in Int
    /\ \A d \in Document : Texts[d] # <<>> /\ Texts[d] \in Seq(Seq([chars : Seq(Nat \X Nat), ending : Nat]))

IngestInit ==
    /\ step = "idle" /\ generation = 0 /\ next = 0
    /\ files = [d \in Document |-> 0]
    /\ onDisk = [d \in Document |-> 1]
    /\ linked = {} /\ symbols = {} /\ refs = {} /\ resolutions = {} /\ clusters = {}

(* The scan hashed what is on disk, and found some of the documents.        *)
BeginBuild ==
    /\ step = "idle" /\ generation < LastGeneration
    /\ generation' = generation + 1
    /\ \E found \in SUBSET Document :
          files' = [d \in Document |-> IF d \in found THEN onDisk[d] ELSE 0]
    /\ step' = "plans" /\ next' = 1
    /\ UNCHANGED <<onDisk, linked, symbols, refs, resolutions,
                   clusters>>

EditDocument(d) ==
    /\ onDisk[d] < Len(Texts[d])
    /\ onDisk' = [onDisk EXCEPT ![d] = @ + 1]
    /\ UNCHANGED <<step, generation, files, next, linked, symbols, refs, resolutions,
                   clusters>>

Advance ==
    /\ next' = next + 1
    /\ step' = IF next = Len(Plans) THEN "resolve" ELSE "plans"
    /\ UNCHANGED <<generation, files, onDisk, resolutions, clusters>>

(* A plan that is reused, unavailable or failed leaves the facts there are. *)
KeepEvidence ==
    /\ step = "plans"
    /\ Advance
    /\ UNCHANGED <<linked, symbols, refs>>

RejectIndex ==
    /\ step = "plans"
    /\ \E index \in Plans[next].indexes : DecodeFails(index)
    /\ Advance
    /\ UNCHANGED <<linked, symbols, refs>>

IngestIndex ==
    /\ step = "plans"
    /\ \E index \in Plans[next].indexes :
          LET plan == Plans[next]
              docs == PresentDocuments(index)
          IN  /\ ~DecodeFails(index)
              /\ linked' = linked \union {RunOf(plan, PathOf(doc)) : doc \in docs}
              /\ symbols' = Inserted(symbols, UNION {SemanticSymbolFacts(plan, doc) : doc \in docs})
              /\ refs' = Inserted(refs, UNION {RefFacts(plan, index, doc) : doc \in docs})
    /\ Advance

(* run_resolution_pass                                                      *)
RunResolutionPass ==
    /\ step = "resolve"
    /\ resolutions' = resolutions \union {ResolutionOf(r) : r \in Visible}
    /\ clusters' = clusters \union {ClusterOf(key) : key \in {ClusterKey(r) : r \in Visible}}
    /\ step' = "idle"
    /\ UNCHANGED <<generation, files, onDisk, next, linked, symbols, refs>>

IngestNext ==
    \/ BeginBuild \/ KeepEvidence \/ RejectIndex \/ IngestIndex \/ RunResolutionPass
    \/ \E d \in Document : EditDocument(d)

IngestSpec == IngestInit /\ [][IngestNext]_ingestVars

(***************************************************************************)
(* Properties                                                               *)
(***************************************************************************)

(* The byte where a position of a text is, by counting from its start.      *)
PlaceOf(text, l, n, encoding) ==
    <<l - 1, Units(SubSeq(text[l].chars, 1, n), encoding),
      BytesBefore(text, l - 1) + Bytes(SubSeq(text[l].chars, 1, n))>>

Places(text, encoding) ==
    (UNION {{PlaceOf(text, l, n, encoding) : n \in 0 .. Len(text[l].chars)} : l \in DOMAIN text})
    \union {<<Len(text), 0, BytesBefore(text, Len(text))>>}

Built == step = "idle" /\ generation > 0

(* What was persisted stands on the sources: a symbol's span is at its      *)
(* position in the text that was read, never inside a character; after a    *)
(* build every visible reference has one resolution, by key to a symbol of  *)
(* the same generation wherever there is one, and is in one cluster whose   *)
(* preferred fact no other outranks. An edit, a rejected index or a         *)
(* document that left must not leave a stale one (resolution.rs:126-260).   *)
EvidenceIsBacked ==
    /\ \A s \in symbols :
          LET places == Places(Texts[s.run[2]][s.saw], s.encoding)
          IN  /\ <<s.range[1], s.range[2], s.start>> \in places
              /\ <<s.range[3], s.range[4], s.end>> \in places
    /\ Built =>
          \A r \in Visible :
             LET rows == {x \in resolutions : x.generation = generation /\ x.fact = r}
                 within == {c \in clusters : c.generation = generation /\ r \in c.facts}
             IN  /\ Cardinality(rows) = 1 /\ Cardinality(within) = 1
                 /\ \A x \in rows :
                       x.reason = "exact_canonical_symbol" <=>
                          \E s \in symbols : s.key = TargetKey(r) /\ files[s.run[2]] = s.run[3]
                 /\ \A c \in within : \A other \in c.facts : PriorityOf(other) <= PriorityOf(c.preferred)
=============================================================================
