----------------------------- MODULE ServingPlane ---------------------------
(* The serving plane: projections of the active generation's facts, built   *)
(* once per generation under the writer lease; the reader that takes a      *)
(* projection only when it says what the facts say; and the paged status of *)
(* all projections.                                                         *)
EXTENDS EvidenceStore

CONSTANTS
    GenKey,         \* generation -> its id's place in the order of ids (a hash)
    RowLimit,       \* relationships a reader asks for
    PageLimit       \* projections on a status page

ASSUME ServingAssumption ==
    /\ GenKey \in [1 .. MaxGens -> Nat \ {0}]
    /\ RowLimit \in Nat \ {0}
    /\ PageLimit \in Nat \ {0}

VARIABLES
    serving,    \* serving_generation and its rows, in rowid order
    build,      \* a running build: [gen, print, alone, since]
    reader,     \* a ServingReader at work on one read
    pager       \* a client walking serving_status_page

servingVars == <<serving, build, reader, pager>>

-----------------------------------------------------------------------------
(* The preferred fact of a symbol: semantic before structural, then by id.  *)
Preferred(fs) ==
    CHOOSE f \in fs : \A e \in fs \ {f} :
        \/ f.by # Structural /\ e.by = Structural
        \/ (f.by = Structural <=> e.by = Structural) /\ FactId(f) < FactId(e)

(* One card per symbol of the facts fs of a generation.                     *)
Cards(fs) ==
    [key \in {f.doc : f \in fs} |-> Preferred({f \in fs : f.doc = key})]

(* A relationship as it is served: resolved by the generation's resolution  *)
(* row if it has one, unresolved otherwise.                                 *)
Edge(g, f) ==
    LET to == IF f \in DOMAIN gens[g].resolved THEN gens[g].resolved[f] ELSE None
    IN  [fact |-> f, to |-> to, resolved |-> to # None]

Edges(g, fs) == {Edge(g, f) : f \in fs}

(* coverage_record of a generation folded by provider, and the unresolved   *)
(* relationships on the workspace's row.                                    *)
Rollup(g) ==
    [complete |-> gens[g].ran, failed |-> Provider \ gens[g].ran,
     unresolved |-> Cardinality({f \in DOMAIN gens[g].resolved : gens[g].resolved[f] = None})]

(* compute_build_input_metrics: the facts current_file joins.               *)
SourceFacts(g) == IF IsCurrent(g) THEN FactsOf(g, facts) ELSE {}

(* stored row of a generation; None when it has no projection.              *)
RowOf(g) == LET rows == {i \in DOMAIN serving : serving[i].gen = g}
            IN  IF rows = {} THEN None ELSE Max(rows)

ServingInit ==
    /\ serving = <<>>
    /\ build = Idle
    /\ reader = Idle
    /\ pager = Idle

(* build_serving_generation: the generation is read, and whether the        *)
(* command has the lease to itself is kept as history, ...                  *)
BeginServingBuild ==
    /\ active # None
    /\ Acquire("serving")
    /\ build' = [step |-> "begun", gen |-> active, alone |-> working = {}, since |-> overruns']
    /\ UNCHANGED <<tree, edits, gens, active, facts, recon, serving, reader, pager>>

(* ... then the fingerprint of its facts ...                                *)
ScanFacts ==
    /\ build.step = "begun"
    /\ build' = [step |-> "scanned", gen |-> build.gen, alone |-> build.alone,
                 since |-> build.since, print |-> SourceFacts(build.gen)]
    /\ UNCHANGED <<storeVars, serving, reader, pager>>

(* Nothing but this build has worked under the lease since it began.        *)
BuiltAlone == build.alone /\ overruns = build.since

(* ... and a ready projection is returned, or refused when its facts were   *)
(* others; else cards, edges and rollups are written in one transaction.            *)
FinishServingBuild ==
    /\ build.step = "scanned"
    /\ LET existing == RowOf(build.gen)
           found == SourceFacts(build.gen)
       IN  IF existing # None
           THEN /\ build' = [step |-> IF serving[existing].print = build.print
                                      THEN "hit" ELSE "inconsistent"]
                /\ UNCHANGED serving
           ELSE /\ serving' = Append(serving,
                     [gen |-> build.gen, print |-> build.print, alone |-> BuiltAlone,
                      cards |-> Cards(found), edges |-> Edges(build.gen, found), rollup |-> Rollup(build.gen)])
                /\ build' = [step |-> "built"]
    /\ Release("serving")
    /\ UNCHANGED <<tree, edits, gens, active, facts, recon, reader, pager>>

AbortServingBuild ==
    /\ "serving" \in working
    /\ Release("serving")
    /\ build' = Idle
    /\ UNCHANGED <<tree, edits, gens, active, facts, recon, serving, reader, pager>>

-----------------------------------------------------------------------------
(* Resolved relationships first, then by fact id.                           *)
Before(x, y) ==
    \/ x.resolved /\ ~ y.resolved
    \/ (x.resolved <=> y.resolved) /\ FactId(x.fact) < FactId(y.fact)

(* The first n in that order: what is read in order is the set of its rows. *)
First(n, es) == {e \in es : Cardinality({x \in es : Before(x, e)}) < n}

(* One row more than asked for, to see that there are more.                 *)
FetchLimit == RowLimit + 1

(* The slices of a symbol's relationships: those it is the source of and    *)
(* those resolved to it.                                                    *)
Outbound(es, key, filter) == First(FetchLimit, {e \in es : filter.callees /\ e.fact.doc = key})
Inbound(es, key, filter) == First(FetchLimit, {e \in es : filter.callers /\ e.to = key})

(* merge_relationship_slices: sort, drop the duplicates, cut.               *)
MergeSlices(source, target) ==
    [rows |-> First(RowLimit, source \cup target),
     truncated |-> Cardinality(source \cup target) > RowLimit,
     examined |-> Cardinality(source) + Cardinality(target)]

RelationshipsIn(es, key, filter) ==
    MergeSlices(Outbound(es, key, filter), Inbound(es, key, filter))

TruthRelationships(g, key, filter) == RelationshipsIn(Edges(g, FactsOf(g, facts)), key, filter)

ProjectedRelationships(row, key, filter) == RelationshipsIn(serving[row].edges, key, filter)

SymbolAnswer(rows) == [rows |-> rows, truncated |-> FALSE, examined |-> Cardinality(rows)]

TruthSymbol(g, key) ==
    LET fs == SymbolFacts(g, key)
    IN  SymbolAnswer(IF fs = {} THEN {} ELSE {Preferred(fs)})

(* A card counts only when the generation still lists its fact's revision.  *)
ProjectedSymbol(g, row, key) ==
    LET cards == serving[row].cards
    IN  SymbolAnswer(IF key \in DOMAIN cards /\ cards[key] \in FactsOf(g, facts)
                     THEN {cards[key]} ELSE {})

(* ServingReader::new: the captured generation's ready projection.          *)
OpenReader ==
    /\ reader.step \in {"idle", "answered"}
    /\ active # None
    /\ \E allow \in BOOLEAN :
         reader' = [step |-> "open", gen |-> active, row |-> IF allow THEN RowOf(active) ELSE None]
    /\ UNCHANGED <<storeVars, serving, build, pager>>

Filters == [callers : BOOLEAN, callees : BOOLEAN]

Read(query, answer) ==
    reader' = [step |-> IF reader.row = None THEN "answered" ELSE "compare",
               gen |-> reader.gen, row |-> reader.row, query |-> query,
               saw |-> facts, truth |-> answer, examined |-> answer.examined, answer |-> answer]

ReadTruth ==
    /\ reader.step = "open"
    /\ \E key \in Doc :
         \/ Read([symbol |-> TRUE, key |-> key], TruthSymbol(reader.gen, key))
         \/ \E filter \in Filters :
              Read([symbol |-> FALSE, key |-> key, filter |-> filter],
                   TruthRelationships(reader.gen, key, filter))
    /\ UNCHANGED <<storeVars, serving, build, pager>>

Projected(query) ==
    IF query.symbol THEN ProjectedSymbol(reader.gen, reader.row, query.key)
                    ELSE ProjectedRelationships(reader.row, query.key, query.filter)

(* Mutant: the projection is trusted.                                       *)
MutCompareProjection ==
    /\ reader.step = "compare"
    /\ LET projected == Projected(reader.query)
       IN  reader' = [reader EXCEPT !.step = "answered", !.answer = projected,
                                    !.examined = @ + projected.examined]
    /\ UNCHANGED <<storeVars, serving, build, pager>>

(* The projection is read by another statement; anything but equality is    *)
(* answered from the truth.                                                 *)
CompareProjection ==
    /\ reader.step = "compare"
    /\ LET projected == Projected(reader.query)
           same == projected.rows = reader.truth.rows /\ projected.truncated = reader.truth.truncated
       IN  reader' = [reader EXCEPT !.step = "answered",
                                    !.answer = IF same THEN projected ELSE reader.truth,
                                    !.examined = @ + projected.examined]
    /\ UNCHANGED <<storeVars, serving, build, pager>>

-----------------------------------------------------------------------------
(* serving_status_page.                                                     *)
Superseded(max) == {i \in 1 .. max : serving[i].gen # active}

Key(i) == GenKey[serving[i].gen]

(* The digest of the rows up to max, and of the part a page has passed.     *)
Digest(rows) == [i \in rows |-> serving[i]]

PageAfter(max, key) == {i \in Superseded(max) : Key(i) > key}

(* The first of them by id.                                                 *)
PageRows(left) == {i \in left : Cardinality({j \in left : Key(j) < Key(i)}) < PageLimit}

Page(max, key, listed) ==
    LET left == PageAfter(max, key)
        page == PageRows(left)
    IN  IF Cardinality(left) > PageLimit
        THEN [step |-> "more", active |-> active, max |-> max, key |-> Max({Key(i) : i \in page}),
              digest |-> Digest(1 .. max), listed |-> Append(listed, page)]
        ELSE [step |-> "done", active |-> active, max |-> max, key |-> 0,
              digest |-> <<>>, listed |-> Append(listed, page)]

(* Without a cursor: the watermark is the largest rowid now.                *)
FirstPage ==
    /\ pager.step \in {"idle", "done", "stale"}
    /\ pager' = Page(Len(serving), 0, <<>>)
    /\ UNCHANGED <<storeVars, serving, build, reader>>

(* A cursor is stale when another generation is active or a row it covered  *)
(* is no longer what it was.                                                *)
NextPage ==
    /\ pager.step = "more"
    /\ pager' = IF pager.active # active \/ pager.digest # Digest(1 .. pager.max)
                THEN [step |-> "stale"]
                ELSE Page(pager.max, pager.key, pager.listed)
    /\ UNCHANGED <<storeVars, serving, build, reader>>

Building == BeginServingBuild \/ ScanFacts \/ FinishServingBuild \/ AbortServingBuild
Reading == OpenReader \/ ReadTruth \/ CompareProjection
Paging == FirstPage \/ NextPage

-----------------------------------------------------------------------------
(* A ready projection is whole, of one state of its generation's facts, and *)
(* the only one of its generation, whoever works while it is built.  If the *)
(* build had the lease to itself that state is the one it fingerprinted; if *)
(* it was overrun, or overran a reconcile, it may have been written from    *)
(* more facts, or from none when its generation was superseded by then.     *)
ProjectionIsWhole ==
    \A i \in DOMAIN serving :
        LET row == serving[i]
            found == {e.fact : e \in row.edges}
        IN  /\ found \subseteq FactsOf(row.gen, facts)
            /\ row.cards = Cards(found)
            /\ row.edges = Edges(row.gen, found)
            /\ row.alone => found = row.print
            /\ found # {} => row.print \subseteq found
            /\ \A j \in DOMAIN serving : serving[j].gen = row.gen => i = j

(* Whatever projection exists, an answer is the first rows of what the      *)
(* facts of the captured generation said when it was asked, each            *)
(* once, and it admits to being cut exactly when there were more; and it    *)
(* looked at no more rows than the caller was told to budget for            *)
(* (maximum_symbol_examinations, maximum_relationship_examinations).        *)
RowsAreTruth ==
    reader.step = "answered" =>
        LET saw == FactsOf(reader.gen, reader.saw)
            key == reader.query.key
            planes == IF reader.row = None THEN 1 ELSE 2
            all == {e \in Edges(reader.gen, saw) :
                      ~ reader.query.symbol /\ \/ reader.query.filter.callees /\ e.fact.doc = key
                                               \/ reader.query.filter.callers /\ e.to = key}
        IN  IF reader.query.symbol
            THEN /\ reader.answer.rows = (IF key \in DOMAIN Cards(saw) THEN {Cards(saw)[key]} ELSE {})
                 /\ reader.examined <= planes
            ELSE /\ reader.answer.rows = First(RowLimit, all)
                 /\ reader.answer.truncated <=> Cardinality(all) > RowLimit
                 /\ reader.examined <= 2 * (RowLimit + 1) * planes

(* A walk that reaches its last page has listed every projection that was   *)
(* superseded when it began, once each, in order, however many builds ran   *)
(* in between.                                                              *)
PagesListEachOnce ==
    pager.step = "done" =>
        /\ \A m, n \in DOMAIN pager.listed : m < n =>
             \A i \in pager.listed[m], j \in pager.listed[n] : Key(i) < Key(j)
        /\ UNION ToSet(pager.listed) = {i \in 1 .. pager.max : serving[i].gen # pager.active}

(* What the serving plane tells a client that asks it (serving.rs).         *)
AnswersAreTruth == RowsAreTruth /\ PagesListEachOnce
=============================================================================
