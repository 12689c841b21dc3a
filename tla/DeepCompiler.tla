---------------------------- MODULE DeepCompiler ----------------------------
(* Compilation of one Context IR 2.0.0 document: seeds are resolved under a  *)
(* request-local work ledger, packed into the semantic budget, closed over   *)
(* relationships and effects, completed with temporal evidence, judged       *)
(* against the task kind's recipe, verified against the live files, and      *)
(* validated.  Every read is a transaction of its own: a reconcile may       *)
(* activate another generation, and files may be edited, between any two.    *)
(* (Without a task session the whole compilation is one transaction that is  *)
(* rolled back, context_application.rs:1539: the behaviours in which nothing *)
(* is activated meanwhile.)                                                  *)
EXTENDS Integers, Sequences, FiniteSets, SequencesExt, Functions, TLC

CONSTANTS
    File,           \* canonical paths
    Entity,         \* entity -> [form, file, artifact, kind, bytes, ends, tokens]
    Seeds,          \* seed -> the stage that answers it and its rows
    Relations,      \* symbol -> its relationship rows, in read order
    Effects,        \* entity -> its effect rows, in read order
    Requests,       \* requests: [kind, seeds, budget, allow]
    Histories,      \* temporal reports: [parent, cost, records of [id, role, tokens]]
    MaxSources,     \* MAX_MATERIALIZED_SOURCES
    Kept            \* how long a file is that was edited to be shorter

VARIABLES
    moved,      \* another generation was activated since the request
    disk,       \* path -> "indexed", "edited", "shortened" or "gone"
    pc, req,
    history,    \* what a temporal report of the generation would hold
    consumed,   \* DeepWorkLedger::consumed
    left,       \* seeds, frontier, effect subjects or sources still to visit
    visited,
    cands,      \* resolution.candidates
    doc,        \* the document under construction
    bytes,      \* path -> whether its bytes are materialized
    outcome     \* the sealed document, or why there is none

worldVars == <<moved, disk>>
vars == <<worldVars, pc, req, history, consumed, left, visited, cands, doc, bytes, outcome>>

(* DEEP_V2_ROLES                                                            *)
Roles == <<"primary", "dependency", "dependent", "type", "test", "configuration",
           "effect", "history", "uncertainty", "validation">>
Role == Range(Roles)

(* deep_v2_role_recipe: what a kind of task requires, in packing order.      *)
(* Exact source and a validation target are required of every kind.         *)
Recipe == [
    explore |-> <<"primary">>,
    bug_fix |-> <<"primary", "test", "history", "validation">>,
    behavior_change |-> <<"primary", "dependent", "test", "effect", "validation">>,
    api_change |-> <<"primary", "type", "dependent", "test", "effect", "validation">>,
    refactor |-> <<"primary", "dependent", "test", "validation">>,
    configuration_change |-> <<"primary", "configuration", "test", "validation">>,
    test_change |-> <<"primary", "test", "validation">>,
    review |-> <<"primary", "test", "effect", "history", "validation">>,
    audit |-> <<"primary", "test", "configuration", "history", "validation">>,
    unknown |-> <<"primary", "validation">>]

Required(k) == Range(Recipe[k])

(* recipe_for, with the tests that validation always includes.              *)
Callers(k) == k # "configuration_change"
Callees(k) == k \notin {"api_change", "configuration_change", "test_change"}
Configs(k) == k \in {"configuration_change", "review", "audit"}
Reach(k) ==
    CASE k \in {"api_change", "audit"} -> 3
      [] k \in {"bug_fix", "behavior_change", "refactor"} -> 2
      [] OTHER -> 1

TemporalKinds == {"review", "bug_fix", "api_change", "behavior_change"}

(* IrOmissionReasonV2, and which of them stand for a limit.                 *)
Limits == {"records", "bytes", "tokens", "depth", "work", "reserve"}
Reason == Limits \union {"missing", "unresolved", "stale", "unavailable", "unsupported",
                         "conflicting", "ambiguous_seed", "fts", "no_history",
                         "no_validation", "source"}
Quality == {"qualified", "unresolved", "stale", "unsupported", "conflicting"}

(* evidence_reason_for_quality                                              *)
BadQuality(q) == IF q = "qualified" THEN "none" ELSE q

(* role_deficit_priority and record_role_deficit: the worse reason stays.   *)
Worse(r) ==
    CASE r = "conflicting" -> 0 [] r = "stale" -> 1 [] r = "unresolved" -> 2
      [] r = "unsupported" -> 3 [] r \in Limits -> 4 [] OTHER -> 5

WorstOf(reasons) ==
    IF reasons = {} THEN "none"
    ELSE CHOOSE r \in reasons : \A other \in reasons : Worse(r) <= Worse(other)

Deficit(deficits, role, reason) ==
    IF deficits[role] = "none" \/ Worse(reason) < Worse(deficits[role])
    THEN [deficits EXCEPT ![role] = reason] ELSE deficits

(* requirement_state_for_reason                                             *)
StateFor(reason) ==
    CASE reason \in {"stale", "source"} -> "stale"
      [] reason \in {"unsupported", "conflicting"} -> reason
      [] reason \in Limits -> "omitted"
      [] OTHER -> "unresolved"

Smaller(a, b) == IF a < b THEN a ELSE b

(* FoldLeft with each intermediate result evaluated once.                   *)
Fold(op(_, _), base, seq) ==
    FoldLeft(LAMBDA acc, x : CHOOSE y \in {op(a, x) : a \in {acc}} : TRUE, base, seq)

Remaining == req.budget.work - consumed

(* uncertainty_reserve_records: rounded up to a whole record.               *)
Reserve(b) == (b.records * b.percent + 99) \div 100

(***************************************************************************)
(* Candidates                                                              *)
(***************************************************************************)

(* task_specific_artifact_role                                              *)
ArtifactRole(e) ==
    CASE Entity[e].artifact = "test" -> "test"
      [] Entity[e].artifact = "configuration" -> "configuration"
      [] OTHER -> "none"

(* role_for_seed_symbol, and the role of a path seed.                       *)
SeedRole(e) ==
    CASE ArtifactRole(e) # "none" -> ArtifactRole(e)
      [] Entity[e].form = "symbol" /\ Entity[e].kind \in {"test", "type"} -> Entity[e].kind
      [] OTHER -> "primary"

(* An item and the cost it is packed by; by, of and at make its id.         *)
Item(by, of, at, role, quality, depth, sourced, tokens) ==
    [by |-> by, of |-> of, at |-> at, role |-> role, quality |-> quality,
     depth |-> depth, rank |-> 0, sourced |-> sourced, tokens |-> tokens]

Id(i) == <<i.by>> \o i.of \o <<i.at>>
Uncertain(i) == i.role = "uncertainty"
SourceBytes(i) == IF i.sourced # "no" THEN Entity[i.at].bytes ELSE 0

Sourced(e) == IF Entity[e].bytes > 0 THEN "yes" ELSE "no"

(* symbol_seed_candidate: an ambiguous or FTS row is uncertainty only.      *)
SymbolCandidate(seed, row, uncertain) ==
    IF uncertain
    THEN Item("seed", <<seed>>, row.at, "uncertainty", "unresolved", 0, "no", Entity[row.at].tokens)
    ELSE Item("seed", <<seed>>, row.at, SeedRole(row.at), row.quality, 0, Sourced(row.at),
              Entity[row.at].tokens + Entity[row.at].bytes)

(* path_seed_candidate                                                      *)
PathCandidate(seed, e) ==
    Item("seed", <<seed>>, e, SeedRole(e), "qualified", 0, Sourced(e),
         Entity[e].tokens + Entity[e].bytes)

(* deep_v2_closure_candidate and deep_v2_validation_candidate               *)
ClosureCandidate(fact, e, role, depth, quality) ==
    Item("closure", <<fact>>, e, role, quality, depth, "no", Entity[e].tokens)

ValidationCandidate(i) ==
    [i EXCEPT !.by = "validation", !.of = Id(i), !.role = "validation", !.sourced = "no",
              !.tokens = Entity[i.at].tokens]

(***************************************************************************)
(* Packing                                                                 *)
(***************************************************************************)

(* Mutant: ordinary records may borrow the uncertainty reserve.             *)
MutOmission(b, items, c) ==
    LET kin == Len(SelectSeq(items, Uncertain)) IN
    CASE c.depth > b.depth -> "depth"
      [] Uncertain(c) /\ kin >= Reserve(b) -> "reserve"
      [] ~Uncertain(c) /\ Len(items) >= b.records -> "records"
      [] OTHER -> "none"

(* Why a candidate that is paid for does not fit the items so far.          *)
Omission(b, items, c) ==
    LET kin == Len(SelectSeq(items, Uncertain))
        spent(cost(_)) == Fold(LAMBDA n, i : n + cost(i), 0, items)
    IN
    CASE c.depth > b.depth -> "depth"
      [] Uncertain(c) /\ kin >= Reserve(b) -> "reserve"
      [] ~Uncertain(c) /\ Len(items) - kin >= b.records - Reserve(b) -> "records"
      [] spent(SourceBytes) + SourceBytes(c) > b.bytes -> "bytes"
      [] spent(LAMBDA i : i.tokens) + c.tokens > b.tokens -> "tokens"
      [] OTHER -> "none"

Ranked(first, cs) == [i \in DOMAIN cs |-> [cs[i] EXCEPT !.rank = first + i - 1]]

(* enforce_deep_v2_budget_with_ledger, and its precharged form: in rank     *)
(* order each candidate is paid, or already paid, or the paid sentinel that *)
(* only stands for what the work budget cut off.                            *)
Pack(items, cs, work, payment) ==
    LET fee == IF payment = "due" THEN 1 ELSE 0
        step(acc, c) ==
            LET reason == IF acc.work < fee \/ (payment = "sentinel" /\ c.rank = Len(items) + Len(cs) - 1)
                          THEN "work" ELSE Omission(req.budget, acc.items, c)
                pay == IF acc.work < fee THEN 0 ELSE fee
            IN  IF reason = "none"
                THEN [acc EXCEPT !.items = Append(@, c), !.work = @ - pay]
                ELSE [acc EXCEPT !.out = Append(@, [item |-> c, reason |-> reason]),
                                 !.work = @ - pay]
    IN  Fold(step, [items |-> items, out |-> <<>>, work |-> work], Ranked(Len(items), cs))

CountOmitted(omitted, reason, n) == [omitted EXCEPT ![reason] = @ + n]

(* What packing leaves in the document: items, counts and role deficits.    *)
Packed(d, packed, n) ==
    Fold(LAMBDA acc, o : [acc EXCEPT !.omitted = CountOmitted(@, o.reason, 1),
                                         !.deficits = Deficit(@, o.item.role, o.reason)],
             [d EXCEPT !.items = packed.items, !.considered = @ + n], packed.out)

Notice(d, reason) == IF d.notices[reason] = 0 THEN [d EXCEPT !.notices[reason] = 1] ELSE d

(* record_closure_omission with its notice                                  *)
CutOff(d) ==
    Notice([d EXCEPT !.considered = @ + 1, !.omitted = CountOmitted(@, "work", 1)], "work")

DeficitIn(d, role, reason) == [d EXCEPT !.deficits = Deficit(@, role, reason)]

(***************************************************************************)
(* The request                                                             *)
(***************************************************************************)

EmptyDocument == [
    items |-> <<>>, rels |-> {}, considered |-> 0, omitted |-> [r \in Reason |-> 0],
    notices |-> [r \in Reason |-> 0], named |-> <<>>,
    deficits |-> [r \in Role |-> "none"], roles |-> <<>>,
    exact |-> "unavailable", validation |-> "unavailable",
    status |-> "blocked", reasons |-> {}, failure |-> "none"]

Refuse(why) ==
    /\ pc' = "done"
    /\ outcome' = [kind |-> "refused", why |-> why]
    /\ bytes' = [f \in File |-> FALSE]
    /\ UNCHANGED <<worldVars, req, history, consumed, left, visited, cands, doc>>

(* compile_deep_context_ir_v2: one unit of work and one record per seed.    *)
Begin(r, h) ==
    /\ pc = "idle"
    /\ r.kind \notin TemporalKinds => h = CHOOSE other \in Histories : TRUE
    /\ req' = r
    /\ history' = h
    /\ left' = r.seeds
    /\ IF moved \/ Len(r.seeds) > Smaller(r.budget.records, r.budget.work)
       THEN /\ pc' = "done"
            /\ outcome' = [kind |-> "refused", why |-> IF moved THEN "moved" ELSE "bounds"]
       ELSE pc' = "seeds" /\ UNCHANGED outcome
    /\ UNCHANGED <<worldVars, consumed, visited, cands, doc, bytes>>

(***************************************************************************)
(* Seeds                                                                   *)
(***************************************************************************)

PerSeed ==
    LET even == req.budget.records \div Len(req.seeds) IN IF even < 1 THEN 1 ELSE even

(* reserve_seed_slice: one unit stays back for every candidate so far and   *)
(* every seed to come, and one for every row that may be retained.          *)
Available == Remaining - (Len(cands) + Len(left) - 1)
Retained == Smaller(PerSeed, (Available - 1) \div 2)
Examined == Available - Retained

KeysOf(rows) == {rows[i].at : i \in DOMAIN rows}

(* bounded_direct_seed_symbols: rows are read until the first entity beyond *)
(* the retained ones; at the row bound the last row only tells there was    *)
(* more.                                                                    *)
Slice(rows) ==
    LET over == {i \in 1 .. Smaller(Len(rows), Examined) :
                     /\ rows[i].at \notin KeysOf(SubSeq(rows, 1, i - 1))
                     /\ Cardinality(KeysOf(SubSeq(rows, 1, i - 1))) >= Retained}
        cut == IF over # {} THEN CHOOSE i \in over : \A j \in over : i <= j ELSE Examined
    IN  [fetched |-> Smaller(Len(rows), cut),
         kept |-> SubSeq(rows, 1, Smaller(Len(rows), cut - 1)),
         more |-> Len(rows) >= cut,
         sentinel |-> IF Len(rows) >= cut THEN rows[cut] ELSE [at |-> "none"]]

OmitSeed(d, reason) ==
    [d EXCEPT !.considered = @ + 1, !.omitted = CountOmitted(@, reason, 1)]

(* record_seed_limit_omission: every seed adds a notice of its own.         *)
CutSeed(d, reason) == [OmitSeed(d, reason) EXCEPT !.notices[reason] = @ + 1]

(* push_unique_seed_candidate: one candidate per entity; exact evidence     *)
(* takes the place of an uncertain one.                                     *)
PushUnique(acc, c) ==
    LET same == {i \in DOMAIN acc.cands : acc.cands[i].at = c.at} IN
    IF same = {} THEN [acc EXCEPT !.cands = Append(@, c)]
    ELSE [cands |-> [i \in DOMAIN acc.cands |->
                        IF i \in same /\ Uncertain(acc.cands[i]) /\ ~Uncertain(c)
                        THEN c ELSE acc.cands[i]],
          doc |-> OmitSeed(acc.doc, "unresolved")]

NextSeed(units) ==
    /\ consumed' = consumed + units
    /\ left' = Tail(left)
    /\ pc' = IF Tail(left) = <<>> THEN "pack" ELSE "seeds"
    /\ UNCHANGED <<worldVars, req, history, visited, bytes, outcome>>

(* The stage that answers a seed in the captured generation.  The rows of   *)
(* current_file are gone once another generation is active.                 *)
StageOf(seed) == IF moved THEN "none" ELSE Seeds[seed].stage

SymbolStages == {"canonical", "qualified", "display", "fts"}

(* resolve_bounded_direct_seed_stage, and the FTS stage.                    *)
SeedSymbols ==
    LET seed == Head(left)
        stage == StageOf(seed)
        uncertain(several) == several \/ stage = "fts"
        limit == CASE Retained < PerSeed -> "work" [] stage = "fts" -> "fts" [] OTHER -> "records"
        told(slice, kept) ==
            CASE ~slice.more -> doc
              [] slice.sentinel.at \in kept \union KeysOf(cands) -> OmitSeed(doc, "unresolved")
              [] OTHER -> CutSeed(doc, limit)
    IN
    /\ stage \in SymbolStages
    /\ \E slice \in {Slice(Seeds[seed].rows)} : \E kept \in {KeysOf(slice.kept)} :
       \E several \in {/\ stage \in {"qualified", "display"}
                       /\ Cardinality(kept) > 1 \/ (slice.more /\ kept \ {slice.sentinel.at} # {})} :
       \E pushed \in {Fold(LAMBDA acc, row :
                               PushUnique(acc, SymbolCandidate(seed, row, uncertain(several))),
                           [cands |-> cands, doc |-> told(slice, kept)], slice.kept)} :
          /\ cands' = pushed.cands
          /\ doc' = IF several THEN [pushed.doc EXCEPT !.named = Append(@, kept)] ELSE pushed.doc
          /\ NextSeed(slice.fetched)

SeedPath ==
    LET seed == Head(left)
        pushed == PushUnique([cands |-> cands, doc |-> doc],
                             PathCandidate(seed, Seeds[seed].rows[1].at)) IN
    /\ StageOf(seed) = "path"
    /\ IF Available >= 2
       THEN cands' = pushed.cands /\ doc' = pushed.doc
       ELSE cands' = cands /\ doc' = CutSeed(doc, "work")
    /\ NextSeed(1)

SeedUnresolved ==
    /\ StageOf(Head(left)) = "none"
    /\ doc' = OmitSeed(doc, "unresolved")
    /\ UNCHANGED cands
    /\ NextSeed(1)

(* resolve_deep_v2_seeds, one seed; without a unit for it the ledger's      *)
(* reservation fails.                                                       *)
ResolveSeed ==
    /\ pc = "seeds" /\ left # <<>>
    /\ IF Available > 0
       THEN SeedSymbols \/ SeedPath \/ SeedUnresolved
       ELSE Refuse("overrun")

NoSeeds ==
    /\ pc = "seeds" /\ left = <<>>
    /\ pc' = "pack"
    /\ UNCHANGED <<worldVars, req, history, consumed, left, visited, cands, doc, bytes, outcome>>

(* The symbols among items are the next frontier.                           *)
FrontierOf(items) ==
    LET symbols == SelectSeq(items, LAMBDA i : i.at \in DOMAIN Relations)
    IN  [i \in DOMAIN symbols |-> [at |-> symbols[i].at, depth |-> symbols[i].depth]]

(* The first test found stands for the validation target; ambiguity is told *)
(* only of entities that stayed uncertain.  What is selected is ranked      *)
(* again from zero.                                                         *)
PackSeeds ==
    LET tests == SelectSeq(cands, LAMBDA c : c.role = "test")
        all == IF tests = <<>> THEN cands ELSE Append(cands, ValidationCandidate(tests[1]))
        unsure == KeysOf(SelectSeq(cands, Uncertain))
        told == Len(SelectSeq(doc.named, LAMBDA keys : keys \cap unsure # {}))
        exact(items) == IF \E i \in Range(items) : i.role = "primary" /\ i.sourced = "yes"
                        THEN "satisfied" ELSE "unavailable"
    IN
    /\ pc = "pack"
    /\ \E packed \in {Pack(<<>>, all, Remaining, "due")} :
          /\ doc' = [Packed(doc, packed, Len(all)) EXCEPT !.items = Ranked(0, @),
                                                         !.notices["ambiguous_seed"] = told,
                                                         !.exact = exact(packed.items)]
          /\ consumed' = req.budget.work - packed.work
          /\ left' = FrontierOf(packed.items)
    /\ pc' = "graph"
    /\ UNCHANGED <<worldVars, req, history, visited, cands, bytes, outcome>>

(***************************************************************************)
(* Relationship closure                                                    *)
(***************************************************************************)

Calls(k, row) == row.type = "calls" /\ (IF row.inbound THEN Callers(k) ELSE Callees(k))

(* truth_relationship_direction's filter: tests are always included.        *)
Readable(k, row) ==
    \/ row.type \in {"references", "implements", "tests"}
    \/ row.type = "configures" /\ Configs(k)
    \/ Calls(k, row)

(* recipe_includes: an artifact the recipe leaves out is left out whatever  *)
(* relates it.                                                              *)
Included(k, row) == ArtifactRole(row.at) = "configuration" => Configs(k)

(* role_and_reason_for                                                      *)
ClosureRole(row) ==
    CASE ArtifactRole(row.at) # "none" -> ArtifactRole(row.at)
      [] row.type = "tests" -> "test"
      [] row.type = "configures" -> "configuration"
      [] row.inbound -> "dependent"
      [] row.type = "implements" -> "type"
      [] OTHER -> "dependency"

(* closure_role_priority: required roles in the recipe's order, then tests  *)
(* and validation targets, then the rest.                                   *)
Priority(k, role) ==
    LET at(seq) == CHOOSE i \in DOMAIN seq : seq[i] = role IN
    CASE role \in Required(k) -> at(Recipe[k])
      [] role \in {"test", "validation"} -> Len(Recipe[k]) + at(<<"test", "validation">>)
      [] OTHER -> Len(Recipe[k]) + 2 + at(Roles)

InPackingOrder(k, cs) ==
    LET before(i, j) ==
            \/ Priority(k, cs[i].role) < Priority(k, cs[j].role)
            \/ Priority(k, cs[i].role) = Priority(k, cs[j].role) /\ i < j
        order == SetToSortSeq(DOMAIN cs, before)
    IN  [i \in DOMAIN cs |-> cs[order[i]]]

GraphRoles(k) == Required(k) \ {"primary", "effect", "history", "validation"}

Qualified(d, role) == \E i \in Range(d.items) : i.role = role /\ i.quality = "qualified"

(* graph_requirements_satisfied                                             *)
GraphSatisfied(d) == \A role \in GraphRoles(req.kind) \union {"validation"} : Qualified(d, role)

(* mark_graph_work_budget_deficits                                          *)
MarkGraph(d) ==
    CutOff([d EXCEPT !.deficits = [r \in Role |->
        IF r \in GraphRoles(req.kind) \union {"validation"} THEN Deficit(d.deficits, r, "work")[r]
        ELSE d.deficits[r]]])

(* endpoint_missing: the far end is a symbol or a file that the generation  *)
(* does not hold.                                                           *)
EndpointMissing(e) == Entity[e].artifact = "missing" /\ Entity[e].form \in {"symbol", "path"}

ClosureQuality(row) == IF EndpointMissing(row.at) THEN "unresolved" ELSE row.quality

ClosureReason(row) ==
    IF EndpointMissing(row.at) THEN "unavailable" ELSE BadQuality(row.quality)

(* One row of a slice: it is paid before it is looked at; evidence of bad   *)
(* quality leaves a relationship and a deficit instead of a candidate.      *)
WalkRow(node, acc, row) ==
    LET role == ClosureRole(row)
        c == ClosureCandidate(row.fact, row.at, role, node.depth + 1, row.quality)
        because == ClosureReason(row)
    IN
    CASE acc.stopped -> acc
      [] acc.work = 0 -> [acc EXCEPT !.stopped = TRUE, !.doc = MarkGraph(@)]
      [] ~Included(req.kind, row) -> [acc EXCEPT !.work = @ - 1]
      [] because # "none" ->
            [acc EXCEPT !.work = @ - 1,
                        !.doc = Notice(DeficitIn([@ EXCEPT !.rels = @ \union {ClosureQuality(row)}],
                                                 role, because),
                                       because)]
      [] OTHER -> [acc EXCEPT !.work = @ - 1,
                              !.cands = @ \o (IF role = "test" THEN <<c, ValidationCandidate(c)>>
                                              ELSE <<c>>)]

RelationLimit ==
    IF Remaining < 2 THEN 0 ELSE Smaller((Remaining - 2) \div 5, req.budget.records)

FurthestReach == Smaller(Reach(req.kind), req.budget.depth)

Graphing(next) ==
    /\ left' = next
    /\ pc' = "graph"
    /\ UNCHANGED <<worldVars, req, history, cands, bytes, outcome>>

SkipNode ==
    /\ pc = "graph" /\ left # <<>>
    /\ \/ Head(left).at \in visited
       \/ Head(left).depth >= FurthestReach
    /\ visited' = visited \union {Head(left).at}
    /\ Graphing(Tail(left))
    /\ UNCHANGED <<consumed, doc>>

AtFrontier ==
    /\ pc = "graph" /\ left # <<>>
    /\ Head(left).at \notin visited
    /\ Head(left).depth < FurthestReach

GraphExhausted ==
    /\ AtFrontier /\ RelationLimit = 0
    /\ visited' = visited \union {Head(left).at}
    /\ doc' = MarkGraph(doc)
    /\ Graphing(<<>>)
    /\ UNCHANGED consumed

(* Of the relationships that are kept the document's quality matters: of    *)
(* the qualified ones those whose far end was selected.                     *)
WithEdges(d, selected) ==
    IF \E i \in selected + 1 .. Len(d.items) : d.items[i].by = "closure"
    THEN [d EXCEPT !.rels = @ \union {"qualified"}] ELSE d

(* populate_deep_v2_relationship_closure, one symbol of the frontier.  Rows *)
(* are reserved for both directions and settled to those read.              *)
VisitNode ==
    LET node == Head(left)
        rows == SelectSeq(Relations[node.at], LAMBDA row : Readable(req.kind, row))
        read(inbound) == Smaller(RelationLimit + 1,
                                 Len(SelectSeq(rows, LAMBDA row : row.inbound = inbound)))
        start == [work |-> Remaining - read(TRUE) - read(FALSE), cands |-> <<>>, stopped |-> FALSE,
                  doc |-> IF Len(rows) > RelationLimit THEN MarkGraph(doc) ELSE doc]
        chosen(d) == SubSeq(d.items, Len(doc.items) + 1, Len(d.items))
    IN
    /\ AtFrontier /\ RelationLimit > 0
    /\ \E walk \in {Fold(LAMBDA acc, row : WalkRow(node, acc, row), start,
                         SubSeq(rows, 1, Smaller(Len(rows), RelationLimit)))} :
       \E cs \in {InPackingOrder(req.kind, walk.cands)} :
          IF 2 * (RelationLimit + 1) > Remaining \/ Len(cs) > walk.work
          THEN Refuse("overrun")
          ELSE \E packed \in {Pack(walk.doc.items, cs, walk.work, "paid")} :
               \E d \in {WithEdges(Packed(walk.doc, packed, Len(cs)), Len(doc.items))} :
                  /\ visited' = visited \union {node.at}
                  /\ doc' = d
                  /\ consumed' = req.budget.work - walk.work + Len(cs)
                  /\ Graphing(IF GraphSatisfied(d) THEN <<>> ELSE Tail(left) \o FrontierOf(chosen(d)))

EndGraph ==
    LET subjects == {i.at : i \in {j \in Range(doc.items) : Entity[j.at].form \in {"symbol", "path"}}} IN
    /\ pc = "graph" /\ left = <<>>
    /\ IF "effect" \in Required(req.kind)
       THEN pc' = "effects" /\ left' = SetToSeq(subjects)
       ELSE pc' = "judge" /\ left' = <<>>
    /\ UNCHANGED <<worldVars, req, history, consumed, visited, cands, doc, bytes, outcome>>

(***************************************************************************)
(* Effect closure                                                          *)
(***************************************************************************)

EffectLimit ==
    IF Remaining < 1 THEN 0 ELSE Smaller((Remaining - 1) \div 2, req.budget.records)

(* Mutant: the closure does not notice that no subject is left.             *)
MutAfterSubject(next) ==
    /\ left' = next
    /\ pc' = "effects"
    /\ UNCHANGED <<worldVars, req, history, visited, cands, bytes, outcome>>

AfterSubject(next) ==
    /\ left' = next
    /\ pc' = IF next = <<>> THEN "judge" ELSE "effects"
    /\ UNCHANGED <<worldVars, req, history, visited, cands, bytes, outcome>>

EffectsExhausted ==
    /\ pc = "effects" /\ left # <<>> /\ EffectLimit = 0
    /\ doc' = CutOff(DeficitIn(doc, "effect", "work"))
    /\ UNCHANGED consumed
    /\ AfterSubject(<<>>)

(* populate_deep_v2_effect_closure, one subject: the first fact of each     *)
(* type; a bad one leaves a deficit and is a candidate all the same.        *)
VisitSubject ==
    LET rows == Effects[Head(left)]
        start == IF Len(rows) > EffectLimit THEN CutOff(DeficitIn(doc, "effect", "work")) ELSE doc
        read == SubSeq(rows, 1, Smaller(Len(rows), EffectLimit))
        firsts == SelectSeq([i \in DOMAIN read |-> i],
                            LAMBDA i : \A j \in 1 .. i - 1 : read[j].type # read[i].type)
        facts == [i \in DOMAIN firsts |-> read[firsts[i]]]
        tell(d, f) == IF BadQuality(f.quality) = "none" THEN d
                      ELSE Notice(DeficitIn(d, "effect", BadQuality(f.quality)), BadQuality(f.quality))
        cs == [i \in DOMAIN facts |->
                  ClosureCandidate(facts[i].fact, Head(left), "effect", 0, facts[i].quality)]
        fetched == Smaller(Len(rows), EffectLimit + 1)
    IN
    /\ pc = "effects" /\ left # <<>> /\ EffectLimit > 0
    /\ IF EffectLimit + 1 > Remaining \/ fetched + Len(cs) > Remaining
       THEN Refuse("overrun")
       ELSE /\ \E told \in {Fold(tell, start, facts)} :
               \E packed \in {Pack(told.items, cs, Remaining, "paid")} :
                  doc' = Packed(told, packed, Len(cs))
            /\ consumed' = consumed + fetched + Len(cs)
            /\ AfterSubject(Tail(left))

NoSubjects ==
    /\ pc = "effects" /\ left = <<>>
    /\ UNCHANGED <<consumed, doc>>
    /\ AfterSubject(<<>>)

(***************************************************************************)
(* Judging what was gathered                                               *)
(***************************************************************************)

WithRole(d, role) == {i \in Range(d.items) : i.role = role}

(* Mutant: what was omitted of a role no longer counts against it.          *)
MutSufficiency(d, role) ==
    LET evidence == WithRole(d, role)
        reason == WorstOf({BadQuality(i.quality) : i \in evidence} \ {"none"})
    IN
    CASE evidence # {} /\ reason = "none" -> [state |-> "satisfied", reason |-> "none"]
      [] reason # "none" -> [state |-> StateFor(reason), reason |-> reason]
      [] role \in Required(req.kind) -> [state |-> "missing", reason |-> "missing"]
      [] OTHER -> [state |-> "unavailable", reason |-> "unavailable"]

(* deep_v2_role_sufficiency for one role                                    *)
Sufficiency(d, role) ==
    LET evidence == WithRole(d, role)
        bad == WorstOf({BadQuality(i.quality) : i \in evidence} \ {"none"})
        reason == IF bad # "none" THEN bad ELSE d.deficits[role]
    IN
    CASE evidence # {} /\ reason = "none" -> [state |-> "satisfied", reason |-> "none"]
      [] reason # "none" -> [state |-> StateFor(reason), reason |-> reason]
      [] role \in Required(req.kind) -> [state |-> "missing", reason |-> "missing"]
      [] OTHER -> [state |-> "unavailable", reason |-> "unavailable"]

(* rebuild_deep_v2_validation_plan                                          *)
Validation(d) ==
    CASE d.deficits["validation"] # "none" -> StateFor(d.deficits["validation"])
      [] WithRole(d, "validation") = {} -> "unavailable"
      [] OTHER -> "satisfied"

PrimarySafe(d) == d.roles["primary"].state = "satisfied" /\ d.exact = "satisfied"

(* reconcile_deep_v2_status                                                 *)
Unmet(d) ==
    {d.roles[r].reason : r \in {q \in Required(req.kind) : d.roles[q].state # "satisfied"}}
    \union (IF d.exact = "satisfied" THEN {} ELSE {"source"})
    \union (IF d.validation = "satisfied" THEN {} ELSE {"no_validation"})

Reconciled(d) ==
    [d EXCEPT !.reasons = Unmet(d),
              !.status = CASE Unmet(d) = {} -> "complete" [] PrimarySafe(d) -> "partial"
                           [] OTHER -> "blocked"]

Judge ==
    /\ pc = "judge"
    /\ \E d \in {[doc EXCEPT !.validation = Validation(doc),
                             !.roles = [r \in Role |-> Sufficiency(doc, r)]]} :
          doc' = IF req.kind \in TemporalKinds THEN d ELSE Reconciled(d)
    /\ pc' = IF req.kind \in TemporalKinds THEN "temporal" ELSE "seal"
    /\ UNCHANGED <<worldVars, req, history, consumed, left, visited, cands, bytes, outcome>>

(***************************************************************************)
(* Temporal evidence                                                       *)
(***************************************************************************)

(* validate_temporal_recipe_input: the document's own temporal roles must   *)
(* still be empty.                                                          *)
TemporalRolesPopulated(d) == WithRole(d, "history") \union WithRole(d, "uncertainty") # {}

AfterTemporal(d, units) ==
    /\ pc = "temporal"
    /\ ~TemporalRolesPopulated(doc)
    /\ \E filled \in {d} : doc' = Reconciled(filled)
    /\ consumed' = consumed + units
    /\ pc' = "seal"
    /\ UNCHANGED <<worldVars, req, history, left, visited, cands, bytes, outcome>>

BothTemporal(d, state, reason) ==
    Notice([d EXCEPT !.roles["history"] = [state |-> state, reason |-> reason],
                     !.roles["uncertainty"] = [state |-> state, reason |-> reason]], reason)

RefusePopulated ==
    /\ pc = "temporal" /\ TemporalRolesPopulated(doc)
    /\ Refuse("populated")

(* mark_temporal_evidence_budget_omitted: before the report, or when the    *)
(* ledger ends while its rows are read.                                     *)
TemporalOmitted ==
    /\ pc = "temporal"
    /\ Remaining >= 3 => ~moved /\ history.cost >= Remaining
    /\ AfterTemporal(BothTemporal(doc, "omitted", "work"), IF Remaining < 3 THEN 0 ELSE Remaining)

TemporalMoved ==
    /\ pc = "temporal" /\ ~TemporalRolesPopulated(doc) /\ Remaining >= 3 /\ moved
    /\ Refuse("moved")

ReportRead == pc = "temporal" /\ Remaining >= 3 /\ ~moved /\ history.cost < Remaining

(* mark_temporal_evidence_unavailable: the generation has no parent.        *)
TemporalUnavailable ==
    /\ ReportRead /\ ~history.parent
    /\ AfterTemporal(BothTemporal(doc, "unavailable", "no_history"), history.cost)

TemporalItem(id, role, tokens) ==
    [by |-> "temporal", of |-> <<id>>, at |-> "document", role |-> role, depth |-> 0,
     rank |-> 0, sourced |-> "no", tokens |-> tokens,
     quality |-> IF role = "uncertainty" THEN "unresolved" ELSE "qualified"]

(* temporal_candidates: a summary, then the report's records.               *)
TemporalCandidates(section) ==
    LET shown == SubSeq(history.records, 1, Smaller(section, Len(history.records)))
    IN <<TemporalItem("summary", "history", 1)>>
       \o [i \in DOMAIN shown |-> TemporalItem(shown[i].id, shown[i].role, shown[i].tokens)]

(* populate_available_temporal_evidence: what the work budget cannot pay is *)
(* represented by the last candidate it can.                                *)
TemporalAvailable ==
    LET section == (Remaining - 1) \div 2
        all == TemporalCandidates(section)
        afford == Smaller(Len(all), Remaining - history.cost)
        cut == Len(all) > afford
        lost(packed, role) == SelectSeq(packed.out, LAMBDA o : o.item.role = role)
        reason(packed) == CASE cut -> "work"
                            [] Len(history.records) > section -> "records"
                            [] lost(packed, "history") # <<>> -> lost(packed, "history")[1].reason
                            [] OTHER -> "none"
        kept(d, role) == {i \in Range(d.items) : i.by = "temporal" /\ i.role = role}
        unsure(packed, d) ==
            CASE lost(packed, "uncertainty") # <<>> ->
                     [state |-> "omitted", reason |-> lost(packed, "uncertainty")[1].reason]
              [] kept(d, "uncertainty") # {} -> [state |-> "unresolved", reason |-> "unresolved"]
              [] OTHER -> [state |-> "unavailable", reason |-> "unavailable"]
        past(why, d) ==
            IF kept(d, "history") # {} /\ why = "none"
            THEN [state |-> "satisfied", reason |-> "none"]
            ELSE [state |-> "omitted", reason |-> IF why = "none" THEN "records" ELSE why]
    IN
    /\ ReportRead /\ history.parent
    /\ \E packed \in {Pack(doc.items, SubSeq(all, 1, afford), 0, IF cut THEN "sentinel" ELSE "paid")} :
       \E d \in {[Packed(doc, packed, afford) EXCEPT !.items = Ranked(0, @)]} :
          AfterTemporal([d EXCEPT !.roles["history"] = past(reason(packed), d),
                                  !.roles["uncertainty"] = unsure(packed, d)],
                        history.cost + afford)

(***************************************************************************)
(* Sources and the seal                                                    *)
(***************************************************************************)

TotalBytes(items) == Fold(LAMBDA n, i : n + SourceBytes(i), 0, items)

Sealing == UNCHANGED <<worldVars, req, history, consumed, visited, cands>>

(* Source bytes are only handed out for so many sources, and so many bytes. *)
TooManySources(d) ==
    req.allow > 0 /\ Cardinality({i \in DOMAIN d.items : d.items[i].sourced # "no"}) > MaxSources

TooManyBytes(d) == req.allow > 0 /\ TotalBytes(d.items) > req.allow

BeginSeal ==
    /\ pc = "seal"
    /\ ~moved /\ ~TooManySources(doc) /\ ~TooManyBytes(doc)
    /\ left' = SelectSeq([i \in DOMAIN doc.items |-> i], LAMBDA i : doc.items[i].sourced = "yes")
    /\ pc' = "sources"
    /\ UNCHANGED <<doc, bytes, outcome>>
    /\ Sealing

RefuseSeal ==
    /\ pc = "seal"
    /\ moved \/ TooManySources(doc) \/ TooManyBytes(doc)
    /\ Refuse(CASE TooManySources(doc) -> "sources" [] moved -> "moved"
                [] OTHER -> "authorization")

(* verify_exact_source_at_generation against the live file                  *)
Observed(f) ==
    CASE moved -> "no" [] disk[f] = "indexed" -> "verified"
      [] disk[f] \in {"edited", "shortened"} -> "stale" [] OTHER -> "unavailable"

(* range_valid: the live file no longer reaches the end of the selection.   *)
OutOfRange(e) == ~moved /\ disk[Entity[e].file] = "shortened" /\ Entity[e].ends > Kept

VerifySource ==
    LET i == Head(left)
        f == Entity[doc.items[i].at].file
        seen == Observed(f)
    IN
    /\ pc = "sources" /\ left # <<>>
    /\ ~OutOfRange(doc.items[i].at)
    /\ doc' = [doc EXCEPT
                  !.items[i].sourced = seen,
                  !.failure = CASE seen = "verified" -> @
                                [] seen = "stale" \/ @ = "stale" -> "stale"
                                [] OTHER -> "unavailable"]
    /\ bytes' = [bytes EXCEPT ![f] = @ \/ (seen = "verified" /\ req.allow > 0)]
    /\ left' = Tail(left)
    /\ UNCHANGED <<pc, outcome>>
    /\ Sealing

RefuseRange ==
    /\ pc = "sources" /\ left # <<>>
    /\ OutOfRange(doc.items[Head(left)].at)
    /\ Refuse("range")

VerifiedPrimary(d) == \E i \in WithRole(d, "primary") : i.sourced = "verified"

(* What a source that drifted makes of the status.                          *)
Drifted(d) ==
    IF d.failure = "none" THEN d
    ELSE [d EXCEPT !.exact = IF VerifiedPrimary(d) THEN "satisfied" ELSE d.failure,
                   !.status = IF VerifiedPrimary(d) THEN "partial" ELSE "blocked",
                   !.reasons = @ \union {"source"}]

(* DeepContextIrV2::validate                                                *)
RanksAreDense(d) == \A i \in DOMAIN d.items : d.items[i].rank = i - 1

NoticesAreDistinct(d) == \A r \in Reason : d.notices[r] <= 1

OmissionsReconcile(d) ==
    /\ d.considered = Len(d.items) + SumFunction(d.omitted)
    /\ consumed >= d.considered - d.omitted["work"]
    /\ consumed <= req.budget.work

CostReconciles(d) ==
    /\ Len(SelectSeq(d.items, Uncertain)) <= Reserve(req.budget)
    /\ Len(d.items) - Len(SelectSeq(d.items, Uncertain)) <= req.budget.records - Reserve(req.budget)
    /\ TotalBytes(d.items) <= req.budget.bytes
    /\ Fold(LAMBDA n, i : n + i.tokens, 0, d.items) <= req.budget.tokens
    /\ \A i \in Range(d.items) : i.depth <= req.budget.depth

(* A limit is only given as a reason when it was reached.                   *)
LimitsWereReached(d) ==
    /\ d.omitted["records"] > 0 =>
           Len(d.items) - Len(SelectSeq(d.items, Uncertain)) = req.budget.records - Reserve(req.budget)
    /\ d.omitted["reserve"] > 0 => Len(SelectSeq(d.items, Uncertain)) = Reserve(req.budget)

ReasonsFit(role) ==
    CASE role.state = "satisfied" -> role.reason = "none"
      [] role.state = "omitted" -> role.reason \in Limits
      [] role.state = "unavailable" -> role.reason \in {"unavailable", "no_history", "no_validation"}
      [] OTHER -> role.reason = role.state

SufficiencyIsBacked(d) ==
    /\ \A r \in Role :
          /\ ReasonsFit(d.roles[r])
          /\ d.roles[r].state = "satisfied" =>
                 WithRole(d, r) # {} /\ \A i \in WithRole(d, r) : i.quality = "qualified"
    /\ (d.exact = "satisfied") = VerifiedPrimary(d)
    /\ (d.validation = "satisfied") = (WithRole(d, "validation") # {} /\ d.deficits["validation"] = "none")
    /\ d.status = "complete" => \A i \in Range(d.items) : i.sourced \in {"no", "verified"}

AllSatisfied(d) ==
    /\ \A r \in Required(req.kind) : d.roles[r].state = "satisfied"
    /\ d.exact = "satisfied" /\ d.validation = "satisfied"

StatusHolds(d) ==
    CASE d.status = "complete" -> AllSatisfied(d) /\ d.reasons = {}
      [] d.status = "partial" -> PrimarySafe(d) /\ (~AllSatisfied(d) \/ d.failure # "none")
      [] OTHER -> ~PrimarySafe(d)

Validates(d) ==
    /\ RanksAreDense(d) /\ NoticesAreDistinct(d) /\ OmissionsReconcile(d) /\ CostReconciles(d)
    /\ LimitsWereReached(d) /\ SufficiencyIsBacked(d) /\ StatusHolds(d)

(* Source bytes are withheld when any of the sources drifted.               *)
Materialized(d) == [f \in File |-> bytes[f] /\ d.failure = "none"]

(* The generation is asked for once more, then the document is validated.   *)
Seal ==
    /\ pc = "sources" /\ left = <<>>
    /\ ~moved
    /\ \E d \in {Drifted(doc)} :
          /\ Validates(d)
          /\ doc' = d
          /\ bytes' = Materialized(d)
          /\ outcome' = [kind |-> "sealed", why |-> d.status]
    /\ pc' = "done"
    /\ UNCHANGED left
    /\ Sealing

SealFails ==
    /\ pc = "sources" /\ left = <<>>
    /\ \E d \in {Drifted(doc)} : moved \/ ~Validates(d)
    /\ Refuse(IF moved THEN "moved" ELSE "invalid")

(***************************************************************************)
(* The specification                                                       *)
(***************************************************************************)

ActivateGeneration ==
    /\ ~moved /\ pc # "done"
    /\ moved' = TRUE
    /\ UNCHANGED <<disk, pc, req, history, consumed, left, visited, cands, doc, bytes, outcome>>

EditFile(f, how) ==
    /\ pc # "done" /\ disk[f] = "indexed"
    /\ disk' = [disk EXCEPT ![f] = how]
    /\ UNCHANGED <<moved, pc, req, history, consumed, left, visited, cands, doc, bytes, outcome>>

Init ==
    /\ moved = FALSE
    /\ disk = [f \in File |-> "indexed"]
    /\ pc = "idle" /\ req = <<>> /\ history = <<>>
    /\ consumed = 0 /\ left = <<>> /\ visited = {} /\ cands = <<>>
    /\ doc = EmptyDocument
    /\ bytes = [f \in File |-> FALSE]
    /\ outcome = [kind |-> "none", why |-> "none"]

Compile ==
    \/ ResolveSeed \/ NoSeeds \/ PackSeeds
    \/ SkipNode \/ GraphExhausted \/ VisitNode \/ EndGraph
    \/ EffectsExhausted \/ VisitSubject \/ NoSubjects \/ Judge
    \/ RefusePopulated \/ TemporalOmitted \/ TemporalMoved \/ TemporalUnavailable
    \/ TemporalAvailable
    \/ BeginSeal \/ RefuseSeal \/ VerifySource \/ RefuseRange \/ Seal \/ SealFails

Next ==
    \/ \E r \in Requests, h \in Histories : Begin(r, h)
    \/ Compile
    \/ ActivateGeneration
    \/ \E f \in File, how \in {"edited", "shortened", "gone"} : EditFile(f, how)

Spec == Init /\ [][Next]_vars /\ WF_vars(Compile)

(***************************************************************************)
(* Properties                                                              *)
(***************************************************************************)

(* A compilation is refused only for a reason of the caller's or the        *)
(* world's, or in the few shapes the code's own steps do not agree on.  The *)
(* work ledger is never overrun: what a step reserves, the units held back  *)
(* for later seeds and rows cover (reserve_seed_slice, the closures' limits *)
(* and DeepWorkLedger).  What packing counts always satisfies the           *)
(* document's own budget and omission checks; its sufficiency checks fail   *)
(* only for a role whose deficit is a far end the generation does not hold. *)
(* Drift refuses nothing but a selection the live file no longer reaches.   *)
OnlyKnownRefusals ==
    outcome.kind = "refused" =>
        LET d == Drifted(doc) IN
        \/ outcome.why = "moved" /\ moved
        \/ outcome.why = "bounds" /\ Len(req.seeds) > Smaller(req.budget.records, req.budget.work)
        \/ outcome.why = "sources" /\ TooManySources(doc)
        \/ outcome.why = "authorization" /\ TooManyBytes(doc)
        \/ /\ outcome.why = "range"
           /\ \E i \in Range(doc.items) :
                  /\ i.sourced # "no" /\ Entity[i.at].ends > Kept
                  /\ disk[Entity[i.at].file] = "shortened"
        \/ outcome.why = "populated" /\ req.kind \in TemporalKinds /\ \E i \in Range(doc.items) : Uncertain(i)
        \/ /\ outcome.why = "invalid"
           /\ OmissionsReconcile(d) /\ CostReconciles(d)
           /\ \/ SufficiencyIsBacked(d)
              \/ \E r \in Role : d.deficits[r] = "unavailable" /\ d.roles[r].state = "unresolved"
           /\ StatusHolds(d) \/ d.failure # "none"
           /\ NoticesAreDistinct(d) \/ Len(req.seeds) > 1
           /\ RanksAreDense(d) \/ d.omitted["tokens"] > 0

(* A document sealed as complete has, for every role its kind of task       *)
(* requires, qualified evidence and nothing of that role left out, of bad   *)
(* quality or unread for want of work; a primary item whose source is the   *)
(* indexed one; no source that drifted; and the generation was still the    *)
(* request's when it was sealed.  Source bytes leave the compilation only   *)
(* with a sealed document, as many as the caller allowed, and only when     *)
(* every source the document selects was verified: one that drifted         *)
(* withholds them all (seal_deep_context_ir_v2_with_live_sources).          *)
SealedIsEarned ==
    /\ outcome = [kind |-> "sealed", why |-> "complete"] =>
        /\ ~moved
        /\ \A role \in Required(req.kind) :
               WithRole(doc, role) # {} /\ doc.deficits[role] = "none"
        /\ \A i \in Range(doc.items) :
               /\ i.role \in Required(req.kind) => i.quality = "qualified"
               /\ i.sourced \in {"no", "verified"}
        /\ VerifiedPrimary(doc)
        /\ WithRole(doc, "validation") # {}
    /\ pc = "done" /\ (\E f \in File : bytes[f]) =>
        /\ outcome.kind = "sealed"
        /\ 0 < TotalBytes(doc.items) /\ TotalBytes(doc.items) <= req.allow
        /\ \A i \in Range(doc.items) :
               i.sourced # "no" => i.sourced = "verified" /\ bytes[Entity[i.at].file]

(* SPEC-bounded-context-compiler.md:107: "All required task recipes produce *)
(* sufficient evidence or exact deficits."  The code refuses some requests. *)
EveryTaskIsAnswered ==
    outcome.kind = "refused" => outcome.why \in {"moved", "bounds", "sources", "authorization"}

(* Every compilation ends, whatever is activated or edited meanwhile.       *)
CompileEnds == pc # "idle" ~> pc = "done"
=============================================================================
