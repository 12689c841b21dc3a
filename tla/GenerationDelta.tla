--------------------------- MODULE GenerationDelta --------------------------
(* Differences between two committed generations, the temporal report that  *)
(* explains the active one, and evidence leases.  A difference is computed  *)
(* from committed rows and from the live tree, then persisted under an id   *)
(* made of the two generations; a task session computes one without the     *)
(* writer lease and persists it in the transaction that completes it.       *)
EXTENDS EvidenceStore

CONSTANT RecordLimits   \* the max_records a caller may ask for

ASSUME DeltaAssumption == RecordLimits \subseteq Nat

VARIABLES
    deltas,     \* <<from, to>> -> the persisted delta
    query,      \* a temporal or generation-delta command at work
    completion, \* a task completion at work
    leases      \* [gen, doc, hash] -> state

deltaVars == <<deltas, query, completion, leases>>

-----------------------------------------------------------------------------
(* files_for                                                                *)
Present(g) == {d \in Doc : gens[g].files[d] # Absent}

(* Mutant: files that are gone are not reported.                            *)
MutFileChanges(from, to) ==
    {[doc |-> d, kind |-> "modified", after |-> gens[to].files[d]] :
        d \in {e \in Present(to) : gens[from].files[e] # gens[to].files[e]}}

FileChanges(from, to) ==
    LET old == gens[from].files
        new == gens[to].files
    IN    {[doc |-> d, kind |-> "added", after |-> new[d]] : d \in Present(to) \ Present(from)}
     \cup {[doc |-> d, kind |-> "modified", after |-> new[d]] :
             d \in {e \in Present(to) \cap Present(from) : old[e] # new[e]}}
     \cup {[doc |-> d, kind |-> "removed", after |-> Absent] : d \in Present(from) \ Present(to)}

(* symbols_for: of several facts of a key the last one by id.               *)
Keys(g) == {f.doc : f \in FactsOf(g, facts)}
Snapshot(g, key) ==
    CHOOSE f \in SymbolFacts(g, key) : \A e \in SymbolFacts(g, key) : FactId(e) <= FactId(f)

(* relationships_for: the calls of a symbol with their resolution rows; a   *)
(* structural one has none.                                                 *)
States(g, key) ==
    {[target |-> Calls[f.doc][f.text], by |-> f.by,
      row |-> IF f \in DOMAIN gens[g].resolved THEN <<gens[g].resolved[f]>> ELSE <<>>] :
        f \in SymbolFacts(g, key)}

EffectiveTarget(s) == IF s.row \in {<<>>, <<None>>} THEN s.target ELSE s.row[1]

OutboundTargets(g, key) == {EffectiveTarget(s) : s \in States(g, key)}

SymbolChange(from, to, key) ==
    LET old == Snapshot(from, key)
        new == Snapshot(to, key)
    IN  CASE old.text # new.text -> "semantic_identity_changed"
          [] old.text = new.text /\ old.by # new.by -> "evidence_state_changed"
          [] OTHER -> IF OutboundTargets(from, key) # OutboundTargets(to, key)
                      THEN "relationship_set_changed" ELSE "none"

SymbolChanges(from, to) ==
         {[key |-> k, kind |-> "added"] : k \in Keys(to) \ Keys(from)}
    \cup {[key |-> k, kind |-> "removed"] : k \in Keys(from) \ Keys(to)}
    \cup {c \in {[key |-> k, kind |-> SymbolChange(from, to, k)] : k \in Keys(to) \cap Keys(from)} :
            c.kind # "none"}

(* diff_relationships, per caller and target: what is in both is no change, *)
(* of the rest as many as possible are paired as changed states; one removed*)
(* and one added that are left are a retargeted call.                       *)
RelationshipChanges(from, to, key) ==
    LET gone == States(from, key) \ States(to, key)
        come == States(to, key) \ States(from, key)
        at(states, t) == Cardinality({s \in states : EffectiveTarget(s) = t})
        removed == {t \in Doc : at(gone, t) > at(come, t)}
        added == {t \in Doc : at(come, t) > at(gone, t)}
        lone == /\ Cardinality(removed) = 1 /\ Cardinality(added) = 1
                /\ \A t \in removed : at(gone, t) - at(come, t) = 1
                /\ \A t \in added : at(come, t) - at(gone, t) = 1
    IN  [changed |-> {t \in Doc : at(gone, t) > 0 /\ at(come, t) > 0},
         retargeted |-> IF lone THEN added ELSE {},
         removed |-> IF lone THEN {} ELSE removed,
         added |-> IF lone THEN {} ELSE added]

(* diff_coverage: per provider, reported complete or failed.                *)
CoverageChanges(from, to) == {p \in Provider : p \in gens[from].ran <=> p \notin gens[to].ran}

(* symbol_has_complete_coverage: some coverage row speaks for the symbol's  *)
(* provider, and none is incomplete.                                        *)
Covered(g, key) == Snapshot(g, key).by \in gens[g].ran

(* live_source_digest                                                       *)
MatchesLive(g, doc) == tree[doc] = gens[g].files[doc]

Unchanged(from, to) ==
    {k \in Keys(from) \cap Keys(to) : SymbolChange(from, to, k) = "none"}

Contracts(from, to) ==
    {k \in Unchanged(from, to) : Covered(from, k) /\ Covered(to, k) /\ MatchesLive(to, k)}

Uncertainty(from, to) ==
         {u \in {"coverage"} : \E k \in Unchanged(from, to) : ~ (Covered(from, k) /\ Covered(to, k))}
    \cup {u \in {"live"} : \E k \in Unchanged(from, to) : ~ MatchesLive(to, k)}

(* compute_generation_delta; index_generation.provider_set_hash is the same *)
(* for every generation, so it never tells two apart.                       *)
DeltaOf(from, to) ==
    [files |-> FileChanges(from, to),
     symbols |-> SymbolChanges(from, to),
     relationships |-> [k \in Keys(from) \cup Keys(to) |-> RelationshipChanges(from, to, k)],
     coverage |-> CoverageChanges(from, to),
     contracts |-> Contracts(from, to),
     uncertainty |-> Uncertainty(from, to)]

-----------------------------------------------------------------------------
NoQuery == [step |-> "idle"]

DeltaInit ==
    /\ deltas = <<>>
    /\ query = NoQuery
    /\ completion = NoQuery
    /\ leases = <<>>

(* INSERT OR IGNORE into a table keyed by k.                                *)
InsertOrIgnore(table, k, v) ==
    [x \in DOMAIN table \cup {k} |-> IF x \in DOMAIN table THEN table[x] ELSE v]

(* Mutant: INSERT OR REPLACE.                                                *)
MutPersist(from, to, delta) ==
    /\ deltas' = (<<from, to>> :> delta) @@ deltas
    /\ UNCHANGED leases

(* persist_generation_delta_rows; the id is taken by the first content.     *)
Persist(from, to, delta) ==
    /\ deltas' = InsertOrIgnore(deltas, <<from, to>>, delta)
    /\ UNCHANGED leases

Conflicts(from, to, delta) ==
    <<from, to>> \in DOMAIN deltas /\ deltas[<<from, to>>] # delta

(* ensure_ancestor walks the parents of the active generation.              *)
Ancestors(g) ==
    LET above[h \in 0 .. MaxGens] ==
          IF h = None THEN {} ELSE {gens[h].parent} \cup above[gens[h].parent]
    IN  above[g] \ {None}

(* atlas temporal: the active generation against its parent or a requested  *)
(* ancestor; atlas generation-delta: any two committed generations.         *)
BeginTemporal ==
    /\ active # None
    /\ Acquire("temporal")
    /\ LET parent == gens[active].parent
       IN  \E from \in {parent} \cup Committed :
             query' = IF from = None THEN [step |-> "baseline"]
                      ELSE IF from \in Ancestors(active)
                      THEN [step |-> "compare", report |-> TRUE, from |-> from, to |-> active]
                      ELSE [step |-> "refused"]
    /\ UNCHANGED <<tree, edits, gens, active, facts, recon, deltas, completion, leases>>

BeginGenerationDelta ==
    /\ Acquire("temporal")
    /\ \E from, to \in Committed :
         /\ from # to
         /\ query' = [step |-> "compare", report |-> FALSE, from |-> from, to |-> to]
    /\ UNCHANGED <<tree, edits, gens, active, facts, recon, deltas, completion, leases>>

ComputeDelta ==
    /\ query.step = "compare"
    /\ query' = [step |-> "persist", report |-> query.report, from |-> query.from, to |-> query.to,
                 delta |-> DeltaOf(query.from, query.to)]
    /\ UNCHANGED <<storeVars, deltas, completion, leases>>

PersistDelta ==
    /\ query.step = "persist"
    /\ Persist(query.from, query.to, query.delta)
    /\ query' = IF Conflicts(query.from, query.to, query.delta)
                THEN [step |-> "conflict"]
                ELSE IF query.report THEN [query EXCEPT !.step = "summarize"]
                ELSE [step |-> "reported"]
    /\ UNCHANGED <<storeVars, completion>>

-----------------------------------------------------------------------------
(* push_category: everything that changed, file by file, then the symbols,  *)
(* relationships and coverage; a report returns the first max_records.      *)
RelationshipRows(rels) ==
    {row \in (DOMAIN rels) \X ({"changed", "retargeted", "removed", "added"} \X Doc) :
        row[2][2] \in rels[row[1]][row[2][1]]}

TotalMatched(delta) ==
    Cardinality(delta.files) + Cardinality(delta.symbols) + Cardinality(delta.coverage)
    + Cardinality(RelationshipRows(delta.relationships))

(* Lists are ordered by path, or by symbol key.                             *)
Returned(listed, limit) == {d \in listed : Cardinality({e \in listed : e < d}) < limit}

(* Whether any change but an addition was found.                            *)
Disruptive(delta) ==
    \/ \E c \in delta.files \cup delta.symbols : c.kind # "added"
    \/ \E r \in Range(delta.relationships) : r.changed \cup r.retargeted \cup r.removed # {}

Additive(delta) ==
    \/ \E c \in delta.files \cup delta.symbols : c.kind = "added"
    \/ \E r \in Range(delta.relationships) : r.added # {}

(* Mutant: what was left out of the report raises no signal.                *)
MutModerate(q) == Disruptive(q.delta) \/ None \in Range(gens[q.to].resolved)

(* The signals of summarize_risk by their level; the counts of coverage and *)
(* unresolved relationships are of the newer generation alone.              *)
High(q, stale) ==
    \/ q.stale \cup stale # {}
    \/ q.delta.uncertainty # {}
    \/ gens[q.to].ran # Provider

Moderate(q) ==
    \/ TotalMatched(q.delta) > q.limit \/ Cardinality(q.delta.contracts) > q.limit
    \/ Disruptive(q.delta)
    \/ None \in Range(gens[q.to].resolved)

Risk(q, stale) ==
    IF High(q, stale) THEN "high"
    ELSE IF Moderate(q) THEN "moderate"
    ELSE IF Additive(q.delta) THEN "low"
    ELSE IF TotalMatched(q.delta) = 0 /\ q.delta.contracts = {} THEN "unknown" ELSE "none"

(* summarize_changes hashes the live files of the returned changes ...      *)
SummarizeChanges ==
    /\ query.step = "summarize"
    /\ \E limit \in RecordLimits :
         LET paths == Returned({c.doc : c \in query.delta.files}, limit) \cap Present(query.to)
             current == {d \in paths : MatchesLive(query.to, d)}
         IN  query' = [step |-> "validate", from |-> query.from, to |-> query.to,
                       delta |-> query.delta, limit |-> limit, current |-> current,
                       stale |-> paths \ current]
    /\ UNCHANGED <<storeVars, deltas, completion, leases>>

(* ... and summarize_validity, later, those of the returned contracts.      *)
Report ==
    /\ query.step = "validate"
    /\ LET contracts == Returned(query.delta.contracts, query.limit)
           current == {k \in contracts : MatchesLive(query.to, k)}
       IN  query' = [step |-> "answered", from |-> query.from, to |-> query.to,
                     current |-> query.current \cup current,
                     risk |-> Risk(query, contracts \ current)]
    /\ UNCHANGED <<storeVars, deltas, completion, leases>>

EndQuery ==
    /\ query.step \in {"baseline", "refused", "conflict", "reported", "answered"}
    /\ Release("temporal")
    /\ query' = NoQuery
    /\ UNCHANGED <<tree, edits, gens, active, facts, recon, deltas, completion, leases>>

AbortQuery ==
    /\ "temporal" \in working
    /\ Release("temporal")
    /\ query' = NoQuery
    /\ UNCHANGED <<tree, edits, gens, active, facts, recon, deltas, completion, leases>>

(* complete_legacy_task_session: computed outside the transaction and       *)
(* without the lease, for a session begun under an earlier generation.      *)
BeginCompletion ==
    /\ completion.step # "computed"
    /\ active # None
    /\ \E start \in Committed \ {active} :
         completion' = [step |-> "computed", from |-> start, to |-> active,
                        delta |-> DeltaOf(start, active)]
    /\ UNCHANGED <<storeVars, deltas, query, leases>>

(* complete_task_session: refused when another generation became active.    *)
FinishCompletion ==
    /\ completion.step = "computed"
    /\ LET refused == completion.to # active \/ Conflicts(completion.from, completion.to, completion.delta)
       IN  /\ IF refused THEN UNCHANGED <<deltas, leases>>
              ELSE Persist(completion.from, completion.to, completion.delta)
           /\ completion' = [step |-> IF refused THEN "refused" ELSE "completed"]
    /\ UNCHANGED <<storeVars, query>>

-----------------------------------------------------------------------------
(* create_evidence_lease on a file of the active generation: the id is a    *)
(* hash of what the lease is about, and a lease that exists is left alone.  *)
Lease(d) == [gen |-> active, doc |-> d, hash |-> gens[active].files[d]]

CreateLease(d) ==
    /\ active # None /\ d \in Present(active)
    /\ leases' = InsertOrIgnore(leases, Lease(d), "valid")
    /\ UNCHANGED <<storeVars, deltas, query, completion>>

(* current_dependency_digest for the evidence and the source of a lease.    *)
Witnessed(l) ==
    /\ l.gen = active
    /\ l.doc \in Present(l.gen)
    /\ tree[l.doc] = l.hash

(* verify_evidence_lease: any mismatch invalidates it.                      *)
VerifyLease(l) ==
    /\ l \in DOMAIN leases
    /\ leases' = IF leases[l] = "valid" /\ ~ Witnessed(l) THEN [leases EXCEPT ![l] = "invalidated"]
                 ELSE leases
    /\ UNCHANGED <<storeVars, deltas, query, completion>>

Comparing ==
    \/ BeginTemporal \/ BeginGenerationDelta \/ ComputeDelta \/ PersistDelta
    \/ SummarizeChanges \/ Report \/ EndQuery \/ AbortQuery
Completing == BeginCompletion \/ FinishCompletion
Leasing ==
    \/ \E d \in Doc : CreateLease(d)
    \/ \E l \in DOMAIN leases : VerifyLease(l)

-----------------------------------------------------------------------------
(* Applied to what the older generation lists, a persisted difference gives *)
(* what the newer one lists; a symbol of both that is not reported as       *)
(* changed is vouched for, or the difference admits to uncertainty; and a   *)
(* contract is vouched for only when both generations hold the same text of *)
(* its file and a provider that answered for both.                          *)
DifferencesExplain ==
    \A pair \in DOMAIN deltas :
        LET from == pair[1] to == pair[2] delta == deltas[pair]
            applied == [d \in Doc |->
                IF \E c \in delta.files : c.doc = d
                THEN (CHOOSE c \in delta.files : c.doc = d).after ELSE gens[from].files[d]]
        IN  /\ applied = gens[to].files
            /\ \A k \in Present(from) \cap Present(to) :
                 \/ \E c \in delta.symbols : c.key = k
                 \/ k \in delta.contracts
                 \/ delta.uncertainty # {}
            /\ \A k \in delta.contracts :
                 /\ gens[from].files[k] = gens[to].files[k]
                 /\ gens[from].ran \cap gens[to].ran # {}

(* A report of less than moderate risk has met, in the live tree and as     *)
(* indexed, every file with a symbol that the newer generation lists, and   *)
(* the older one lists none that is different or missing in the newer: not  *)
(* when its limit left something out, and not when a file was edited while  *)
(* the difference, its changes and its contracts were looked at in turn.    *)
LowRiskIsVerified ==
    query.step = "answered" /\ query.risk \in {"none", "low", "unknown"} =>
        /\ Present(query.to) \subseteq query.current
        /\ \A d \in Present(query.from) : gens[query.to].files[d] = gens[query.from].files[d]

(* What is persisted, and what is reported of it, explains the difference.  *)
DeltasExplain == DifferencesExplain /\ LowRiskIsVerified

(* A persisted difference keeps its content, and a lease once invalidated   *)
(* is never trusted again, whoever computes, creates or verifies meanwhile. *)
RecordsAreFinal ==
    [][/\ \A pair \in DOMAIN deltas : pair \in DOMAIN deltas' /\ deltas'[pair] = deltas[pair]
       /\ \A l \in DOMAIN leases :
            /\ l \in DOMAIN leases'
            /\ leases[l] = "invalidated" => leases'[l] = "invalidated"]_deltaVars

=============================================================================
