--------------------------- MODULE ContextGovernor ---------------------------
(* One governor run: the request is bound to the generation it observes, a  *)
(* route is decided, DIRECT, LIGHT and DEEP are tried in that order, and a   *)
(* bound task session is activated when context was acquired.  LIGHT reads   *)
(* the catalogue statement by statement; reconciles activate generations,    *)
(* files are edited and another client ends the session meanwhile.           *)
EXTENDS Integers, Sequences, FiniteSets, SequencesExt, Functions, TLC

CONSTANTS
    Path, Symbol,           \* the targets a request may name
    IndexRows,              \* sequence of generations: target -> its rows
    Text, FirstText,        \* what a file may hold, what it holds at first
    RunRequests,            \* the requests a client may make
    MaxQueryTargets,        \* max_query_targets
    MaxDeepTargets          \* the DEEP budget's max_records and max_work_units

Target == Path \union Symbol

VARIABLES
    active,     \* index of the active generation, 0 for none
    disk,       \* path -> text
    held,       \* path -> the texts it had since the run began
    taskSession,    \* [state, start]
    request,    \* [intent, floor, ceiling, caps, seeds, bound]
    start,      \* decision.starting_generation, 0 if unavailable
    pc, route,
    script,     \* LIGHT's statements still to run, as <<target, statement>>
    found,      \* <<target, column>> -> what a statement answered
    attempts,   \* the execution's attempts
    result      \* the envelope, or why there is none

worldVars == <<active, disk, held, taskSession>>
runVars == <<request, start>>
lightVars == <<script, found>>
vars == <<worldVars, runVars, pc, route, lightVars, attempts, result>>

Direct == 0
Light == 1
Deep == 2

LightCapability == {"identity", "source", "relationships", "impact", "coverage"}
DeepCapability == {"temporal", "closure", "validation"}
Capability == LightCapability \union DeepCapability

(* What a generation says of a target: how many rows answer to its name,    *)
(* and how many tell of it; a path is the key of its generation's files.    *)
TargetRow ==
    [matches : Nat, rels : Nat, ok : Nat, bad : Nat, full : Nat, part : Nat,
     semantic : Nat, covering : Nat, text : Text]

(* A request names capabilities the caller has or lacks, and two routes.    *)
GovernorAssumption ==
    /\ Path \cap Symbol = {}
    /\ IndexRows \in Seq([Target -> TargetRow]) /\ IndexRows # <<>>
    /\ \A g \in DOMAIN IndexRows, p \in Path : IndexRows[g][p].matches <= 1
    /\ FirstText \in Text
    /\ MaxQueryTargets \in Nat \ {0}
    /\ MaxDeepTargets \in Nat
    /\ \A r \in RunRequests :
         /\ r.intent \in {"none", "allow", "require"}
         /\ r.floor \in Direct .. Deep /\ r.ceiling \in Direct .. Deep
         /\ DOMAIN r.caps \subseteq Capability
         /\ r.seeds \subseteq Target /\ IsFiniteSet(r.seeds)
         /\ r.bound \in BOOLEAN

(* RequiredCapability::minimum_route                                        *)
MinimumRoute(c) == IF c \in LightCapability THEN Light ELSE Deep

Larger(a, b) == IF a < b THEN b ELSE a

(* validate_request: what the floor, the ceiling and the intent must obey.  *)
Legal(r) ==
    /\ r.floor <= r.ceiling
    /\ r.intent = "none" => r.floor = Direct
    /\ r.intent = "require" => r.ceiling # Direct

(* decide_context_route; the initial route is the effective floor.          *)
Floor(r) ==
    CASE r.intent = "none"    -> Direct
      [] r.intent = "allow"   -> r.floor
      [] r.intent = "require" -> Larger(r.floor, Light)

Ceiling(r) == IF r.intent = "none" THEN Direct ELSE r.ceiling

Requested == DOMAIN request.caps

(* caller_satisfaction: unknown counts as unsatisfied everywhere.           *)
CallerSatisfied == {c \in Requested : request.caps[c]}

Needs(c) == c \in Requested \ CallerSatisfied

Sufficient == CallerSatisfied = Requested

Deficits(caps, reason) == {[cap |-> c, reason |-> reason] : c \in caps}

CallerDeficits == Deficits(Requested \ CallerSatisfied, "unavailable")

NoResult == [kind |-> "none"]

TypeOK ==
    /\ active \in 0 .. Len(IndexRows)
    /\ disk \in [Path -> Text]
    /\ held \in [Path -> SUBSET Text]
    /\ taskSession.state \in {"created", "context_compiled", "active", "abandoned"}
    /\ start \in 0 .. Len(IndexRows)
    /\ route \in {Direct, Light, Deep}
    /\ Len(attempts) <= 3
    /\ result.kind \in {"none", "completed", "partial", "blocked", "invalid", "error"}

Init ==
    /\ request \in {r \in RunRequests : Legal(r)}
    /\ active \in 0 .. 1
    /\ disk = [p \in Path |-> FirstText]
    /\ held = [p \in Path |-> {disk[p]}]
    /\ taskSession \in [state : IF request.bound THEN {"created", "active"} ELSE {"created"},
                       start : {1}]
    /\ start = 0
    /\ pc = "build"
    /\ route = Direct
    /\ script = {}
    /\ found = <<>>
    /\ attempts = <<>>
    /\ result = NoResult

-----------------------------------------------------------------------------
(* What others do during the run.                                           *)
ActivateGeneration ==
    /\ pc # "done"
    /\ active < Len(IndexRows)
    /\ active' = active + 1
    /\ UNCHANGED <<disk, held, taskSession, runVars, pc, route, lightVars, attempts, result>>

EditFile(p) ==
    /\ pc # "done"
    /\ p \in request.seeds /\ Needs("source")     \* others are never read
    /\ Cardinality(held[p]) = 1                   \* bound: one edit a file
    /\ \E t \in Text \ {disk[p]} :
        /\ disk' = [disk EXCEPT ![p] = t]
        /\ held' = [held EXCEPT ![p] = @ \union {t}]
    /\ UNCHANGED <<active, taskSession, runVars, pc, route, lightVars, attempts, result>>

(* abandon_task_session by another client.                                  *)
AbandonSession ==
    /\ request.bound
    /\ pc # "done"
    /\ taskSession.state # "abandoned"
    /\ taskSession' = [taskSession EXCEPT !.state = "abandoned"]
    /\ UNCHANGED <<active, disk, held, runVars, pc, route, lightVars, attempts, result>>

-----------------------------------------------------------------------------
Fail ==
    /\ result' = [kind |-> "error"]
    /\ pc' = "done"

(* build_governor_run_request: the observation is taken once, here.         *)
BuildRequest ==
    /\ pc = "build"
    /\ start' = active
    /\ pc' = "dispatch"
    /\ UNCHANGED <<worldVars, request, route, lightVars, attempts, result>>

(* validate_legacy_session: the identity fixes the start generation.        *)
SessionFits(s) == s.start = start /\ s.state # "abandoned"

BindSession ==
    /\ pc = "dispatch"
    /\ \/ /\ request.bound => start # 0 /\ SessionFits(taskSession)
          /\ pc' = "observe"
          /\ UNCHANGED result
       \/ /\ request.bound
          /\ start = 0 \/ ~SessionFits(taskSession)
          /\ Fail
    /\ UNCHANGED <<worldVars, runVars, route, lightVars, attempts>>

(* The second observation; a request that DIRECT can answer is decided      *)
(* again on it.                                                             *)
Decide ==
    /\ pc = "observe"
    /\ start' = IF Floor(request) = Direct /\ Sufficient THEN active ELSE start
    /\ route' = Floor(request)
    /\ pc' = "route"
    /\ UNCHANGED <<worldVars, request, lightVars, attempts, result>>

-----------------------------------------------------------------------------
(* The envelope's constructors and ContextExecution::validate.              *)
Attempt(r, state, deficits, failure) ==
    [route |-> r, state |-> state, deficits |-> deficits, failure |-> failure]

Lacking(deficits) == {d.cap : d \in deficits}

Reasons(e) == {d.reason : d \in e.deficits}

(* validate_terminal_reason                                                 *)
ReasonFits(e) ==
    CASE e.reason = "route_ceiling_reached"  -> e.route = Ceiling(request)
      [] e.reason = "capability_unavailable" ->
            Reasons(e) \cap {"unavailable", "stale", "unsupported"} # {}
      [] e.reason = "generation_unavailable" -> e.failure = "generation_unavailable"
      [] e.reason = "generation_changed"     -> e.failure = "generation_changed"
      [] e.reason = "none"                   -> e.kind = "completed"

(* light_deficits_can_escalate                                              *)
CanEscalate(deficits) ==
    /\ deficits # {}
    /\ \A d \in deficits :
        /\ d.reason # "unsupported"
        /\ \/ MinimumRoute(d.cap) = Deep
           \/ d.reason = "semantic_budget_omitted"
           \/ d.cap = "identity" /\ d.reason = "ambiguous"
           \/ d.cap \in {"relationships", "impact", "coverage"} /\ d.reason = "conflicting"

(* valid_attempt_transition                                                 *)
Follows(b, a) ==
    /\ a.state = "partial"
    /\ a.failure = "none"
    /\ a.deficits # {}
    /\ \A c \in Lacking(a.deficits) : Needs(c)
    /\ \/ a.route = Direct /\ b.route = Light
       \/ a.route = Light /\ b.route = Deep /\ CanEscalate(a.deficits)

(* validate_satisfied_capabilities                                          *)
Accounts(e) ==
    /\ e.satisfied \subseteq Requested
    /\ \A c \in e.satisfied : Needs(c) => MinimumRoute(c) <= e.route
    /\ Lacking(e.deficits) \subseteq Requested \ e.satisfied
    /\ e.failure = "none" => e.satisfied \union Lacking(e.deficits) = Requested

(* ContextExecution::validate                                               *)
Valid(e, tries) ==
    /\ \A i \in 1 .. Len(tries) :
        /\ tries[i].route \in Floor(request) .. Ceiling(request)
        /\ i > 1 => Follows(tries[i], tries[i - 1])
    /\ tries # <<>> => tries[1].route = Floor(request)
    /\ start = 0 => \A i \in 1 .. Len(tries) : tries[i].route = Direct
    /\ tries = <<>> <=> e.failure = "generation_unavailable"
    /\ tries # <<>> => Last(tries).route = e.route /\ Last(tries).state = e.kind
    /\ e.kind = "completed" => \A c \in Requested : Needs(c) => MinimumRoute(c) <= e.route
    /\ e.kind = "partial" => e.payload = e.route /\ e.satisfied # {}
    /\ Accounts(e)
    /\ ReasonFits(e)

(* A run ends with its envelope, or with InvalidExecution and none.         *)
Finish(e, tries) ==
    /\ attempts' = tries
    /\ result' = IF Valid(e, tries) THEN e ELSE [kind |-> "invalid", refused |-> e]
    /\ pc' = IF Valid(e, tries) /\ e.kind \in {"completed", "partial"} /\ request.bound
             THEN "activate" ELSE "done"

Envelope(kind, r, satisfied, deficits, failure, reason) ==
    [kind |-> kind, route |-> r, satisfied |-> satisfied, deficits |-> deficits,
     failure |-> failure, reason |-> reason,
     payload |-> IF kind = "blocked" THEN -1 ELSE r]

-----------------------------------------------------------------------------
(* execute_context_route, up to its loop.                                   *)
NoGeneration ==
    /\ pc = "route"
    /\ start = 0
    /\ ~(route = Direct /\ Sufficient)
    /\ Finish(Envelope("blocked", route, CallerSatisfied, {},
                       "generation_unavailable", "generation_unavailable"), <<>>)
    /\ UNCHANGED <<worldVars, runVars, route, lightVars>>

DirectCompletes ==
    /\ pc = "route"
    /\ route = Direct
    /\ Sufficient
    /\ Finish(Envelope("completed", Direct, Requested, {}, "none", "none"),
              << Attempt(Direct, "completed", {}, "none") >>)
    /\ UNCHANGED <<worldVars, runVars, route, lightVars>>

DirectBlocked ==
    /\ pc = "route"
    /\ start # 0
    /\ route = Direct
    /\ ~Sufficient
    /\ Ceiling(request) = Direct
    /\ Finish(Envelope("blocked", Direct, CallerSatisfied, CallerDeficits, "none",
                       "route_ceiling_reached"),
              << Attempt(Direct, "blocked", CallerDeficits, "none") >>)
    /\ UNCHANGED <<worldVars, runVars, route, lightVars>>

EnterAtlas ==
    /\ pc = "route"
    /\ start # 0
    /\ \/ /\ route = Direct
          /\ ~Sufficient
          /\ Ceiling(request) # Direct
          /\ attempts' = << Attempt(Direct, "partial", CallerDeficits, "none") >>
          /\ route' = Light
       \/ /\ route # Direct
          /\ UNCHANGED <<attempts, route>>
    /\ pc' = "check"
    /\ UNCHANGED <<worldVars, runVars, lightVars, result>>

(* Mutant: only an older generation counts as another one.                  *)
MutGenerationMoved ==
    /\ pc = "check"
    /\ active < start
    /\ Finish(Envelope("blocked", route, CallerSatisfied, {},
                       "generation_changed", "generation_changed"),
              Append(attempts, Attempt(route, "blocked", {}, "generation_changed")))
    /\ UNCHANGED <<worldVars, runVars, route, lightVars>>

(* generation_failure: `active` is positive once it was.                    *)
GenerationMoved ==
    /\ pc = "check"
    /\ active # start
    /\ Finish(Envelope("blocked", route, CallerSatisfied, {},
                       "generation_changed", "generation_changed"),
              Append(attempts, Attempt(route, "blocked", {}, "generation_changed")))
    /\ UNCHANGED <<worldVars, runVars, route, lightVars>>

-----------------------------------------------------------------------------
(* dispatch_real_light: targets are examined paths first.                   *)
Asked == SetToSeq(request.seeds \cap Path) \o SetToSeq(request.seeds \cap Symbol)

QueryInvoked ==
    /\ request.seeds # {}
    /\ Sufficient \/ \E c \in {"identity", "relationships", "impact", "coverage"} : Needs(c)

Examined == IF QueryInvoked THEN SubSeq(Asked, 1, IF MaxQueryTargets < Len(Asked)
                                                  THEN MaxQueryTargets ELSE Len(Asked))
            ELSE <<>>

Queried == Range(Examined)

SourcePaths == IF Needs("source") THEN request.seeds \cap Path ELSE {}

(* The statements bounded_query_projection runs for one target.             *)
Statements ==
    {"identity", "owner"}
    \union {s \in {"relationships", "impact", "coverage"} : Needs(s)}
    \union {s \in {"conflicts"} : \E c \in {"relationships", "impact", "coverage"} : Needs(c)}

(* Target by target in the order asked, one's statements in their order;    *)
(* sources are verified after all queries.                                  *)
Turn == [identity |-> 1, owner |-> 2, relationships |-> 3, impact |-> 4, coverage |-> 5,
         conflicts |-> 6, source |-> 7]

Place(t) == CHOOSE i \in DOMAIN Asked : Asked[i] = t

Precedes(x, y) ==
    \/ x[2] # "source" /\ y[2] = "source"
    \/ /\ x[2] = "source" <=> y[2] = "source"
       /\ \/ x[1] # y[1] /\ Place(x[1]) < Place(y[1])
          \/ x[1] = y[1] /\ Turn[x[2]] < Turn[y[2]]

Due == (Queried \X Statements) \union (SourcePaths \X {"source"})

BeginLight ==
    /\ pc = "check"
    /\ active = start
    /\ route = Light
    /\ script' = Due
    /\ pc' = "light"
    /\ UNCHANGED <<worldVars, runVars, route, found, attempts, result>>

RowsOf(t, column) == IndexRows[start][t][column]

(* Mutant: the join is not confined to the decision's generation.           *)
MutIndexed(t, column) == IndexRows[active][t][column]

(* A statement that joins current_file, the view of the active generation.  *)
Indexed(t, column) == IF active = start THEN RowsOf(t, column) ELSE 0

Statement(t, s) ==
    /\ pc = "light"
    /\ <<t, s>> \in script
    /\ \A x \in script : ~Precedes(x, <<t, s>>)
    /\ script' = script \ {<<t, s>>}
    /\ UNCHANGED <<worldVars, runVars, pc, route, attempts, result>>

Learn(t, answers) ==
    found' = [k \in DOMAIN found \union ({t} \X DOMAIN answers) |->
                 IF k \in DOMAIN found THEN found[k] ELSE answers[k[2]]]

Told(t, column) == IF <<t, column>> \in DOMAIN found THEN found[<<t, column>>] ELSE 0

ReadIdentity(t) ==
    /\ Statement(t, "identity")
    /\ Learn(t, [matches |-> Indexed(t, "matches")])

ReadRelationships(t) ==
    /\ Statement(t, "relationships")
    /\ Learn(t, [rels |-> Indexed(t, "rels")])

ReadImpact(t) ==
    /\ Statement(t, "impact")
    /\ Learn(t, [ok |-> Indexed(t, "ok"), bad |-> Indexed(t, "bad")])

(* The owning file, looked up only for a unique match.                      *)
ReadOwner(t) ==
    /\ Statement(t, "owner")
    /\ Learn(t, [owner |-> IF Told(t, "matches") = 1 THEN Indexed(t, "matches") ELSE 0])

(* coverage_record is read by generation and owner, not through the view.   *)
ReadCoverage(t) ==
    /\ Statement(t, "coverage")
    /\ Learn(t, [full |-> Told(t, "owner") * RowsOf(t, "full"),
                 part |-> Told(t, "owner") * RowsOf(t, "part")])

(* evidence_conflict is read by generation and subject alone.               *)
ReadConflicts(t) ==
    /\ Statement(t, "conflicts")
    /\ Learn(t, [semantic |-> IF Needs("relationships") \/ Needs("impact")
                              THEN RowsOf(t, "semantic") ELSE 0,
                 covering |-> IF Needs("coverage") THEN RowsOf(t, "covering") ELSE 0])

(* verify_exact_source_at_generation; a file may be unreadable or replaced  *)
(* while it is hashed.                                                      *)
VerifySource(t) ==
    /\ Statement(t, "source")
    /\ \/ Indexed(t, "matches") = 0 /\ Learn(t, [source |-> "not_found"])
       \/ /\ Indexed(t, "matches") # 0
          /\ \/ Learn(t, [source |-> "read_failed"])
             \/ Learn(t, [source |-> IF disk[t] = RowsOf(t, "text") THEN "verified"
                                     ELSE "hash_mismatch"])

(* The flags of a LightQueryProjection; LIMIT 3, two rows are kept.         *)
Truncated(n) == n > 2

ConflictsTruncated(t) == Truncated(Told(t, "semantic") + Told(t, "covering"))

RelationshipOmitted(t) == Truncated(Told(t, "rels")) \/ ConflictsTruncated(t)

ImpactOmitted(t) == Truncated(Told(t, "ok") + Told(t, "bad")) \/ ConflictsTruncated(t)

CoverageOmitted(t) == Truncated(Told(t, "full") + Told(t, "part")) \/ ConflictsTruncated(t)

CoverageComplete(t) == Told(t, "full") > 0 /\ Told(t, "part") = 0

IdentityDeficit ==
    IF Queried = {} \/ \E t \in Queried : Told(t, "matches") = 0 THEN "unsupported"
    ELSE IF \E t \in Queried : Told(t, "matches") > 1 THEN "ambiguous"
    ELSE "ok"

(* What the four query capabilities have in common: omission first, then    *)
(* the identity, then conflicts, then evidence for every target.            *)
QueryOutcome(omitted, conflicting, evident) ==
    IF (QueryInvoked /\ Len(Examined) < Len(Asked)) \/ omitted # {}
    THEN "semantic_budget_omitted"
    ELSE IF IdentityDeficit # "ok" THEN IdentityDeficit
    ELSE IF conflicting # {} THEN "conflicting"
    ELSE IF evident = Queried THEN "ok"
    ELSE "unavailable"

SourceOutcome ==
    LET told == {Told(p, "source") : p \in SourcePaths}
    IN  IF told = {} \/ "not_found" \in told THEN "unsupported"
        ELSE IF "hash_mismatch" \in told THEN "stale"
        ELSE IF "read_failed" \in told THEN "unavailable"
        ELSE "ok"

LightOutcome(c) ==
    CASE c = "identity" ->
            QueryOutcome({}, {}, Queried)
      [] c = "relationships" ->
            QueryOutcome({t \in Queried : RelationshipOmitted(t)},
                         {t \in Queried : Told(t, "semantic") > 0},
                         {t \in Queried : Told(t, "rels") > 0})
      [] c = "impact" ->
            QueryOutcome({t \in Queried : ImpactOmitted(t)},
                         {t \in Queried : Told(t, "semantic") > 0 \/ Told(t, "bad") > 0},
                         {t \in Queried : Told(t, "ok") > 0})
      [] c = "coverage" ->
            QueryOutcome({t \in Queried : CoverageOmitted(t)},
                         {t \in Queried : Told(t, "covering") > 0},
                         {t \in Queried : CoverageComplete(t)})
      [] c = "source" -> SourceOutcome
      [] OTHER -> "unavailable"

LightDeficits ==
    {d \in {[cap |-> c, reason |-> LightOutcome(c)] : c \in Requested \ CallerSatisfied} :
        d.reason # "ok"}

HasPayload == QueryInvoked \/ SourcePaths # {}

(* Mutant: stopping below the ceiling is reported as reaching it.           *)
MutTerminalReason(deficits) == "route_ceiling_reached"

(* terminal_reason_for                                                      *)
TerminalReason(deficits) ==
    IF route = Ceiling(request) THEN "route_ceiling_reached"
    ELSE IF \E d \in deficits : d.reason \in {"unavailable", "stale", "unsupported"}
         THEN "capability_unavailable"
    ELSE "route_ceiling_reached"

(* What the loop makes of a dispatcher's deficits when it does not escalate.*)
Deficient(deficits, payload) ==
    LET satisfied == Requested \ Lacking(deficits)
        kind == IF payload /\ satisfied # {} THEN "partial" ELSE "blocked"
    IN  Finish(Envelope(kind, route, satisfied, deficits, "none", TerminalReason(deficits)),
               Append(attempts, Attempt(route, kind, deficits, "none")))

Completes ==
    Finish(Envelope("completed", route, Requested, {}, "none", "none"),
           Append(attempts, Attempt(route, "completed", {}, "none")))

(* Mutant: anything missing sends the run to DEEP.                          *)
MutEscalates(deficits) == deficits # {} /\ route < Ceiling(request)

Escalates(deficits) == route < Ceiling(request) /\ CanEscalate(deficits)

ConcludeLight ==
    /\ pc = "light"
    /\ script = {}
    /\ \E deficits \in {LightDeficits} :
        \/ deficits = {} /\ HasPayload /\ Completes /\ UNCHANGED route
        \/ deficits = {} /\ ~HasPayload /\ Fail /\ UNCHANGED <<attempts, route>>
        \/ /\ Escalates(deficits)
           /\ attempts' = Append(attempts, Attempt(Light, "partial", deficits, "none"))
           /\ route' = Deep
           /\ pc' = "check"
           /\ UNCHANGED result
        \/ /\ deficits # {}
           /\ ~Escalates(deficits)
           /\ Deficient(deficits, HasPayload)
           /\ UNCHANGED route
    /\ UNCHANGED <<worldVars, runVars, lightVars>>

-----------------------------------------------------------------------------
(* dispatch_real_deep.  An unbound run compiles in a session of a savepoint *)
(* that is rolled back, so nothing of it stays.                             *)
BeginDeep ==
    /\ pc = "check"
    /\ active = start
    /\ route = Deep
    /\ IF Cardinality(request.seeds) > MaxDeepTargets
       THEN Fail
       ELSE pc' = "deep" /\ UNCHANGED result
    /\ UNCHANGED <<worldVars, runVars, route, lightVars, attempts>>

(* The seal requires the generation to be active still; what it satisfies   *)
(* is the compiler's (DeepCompiler).                                        *)
ConcludeDeep ==
    /\ pc = "deep"
    /\ IF active # start
       THEN Fail /\ UNCHANGED attempts
       ELSE \E missing \in SUBSET (Requested \ CallerSatisfied) :
              IF missing = {} THEN Completes
              ELSE Deficient(Deficits(missing, "unavailable"), TRUE)
    /\ UNCHANGED <<worldVars, runVars, route, lightVars>>

-----------------------------------------------------------------------------
(* activate_legacy_task_session: validate, then one update per state; an    *)
(* update that finds another state fails the run.                           *)
ValidateActivation ==
    /\ pc = "activate"
    /\ IF ~SessionFits(taskSession) THEN Fail
       ELSE /\ pc' = CASE taskSession.state = "created"          -> "compile"
                       [] taskSession.state = "context_compiled" -> "engage"
                       [] OTHER                              -> "done"
            /\ UNCHANGED result
    /\ UNCHANGED <<worldVars, runVars, route, lightVars, attempts>>

MoveSession(from, to, nextPc) ==
    /\ IF taskSession.state = from
       THEN taskSession' = [taskSession EXCEPT !.state = to] /\ pc' = nextPc /\ UNCHANGED result
       ELSE Fail /\ UNCHANGED taskSession
    /\ UNCHANGED <<active, disk, held, runVars, route, lightVars, attempts>>

MarkCompiled == pc = "compile" /\ MoveSession("created", "context_compiled", "engage")

(* Mutant: the update's row count is not looked at.                         *)
MutMarkActive ==
    /\ pc = "engage"
    /\ taskSession' = IF taskSession.state = "context_compiled"
                      THEN [taskSession EXCEPT !.state = "active"] ELSE taskSession
    /\ pc' = "done"
    /\ UNCHANGED <<active, disk, held, runVars, route, lightVars, attempts, result>>

MarkActive == pc = "engage" /\ MoveSession("context_compiled", "active", "done")

ReadTarget(t) ==
    \/ ReadIdentity(t) \/ ReadOwner(t) \/ ReadRelationships(t) \/ ReadImpact(t)
    \/ ReadCoverage(t) \/ ReadConflicts(t) \/ VerifySource(t)

Governor ==
    \/ BuildRequest \/ BindSession \/ Decide
    \/ NoGeneration \/ DirectCompletes \/ DirectBlocked \/ EnterAtlas
    \/ GenerationMoved
    \/ BeginLight \/ (\E t \in Target : ReadTarget(t)) \/ ConcludeLight
    \/ BeginDeep \/ ConcludeDeep
    \/ ValidateActivation \/ MarkCompiled \/ MarkActive

Next ==
    \/ Governor
    \/ ActivateGeneration
    \/ \E p \in Path : EditFile(p)
    \/ AbandonSession

(* The run is a loop of its own process: it goes on while it can.           *)
Spec == Init /\ [][Next]_vars /\ WF_vars(Governor)

-----------------------------------------------------------------------------
(* What the index says of a target in the decision's generation, as one     *)
(* would judge it reading all its rows at once.                             *)
Witnessed(c, t) ==
    LET f == IndexRows[start][t]
        calm == f.semantic = 0
    IN  CASE c = "identity"      -> f.matches = 1
          [] c = "relationships" -> f.matches = 1 /\ f.rels > 0 /\ calm
          [] c = "impact"        -> f.matches = 1 /\ f.ok > 0 /\ f.bad = 0 /\ calm
          [] c = "coverage"      -> /\ f.matches = 1
                                    /\ f.full > 0 /\ f.part = 0 /\ f.covering = 0
          [] c = "source"        -> t \in Symbol \/ (f.matches = 1 /\ f.text \in held[t])

(* Rows of t beyond what LIGHT keeps of it.                                 *)
Overflows(t) ==
    LET f == IndexRows[start][t]
    IN  \E n \in {f.rels, f.ok + f.bad, f.full + f.part, f.semantic + f.covering} : n > 2

(* What LIGHT reports satisfied beyond what the caller brought is backed,   *)
(* for every target of the request, by the generation the decision names:   *)
(* activations and edits between its statements may cost evidence and never *)
(* lend any.  While nothing is activated, its deficits are real too: the    *)
(* target is missing, ambiguous or without the evidence, has more rows than *)
(* are kept, or the request names too many or none (dispatch_real_light).   *)
LightIsTruthful ==
    result.kind \in {"completed", "partial", "blocked"} /\ result.route = Light =>
        /\ \A c \in result.satisfied, t \in request.seeds : Needs(c) => Witnessed(c, t)
        /\ result.failure = "none" /\ active = start =>
            \A c \in Lacking(result.deficits) \cap (LightCapability \ {"source"}) :
                \/ request.seeds = {}
                \/ Cardinality(request.seeds) > MaxQueryTargets
                \/ \E t \in request.seeds : ~Witnessed(c, t) \/ Overflows(t)

(* The executor hands its constructors no envelope they refuse, except      *)
(* LIGHT's below a DEEP ceiling whose deficits may neither escalate nor     *)
(* count as unavailable (terminal_reason_for against                        *)
(* validate_terminal_reason).                                               *)
RefusedOnlyBelowCeiling ==
    result.kind = "invalid" =>
        /\ result.refused.route = Light
        /\ Ceiling(request) = Deep
        /\ \A c \in Lacking(result.refused.deficits) : MinimumRoute(c) = Light
        /\ Reasons(result.refused) \cap {"unavailable", "stale", "unsupported"} = {}

(* Routes are tried upwards from the floor, one at a time and never beyond  *)
(* the ceiling; without Atlas intent no statement runs; and DEEP is not     *)
(* tried over an exact-source or unsupported deficit of LIGHT               *)
(* (SPEC-context-governor.md:133, "... and any unsupported deficit stop").  *)
EscalationIsEarned ==
    /\ \A i \in DOMAIN attempts :
        /\ attempts[i].route = Floor(request) + i - 1
        /\ attempts[i].route <= Ceiling(request)
        /\ i > 1 => \A d \in attempts[i - 1].deficits :
                \/ attempts[i].route = Light
                \/ d.cap # "source" /\ d.reason # "unsupported"
    /\ request.intent = "none" => found = <<>>

(* A bound session becomes active only once the run has acquired context    *)
(* for it, of the generation the session started from; and a run that       *)
(* reports acquired context leaves it active, whatever another client does  *)
(* between the activation's statements (activate_legacy_task_session).      *)
SessionHasItsContext ==
    [][ /\ taskSession'.state = "active" /\ taskSession.state # "active" =>
            result.kind \in {"completed", "partial"} /\ start = taskSession.start
        /\ pc' = "done" /\ request.bound /\ result'.kind \in {"completed", "partial"} =>
            taskSession'.state = "active" ]_vars

(* Every run ends, with an envelope, a refusal or an error.                 *)
RunEnds == <>(pc = "done")
=============================================================================
