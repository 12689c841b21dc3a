------------------------- MODULE ProviderExecution -------------------------
(* The semantic part of a reconcile: for every plan (a configured provider  *)
(* and a project scope) probe, fingerprint, reuse or run, validate, decode, *)
(* persist, and the decision whether the candidate may be activated.  One   *)
(* process, one build transaction per cycle; the tree and the providers'    *)
(* executables change under it, and it may crash.                           *)
EXTENDS ProviderRuntime, Sequences, FiniteSets, SequencesExt, Functions

CONSTANTS
    Provider, Required,     \* the configured providers, those marked required
    Doc, Content,           \* the source files and what they may hold
    FirstText,              \* what every file holds at first
    Plans,                  \* sequence of [provider, docs], in planned order
    MaxEdits, MaxCycles     \* bounds: changes of the world, reconcile cycles

ASSUME ProviderAssumption ==
    /\ Required \subseteq Provider
    /\ FirstText \in Content
    /\ Plans \in Seq([provider : Provider, docs : SUBSET Doc])
    /\ MaxEdits \in Nat
    /\ MaxCycles \in Nat

VARIABLES
    tree,       \* doc -> content, on disk
    exe,        \* provider -> version of its executable
    edits,      \* changes of tree and exe so far
    db,         \* committed provider tables: executions, facts, and (history)
                \* the documents of every index that mapped without a partial one
    work,       \* the same tables inside the build transaction
    gens,       \* sequence of [state, files, exe, coverage]
    active,     \* index of the active generation, 0 for none
    pc,         \* the step of the cycle
    next,       \* index of the plan at hand
    print,      \* its input fingerprint
    blocked,    \* outcome.required_failure
    output,     \* execution output directories left on disk
    raced       \* did the world change while a cycle was reading it?

cycleVars == <<pc, next, print, blocked>>
tableVars == <<db, work, gens, active>>
worldVars == <<tree, exe, edits, raced>>
vars == <<runtimeVars, cycleVars, tableVars, worldVars, output>>

Plan == Plans[next]

(* Mutant: the content of the files is no input.                            *)
MutFingerprint(plan, files, versions) ==
    [plan |-> plan, files |-> <<>>, exe |-> versions[plan.provider]]

(* execution_input_fingerprint: the scope, its files with their content,    *)
(* and the descriptor, which includes the executable's hash.                *)
Fingerprint(plan, files, versions) ==
    [plan |-> plan, files |-> Restrict(files, plan.docs), exe |-> versions[plan.provider]]

(* A fact hangs on the revision <<doc, text>> and says what the executable  *)
(* found in the text it saw.                                                *)
Fact(provider, doc, text, saw, version) ==
    [provider |-> provider, doc |-> doc, text |-> text, saw |-> saw, exe |-> version]

(* INSERT OR IGNORE into a table keyed by k.                                *)
InsertOrIgnore(table, k, v) ==
    [x \in DOMAIN table \cup {k} |-> IF x \in DOMAIN table THEN table[x] ELSE v]

CoverageFor(outcome) ==
    CASE outcome = "complete"    -> "complete"
      [] outcome = "partial"     -> "partial"
      [] outcome = "unavailable" -> "excluded"
      [] OTHER                   -> "failed"

Failure(outcome) == outcome \notin {"complete", "partial"}

(* decide_activation, through record_outcome_failure.                       *)
Blocks(provider, outcome) == Failure(outcome) /\ provider \in Required

Candidate == Len(gens)

(* record_coverage: one row per generation and provider, the first one      *)
(* written stays.                                                           *)
Cover(provider, status) ==
    gens' = [gens EXCEPT ![Candidate].coverage = InsertOrIgnore(@, provider, status)]

Advance ==
    /\ next' = next + 1
    /\ pc' = IF next = Len(Plans) THEN "commit" ELSE "probe"
    /\ print' = <<>>

TypeOK ==
    /\ RuntimeTypeOK
    /\ tree \in [Doc -> Content]
    /\ exe \in [Provider -> Nat]
    /\ active \in 0 .. Len(gens)
    /\ pc \in {"idle", "probe", "fingerprint", "launch", "decode", "commit", "activate"}
    /\ next \in 1 .. Len(Plans) + 1
    /\ blocked \in BOOLEAN
    /\ raced \in BOOLEAN
    /\ \A g \in DOMAIN gens : gens[g].state \in {"candidate", "committed", "failed"}

(* The locals of the command are gone.                                      *)
EndCycle ==
    /\ pc' = "idle"
    /\ next' = 1
    /\ print' = <<>>
    /\ blocked' = FALSE

Empty == [exec |-> <<>>, facts |-> {}, whole |-> {}]

Init ==
    /\ RuntimeInit
    /\ tree = [d \in Doc |-> FirstText]
    /\ exe = [p \in Provider |-> 1]
    /\ edits = 0
    /\ db = Empty
    /\ work = Empty
    /\ gens = <<>>
    /\ active = 0
    /\ pc = "idle"
    /\ next = 1
    /\ print = <<>>
    /\ blocked = FALSE
    /\ output = <<>>
    /\ raced = FALSE

-----------------------------------------------------------------------------
(* The walk has hashed every file; the transaction begins.                  *)
BeginCycle ==
    /\ pc = "idle"
    /\ Len(gens) < MaxCycles
    /\ gens' = Append(gens, [state |-> "candidate", files |-> tree, exe |-> exe,
                             coverage |-> <<>>])
    /\ work' = db
    /\ pc' = IF Plans = <<>> THEN "commit" ELSE "probe"
    /\ UNCHANGED <<runtimeVars, worldVars, output, db, active, next, print, blocked>>

ProbeAvailable ==
    /\ pc = "probe"
    /\ print' = Fingerprint(Plan, tree, exe)
    /\ pc' = "fingerprint"
    /\ UNCHANGED <<runtimeVars, worldVars, tableVars, output, next, blocked>>

(* The executable is missing, exits non-zero or hangs under the probe.      *)
ProbeUnavailable ==
    /\ pc = "probe"
    /\ Cover(Plan.provider, CoverageFor("unavailable"))
    /\ blocked' = (blocked \/ Blocks(Plan.provider, "unavailable"))
    /\ Advance
    /\ UNCHANGED <<runtimeVars, worldVars, output, db, work, active>>

(* list_relevant_files reads the tree again; the executable's hash is the   *)
(* one the probe took.                                                      *)
CurrentPrint == [Fingerprint(Plan, tree, exe) EXCEPT !.exe = print.exe]

(* find_reusable_execution                                                  *)
Reusable(table, k) == k \in DOMAIN table /\ table[k] \in {"complete", "partial"}

Reuse ==
    /\ pc = "fingerprint"
    /\ Reusable(work.exec, CurrentPrint)
    /\ Cover(Plan.provider, work.exec[CurrentPrint])
    /\ Advance
    /\ UNCHANGED <<runtimeVars, worldVars, output, db, work, active, blocked>>

NoArtifact == [kind |-> "missing", saw |-> <<>>, exe |-> 0]

(* make_execution_output_dir is create_dir_all: what an execution with the  *)
(* same fingerprint left there stays.                                       *)
PrepareRun ==
    /\ pc = "fingerprint"
    /\ ~ Reusable(work.exec, CurrentPrint)
    /\ print' = CurrentPrint
    /\ output' = InsertOrIgnore(output, CurrentPrint, NoArtifact)
    /\ pc' = "launch"
    /\ UNCHANGED <<runtimeVars, worldVars, tableVars, next, blocked>>

Start ==
    /\ pc = "launch"
    /\ Launch \/ LaunchFails
    /\ UNCHANGED <<worldVars, tableVars, cycleVars, output>>

Run ==
    /\ pc = "launch"
    /\ RuntimeStep
    /\ UNCHANGED <<worldVars, tableVars, cycleVars, output>>

(* What the provider has left in its output directory when it exits: an     *)
(* index of the files of its scope it chose to list, possibly of none, and  *)
(* of the text it saw, all of them mappable ("index") or beside one that is *)
(* not ("partial"); something undecodable or oversized; or what was there   *)
(* before.  saw holds the documents that map; a document that is no present *)
(* file of the candidate gets no fact and is left out of it.                *)
ProviderExits ==
    /\ ChildExits
    /\ \/ UNCHANGED output
       \/ output' = [output EXCEPT ![print].kind = "unusable"]
       \/ \E kind \in {"index", "partial"}, docs \in SUBSET Plan.docs :
            output' = [output EXCEPT ![print] =
                         [kind |-> kind, saw |-> Restrict(tree, docs), exe |-> exe[Plan.provider]]]
    /\ UNCHANGED <<worldVars, tableVars, cycleVars>>

DescendantExits ==
    /\ KinExits
    /\ UNCHANGED <<worldVars, tableVars, cycleVars, output>>

CleanUp == output' = [k \in DOMAIN output \ {print} |-> output[k]]

Artifact == output[print]

(* Mutant: the facts hang on the revisions of the active generation.        *)
MutFactsOf(mapped) ==
    {Fact(Plan.provider, d, gens[IF active = 0 THEN Candidate ELSE active].files[d],
          Artifact.saw[d], Artifact.exe) : d \in mapped}

(* A document's facts hang on its revision in the candidate.                *)
FactsOf(mapped) ==
    {Fact(Plan.provider, d, gens[Candidate].files[d], Artifact.saw[d], Artifact.exe) : d \in mapped}

(* The tables after an outcome whose index mapped these documents.  The row *)
(* of an earlier attempt with the same fingerprint stays as it is.          *)
Recorded(outcome, mapped) ==
    [exec |-> InsertOrIgnore(work.exec, print, outcome),
     facts |-> work.facts \cup FactsOf(mapped),
     whole |-> work.whole \cup
                 (IF outcome = "complete" THEN {[print |-> print, docs |-> mapped]} ELSE {})]

(* Mutant: a later outcome forgets that an earlier one blocks.               *)
MutRecordOutcome(outcome, mapped) ==
    /\ work' = Recorded(outcome, mapped)
    /\ Cover(Plan.provider, CoverageFor(outcome))
    /\ blocked' = Blocks(Plan.provider, outcome)

(* record_provider_execution, record_coverage, the facts of the documents   *)
(* and record_outcome_failure.                                              *)
RecordOutcome(outcome, mapped) ==
    /\ work' = Recorded(outcome, mapped)
    /\ Cover(Plan.provider, CoverageFor(outcome))
    /\ blocked' = (blocked \/ Blocks(Plan.provider, outcome))

(* "failed" stands for timed_out, failed, output_rejected, decode_failed:   *)
(* they differ in the diagnostic only.                                      *)
ProcessOutcome ==
    CASE verdict = "exited" /\ child = "exit_zero" -> "complete"
      [] verdict = "unavailable"                   -> "unavailable"
      [] OTHER                                     -> "failed"

RunFailed ==
    /\ pc = "launch"
    /\ phase = "ended"
    /\ verdict # "error"
    /\ Failure(ProcessOutcome)
    /\ RecordOutcome(ProcessOutcome, {})
    /\ CleanUp
    /\ Forget
    /\ Advance
    /\ UNCHANGED <<worldVars, db, active>>

(* spawn_and_wait itself failed: the error leaves the reconcile, and the    *)
(* transaction rolls back with the candidate still a candidate.             *)
RunError ==
    /\ pc = "launch"
    /\ phase = "ended"
    /\ verdict = "error"
    /\ CleanUp
    /\ Forget
    /\ work' = db
    /\ gens' = [gens EXCEPT ![Candidate].coverage = <<>>]
    /\ EndCycle
    /\ UNCHANGED <<worldVars, db, active>>

RunSucceeded ==
    /\ pc = "launch"
    /\ phase = "ended"
    /\ ~ Failure(ProcessOutcome)
    /\ Forget
    /\ pc' = "decode"
    /\ UNCHANGED <<worldVars, tableVars, output, next, print, blocked>>

(* validate_output_artifact, then decode_index.                             *)
OutputRefused ==
    /\ pc = "decode"
    /\ Artifact.kind \in {"missing", "unusable"}
    /\ RecordOutcome("failed", {})
    /\ CleanUp
    /\ Advance
    /\ UNCHANGED <<runtimeVars, worldVars, db, active>>

(* Whatever the index lists is mapped; only a document that does not map    *)
(* makes the outcome partial, never one that is missing.                    *)
PersistDocuments ==
    /\ pc = "decode"
    /\ Artifact.kind \in {"index", "partial"}
    /\ RecordOutcome(IF Artifact.kind = "index" THEN "complete" ELSE "partial", DOMAIN Artifact.saw)
    /\ CleanUp
    /\ Advance
    /\ UNCHANGED <<runtimeVars, worldVars, db, active>>

(* The build transaction commits, whatever the providers' outcomes.         *)
CommitTables ==
    /\ pc = "commit"
    /\ db' = work
    /\ pc' = "activate"
    /\ UNCHANGED <<runtimeVars, worldVars, output, work, gens, active, next, print, blocked>>

Activate ==
    /\ pc = "activate"
    /\ ~ blocked
    /\ gens' = [gens EXCEPT ![Candidate].state = "committed"]
    /\ active' = Candidate
    /\ EndCycle
    /\ UNCHANGED <<runtimeVars, worldVars, output, db, work>>

FailCandidate ==
    /\ pc = "activate"
    /\ blocked
    /\ gens' = [gens EXCEPT ![Candidate].state = "failed"]
    /\ EndCycle
    /\ UNCHANGED <<runtimeVars, worldVars, output, db, work, active>>

(* The process dies: SQLite rolls the transaction back, the provider's      *)
(* output directory stays behind.                                           *)
Crash ==
    /\ pc # "idle"
    /\ Forget
    /\ work' = db
    /\ gens' = IF pc = "activate" THEN gens ELSE [gens EXCEPT ![Candidate].coverage = <<>>]
    /\ EndCycle
    /\ UNCHANGED <<worldVars, output, db, active>>

Reading == pc \in {"probe", "fingerprint", "launch", "decode"}

EditFile ==
    /\ edits < MaxEdits
    /\ \E d \in Doc : \E c \in Content \ {tree[d]} : tree' = [tree EXCEPT ![d] = c]
    /\ edits' = edits + 1
    /\ raced' = (raced \/ Reading)
    /\ UNCHANGED <<runtimeVars, cycleVars, tableVars, output, exe>>

UpgradeProvider ==
    /\ edits < MaxEdits
    /\ \E p \in Provider : exe' = [exe EXCEPT ![p] = @ + 1]
    /\ edits' = edits + 1
    /\ raced' = (raced \/ Reading)
    /\ UNCHANGED <<runtimeVars, cycleVars, tableVars, output, tree>>

Work ==
    \/ ProbeAvailable \/ ProbeUnavailable
    \/ Reuse \/ PrepareRun
    \/ Start \/ Run
    \/ RunFailed \/ RunError \/ RunSucceeded
    \/ OutputRefused \/ PersistDocuments
    \/ CommitTables \/ Activate \/ FailCandidate

World == ProviderExits \/ DescendantExits \/ EditFile \/ UpgradeProvider \/ Crash

Next == BeginCycle \/ Work \/ World

Spec == Init /\ [][Next]_vars /\ WF_vars(Work)

-----------------------------------------------------------------------------
(* A provider's row of coverage is the one its first scope wrote.           *)
FirstPlan(i) == \A j \in 1 .. i - 1 : Plans[j].provider # Plans[i].provider

(* What lies behind a row that says complete: an index that this            *)
(* generation's files and executable led to, every document of which mapped *)
(* and has a fact computed by that executable from this generation's text.  *)
Supported(row, i, tables) ==
    LET p == Plans[i].provider
        k == Fingerprint(Plans[i], row.files, row.exe)
    IN
    /\ \E w \in tables.whole : w.print = k
    /\ \A w \in tables.whole : w.print = k =>
          \A d \in w.docs : Fact(p, d, row.files[d], row.files[d], row.exe[p]) \in tables.facts

(* Complete coverage is never claimed without evidence: in a published      *)
(* generation it is backed by an index of exactly that generation's inputs, *)
(* whether the provider ran in this cycle, an execution was reused from any *)
(* earlier one, or what a crashed one left on disk was found.  It says      *)
(* nothing of files the index does not list, nor of a provider's later      *)
(* scopes.                                                                  *)
CoverageIsHonest ==
    ~ raced =>
        \A g \in DOMAIN gens : gens[g].state = "committed" =>
            \A i \in DOMAIN Plans :
                LET p == Plans[i].provider IN
                /\ FirstPlan(i)
                /\ p \in DOMAIN gens[g].coverage
                /\ gens[g].coverage[p] = "complete"
                => Supported(gens[g], i, db)

(* No fact is attached to a revision other than the one it was read from,   *)
(* unless the tree changed under a cycle.                                   *)
FactsMatchTheirRevision == ~ raced => \A f \in db.facts \cup work.facts : f.saw = f.text

(* A published generation has evidence from every required provider, from   *)
(* each of the scopes it was planned for, whatever happened to the others.  *)
RequiredIsPresent ==
    \A g \in DOMAIN gens : gens[g].state = "committed" =>
        \A i \in DOMAIN Plans : Plans[i].provider \in Required =>
            /\ Plans[i].provider \in DOMAIN gens[g].coverage
            /\ gens[g].coverage[Plans[i].provider] \in {"complete", "partial"}

(* A cycle ends although a provider may never exit, ignore SIGTERM, or      *)
(* leave a descendant that holds its pipes.                                 *)
CycleEnds == pc # "idle" ~> pc = "idle"

=============================================================================
