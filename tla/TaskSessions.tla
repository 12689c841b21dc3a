---------------------------- MODULE TaskSessions ----------------------------
(* Task sessions (table task_session) and the commands that move them: the  *)
(* lease-free task and governor commands, run by clients, and the statement *)
(* that activate_candidate runs over all of them.                           *)
(*                                                                          *)
(* A session id is a hash of the task and of the generation it starts from: *)
(* a member of Session is that pair, and the same task started from another *)
(* generation is another session.                                           *)
EXTENDS Generations

CONSTANTS
    Session,        \* the sessions there may be: records with a start
    Client,         \* concurrent callers of task and governor commands
    Outcome         \* what a completion reports (accepted, tests, code)

ASSUME SessionAssumption ==
    /\ \A s \in Session : s.start \in Nat \ {0}
    /\ "none" \notin Outcome

VARIABLES
    session,        \* the rows
    client          \* what each caller has read and not yet acted on

sessionVars == <<session, client>>

Terminal == {"completed", "abandoned", "failed"}
SessionState == {"none", "created", "context_compiled", "active", "reconciled"}
                  \cup Terminal

(* bound says that start_tree_hash is not NULL: only an explicit task start *)
(* sets it.  end is 0, and outcome "none", until the session completes.     *)
SessionRow == [state : SessionState, bound   : BOOLEAN,
               end   : Nat,          outcome : Outcome \cup {"none"}]

NoSession == [state |-> "none", bound |-> FALSE, end |-> 0, outcome |-> "none"]

Idle == [op |-> "idle"]

Pending ==
    {Idle}
      \cup [op : {"activate"}, on : Session, seen : {"created", "context_compiled"}]
      \cup [op : {"complete"}, on : Session, to : Nat, outcome : Outcome]

SessionTypeOK ==
    /\ session \in [Session -> SessionRow]
    /\ client \in [Client -> Pending]

SessionInit ==
    /\ session = [s \in Session |-> NoSession]
    /\ client = [c \in Client |-> Idle]

-----------------------------------------------------------------------------

(* is_valid_transition.                                                     *)
ValidTransition(from, to) ==
    /\ from \notin Terminal
    /\ \/ to = "failed"
       \/ <<from, to>> \in {<<"created", "context_compiled">>,
                            <<"context_compiled", "active">>,
                            <<"active", "reconciled">>,
                            <<"reconciled", "completed">>,
                            <<"reconciled", "abandoned">>,
                            <<"active", "abandoned">>}

(* The INSERT OR IGNORE of create_classified_task_session: the row after.   *)
CreateIfAbsent(s) ==
    IF session[s].state = "none"
    THEN [NoSession EXCEPT !.state = "created"]
    ELSE session[s]

(* Mutant: every older session is reconciled, not only the active ones.     *)
MutAllReconcileSessions(g) ==
    session' = [s \in Session |->
                  IF session[s].state # "none" /\ s.start < g
                  THEN [session[s] EXCEPT !.state = "reconciled"]
                  ELSE session[s]]

(* reconcile_active_legacy_sessions, inside activate_candidate.             *)
ReconcileSessions(g) ==
    session' = [s \in Session |->
                  IF session[s].state = "active" /\ s.start < g
                  THEN [session[s] EXCEPT !.state = "reconciled"]
                  ELSE session[s]]

-----------------------------------------------------------------------------

(* Mutant: a session that need not start at the active generation.          *)
MutAnywhereStartSession(c, s) ==
    /\ client[c] = Idle
    /\ session' = [session EXCEPT ![s] = [CreateIfAbsent(s) EXCEPT !.bound = TRUE]]
    /\ UNCHANGED <<client, genVars>>

(* start_legacy_task_session: one immediate transaction; a replay at the    *)
(* same generation finds its row and leaves its state alone.                *)
StartSession(c, s) ==
    /\ client[c] = Idle
    /\ s.start = active
    /\ session' = [session EXCEPT ![s] = [CreateIfAbsent(s) EXCEPT !.bound = TRUE]]
    /\ UNCHANGED <<client, genVars>>

(* A governor run bound to the session: validate_legacy_session reads the   *)
(* state the activation goes by.  Nothing compares the start generation     *)
(* with the active one: a DIRECT route is satisfied under any.              *)
ReadForActivation(c, s) ==
    /\ client[c] = Idle
    /\ session[s].bound
    /\ session[s].state \in {"created", "context_compiled"}
    /\ client' = [client EXCEPT ![c] =
                    [op |-> "activate", on |-> s, seen |-> session[s].state]]
    /\ UNCHANGED <<session, genVars>>

(* The two guarded UPDATEs of activate_validated_legacy_session; one that   *)
(* matches no row is an error and ends the command.                         *)
MarkCompiled(c) ==
    /\ client[c].op = "activate"
    /\ client[c].seen = "created"
    /\ LET s == client[c].on IN
         IF session[s].state = "created"
         THEN /\ session' = [session EXCEPT ![s].state = "context_compiled"]
              /\ client' = [client EXCEPT ![c].seen = "context_compiled"]
         ELSE /\ client' = [client EXCEPT ![c] = Idle]
              /\ UNCHANGED session
    /\ UNCHANGED genVars

MarkActive(c) ==
    /\ client[c].op = "activate"
    /\ client[c].seen = "context_compiled"
    /\ LET s == client[c].on IN
         session' = IF session[s].state = "context_compiled"
                    THEN [session EXCEPT ![s].state = "active"]
                    ELSE session
    /\ client' = [client EXCEPT ![c] = Idle]
    /\ UNCHANGED genVars

(* complete_legacy_task_session up to its transaction: the state and the    *)
(* active generation are read, and the delta computed, outside it.          *)
ReadForCompletion(c, s, o) ==
    /\ client[c] = Idle
    /\ session[s].state = "reconciled"
    /\ active # 0
    /\ client' = [client EXCEPT ![c] =
                    [op |-> "complete", on |-> s, to |-> active, outcome |-> o]]
    /\ UNCHANGED <<session, genVars>>

(* Mutants: the transaction does not check the state again; the end is the  *)
(* generation the session started at.                                       *)
MutUncheckedCommitCompletion(c) ==
    /\ client[c].op = "complete"
    /\ session' = IF active = client[c].to
                  THEN [session EXCEPT ![client[c].on].state = "completed",
                                       ![client[c].on].end = client[c].to,
                                       ![client[c].on].outcome = client[c].outcome]
                  ELSE session
    /\ client' = [client EXCEPT ![c] = Idle]
    /\ UNCHANGED genVars

(* complete_task_session: the transaction checks again what was read.  A    *)
(* session completed meanwhile is an identical replay or a conflict, and    *)
(* neither changes it.                                                      *)
CommitCompletion(c) ==
    /\ client[c].op = "complete"
    /\ LET s == client[c].on IN
         session' = IF session[s].state = "reconciled" /\ active = client[c].to
                    THEN [session EXCEPT ![s].state = "completed",
                                         ![s].end = client[c].to,
                                         ![s].outcome = client[c].outcome]
                    ELSE session
    /\ client' = [client EXCEPT ![c] = Idle]
    /\ UNCHANGED genVars

(* abandon_legacy_task_session: one immediate transaction.                  *)
AbandonSession(c, s) ==
    /\ client[c] = Idle
    /\ session[s].state \in {"active", "reconciled"}
    /\ session' = [session EXCEPT ![s].state = "abandoned"]
    /\ UNCHANGED <<client, genVars>>

(* A command that dies, or fails on a locked database, between its steps.   *)
ClientStops(c) ==
    /\ client[c] # Idle
    /\ client' = [client EXCEPT ![c] = Idle]
    /\ UNCHANGED <<session, genVars>>

ClientWrites(c) ==
    \/ \E s \in Session : StartSession(c, s) \/ AbandonSession(c, s)
    \/ MarkCompiled(c)
    \/ MarkActive(c)
    \/ CommitCompletion(c)

ClientReads(c) ==
    \/ \E s \in Session : ReadForActivation(c, s)
    \/ \E s \in Session, o \in Outcome : ReadForCompletion(c, s, o)
    \/ ClientStops(c)

=============================================================================
