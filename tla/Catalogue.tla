----------------------------- MODULE Catalogue -----------------------------
(* The commands that write a workspace's catalogue, run concurrently by     *)
(* separate processes on one SQLite database: atlas reconcile, atlas doctor *)
(* and atlas context-ir, each inside with_cli_writer_lease, and the task    *)
(* and governor commands, which take no lease.                              *)
(*                                                                          *)
(* A process runs one command, so it is its own holder id, and a new        *)
(* invocation is another process.  A step is one transaction, one           *)
(* autocommitted statement, or the work between two of them.                *)
EXTENDS WriterLease, TaskSessions, FiniteSets

CONSTANTS
    Reconciler, Doctor, Compiler,   \* the processes, by the command they run
    NoTarget,                       \* stands for "no session chosen yet"
    MaxSource,                      \* bound on the edits of the source tree
    AllowOverrun                    \* may a command outlive StaleAge?

ASSUME CatalogueAssumption ==
    /\ Holder = Reconciler \cup Doctor \cup Compiler
    /\ Reconciler \cap Doctor = {}
    /\ Reconciler \cap Compiler = {}
    /\ Doctor \cap Compiler = {}
    /\ NoTarget \notin Session
    /\ MaxSource \in Nat \ {0}
    /\ AllowOverrun \in BOOLEAN

VARIABLES
    pc,             \* process -> the step it is about to take
    head,           \* reconciler -> parent and sequence number it has read
    cand,           \* reconciler -> the candidate it inserted, 0 before
    seen,           \* reconciler -> the tree version it hashed, 0 before
    todo,           \* doctor -> candidates it has read and still has to abandon
    target,         \* compiler -> the session it works on
    dbWriter,       \* the process whose build transaction has SQLite's write lock
    source          \* version of the source tree

workVars == <<head, cand, seen, todo, target>>
envVars == <<dbWriter, source>>
vars == <<leaseVars, genVars, sessionVars, pc, workVars, envVars>>

(* The steps between acquiring the lease and having released it.            *)
Leased == {"parent", "maxseq", "insert", "hash", "build", "persist", "activate",
           "failing", "abandon", "create", "check", "mark", "release"}

Step == {"idle", "acquire", "done", "crashed"} \cup Leased

Working(p) == pc[p] \in Leased

(* Every variable keeps its type; above all, the active pointer names a row *)
(* of index_generation and the lease row a process (catalogue.rs, the       *)
(* columns of these tables).                                                *)
TypeOK ==
    /\ LeaseTypeOK
    /\ GenTypeOK
    /\ SessionTypeOK
    /\ pc \in [Holder -> Step]
    /\ head \in [Reconciler -> [parent : Nat, seq : Nat]]
    /\ cand \in [Reconciler -> Nat]
    /\ seen \in [Reconciler -> Nat]
    /\ todo \in [Doctor -> SUBSET Nat]
    /\ target \in [Compiler -> Session \cup {NoTarget}]
    /\ dbWriter \in Reconciler \cup {NoHolder}
    /\ source \in Nat

Init ==
    /\ LeaseInit
    /\ GenInit
    /\ SessionInit
    /\ pc = [p \in Holder |-> "idle"]
    /\ head = [r \in Reconciler |-> [parent |-> 0, seq |-> 0]]
    /\ cand = [r \in Reconciler |-> 0]
    /\ seen = [r \in Reconciler |-> 0]
    /\ todo = [d \in Doctor |-> {}]
    /\ target = [k \in Compiler |-> NoTarget]
    /\ dbWriter = NoHolder
    /\ source = 1

(* A write can start only when no build transaction has the write lock.     *)
Unlocked == dbWriter = NoHolder

Goto(p, step) == pc' = [pc EXCEPT ![p] = step]

-----------------------------------------------------------------------------
(* with_cli_writer_lease.                                                   *)

FirstStep(p) ==
    IF p \in Reconciler THEN "parent" ELSE IF p \in Doctor THEN "abandon" ELSE "create"

Acquire(p) ==
    /\ pc[p] = "acquire"
    /\ Unlocked
    /\ AcquireLease(p)
    /\ Goto(p, FirstStep(p))
    /\ UNCHANGED <<genVars, sessionVars, workVars, envVars>>

RefuseLease(p) ==
    /\ pc[p] = "acquire"
    /\ ~ LeaseFree(p)
    /\ Goto(p, "done")
    /\ UNCHANGED <<leaseVars, genVars, sessionVars, workVars, envVars>>

Release(p) ==
    /\ pc[p] = "release"
    /\ Unlocked
    /\ ReleaseLease(p)
    /\ Goto(p, "done")
    /\ UNCHANGED <<genVars, sessionVars, workVars, envVars>>

(* Where a command goes on when a write fails because another connection    *)
(* kept the write lock longer than busy_timeout.  Acquiring the lease and   *)
(* building read before they write in one deferred transaction: a commit    *)
(* between the two fails the write at once (SQLITE_BUSY_SNAPSHOT).          *)
AfterBusy ==
    [acquire |-> "done",    insert  |-> "release", build  |-> "release",
     activate |-> "failing", failing |-> "release", abandon |-> "release",
     create  |-> "release", mark    |-> "release", release |-> "done"]

BusyTimeout(p) ==
    /\ pc[p] \in DOMAIN AfterBusy
    /\ dbWriter \notin {NoHolder, p} \/ pc[p] \in {"acquire", "build"}
    /\ pc[p] = "acquire" => LeaseFree(p)
    /\ Goto(p, AfterBusy[pc[p]])
    /\ UNCHANGED <<leaseVars, genVars, sessionVars, workVars, envVars>>

-----------------------------------------------------------------------------
(* atlas reconcile.                                                         *)

InvokeReconcile(r) ==
    /\ pc[r] = "idle"
    /\ Goto(r, "acquire")
    /\ UNCHANGED <<leaseVars, genVars, sessionVars, workVars, envVars>>

(* begin_candidate reads the parent and the highest number in two           *)
(* statements and inserts in a third.                                       *)
ReadParent(r) ==
    /\ pc[r] = "parent"
    /\ \E g \in 0 .. Len(gens) :
         /\ IsLatestCommitted(g)
         /\ head' = [head EXCEPT ![r].parent = g]
    /\ Goto(r, "maxseq")
    /\ UNCHANGED <<leaseVars, genVars, sessionVars, cand, seen, todo, target, dbWriter, source>>

ReadMaxSeq(r) ==
    /\ pc[r] = "maxseq"
    /\ head' = [head EXCEPT ![r].seq = Len(gens) + 1]
    /\ Goto(r, "insert")
    /\ UNCHANGED <<leaseVars, genVars, sessionVars, cand, seen, todo, target, dbWriter, source>>

BeginCandidate(r) ==
    /\ pc[r] = "insert"
    /\ Unlocked
    /\ InsertCandidate(head[r].seq, head[r].parent)
    /\ cand' = [cand EXCEPT ![r] = head[r].seq]
    /\ Goto(r, "hash")
    /\ UNCHANGED <<leaseVars, sessionVars, head, seen, todo, target, dbWriter, source>>

SequenceTaken(r) ==
    /\ pc[r] = "insert"
    /\ Unlocked
    /\ head[r].seq <= Len(gens)
    /\ Goto(r, "release")
    /\ UNCHANGED <<leaseVars, genVars, sessionVars, workVars, envVars>>

(* Phase A.                                                                 *)
HashFiles(r) ==
    /\ pc[r] = "hash"
    /\ seen' = [seen EXCEPT ![r] = source]
    /\ Goto(r, "build")
    /\ UNCHANGED <<leaseVars, genVars, sessionVars, head, cand, todo, target, dbWriter, source>>

(* Phases B to D and the semantic providers run in one deferred             *)
(* transaction, from its first write on under SQLite's write lock.          *)
BeginBuild(r) ==
    /\ pc[r] = "build"
    /\ Unlocked
    /\ dbWriter' = r
    /\ Goto(r, "persist")
    /\ UNCHANGED <<leaseVars, genVars, sessionVars, head, cand, seen, todo, target, source>>

(* Its commit; a required provider's failure then closes the candidate.     *)
CommitBuild(r) ==
    /\ pc[r] = "persist"
    /\ PersistFiles(cand[r], seen[r])
    /\ dbWriter' = NoHolder
    /\ \E next \in {"activate", "failing"} : Goto(r, next)
    /\ UNCHANGED <<leaseVars, sessionVars, head, cand, seen, todo, target, source>>

Activate(r) ==
    /\ pc[r] = "activate"
    /\ Unlocked
    /\ CommitCandidate(cand[r], seen[r])
    /\ ReconcileSessions(cand[r])
    /\ Goto(r, "release")
    /\ UNCHANGED <<leaseVars, client, workVars, envVars>>

ActivationRefused(r) ==
    /\ pc[r] = "activate"
    /\ Unlocked
    /\ gens[cand[r]].state # "candidate"
    /\ Goto(r, "failing")
    /\ UNCHANGED <<leaseVars, genVars, sessionVars, workVars, envVars>>

(* fail_candidate, whose own error is ignored.                              *)
FailCandidate(r) ==
    /\ pc[r] = "failing"
    /\ Unlocked
    /\ \/ CloseCandidate(cand[r], "failed")
       \/ gens[cand[r]].state # "candidate" /\ UNCHANGED genVars
    /\ Goto(r, "release")
    /\ UNCHANGED <<leaseVars, sessionVars, workVars, envVars>>

(* Any other error leaves by `?`: the open transaction rolls back and the   *)
(* candidate, if there is one, stays behind.                                *)
ReconcileError(r) ==
    /\ pc[r] \in {"parent", "hash", "persist"}
    /\ dbWriter' = IF dbWriter = r THEN NoHolder ELSE dbWriter
    /\ Goto(r, "release")
    /\ UNCHANGED <<leaseVars, genVars, sessionVars, head, cand, seen, todo, target, source>>

ReconcileStep(r) ==
    \/ ReadParent(r)  \/ ReadMaxSeq(r)        \/ BeginCandidate(r)
    \/ SequenceTaken(r) \/ HashFiles(r)       \/ BeginBuild(r)
    \/ CommitBuild(r) \/ Activate(r)          \/ ActivationRefused(r)
    \/ FailCandidate(r) \/ ReconcileError(r)

-----------------------------------------------------------------------------
(* atlas doctor: the stuck candidates are read before the lease is asked    *)
(* for, and abandoned one by one under it.                                  *)

(* Mutant: the lease is not asked for.                                      *)
MutUnleasedInvokeDoctor(d) ==
    /\ pc[d] = "idle"
    /\ todo' = [todo EXCEPT ![d] = InState("candidate")]
    /\ Goto(d, IF InState("candidate") = {} THEN "done" ELSE "abandon")
    /\ UNCHANGED <<leaseVars, genVars, sessionVars, head, cand, seen, target, dbWriter, source>>

InvokeDoctor(d) ==
    /\ pc[d] = "idle"
    /\ todo' = [todo EXCEPT ![d] = InState("candidate")]
    /\ Goto(d, IF InState("candidate") = {} THEN "done" ELSE "acquire")
    /\ UNCHANGED <<leaseVars, genVars, sessionVars, head, cand, seen, target, dbWriter, source>>

AbandonNext(d) ==
    /\ pc[d] = "abandon"
    /\ Unlocked
    /\ \E g \in todo[d] :
         /\ \A h \in todo[d] : g <= h
         /\ CloseCandidate(g, "abandoned")
         /\ todo' = [todo EXCEPT ![d] = @ \ {g}]
         /\ Goto(d, IF todo[d] = {g} THEN "release" ELSE "abandon")
    /\ UNCHANGED <<leaseVars, sessionVars, head, cand, seen, target, dbWriter, source>>

(* Mutant: the loop goes on with the candidate it could not abandon.        *)
MutRetryAbandonError(d) ==
    /\ pc[d] = "abandon"
    /\ Unlocked
    /\ \E g \in todo[d] :
         /\ \A h \in todo[d] : g <= h
         /\ gens[g].state # "candidate"
    /\ Goto(d, "abandon")
    /\ UNCHANGED <<leaseVars, genVars, sessionVars, workVars, envVars>>

(* abandon_candidate's error ends the loop.                                 *)
AbandonError(d) ==
    /\ pc[d] = "abandon"
    /\ Unlocked
    /\ \E g \in todo[d] :
         /\ \A h \in todo[d] : g <= h
         /\ gens[g].state # "candidate"
    /\ Goto(d, "release")
    /\ UNCHANGED <<leaseVars, genVars, sessionVars, workVars, envVars>>

DoctorStep(d) == AbandonNext(d) \/ AbandonError(d)

-----------------------------------------------------------------------------
(* atlas context-ir: the active generation is read before the lease; the    *)
(* session of that generation is created or found, and a fresh one moved on *)
(* by transition_task_session, a SELECT and an unguarded UPDATE.  Compiling *)
(* the context itself changes no row modelled here.                         *)

InvokeCompile(k) ==
    /\ pc[k] = "idle"
    /\ \/ active = 0 /\ Goto(k, "done") /\ UNCHANGED target
       \/ \E s \in Session :
            /\ s.start = active
            /\ target' = [target EXCEPT ![k] = s]
            /\ Goto(k, "acquire")
    /\ UNCHANGED <<leaseVars, genVars, sessionVars, head, cand, seen, todo, dbWriter, source>>

CreateSession(k) ==
    /\ pc[k] = "create"
    /\ Unlocked
    /\ LET s == target[k] IN
         /\ session' = [session EXCEPT ![s] = CreateIfAbsent(s)]
         /\ Goto(k, IF CreateIfAbsent(s).state = "created" THEN "check" ELSE "release")
    /\ UNCHANGED <<leaseVars, genVars, client, workVars, envVars>>

CheckTransition(k) ==
    /\ pc[k] = "check"
    /\ Goto(k, IF ValidTransition(session[target[k]].state, "context_compiled")
               THEN "mark" ELSE "release")
    /\ UNCHANGED <<leaseVars, genVars, sessionVars, workVars, envVars>>

WriteTransition(k) ==
    /\ pc[k] = "mark"
    /\ Unlocked
    /\ session' = [session EXCEPT ![target[k]].state = "context_compiled"]
    /\ Goto(k, "release")
    /\ UNCHANGED <<leaseVars, genVars, client, workVars, envVars>>

CompileStep(k) == CreateSession(k) \/ CheckTransition(k) \/ WriteTransition(k)

-----------------------------------------------------------------------------

(* The process dies; SQLite rolls its transaction back and frees its lock.  *)
Crash(p) ==
    /\ Working(p)
    /\ dbWriter' = IF dbWriter = p THEN NoHolder ELSE dbWriter
    /\ Goto(p, "crashed")
    /\ UNCHANGED <<leaseVars, genVars, sessionVars, head, cand, seen, todo, target, source>>

(* Unless commands may overrun, time does not carry a working command's     *)
(* lease past StaleAge.                                                     *)
Tick ==
    /\ AllowOverrun \/ lease.age < StaleAge \/ \A p \in Holder : ~ Working(p)
    /\ AgeLease
    /\ UNCHANGED <<genVars, sessionVars, pc, workVars, envVars>>

EditSource ==
    /\ source < MaxSource
    /\ source' = source + 1
    /\ UNCHANGED <<leaseVars, genVars, sessionVars, pc, workVars, dbWriter>>

ClientStep ==
    /\ \E c \in Client : (Unlocked /\ ClientWrites(c)) \/ ClientReads(c)
    /\ UNCHANGED <<leaseVars, pc, workVars, envVars>>

CommandStep(p) ==
    \/ Acquire(p) \/ RefuseLease(p) \/ Release(p) \/ BusyTimeout(p)
    \/ p \in Reconciler /\ ReconcileStep(p)
    \/ p \in Doctor /\ DoctorStep(p)
    \/ p \in Compiler /\ CompileStep(p)

Next ==
    \/ \E r \in Reconciler : InvokeReconcile(r)
    \/ \E d \in Doctor : InvokeDoctor(d)
    \/ \E k \in Compiler : InvokeCompile(k)
    \/ \E p \in Holder : CommandStep(p) \/ Crash(p)
    \/ Tick
    \/ EditSource
    \/ ClientStep

(* A command, once started, keeps being scheduled until it ends, and time   *)
(* passes.  Nobody is obliged to start a command.                           *)
Fairness ==
    /\ \A p \in Holder : WF_vars(CommandStep(p))
    /\ WF_vars(Tick)

Spec == Init /\ [][Next]_vars /\ Fairness

-----------------------------------------------------------------------------
(* Properties.                                                              *)

(* INV-020 (catalogue.rs:3): only one command at a time is between          *)
(* acquiring the lease and having released it.                              *)
OneWriter == \A p, q \in Holder : Working(p) /\ Working(q) => p = q

(* INV-005 (generation.rs:3): the active generation is committed, carries   *)
(* the hash of its tree, and all its files are in place.                    *)
ActiveComplete ==
    active # 0 => /\ gens[active].state = "committed"
                  /\ gens[active].tree # 0
                  /\ gens[active].files = gens[active].tree

(* The generations as readers see them, and what they are promised of them, *)
(* whatever the writers do.                                                 *)
PublishedEntry(g) ==
    [gen |-> g, parent |-> gens[g].parent, base |-> gens[g].base,
     files |-> gens[g].files, tree |-> gens[g].tree]

PI == INSTANCE PublishedIndex WITH
        published <- {PublishedEntry(g) : g \in Committed},
        current   <- active

(* Publication is atomic and final, even if commands outlive their lease.   *)
PublicationIsAtomic == PI!Spec

(* R-015 (cli.rs:3477): with timely commands, generations form one line.    *)
PublicationIsOrdered == PI!OrderedSpec

(* A doctor abandons the candidate of a dead or finished reconcile, never   *)
(* one that a reconcile is still building (cli.rs:1544, build_doctor_output). *)
DoctorSparesTheLiving ==
    [][\A r \in Reconciler :
          Working(r) /\ cand[r] # 0 /\ gens[cand[r]].state = "candidate"
            => gens'[cand[r]].state # "abandoned"]_vars

(* A command that was started ends: it never waits for another one.  And    *)
(* (cli.rs:3479) a crashed command's lease never wedges the workspace: again *)
(* and again there is a time when a newcomer would be admitted.             *)
WritersProgress ==
    \A p \in Holder :
        /\ pc[p] # "idle" ~> pc[p] \in {"done", "crashed"}
        /\ []<>(pc[p] = "idle" => LeaseFree(p))

(* Sessions.  A session starts at a generation that readers were shown, was *)
(* reconciled by a later one, and was completed against a later one.        *)
SessionAnchored ==
    \A s \in Session :
        /\ session[s].state # "none" => s.start \in Committed
        /\ session[s].state \in {"reconciled", "completed"} =>
              \E g \in Committed : g > s.start
        /\ session[s].state = "completed" =>
              session[s].end \in Committed /\ session[s].end > s.start

(* README.md:197: the commit of a newer generation reconciles every and     *)
(* only the older active sessions.                                          *)
CommitReconciles ==
    [][\A s \in Session :
          LET was == session[s].state
              is  == session'[s].state
          IN  /\ active' # active /\ was = "active" /\ s.start < active'
                   => is = "reconciled"
              /\ was # "reconciled" /\ is = "reconciled"
                   => was = "active" /\ s.start < active' /\ active' # active]_vars

(* task_session.rs:1166: a terminal session never changes again.            *)
TerminalIsFinal ==
    [][\A s \in Session :
          session[s].state \in Terminal => session'[s] = session[s]]_vars

=============================================================================
