--------------------------- MODULE CatalogueProofs ---------------------------
(* Theorems about Catalogue, for any number of processes, clients, sessions *)
(* and generations, and any lease times.                                    *)
EXTENDS Catalogue, SequenceTheorems, TLAPS

-----------------------------------------------------------------------------
(* What one transaction on the generations does, row by row.  These lemmas  *)
(* keep sequences and records out of the proofs that follow.                *)

(* Only row g may differ.                                                   *)
OnlyRow(g) ==
    /\ Len(gens') = Len(gens)
    /\ \A h \in DOMAIN gens : h # g => gens'[h] = gens[h]

(* The rows of a well-typed table, by number.                               *)
LEMMA RowType ==
    ASSUME GenTypeOK
    PROVE  /\ Len(gens) \in Nat
           /\ DOMAIN gens = 1 .. Len(gens)
           /\ \A g \in DOMAIN gens : gens[g] \in Generation
BY LenProperties, ElementOfSeq DEF GenTypeOK

(* Replacing one row keeps the table well-typed and the other rows as they  *)
(* are, whether the row exists or not.                                      *)
LEMMA ReplaceRow ==
    ASSUME GenTypeOK, NEW g, NEW row,
           g \in DOMAIN gens => row \in Generation,
           gens' = [gens EXCEPT ![g] = row]
    PROVE  /\ gens' \in Seq(Generation)
           /\ OnlyRow(g)
           /\ g \in DOMAIN gens => gens'[g] = row
<1>0. gens \in Seq(Generation) BY DEF GenTypeOK
<1>1. CASE g \in DOMAIN gens
  <2>1. g \in 1 .. Len(gens) /\ row \in Generation BY <1>1, RowType
  <2>2. QED BY <1>0, <2>1, ExceptSeq, RowType DEF OnlyRow
<1>2. CASE g \notin DOMAIN gens
  <2>1. gens' = gens
    BY <1>0, <1>2, LenProperties
  <2>2. QED BY <1>0, <1>2, <2>1 DEF OnlyRow
<1>3. QED BY <1>1, <1>2

(* begin_candidate appends one row and keeps the pointer.                   *)
LEMMA InsertEffect ==
    ASSUME GenTypeOK, NEW seq, NEW par \in Nat, InsertCandidate(seq, par)
    PROVE  /\ GenTypeOK'
           /\ seq = Len(gens) + 1 /\ Len(gens') = seq
           /\ \A h \in DOMAIN gens : gens'[h] = gens[h]
           /\ gens'[seq] = [state |-> "candidate", parent |-> par,
                            files |-> 0, base |-> 0, tree |-> 0]
           /\ active' = active
<1> DEFINE row == [state |-> "candidate", parent |-> par,
                   files |-> 0, base |-> 0, tree |-> 0]
<1>1. row \in Generation BY DEF Generation, GenerationState
<1>2. gens \in Seq(Generation) /\ gens' = Append(gens, row)
  BY DEF GenTypeOK, InsertCandidate
<1> HIDE DEF row
<1>3. gens' \in Seq(Generation) /\ Len(gens') = Len(gens) + 1
  BY <1>1, <1>2
<1>4. /\ \A h \in 1 .. Len(gens) : gens'[h] = gens[h]
      /\ gens'[Len(gens) + 1] = row
  BY <1>1, <1>2
<1>5. active' = active /\ seq = Len(gens) + 1 BY DEF InsertCandidate
<1>6. active \in 0 .. Len(gens) /\ Len(gens) \in Nat BY RowType DEF GenTypeOK
<1>7. GenTypeOK' BY <1>3, <1>5, <1>6 DEF GenTypeOK
<1>8. QED BY <1>3, <1>4, <1>5, <1>7, RowType DEF row

(* Phases B to D change the files of one row and keep the pointer.          *)
LEMMA PersistEffect ==
    ASSUME GenTypeOK, NEW g, NEW version \in Nat, PersistFiles(g, version)
    PROVE  /\ GenTypeOK'
           /\ OnlyRow(g)
           /\ g \in DOMAIN gens =>
                /\ gens'[g].files = version /\ gens'[g].base = active
                /\ gens'[g].state = gens[g].state
                /\ gens'[g].parent = gens[g].parent
                /\ gens'[g].tree = gens[g].tree
           /\ active' = active
<1> DEFINE row == [gens[g] EXCEPT !.files = version, !.base = active]
<1>1. active \in Nat /\ active' = active
  BY RowType DEF GenTypeOK, PersistFiles
<1>2. g \in DOMAIN gens => gens[g] \in Generation BY RowType
<1>3. g \in DOMAIN gens => row \in Generation BY <1>1, <1>2 DEF Generation
<1>4. gens' = [gens EXCEPT ![g] = row] BY DEF PersistFiles
<1>5. g \in DOMAIN gens =>
        /\ row.files = version /\ row.base = active
        /\ row.state = gens[g].state /\ row.parent = gens[g].parent
        /\ row.tree = gens[g].tree
  BY <1>2 DEF Generation
<1> HIDE DEF row
<1>6. gens' \in Seq(Generation) /\ OnlyRow(g) /\ (g \in DOMAIN gens => gens'[g] = row)
  BY <1>3, <1>4, ReplaceRow
<1>7. GenTypeOK' BY <1>1, <1>6 DEF GenTypeOK, OnlyRow
<1>8. QED BY <1>1, <1>5, <1>6, <1>7

(* activate_candidate turns one candidate into the committed, active one.   *)
LEMMA CommitEffect ==
    ASSUME GenTypeOK, NEW g \in DOMAIN gens, NEW version \in Nat,
           CommitCandidate(g, version)
    PROVE  /\ GenTypeOK'
           /\ OnlyRow(g)
           /\ gens[g].state = "candidate"
           /\ gens'[g].state = "committed" /\ gens'[g].tree = version
           /\ gens'[g].files = gens[g].files /\ gens'[g].base = gens[g].base
           /\ gens'[g].parent = gens[g].parent
           /\ active' = g
<1> DEFINE row == [gens[g] EXCEPT !.state = "committed", !.tree = version]
<1>1. gens[g] \in Generation /\ g \in 1 .. Len(gens) /\ Len(gens) \in Nat BY RowType
<1>2. row \in Generation BY <1>1 DEF Generation, GenerationState
<1>3. gens' = [gens EXCEPT ![g] = row] /\ active' = g /\ gens[g].state = "candidate"
  BY DEF CommitCandidate
<1>4. /\ row.state = "committed" /\ row.tree = version
      /\ row.files = gens[g].files /\ row.base = gens[g].base
      /\ row.parent = gens[g].parent
  BY <1>1 DEF Generation
<1> HIDE DEF row
<1>5. gens' \in Seq(Generation) /\ OnlyRow(g) /\ gens'[g] = row
  BY <1>2, <1>3, ReplaceRow
<1>6. GenTypeOK' BY <1>1, <1>3, <1>5 DEF GenTypeOK, OnlyRow
<1>7. QED BY <1>3, <1>4, <1>5, <1>6

(* fail_candidate and abandon_candidate change the state of one candidate.  *)
LEMMA CloseEffect ==
    ASSUME GenTypeOK, NEW g, NEW st \in {"failed", "abandoned"},
           CloseCandidate(g, st)
    PROVE  /\ GenTypeOK'
           /\ OnlyRow(g)
           /\ gens[g].state = "candidate"
           /\ g \in DOMAIN gens => gens'[g].state = st
           /\ g \in DOMAIN gens => gens'[g].files = gens[g].files
           /\ active' = active
<1> DEFINE row == [gens[g] EXCEPT !.state = st]
<1>1. g \in DOMAIN gens => gens[g] \in Generation BY RowType
<1>2. g \in DOMAIN gens => row \in Generation BY <1>1 DEF Generation, GenerationState
<1>3. gens' = [gens EXCEPT ![g] = row] /\ active' = active /\ gens[g].state = "candidate"
  BY DEF CloseCandidate
<1>4. g \in DOMAIN gens => row.state = st /\ row.files = gens[g].files
  BY <1>1 DEF Generation
<1> HIDE DEF row
<1>5. gens' \in Seq(Generation) /\ OnlyRow(g) /\ (g \in DOMAIN gens => gens'[g] = row)
  BY <1>2, <1>3, ReplaceRow
<1>6. GenTypeOK' BY <1>3, <1>5 DEF GenTypeOK, OnlyRow
<1>7. QED BY <1>3, <1>4, <1>5, <1>6

-----------------------------------------------------------------------------
(* The operations on task sessions keep their rows, and what their callers  *)
(* have read, well-typed.                                                   *)

(* An outcome, a session or nothing: what a caller with a pending operation *)
(* has read.                                                                *)
LEMMA PendingShape ==
    ASSUME SessionTypeOK, NEW c \in Client
    PROVE  /\ client[c] \in Pending
           /\ client[c].op = "activate" =>
                /\ client[c].on \in Session
                /\ client[c].seen \in {"created", "context_compiled"}
                /\ client[c] \in [op : {"activate"}, on : Session,
                                  seen : {"created", "context_compiled"}]
           /\ client[c].op = "complete" =>
                /\ client[c].on \in Session
                /\ client[c].to \in Nat
                /\ client[c].outcome \in Outcome
<1>1. client[c] \in Pending BY DEF SessionTypeOK
<1>2. client[c].op = "activate" =>
        client[c] \in [op : {"activate"}, on : Session, seen : {"created", "context_compiled"}]
  BY <1>1 DEF Pending, Idle
<1>3. client[c].op = "complete" =>
        client[c] \in [op : {"complete"}, on : Session, to : Nat, outcome : Outcome]
  BY <1>1 DEF Pending, Idle
<1>4. QED BY <1>1, <1>2, <1>3

(* A caller may be idle.                                                    *)
LEMMA IdlePending == Idle \in Pending
BY DEF Pending

(* The row of a session that is not there yet is a row.                     *)
LEMMA NoSessionRow == NoSession \in SessionRow
BY DEF NoSession, SessionRow, SessionState

(* A row whose state is replaced is a row.                                  *)
LEMMA MovedRow ==
    ASSUME NEW row \in SessionRow, NEW st \in SessionState
    PROVE  [row EXCEPT !.state = st] \in SessionRow
BY DEF SessionRow

(* INSERT OR IGNORE gives a row, a new one or the one that was there.       *)
LEMMA CreatedRow ==
    ASSUME SessionTypeOK, NEW s \in Session
    PROVE  CreateIfAbsent(s) \in SessionRow
<1>1. session[s] \in SessionRow BY DEF SessionTypeOK
<1>2. "created" \in SessionState BY DEF SessionState
<1>3. [NoSession EXCEPT !.state = "created"] \in SessionRow
  BY <1>2, NoSessionRow, MovedRow
<1>4. QED BY <1>1, <1>3 DEF CreateIfAbsent

(* A commit's reconciliation of the sessions keeps their type.              *)
LEMMA ReconcileType ==
    ASSUME SessionTypeOK, NEW g, ReconcileSessions(g)
    PROVE  session' \in [Session -> SessionRow]
<1>1. "reconciled" \in SessionState BY DEF SessionState
<1>2. \A s \in Session : [session[s] EXCEPT !.state = "reconciled"] \in SessionRow
  BY <1>1, MovedRow DEF SessionTypeOK
<1>3. QED BY <1>2 DEF SessionTypeOK, ReconcileSessions

(* Every step of a caller of task and governor commands.                    *)
LEMMA ClientWritesType ==
    ASSUME SessionTypeOK, NEW c \in Client, ClientWrites(c)
    PROVE  SessionTypeOK' /\ UNCHANGED genVars
<1>0. session \in [Session -> SessionRow] /\ client \in [Client -> Pending]
  BY DEF SessionTypeOK
<1>s. {"created", "context_compiled", "active", "reconciled", "completed", "abandoned"}
        \subseteq SessionState
  BY DEF SessionState, Terminal
<1>1. CASE \E s \in Session : StartSession(c, s)
  <2>1. PICK s \in Session : StartSession(c, s) BY <1>1
  <2>2. [CreateIfAbsent(s) EXCEPT !.bound = TRUE] \in SessionRow
    BY CreatedRow DEF SessionRow
  <2>3. QED BY <1>0, <2>1, <2>2 DEF StartSession, SessionTypeOK
<1>2. CASE \E s \in Session : AbandonSession(c, s)
  <2>1. PICK s \in Session : AbandonSession(c, s) BY <1>2
  <2>2. [session[s] EXCEPT !.state = "abandoned"] \in SessionRow
    BY <1>0, <1>s, MovedRow
  <2>3. session' = [session EXCEPT ![s] = [session[s] EXCEPT !.state = "abandoned"]]
    BY <2>1 DEF AbandonSession
  <2>4. QED BY <1>0, <2>1, <2>2, <2>3 DEF AbandonSession, SessionTypeOK
<1>3. CASE MarkCompiled(c)
  <2> DEFINE s   == client[c].on
             row == [session[s] EXCEPT !.state = "context_compiled"]
             now == [client[c] EXCEPT !.seen = "context_compiled"]
  <2>1. client[c].op = "activate" /\ s \in Session
    BY <1>3, PendingShape DEF MarkCompiled
  <2>2. row \in SessionRow
    BY <1>0, <1>s, <2>1, MovedRow
  <2>3. now \in Pending
    <3>1. client[c] \in [op : {"activate"}, on : Session, seen : {"created", "context_compiled"}]
      BY <2>1, PendingShape
    <3>2. now
            \in [op : {"activate"}, on : Session, seen : {"created", "context_compiled"}]
      BY <3>1
    <3>3. QED BY <3>2 DEF Pending
  <2>4. CASE session[s].state = "created"
    <3>1. /\ session' = [session EXCEPT ![s] = row]
          /\ client' = [client EXCEPT ![c] = now]
          /\ UNCHANGED genVars
      BY <1>3, <2>4 DEF MarkCompiled
    <3> HIDE DEF row, now
    <3>2. QED BY <1>0, <2>2, <2>3, <3>1 DEF SessionTypeOK
  <2>5. CASE session[s].state # "created"
    <3>1. session' = session /\ client' = [client EXCEPT ![c] = Idle] /\ UNCHANGED genVars
      BY <1>3, <2>5 DEF MarkCompiled
    <3>2. QED BY <1>0, <3>1, IdlePending DEF SessionTypeOK
  <2>6. QED BY <2>4, <2>5
<1>4. CASE MarkActive(c)
  <2> DEFINE s == client[c].on
  <2>1. s \in Session BY <1>4, PendingShape DEF MarkActive
  <2>2. [session[s] EXCEPT !.state = "active"] \in SessionRow
    BY <1>0, <1>s, <2>1, MovedRow
  <2>3. \/ session' = [session EXCEPT ![s] = [session[s] EXCEPT !.state = "active"]]
        \/ session' = session
    BY <1>4 DEF MarkActive
  <2>4. client' = [client EXCEPT ![c] = Idle] /\ UNCHANGED genVars
    BY <1>4 DEF MarkActive
  <2>5. QED BY <1>0, <2>2, <2>3, <2>4, IdlePending DEF SessionTypeOK
<1>5. CASE CommitCompletion(c)
  <2> DEFINE s == client[c].on
             row == [session[s] EXCEPT !.state = "completed", !.end = client[c].to,
                                       !.outcome = client[c].outcome]
  <2>1. s \in Session /\ client[c].to \in Nat /\ client[c].outcome \in Outcome
    BY <1>5, PendingShape DEF CommitCompletion
  <2>2. row \in SessionRow
    BY <1>0, <1>s, <2>1 DEF SessionRow
  <2>3. session' = [session EXCEPT ![s] = row] \/ session' = session
    BY <1>5 DEF CommitCompletion
  <2>4. client' = [client EXCEPT ![c] = Idle] /\ UNCHANGED genVars
    BY <1>5 DEF CommitCompletion
  <2> HIDE DEF row
  <2>5. QED BY <1>0, <2>2, <2>3, <2>4, IdlePending DEF SessionTypeOK
<1>6. QED BY <1>1, <1>2, <1>3, <1>4, <1>5 DEF ClientWrites

(* The reading steps of task commands keep the sessions well typed.         *)
LEMMA ClientReadsType ==
    ASSUME SessionTypeOK, active \in Nat, NEW c \in Client, ClientReads(c)
    PROVE  SessionTypeOK' /\ UNCHANGED <<session, genVars>>
<1>0. session \in [Session -> SessionRow] /\ client \in [Client -> Pending]
  BY DEF SessionTypeOK
<1>1. CASE \E s \in Session : ReadForActivation(c, s)
  <2>1. PICK s \in Session : ReadForActivation(c, s) BY <1>1
  <2>2. [op |-> "activate", on |-> s, seen |-> session[s].state] \in Pending
    BY <2>1 DEF ReadForActivation, Pending
  <2>3. QED BY <1>0, <2>1, <2>2 DEF ReadForActivation, SessionTypeOK
<1>2. CASE \E s \in Session, o \in Outcome : ReadForCompletion(c, s, o)
  <2>1. PICK s \in Session, o \in Outcome : ReadForCompletion(c, s, o) BY <1>2
  <2>2. [op |-> "complete", on |-> s, to |-> active, outcome |-> o] \in Pending
    BY DEF Pending
  <2>3. QED BY <1>0, <2>1, <2>2 DEF ReadForCompletion, SessionTypeOK
<1>3. CASE ClientStops(c)
  BY <1>0, <1>3, IdlePending DEF ClientStops, SessionTypeOK
<1>4. QED BY <1>1, <1>2, <1>3 DEF ClientReads

-----------------------------------------------------------------------------
USE LeaseAssumption, SessionAssumption, CatalogueAssumption

-----------------------------------------------------------------------------
(* Types.                                                                   *)

(* The steps at which a reconcile has a candidate.                          *)
Building == {"hash", "build", "persist", "activate", "failing"}

(* A reconcile's candidate is a row, and there is one while it builds.      *)
CandidateKnown ==
    \A r \in Reconciler :
        /\ cand[r] <= Len(gens)
        /\ pc[r] \in Building => cand[r] # 0

(* A compiler past its first read has a session.                            *)
TargetChosen ==
    \A k \in Compiler :
        pc[k] \in {"acquire", "create", "check", "mark"} => target[k] \in Session

TypeInv == TypeOK /\ CandidateKnown /\ TargetChosen

(* What a step leaves alone keeps its type: the lease,                      *)
LEMMA SameLease == ASSUME LeaseTypeOK, UNCHANGED leaseVars PROVE LeaseTypeOK'
BY DEF LeaseTypeOK, leaseVars

(* the generations,                                                         *)
LEMMA SameGens ==
    ASSUME UNCHANGED genVars
    PROVE  /\ gens' = gens /\ active' = active /\ Len(gens') = Len(gens)
           /\ GenTypeOK => GenTypeOK'
BY DEF GenTypeOK, genVars

(* and the sessions.                                                        *)
LEMMA SameSessions == ASSUME SessionTypeOK, UNCHANGED sessionVars PROVE SessionTypeOK'
BY DEF SessionTypeOK, sessionVars

(* What acquiring, releasing and ageing do to the row.                      *)
LEMMA AcquireType ==
    ASSUME LeaseTypeOK, NEW h \in Holder, AcquireLease(h) PROVE LeaseTypeOK'
BY DEF LeaseTypeOK, AcquireLease, UpsertLease, NoLease, MaxAge

(* Releasing deletes the row or leaves it.                                  *)
LEMMA ReleaseType ==
    ASSUME LeaseTypeOK, NEW h \in Holder, ReleaseLease(h) PROVE LeaseTypeOK'
BY SameLease DEF LeaseTypeOK, ReleaseLease, NoLease, MaxAge

(* The clock's tick keeps the age in range.                                 *)
LEMMA AgeType ==
    ASSUME LeaseTypeOK, AgeLease PROVE LeaseTypeOK'
BY DEF LeaseTypeOK, AgeLease, MaxAge

(* Where a command goes when SQLite is busy is a step, never a building one *)
(* unless it was building.                                                  *)
LEMMA AfterBusyStep ==
    ASSUME NEW step \in DOMAIN AfterBusy
    PROVE  /\ AfterBusy[step] \in {"done", "release", "failing"}
           /\ AfterBusy[step] = "failing" => step = "activate"
BY DEF AfterBusy

(* An empty catalogue is well typed, and no command has begun.              *)
LEMMA InitType == Init => TypeInv
<1> SUFFICES ASSUME Init PROVE TypeInv OBVIOUS
<1>1. LeaseTypeOK BY DEF Init, LeaseInit, LeaseTypeOK, NoLease, MaxAge
<1>2. GenTypeOK BY EmptySeq DEF Init, GenInit, GenTypeOK
<1>3. SessionTypeOK
  BY IdlePending, NoSessionRow DEF Init, SessionInit, SessionTypeOK
<1>4. TypeOK
  BY <1>1, <1>2, <1>3 DEF Init, TypeOK, Step
<1>5. CandidateKnown
  BY <1>2, RowType DEF Init, CandidateKnown, Building
<1>6. TargetChosen BY DEF Init, TargetChosen
<1>7. QED BY <1>4, <1>5, <1>6 DEF TypeInv

(* with_cli_writer_lease.                                                   *)
LEMMA LeaseStepsType ==
    ASSUME TypeInv, NEW p \in Holder,
           Acquire(p) \/ RefuseLease(p) \/ Release(p) \/ BusyTimeout(p)
    PROVE  TypeInv'
<1> USE DEF TypeInv, Goto, workVars, envVars
<1>1. CASE Acquire(p)
  <2>1. LeaseTypeOK' BY <1>1, AcquireType DEF Acquire, TypeOK
  <2>2. FirstStep(p) \in {"parent", "abandon", "create"}
        /\ (p \in Compiler => FirstStep(p) = "create")
        /\ (FirstStep(p) = "create" => p \in Compiler)
    BY DEF FirstStep
  <2>3. TypeOK'
    BY <1>1, <2>1, <2>2, SameGens, SameSessions DEF Acquire, TypeOK, Step, Leased
  <2>4. CandidateKnown'
    BY <1>1, <2>2, SameGens DEF Acquire, TypeOK, CandidateKnown, Building
  <2>5. TargetChosen'
    BY <1>1, <2>2 DEF Acquire, TypeOK, TargetChosen
  <2>6. QED BY <2>3, <2>4, <2>5
<1>2. CASE RefuseLease(p)
  <2>1. TypeOK'
    BY <1>2, SameLease, SameGens, SameSessions DEF RefuseLease, TypeOK, Step
  <2>2. CandidateKnown' /\ TargetChosen'
    BY <1>2, SameGens DEF RefuseLease, TypeOK, CandidateKnown, TargetChosen, Building
  <2>3. QED BY <2>1, <2>2
<1>3. CASE Release(p)
  <2>1. LeaseTypeOK' BY <1>3, ReleaseType DEF Release, TypeOK
  <2>2. TypeOK'
    BY <1>3, <2>1, SameGens, SameSessions DEF Release, TypeOK, Step
  <2>3. CandidateKnown' /\ TargetChosen'
    BY <1>3, SameGens DEF Release, TypeOK, CandidateKnown, TargetChosen, Building
  <2>4. QED BY <2>2, <2>3
<1>4. CASE BusyTimeout(p)
  <2> DEFINE next == AfterBusy[pc[p]]
  <2>1. /\ next \in {"done", "release", "failing"}
        /\ next = "failing" => pc[p] = "activate"
        /\ pc' = [pc EXCEPT ![p] = next]
    BY <1>4, AfterBusyStep DEF BusyTimeout
  <2>u. UNCHANGED <<leaseVars, genVars, sessionVars, workVars, envVars>>
    BY <1>4 DEF BusyTimeout
  <2> HIDE DEF next
  <2>2. TypeOK'
    BY <2>u, <2>1, SameLease, SameGens, SameSessions DEF TypeOK, Step, Leased
  <2>3. CandidateKnown' /\ TargetChosen'
    BY <2>u, <2>1, SameGens DEF TypeOK, CandidateKnown, TargetChosen, Building
  <2>4. QED BY <2>2, <2>3
<1>5. QED BY <1>1, <1>2, <1>3, <1>4

(* atlas reconcile.                                                         *)
LEMMA ReconcileType1 ==
    ASSUME TypeInv, NEW r \in Reconciler,
           ReadParent(r) \/ ReadMaxSeq(r) \/ BeginCandidate(r) \/ SequenceTaken(r)
             \/ HashFiles(r) \/ BeginBuild(r)
    PROVE  TypeInv'
<1> USE DEF TypeInv, Goto, workVars, envVars
<1>g. Len(gens) \in Nat BY RowType DEF TypeOK
<1>h. head \in [Reconciler -> [parent : Nat, seq : Nat]] BY DEF TypeOK
<1>1. CASE ReadParent(r)
  <2>1. PICK g \in 0 .. Len(gens) : head' = [head EXCEPT ![r] = [head[r] EXCEPT !.parent = g]]
    BY <1>1 DEF ReadParent
  <2>2. [head[r] EXCEPT !.parent = g] \in [parent : Nat, seq : Nat]
    BY <1>g, <1>h
  <2>h. head' \in [Reconciler -> [parent : Nat, seq : Nat]]
    BY <1>h, <2>1, <2>2, Zenon
  <2>3. TypeOK'
    BY <1>1, <2>h, SameLease, SameGens, SameSessions DEF ReadParent, TypeOK, Step, Leased
  <2>4. CandidateKnown' /\ TargetChosen'
    BY <1>1, SameGens DEF ReadParent, TypeOK, CandidateKnown, TargetChosen, Building
  <2>5. QED BY <2>3, <2>4
<1>2. CASE ReadMaxSeq(r)
  <2> DEFINE n == Len(gens) + 1
  <2>n. n \in Nat BY <1>g
  <2>h. head' = [head EXCEPT ![r] = [head[r] EXCEPT !.seq = n]]
    BY <1>2 DEF ReadMaxSeq
  <2> HIDE DEF n
  <2>r. [head[r] EXCEPT !.seq = n] \in [parent : Nat, seq : Nat]
    BY <1>h, <2>n
  <2>1. head' \in [Reconciler -> [parent : Nat, seq : Nat]]
    BY <1>h, <2>h, <2>r, Zenon
  <2>2. TypeOK'
    BY <1>2, <2>1, SameLease, SameGens, SameSessions DEF ReadMaxSeq, TypeOK, Step, Leased
  <2>3. CandidateKnown' /\ TargetChosen'
    BY <1>2, SameGens DEF ReadMaxSeq, TypeOK, CandidateKnown, TargetChosen, Building
  <2>4. QED BY <2>2, <2>3
<1>3. CASE BeginCandidate(r)
  <2> DEFINE n == head[r].seq
  <2>1. head[r].parent \in Nat BY DEF TypeOK
  <2>2. InsertCandidate(n, head[r].parent) /\ cand' = [cand EXCEPT ![r] = n]
    BY <1>3 DEF BeginCandidate
  <2> HIDE DEF n
  <2>3. GenTypeOK' /\ n = Len(gens) + 1 /\ Len(gens') = n
    BY <2>1, <2>2, InsertEffect DEF TypeOK
  <2>4. n \in Nat /\ n # 0 BY <1>g, <2>3
  <2>5. TypeOK'
    BY <1>3, <2>2, <2>3, <2>4, SameLease, SameSessions DEF BeginCandidate, TypeOK, Step, Leased
  <2>6. CandidateKnown'
    BY <1>3, <1>g, <2>2, <2>3, <2>4 DEF BeginCandidate, TypeOK, CandidateKnown, Building
  <2>7. TargetChosen'
    BY <1>3 DEF BeginCandidate, TypeOK, TargetChosen
  <2>8. QED BY <2>5, <2>6, <2>7
<1>4. CASE SequenceTaken(r)
  <2>1. TypeOK'
    BY <1>4, SameLease, SameGens, SameSessions DEF SequenceTaken, TypeOK, Step, Leased
  <2>2. CandidateKnown' /\ TargetChosen'
    BY <1>4, SameGens DEF SequenceTaken, TypeOK, CandidateKnown, TargetChosen, Building
  <2>3. QED BY <2>1, <2>2
<1>5. CASE HashFiles(r)
  <2>1. TypeOK'
    BY <1>5, SameLease, SameGens, SameSessions DEF HashFiles, TypeOK, Step, Leased
  <2>2. CandidateKnown' /\ TargetChosen'
    BY <1>5, SameGens DEF HashFiles, TypeOK, CandidateKnown, TargetChosen, Building
  <2>3. QED BY <2>1, <2>2
<1>6. CASE BeginBuild(r)
  <2>1. TypeOK'
    BY <1>6, SameLease, SameGens, SameSessions DEF BeginBuild, TypeOK, Step, Leased
  <2>2. CandidateKnown' /\ TargetChosen'
    BY <1>6, SameGens DEF BeginBuild, TypeOK, CandidateKnown, TargetChosen, Building
  <2>3. QED BY <2>1, <2>2
<1>7. QED BY <1>1, <1>2, <1>3, <1>4, <1>5, <1>6

(* The second half, from the build's commit to its end.                     *)
LEMMA ReconcileType2 ==
    ASSUME TypeInv, NEW r \in Reconciler,
           CommitBuild(r) \/ Activate(r) \/ ActivationRefused(r) \/ FailCandidate(r)
             \/ ReconcileError(r)
    PROVE  TypeInv'
<1> USE DEF TypeInv, Goto, workVars, envVars
<1>g. Len(gens) \in Nat /\ DOMAIN gens = 1 .. Len(gens) BY RowType DEF TypeOK
<1>1. CASE CommitBuild(r)
  <2>1. PersistFiles(cand[r], seen[r]) /\ seen[r] \in Nat
    BY <1>1 DEF CommitBuild, TypeOK
  <2>2. GenTypeOK' /\ Len(gens') = Len(gens)
    BY <2>1, PersistEffect DEF TypeOK, OnlyRow
  <2>3. PICK next \in {"activate", "failing"} : pc' = [pc EXCEPT ![r] = next]
    BY <1>1 DEF CommitBuild
  <2>4. TypeOK'
    BY <1>1, <2>2, <2>3, SameLease, SameSessions DEF CommitBuild, TypeOK, Step, Leased
  <2>5. CandidateKnown' /\ TargetChosen'
    BY <1>1, <2>2, <2>3 DEF CommitBuild, TypeOK, CandidateKnown, TargetChosen, Building
  <2>6. QED BY <2>4, <2>5
<1>2. CASE Activate(r)
  <2>1. CommitCandidate(cand[r], seen[r]) /\ seen[r] \in Nat /\ cand[r] \in DOMAIN gens
    BY <1>2, <1>g DEF Activate, TypeOK, CandidateKnown, Building
  <2>2. GenTypeOK' /\ Len(gens') = Len(gens)
    BY <2>1, CommitEffect DEF TypeOK, OnlyRow
  <2>3. SessionTypeOK'
    BY <1>2, ReconcileType DEF Activate, TypeOK, SessionTypeOK
  <2>4. TypeOK'
    BY <1>2, <2>2, <2>3, SameLease DEF Activate, TypeOK, Step, Leased
  <2>5. CandidateKnown' /\ TargetChosen'
    BY <1>2, <2>2 DEF Activate, TypeOK, CandidateKnown, TargetChosen, Building
  <2>6. QED BY <2>4, <2>5
<1>3. CASE ActivationRefused(r)
  <2>1. TypeOK'
    BY <1>3, SameLease, SameGens, SameSessions DEF ActivationRefused, TypeOK, Step, Leased
  <2>2. CandidateKnown' /\ TargetChosen'
    BY <1>3, SameGens DEF ActivationRefused, TypeOK, CandidateKnown, TargetChosen, Building
  <2>3. QED BY <2>1, <2>2
<1>4. CASE FailCandidate(r)
  <2>1. GenTypeOK' /\ Len(gens') = Len(gens)
    BY <1>4, CloseEffect, SameGens DEF FailCandidate, TypeOK, OnlyRow
  <2>2. TypeOK'
    BY <1>4, <2>1, SameLease, SameSessions DEF FailCandidate, TypeOK, Step, Leased
  <2>3. CandidateKnown' /\ TargetChosen'
    BY <1>4, <2>1 DEF FailCandidate, TypeOK, CandidateKnown, TargetChosen, Building
  <2>4. QED BY <2>2, <2>3
<1>5. CASE ReconcileError(r)
  <2>1. TypeOK'
    BY <1>5, SameLease, SameGens, SameSessions DEF ReconcileError, TypeOK, Step, Leased
  <2>2. CandidateKnown' /\ TargetChosen'
    BY <1>5, SameGens DEF ReconcileError, TypeOK, CandidateKnown, TargetChosen, Building
  <2>3. QED BY <2>1, <2>2
<1>6. QED BY <1>1, <1>2, <1>3, <1>4, <1>5

(* atlas doctor.                                                            *)
LEMMA DoctorType ==
    ASSUME TypeInv, NEW d \in Doctor, DoctorStep(d) \/ InvokeDoctor(d)
    PROVE  TypeInv'
<1> USE DEF TypeInv, Goto, workVars, envVars
<1>g. Len(gens) \in Nat /\ DOMAIN gens = 1 .. Len(gens) BY RowType DEF TypeOK
<1>1. CASE InvokeDoctor(d)
  <2>1. InState("candidate") \in SUBSET Nat BY <1>g DEF InState
  <2>2. PICK next \in {"done", "acquire"} : pc' = [pc EXCEPT ![d] = next]
    BY <1>1 DEF InvokeDoctor
  <2>3. TypeOK'
    BY <1>1, <2>1, <2>2, SameLease, SameGens, SameSessions
       DEF InvokeDoctor, TypeOK, Step, Leased
  <2>4. CandidateKnown' /\ TargetChosen'
    BY <1>1, <2>2, SameGens DEF InvokeDoctor, TypeOK, CandidateKnown, TargetChosen, Building
  <2>5. QED BY <2>3, <2>4
<1>2. CASE AbandonNext(d)
  <2>1. PICK g \in todo[d] :
          /\ CloseCandidate(g, "abandoned")
          /\ todo' = [todo EXCEPT ![d] = @ \ {g}]
          /\ Goto(d, IF todo[d] = {g} THEN "release" ELSE "abandon")
    BY <1>2 DEF AbandonNext
  <2>2. PICK next \in {"release", "abandon"} : pc' = [pc EXCEPT ![d] = next]
    BY <2>1
  <2>3. GenTypeOK' /\ Len(gens') = Len(gens)
    BY <2>1, CloseEffect DEF TypeOK, OnlyRow
  <2>4. TypeOK'
    BY <1>2, <2>1, <2>2, <2>3, SameLease, SameSessions DEF AbandonNext, TypeOK, Step, Leased
  <2>5. CandidateKnown' /\ TargetChosen'
    BY <1>2, <2>2, <2>3 DEF AbandonNext, TypeOK, CandidateKnown, TargetChosen, Building
  <2>6. QED BY <2>4, <2>5
<1>3. CASE AbandonError(d)
  <2>1. TypeOK'
    BY <1>3, SameLease, SameGens, SameSessions DEF AbandonError, TypeOK, Step, Leased
  <2>2. CandidateKnown' /\ TargetChosen'
    BY <1>3, SameGens DEF AbandonError, TypeOK, CandidateKnown, TargetChosen, Building
  <2>3. QED BY <2>1, <2>2
<1>4. QED BY <1>1, <1>2, <1>3 DEF DoctorStep

(* atlas context-ir.                                                        *)
LEMMA CompileType ==
    ASSUME TypeInv, NEW k \in Compiler, CompileStep(k) \/ InvokeCompile(k)
    PROVE  TypeInv'
<1> USE DEF TypeInv, Goto, workVars, envVars
<1>0. session \in [Session -> SessionRow] BY DEF TypeOK, SessionTypeOK
<1>1. CASE InvokeCompile(k)
  <2>1. \/ target' = target /\ pc' = [pc EXCEPT ![k] = "done"]
        \/ \E s \in Session : /\ target' = [target EXCEPT ![k] = s]
                             /\ pc' = [pc EXCEPT ![k] = "acquire"]
    BY <1>1 DEF InvokeCompile
  <2>p. pc' \in [Holder -> Step] /\ target' \in [Compiler -> Session \cup {NoTarget}]
    <3>1. CASE target' = target /\ pc' = [pc EXCEPT ![k] = "done"]
      BY <3>1 DEF TypeOK, Step
    <3>2. CASE \E s \in Session : /\ target' = [target EXCEPT ![k] = s]
                                  /\ pc' = [pc EXCEPT ![k] = "acquire"]
      BY <3>2 DEF TypeOK, Step
    <3>3. QED BY <2>1, <3>1, <3>2
  <2>2. TypeOK'
    BY <1>1, <2>p, SameLease, SameGens, SameSessions DEF InvokeCompile, TypeOK
  <2>3. CandidateKnown' /\ TargetChosen'
    BY <1>1, <2>1, SameGens DEF InvokeCompile, TypeOK, CandidateKnown, TargetChosen, Building
  <2>4. QED BY <2>2, <2>3
<1>2. CASE CreateSession(k)
  <2>1. target[k] \in Session BY <1>2 DEF CreateSession, TargetChosen
  <2>2. CreateIfAbsent(target[k]) \in SessionRow
    BY <2>1, CreatedRow DEF TypeOK
  <2>3. SessionTypeOK'
    BY <1>0, <1>2, <2>1, <2>2 DEF CreateSession, TypeOK, SessionTypeOK
  <2>4. PICK next \in {"check", "release"} : pc' = [pc EXCEPT ![k] = next]
    BY <1>2 DEF CreateSession
  <2>5. TypeOK'
    BY <1>2, <2>3, <2>4, SameLease, SameGens DEF CreateSession, TypeOK, Step, Leased
  <2>6. CandidateKnown' /\ TargetChosen'
    BY <1>2, <2>1, <2>4, SameGens
       DEF CreateSession, TypeOK, CandidateKnown, TargetChosen, Building
  <2>7. QED BY <2>5, <2>6
<1>3. CASE CheckTransition(k)
  <2>1. PICK next \in {"mark", "release"} : pc' = [pc EXCEPT ![k] = next]
    BY <1>3 DEF CheckTransition
  <2>2. TypeOK'
    BY <1>3, <2>1, SameLease, SameGens, SameSessions
       DEF CheckTransition, TypeOK, Step, Leased
  <2>3. CandidateKnown' /\ TargetChosen'
    BY <1>3, <2>1, SameGens DEF CheckTransition, TypeOK, CandidateKnown, TargetChosen, Building
  <2>4. QED BY <2>2, <2>3
<1>4. CASE WriteTransition(k)
  <2> DEFINE row == [session[target[k]] EXCEPT !.state = "context_compiled"]
  <2>1. target[k] \in Session BY <1>4 DEF WriteTransition, TargetChosen
  <2>2. row \in SessionRow
    BY <1>0, <2>1, MovedRow DEF SessionState
  <2>3. session' = [session EXCEPT ![target[k]] = row]
    BY <1>4 DEF WriteTransition
  <2> HIDE DEF row
  <2>4. SessionTypeOK'
    BY <1>0, <1>4, <2>2, <2>3 DEF WriteTransition, TypeOK, SessionTypeOK
  <2>5. TypeOK'
    BY <1>4, <2>4, SameLease, SameGens DEF WriteTransition, TypeOK, Step, Leased
  <2>6. CandidateKnown' /\ TargetChosen'
    BY <1>4, SameGens DEF WriteTransition, TypeOK, CandidateKnown, TargetChosen, Building
  <2>7. QED BY <2>5, <2>6
<1>5. QED BY <1>1, <1>2, <1>3, <1>4 DEF CompileStep

(* Everything else: a command begins or dies, time, edits, other callers.   *)
LEMMA OtherStepsType ==
    ASSUME TypeInv,
           \/ \E r \in Reconciler : InvokeReconcile(r)
           \/ \E p \in Holder : Crash(p)
           \/ Tick \/ EditSource \/ ClientStep
           \/ UNCHANGED vars
    PROVE  TypeInv'
<1> USE DEF TypeInv, Goto, workVars, envVars
<1>1. CASE \E r \in Reconciler : InvokeReconcile(r)
  <2>1. PICK r \in Reconciler : InvokeReconcile(r) BY <1>1
  <2>2. TypeOK'
    BY <2>1, SameLease, SameGens, SameSessions DEF InvokeReconcile, TypeOK, Step
  <2>3. CandidateKnown' /\ TargetChosen'
    BY <2>1, SameGens DEF InvokeReconcile, TypeOK, CandidateKnown, TargetChosen, Building
  <2>4. QED BY <2>2, <2>3
<1>2. CASE \E p \in Holder : Crash(p)
  <2>1. PICK p \in Holder : Crash(p) BY <1>2
  <2>2. TypeOK'
    BY <2>1, SameLease, SameGens, SameSessions DEF Crash, TypeOK, Step
  <2>3. CandidateKnown' /\ TargetChosen'
    BY <2>1, SameGens DEF Crash, TypeOK, CandidateKnown, TargetChosen, Building
  <2>4. QED BY <2>2, <2>3
<1>3. CASE Tick
  <2>1. LeaseTypeOK' BY <1>3, AgeType DEF Tick, TypeOK
  <2>2. TypeOK' BY <1>3, <2>1, SameGens, SameSessions DEF Tick, TypeOK
  <2>3. CandidateKnown' /\ TargetChosen'
    BY <1>3, SameGens DEF Tick, CandidateKnown, TargetChosen
  <2>4. QED BY <2>2, <2>3
<1>4. CASE EditSource
  <2>1. TypeOK'
    BY <1>4, SameLease, SameGens, SameSessions DEF EditSource, TypeOK
  <2>2. CandidateKnown' /\ TargetChosen'
    BY <1>4, SameGens DEF EditSource, CandidateKnown, TargetChosen
  <2>3. QED BY <2>1, <2>2
<1>5. CASE ClientStep
  <2>1. active \in Nat BY RowType DEF TypeOK, GenTypeOK
  <2>2. SessionTypeOK' /\ UNCHANGED genVars
    BY <1>5, <2>1, ClientWritesType, ClientReadsType DEF ClientStep, TypeOK
  <2>3. TypeOK' BY <1>5, <2>2, SameLease, SameGens DEF ClientStep, TypeOK
  <2>4. CandidateKnown' /\ TargetChosen'
    BY <1>5, <2>2, SameGens DEF ClientStep, CandidateKnown, TargetChosen
  <2>5. QED BY <2>3, <2>4
<1>6. CASE UNCHANGED vars
  <2>1. TypeOK'
    BY <1>6, SameLease, SameGens, SameSessions DEF vars, sessionVars, TypeOK
  <2>2. CandidateKnown' /\ TargetChosen'
    BY <1>6, SameGens DEF vars, CandidateKnown, TargetChosen
  <2>3. QED BY <2>1, <2>2
<1>7. QED BY <1>1, <1>2, <1>3, <1>4, <1>5, <1>6

(* Every step of every command keeps the types.                             *)
LEMMA NextType == ASSUME TypeInv, [Next]_vars PROVE TypeInv'
<1>1. CASE \E r \in Reconciler : ReconcileStep(r)
  BY <1>1, ReconcileType1, ReconcileType2 DEF ReconcileStep
<1>2. CASE \E d \in Doctor : DoctorStep(d) \/ InvokeDoctor(d)
  BY <1>2, DoctorType
<1>3. CASE \E k \in Compiler : CompileStep(k) \/ InvokeCompile(k)
  BY <1>3, CompileType
<1>4. CASE \E p \in Holder : Acquire(p) \/ RefuseLease(p) \/ Release(p) \/ BusyTimeout(p)
  BY <1>4, LeaseStepsType
<1>5. CASE \/ \E r \in Reconciler : InvokeReconcile(r)
           \/ \E p \in Holder : Crash(p)
           \/ Tick \/ EditSource \/ ClientStep
           \/ UNCHANGED vars
  BY <1>5, OtherStepsType
<1>6. QED
  BY <1>1, <1>2, <1>3, <1>4, <1>5 DEF Next, CommandStep

(* The inductive invariant behind TypeCorrect: the types, a candidate for   *)
(* every reconcile that builds one, a session for every compiler.           *)
THEOREM TypeInvHolds == Spec => []TypeInv
BY InitType, NextType, PTL DEF Spec

(* The catalogue's tables and every command's progress stay well-typed.     *)
THEOREM TypeCorrect == Spec => []TypeOK
BY TypeInvHolds, PTL DEF TypeInv

-----------------------------------------------------------------------------
(* Publication.                                                             *)

(* Two reconciles never share a candidate.                                  *)
CandidatesDistinct ==
    \A r, q \in Reconciler : cand[r] = cand[q] /\ cand[r] # 0 => r = q

(* What a reconcile still builds is not published.                          *)
Unpublished ==
    \A r \in Reconciler : pc[r] \in Building => gens[cand[r]].state # "committed"

(* A reconcile past phase A has hashed some tree.                           *)
TreeHashed ==
    /\ source # 0
    /\ \A r \in Reconciler : pc[r] \in {"build", "persist", "activate"} => seen[r] # 0

(* A candidate about to be activated has the files of the tree hashed.      *)
FilesInPlace ==
    \A r \in Reconciler : pc[r] = "activate" => gens[cand[r]].files = seen[r]

CommittedComplete ==
    \A g \in Committed : gens[g].tree # 0 /\ gens[g].files = gens[g].tree

ActiveCommitted == active # 0 => active \in Committed

PublicationInv ==
    /\ CandidatesDistinct
    /\ Unpublished
    /\ TreeHashed
    /\ FilesInPlace
    /\ CommittedComplete
    /\ ActiveCommitted

Published == {PublishedEntry(g) : g \in Committed}

(* A step that keeps the generations, and takes no reconcile to a step at   *)
(* which more is required of its candidate.                                 *)
Quiet ==
    /\ gens' = gens /\ active' = active /\ cand' = cand
    /\ source' # 0
    /\ \A r \in Reconciler :
          /\ pc'[r] \in Building => pc[r] \in Building
          /\ pc'[r] = "activate" => pc[r] = "activate" /\ seen'[r] = seen[r]
          /\ pc'[r] \in {"build", "persist", "activate"} => seen'[r] # 0

(* Nothing is published in an empty catalogue.                              *)
LEMMA InitPublication == Init => PublicationInv
<1> SUFFICES ASSUME Init PROVE PublicationInv OBVIOUS
<1>1. gens = << >> /\ active = 0 BY DEF Init, GenInit
<1>2. Committed = {} BY <1>1, EmptySeq DEF Committed, InState
<1>3. CandidatesDistinct /\ Unpublished /\ TreeHashed /\ FilesInPlace
  BY DEF Init, CandidatesDistinct, Unpublished, TreeHashed, FilesInPlace, Building
<1>4. QED BY <1>1, <1>2, <1>3 DEF PublicationInv, CommittedComplete, ActiveCommitted

(* A quiet step keeps what is known of every reconcile's candidate.         *)
LEMMA QuietKeeps ==
    ASSUME PublicationInv, Quiet
    PROVE  PublicationInv' /\ Published' = Published
<1>1. Committed' = Committed BY DEF Quiet, Committed, InState
<1>2. Published' = Published BY <1>1 DEF Published, PublishedEntry, Quiet
<1>3. CandidatesDistinct' BY DEF PublicationInv, Quiet, CandidatesDistinct
<1>4. Unpublished' BY DEF PublicationInv, Quiet, Unpublished
<1>5. TreeHashed' BY DEF PublicationInv, Quiet, TreeHashed
<1>6. FilesInPlace' BY DEF PublicationInv, Quiet, FilesInPlace
<1>7. CommittedComplete' /\ ActiveCommitted'
  BY <1>1 DEF PublicationInv, Quiet, CommittedComplete, ActiveCommitted
<1>8. QED BY <1>2, <1>3, <1>4, <1>5, <1>6, <1>7 DEF PublicationInv

(* Rows of committed generations that stay as they are stay published, and  *)
(* nothing else is.                                                         *)
LEMMA SamePublished ==
    ASSUME Committed' = Committed, \A g \in Committed : gens'[g] = gens[g]
    PROVE  Published' = Published
BY DEF Published, PublishedEntry

(* A move of one process to a step that asks nothing of a candidate.        *)
LEMMA QuietMove ==
    ASSUME TypeInv, PublicationInv, NEW p \in Holder, NEW next,
           next \notin Building \/ p \notin Reconciler,
           pc' = [pc EXCEPT ![p] = next],
           UNCHANGED <<genVars, cand, seen, source>>
    PROVE  Quiet
<1>1. \A r \in Reconciler : pc'[r] = IF r = p THEN next ELSE pc[r]
  BY DEF TypeInv, TypeOK
<1>2. \A r \in Reconciler : pc'[r] \in Building => pc'[r] = pc[r]
  BY <1>1
<1>3. {"build", "persist", "activate"} \subseteq Building BY DEF Building
<1>4. QED BY <1>2, <1>3, SameGens DEF Quiet, PublicationInv, TreeHashed

(* Every step but the five that write generations is quiet.                 *)
LEMMA QuietSteps ==
    ASSUME TypeInv, PublicationInv, [Next]_vars,
           ~ \E r \in Reconciler : BeginCandidate(r) \/ CommitBuild(r) \/ Activate(r)
                                     \/ FailCandidate(r),
           ~ \E d \in Doctor : AbandonNext(d)
    PROVE  Quiet
<1> USE DEF Goto, workVars, envVars
<1>1. CASE \E p \in Holder : Acquire(p) \/ RefuseLease(p) \/ Release(p)
  <2>1. PICK p \in Holder : Acquire(p) \/ RefuseLease(p) \/ Release(p) BY <1>1
  <2>2. PICK next \in {"parent", "abandon", "create", "done"} : pc' = [pc EXCEPT ![p] = next]
    BY <2>1 DEF Acquire, RefuseLease, Release, FirstStep
  <2>3. next \notin Building BY <2>2 DEF Building
  <2>4. UNCHANGED <<genVars, cand, seen, source>>
    BY <2>1 DEF Acquire, RefuseLease, Release
  <2>5. QED BY <2>2, <2>3, <2>4, QuietMove
<1>2. CASE \E p \in Holder : BusyTimeout(p)
  <2>1. PICK p \in Holder : BusyTimeout(p) BY <1>2
  <2> DEFINE next == AfterBusy[pc[p]]
  <2>2. /\ next \in {"done", "release", "failing"}
        /\ next = "failing" => pc[p] = "activate"
        /\ pc' = [pc EXCEPT ![p] = next]
        /\ UNCHANGED <<genVars, cand, seen, source>>
    BY <2>1, AfterBusyStep DEF BusyTimeout
  <2> HIDE DEF next
  <2>3. CASE next # "failing"
    BY <2>2, <2>3, QuietMove DEF Building
  <2>4. CASE next = "failing"
    BY <2>2, <2>4, SameGens
       DEF Quiet, Building, TypeInv, TypeOK, PublicationInv, TreeHashed
  <2>5. QED BY <2>3, <2>4
<1>3. CASE \E r \in Reconciler : InvokeReconcile(r) \/ ReadParent(r) \/ ReadMaxSeq(r)
                                   \/ SequenceTaken(r) \/ ReconcileError(r)
  <2>1. PICK r \in Reconciler : InvokeReconcile(r) \/ ReadParent(r) \/ ReadMaxSeq(r)
                                   \/ SequenceTaken(r) \/ ReconcileError(r)
    BY <1>3
  <2>2. PICK next \in {"acquire", "maxseq", "insert", "release"} : pc' = [pc EXCEPT ![r] = next]
    BY <2>1 DEF InvokeReconcile, ReadParent, ReadMaxSeq, SequenceTaken, ReconcileError
  <2>3. next \notin Building BY <2>2 DEF Building
  <2>4. UNCHANGED <<genVars, cand, seen, source>>
    BY <2>1 DEF InvokeReconcile, ReadParent, ReadMaxSeq, SequenceTaken, ReconcileError
  <2>5. QED BY <2>2, <2>3, <2>4, QuietMove
<1>4. CASE \E r \in Reconciler : HashFiles(r)
  <2>1. PICK r \in Reconciler : HashFiles(r) BY <1>4
  <2>2. QED
    BY <2>1, SameGens
       DEF HashFiles, Quiet, Building, TypeInv, TypeOK, PublicationInv, TreeHashed
<1>5. CASE \E r \in Reconciler : BeginBuild(r)
  <2>1. PICK r \in Reconciler : BeginBuild(r) BY <1>5
  <2>2. QED
    BY <2>1, SameGens
       DEF BeginBuild, Quiet, Building, TypeInv, TypeOK, PublicationInv, TreeHashed
<1>6. CASE \E r \in Reconciler : ActivationRefused(r)
  <2>1. PICK r \in Reconciler : ActivationRefused(r) BY <1>6
  <2>2. QED
    BY <2>1, SameGens
       DEF ActivationRefused, Quiet, Building, TypeInv, TypeOK, PublicationInv, TreeHashed
<1>7. CASE \E d \in Doctor : InvokeDoctor(d) \/ AbandonError(d)
  <2>1. PICK d \in Doctor : InvokeDoctor(d) \/ AbandonError(d) BY <1>7
  <2>2. PICK next \in {"done", "acquire", "release"} : pc' = [pc EXCEPT ![d] = next]
    BY <2>1 DEF InvokeDoctor, AbandonError
  <2>3. UNCHANGED <<genVars, cand, seen, source>>
    BY <2>1 DEF InvokeDoctor, AbandonError
  <2>4. QED BY <2>2, <2>3, QuietMove DEF Building
<1>8. CASE \E k \in Compiler : InvokeCompile(k) \/ CompileStep(k)
  <2>1. PICK k \in Compiler : InvokeCompile(k) \/ CompileStep(k) BY <1>8
  <2>2. PICK next : pc' = [pc EXCEPT ![k] = next]
    BY <2>1 DEF InvokeCompile, CompileStep, CreateSession, CheckTransition, WriteTransition
  <2>3. UNCHANGED <<genVars, cand, seen, source>>
    BY <2>1 DEF InvokeCompile, CompileStep, CreateSession, CheckTransition, WriteTransition
  <2>4. k \notin Reconciler BY DEF TypeInv
  <2>5. QED BY <2>2, <2>3, <2>4, QuietMove
<1>9. CASE \E p \in Holder : Crash(p)
  <2>1. PICK p \in Holder : Crash(p) BY <1>9
  <2>2. QED BY <2>1, QuietMove DEF Crash, Building
<1>10. CASE Tick \/ ClientStep \/ UNCHANGED vars
  <2>1. UNCHANGED <<genVars, pc, workVars, envVars>>
    <3>1. CASE ClientStep
      <4>1. UNCHANGED genVars
        BY <3>1, RowType, ClientWritesType, ClientReadsType
           DEF ClientStep, TypeInv, TypeOK, GenTypeOK
      <4>2. QED BY <3>1, <4>1 DEF ClientStep
    <3>2. QED BY <1>10, <3>1 DEF Tick, vars
  <2>2. QED BY <2>1, SameGens DEF Quiet, Building, PublicationInv, TreeHashed
<1>11. CASE EditSource
  BY <1>11, SameGens
     DEF EditSource, Quiet, Building, TypeInv, TypeOK, PublicationInv, TreeHashed
<1>12. QED
  BY <1>1, <1>2, <1>3, <1>4, <1>5, <1>6, <1>7, <1>8, <1>9, <1>10, <1>11
     DEF Next, CommandStep, ReconcileStep, DoctorStep

(* begin_candidate: the new row is nobody else's candidate.                 *)
LEMMA BeginCandidateKeeps ==
    ASSUME TypeInv, PublicationInv, NEW r \in Reconciler, BeginCandidate(r)
    PROVE  PublicationInv' /\ Published' = Published /\ active' = active
<1> DEFINE n   == head[r].seq
           par == head[r].parent
<1>1. /\ InsertCandidate(n, par) /\ par \in Nat
      /\ cand' = [cand EXCEPT ![r] = n]
      /\ pc' = [pc EXCEPT ![r] = "hash"]
      /\ seen' = seen /\ source' = source
  BY DEF BeginCandidate, Goto, TypeInv, TypeOK
<1> HIDE DEF n, par
<1>2. /\ GenTypeOK' /\ n = Len(gens) + 1 /\ Len(gens') = n
      /\ \A h \in DOMAIN gens : gens'[h] = gens[h]
      /\ gens'[n].state = "candidate"
      /\ active' = active
  <2>1. GenTypeOK BY DEF TypeInv, TypeOK
  <2>2. /\ GenTypeOK' /\ n = Len(gens) + 1 /\ Len(gens') = n
        /\ \A h \in DOMAIN gens : gens'[h] = gens[h]
        /\ gens'[n] = [state |-> "candidate", parent |-> par,
                       files |-> 0, base |-> 0, tree |-> 0]
        /\ active' = active
    BY <1>1, <2>1, InsertEffect, Zenon
  <2>3. QED BY <2>2
<1>3. /\ Len(gens) \in Nat
      /\ DOMAIN gens = 1 .. Len(gens)
      /\ DOMAIN gens' = 1 .. n
  BY <1>2, RowType, LenProperties DEF TypeInv, TypeOK, GenTypeOK
<1>4. Committed' = Committed
  BY <1>2, <1>3 DEF Committed, InState
<1>5. \A g \in Committed : gens'[g] = gens[g]
  BY <1>2 DEF Committed, InState
<1>6. \A q \in Reconciler : cand[q] \in 0 .. Len(gens)
  BY <1>3 DEF TypeInv, TypeOK, CandidateKnown
<1>7. \A q \in Reconciler : /\ cand'[q] = IF q = r THEN n ELSE cand[q]
                            /\ pc'[q] = IF q = r THEN "hash" ELSE pc[q]
  BY <1>1 DEF TypeInv, TypeOK
<1>8. \A q \in Reconciler : q # r /\ pc[q] \in Building => gens'[cand'[q]] = gens[cand[q]]
  BY <1>2, <1>3, <1>6, <1>7 DEF TypeInv, CandidateKnown
<1>9. CandidatesDistinct'
  BY <1>2, <1>3, <1>6, <1>7 DEF PublicationInv, CandidatesDistinct
<1>10. Unpublished'
  BY <1>2, <1>7, <1>8 DEF PublicationInv, Unpublished
<1>11. TreeHashed' BY <1>1, <1>7 DEF PublicationInv, TreeHashed
<1>12. FilesInPlace'
  BY <1>1, <1>7, <1>8 DEF PublicationInv, FilesInPlace, Building
<1>13. CommittedComplete' /\ ActiveCommitted'
  BY <1>2, <1>4, <1>5 DEF PublicationInv, CommittedComplete, ActiveCommitted
<1>14. QED
  BY <1>2, <1>4, <1>5, <1>9, <1>10, <1>11, <1>12, <1>13, SamePublished DEF PublicationInv

(* The build transaction writes to the reconcile's own, unpublished row.    *)
LEMMA CommitBuildKeeps ==
    ASSUME TypeInv, PublicationInv, NEW r \in Reconciler, CommitBuild(r)
    PROVE  PublicationInv' /\ Published' = Published /\ active' = active
<1> DEFINE g == cand[r]
<1>1. /\ PersistFiles(g, seen[r]) /\ seen[r] \in Nat
      /\ cand' = cand /\ seen' = seen /\ source' = source
      /\ pc[r] = "persist"
  BY DEF CommitBuild, TypeInv, TypeOK
<1>2. PICK next \in {"activate", "failing"} : pc' = [pc EXCEPT ![r] = next]
  BY DEF CommitBuild, Goto
<1>3. /\ g # 0 /\ g \in DOMAIN gens
      /\ Len(gens) \in Nat /\ DOMAIN gens = 1 .. Len(gens)
  BY <1>1, RowType DEF TypeInv, TypeOK, CandidateKnown, Building
<1>4. gens[g].state # "committed" /\ seen[r] # 0
  BY <1>1 DEF PublicationInv, Unpublished, TreeHashed, Building
<1>5. CandidatesDistinct' BY <1>1 DEF PublicationInv, CandidatesDistinct
<1>6. \A q \in Reconciler : q # r => cand[q] # g
  BY <1>3 DEF PublicationInv, CandidatesDistinct
<1>7. \A q \in Reconciler : pc[q] \in Building => cand[q] \in DOMAIN gens
  BY <1>3 DEF TypeInv, TypeOK, CandidateKnown
<1> HIDE DEF g
<1>8. /\ GenTypeOK' /\ OnlyRow(g) /\ active' = active
      /\ gens'[g].files = seen[r] /\ gens'[g].state = gens[g].state
  BY <1>1, <1>3, PersistEffect DEF TypeInv, TypeOK
<1>9. DOMAIN gens' = DOMAIN gens
  BY <1>3, <1>8, LenProperties DEF GenTypeOK, OnlyRow
<1>10. Committed' = Committed /\ \A h \in Committed : gens'[h] = gens[h]
  BY <1>4, <1>8, <1>9 DEF Committed, InState, OnlyRow
<1>11. \A q \in Reconciler : pc'[q] = IF q = r THEN next ELSE pc[q]
  BY <1>2 DEF TypeInv, TypeOK
<1>12. \A q \in Reconciler : q # r /\ pc[q] \in Building => gens'[cand'[q]] = gens[cand[q]]
  BY <1>1, <1>6, <1>7, <1>8 DEF OnlyRow
<1>13. gens'[cand'[r]].state # "committed" /\ gens'[cand'[r]].files = seen'[r]
  BY <1>1, <1>4, <1>8 DEF g
<1>14. Unpublished'
  BY <1>11, <1>12, <1>13 DEF PublicationInv, Unpublished
<1>15. TreeHashed' BY <1>1, <1>4, <1>11 DEF PublicationInv, TreeHashed
<1>16. FilesInPlace'
  BY <1>1, <1>11, <1>12, <1>13 DEF PublicationInv, FilesInPlace, Building
<1>17. CommittedComplete' /\ ActiveCommitted'
  BY <1>8, <1>10 DEF PublicationInv, CommittedComplete, ActiveCommitted
<1>18. QED
  BY <1>5, <1>8, <1>10, <1>14, <1>15, <1>16, <1>17, SamePublished DEF PublicationInv

(* fail_candidate and abandon_candidate: only candidates are closed.        *)
LEMMA CloseKeeps ==
    ASSUME TypeInv, PublicationInv,
           NEW g, NEW st \in {"failed", "abandoned"}, CloseCandidate(g, st),
           NEW p, NEW next, next \notin Building \/ p \notin Reconciler,
           pc' = [pc EXCEPT ![p] = next],
           UNCHANGED <<cand, seen, source>>
    PROVE  PublicationInv' /\ Published' = Published /\ active' = active
<1>1. Len(gens) \in Nat /\ DOMAIN gens = 1 .. Len(gens)
  BY RowType DEF TypeInv, TypeOK
<1>2. /\ GenTypeOK' /\ OnlyRow(g) /\ active' = active /\ gens[g].state = "candidate"
      /\ g \in DOMAIN gens => gens'[g].state = st /\ gens'[g].files = gens[g].files
  BY CloseEffect DEF TypeInv, TypeOK
<1>3. DOMAIN gens' = DOMAIN gens
  BY <1>1, <1>2, LenProperties DEF GenTypeOK, OnlyRow
<1>4. Committed' = Committed /\ \A h \in Committed : gens'[h] = gens[h]
  BY <1>2, <1>3 DEF Committed, InState, OnlyRow
<1>5. \A q \in Reconciler : pc'[q] \in Building => pc'[q] = pc[q]
  BY DEF TypeInv, TypeOK
<1>6. \A q \in Reconciler : pc[q] \in Building => cand[q] \in DOMAIN gens
  BY <1>1 DEF TypeInv, TypeOK, CandidateKnown
<1>7. \A q \in Reconciler :
        pc[q] \in Building =>
          /\ gens'[cand[q]].files = gens[cand[q]].files
          /\ gens[cand[q]].state # "committed" => gens'[cand[q]].state # "committed"
  BY <1>2, <1>6 DEF OnlyRow
<1>8. CandidatesDistinct' BY DEF PublicationInv, CandidatesDistinct
<1>9. Unpublished' BY <1>5, <1>7 DEF PublicationInv, Unpublished
<1>10. TreeHashed' BY <1>5 DEF PublicationInv, TreeHashed, Building
<1>11. FilesInPlace' BY <1>5, <1>7 DEF PublicationInv, FilesInPlace, Building
<1>12. CommittedComplete' /\ ActiveCommitted'
  BY <1>2, <1>4 DEF PublicationInv, CommittedComplete, ActiveCommitted
<1>13. QED
  BY <1>2, <1>4, <1>8, <1>9, <1>10, <1>11, <1>12, SamePublished DEF PublicationInv

(* activate_candidate publishes the reconcile's candidate.                  *)
LEMMA ActivatePublishes ==
    ASSUME TypeInv, PublicationInv, NEW r \in Reconciler, Activate(r)
    PROVE  PublicationInv' /\ PI!Publish
<1> DEFINE g == cand[r]
<1>1. /\ CommitCandidate(g, seen[r]) /\ seen[r] \in Nat
      /\ cand' = cand /\ seen' = seen /\ source' = source
      /\ pc[r] = "activate" /\ pc' = [pc EXCEPT ![r] = "release"]
  BY DEF Activate, TypeInv, TypeOK, Goto, workVars, envVars
<1>2. /\ g # 0 /\ g \in DOMAIN gens
      /\ Len(gens) \in Nat /\ DOMAIN gens = 1 .. Len(gens)
  BY <1>1, RowType DEF TypeInv, TypeOK, CandidateKnown, Building
<1>3. seen[r] # 0 /\ gens[g].files = seen[r]
  BY <1>1 DEF PublicationInv, TreeHashed, FilesInPlace
<1>4. \A q \in Reconciler : q # r => cand[q] # g
  BY <1>2 DEF PublicationInv, CandidatesDistinct
<1>5. \A q \in Reconciler : pc[q] \in Building => cand[q] \in DOMAIN gens
  BY <1>2 DEF TypeInv, TypeOK, CandidateKnown
<1> HIDE DEF g
<1>6. /\ GenTypeOK' /\ OnlyRow(g) /\ active' = g
      /\ gens[g].state = "candidate" /\ gens'[g].state = "committed"
      /\ gens'[g].tree = seen[r] /\ gens'[g].files = seen[r]
  BY <1>1, <1>2, <1>3, CommitEffect DEF TypeInv, TypeOK
<1>7. DOMAIN gens' = DOMAIN gens
  BY <1>2, <1>6, LenProperties DEF GenTypeOK, OnlyRow
<1>8. /\ g \notin Committed /\ Committed' = Committed \cup {g}
      /\ \A h \in Committed : gens'[h] = gens[h]
  BY <1>2, <1>6, <1>7 DEF Committed, InState, OnlyRow
<1>9. \A q \in Reconciler : pc'[q] = IF q = r THEN "release" ELSE pc[q]
  BY <1>1 DEF TypeInv, TypeOK
<1>10. \A q \in Reconciler :
         pc'[q] \in Building => /\ pc'[q] = pc[q]
                               /\ gens'[cand'[q]] = gens[cand[q]]
  BY <1>1, <1>4, <1>5, <1>6, <1>9 DEF OnlyRow, Building
<1>11. CandidatesDistinct' BY <1>1 DEF PublicationInv, CandidatesDistinct
<1>12. Unpublished' BY <1>10 DEF PublicationInv, Unpublished
<1>13. TreeHashed' BY <1>1, <1>9 DEF PublicationInv, TreeHashed
<1>14. FilesInPlace' BY <1>1, <1>10 DEF PublicationInv, FilesInPlace, Building
<1>15. CommittedComplete'
  BY <1>3, <1>6, <1>8 DEF PublicationInv, CommittedComplete
<1>16. ActiveCommitted' BY <1>6, <1>8 DEF ActiveCommitted
<1>17. PI!Publish
  <2> DEFINE e == [gen |-> g, parent |-> gens'[g].parent, base |-> gens'[g].base,
                   files |-> gens'[g].files, tree |-> gens'[g].tree]
  <2>1. /\ e.gen = g /\ e.files = e.tree /\ e.tree # 0
    BY <1>3, <1>6
  <2>2. Published' = Published \cup {e}
    BY <1>8 DEF Published, PublishedEntry
  <2>3. \A f \in Published : f.gen # g
    BY <1>8 DEF Published, PublishedEntry
  <2> HIDE DEF e
  <2>4. e \in Published' \ Published BY <2>1, <2>2, <2>3
  <2>5. QED BY <1>6, <2>1, <2>2, <2>3, <2>4 DEF PI!Publish, Published
<1>18. QED
  BY <1>11, <1>12, <1>13, <1>14, <1>15, <1>16, <1>17 DEF PublicationInv

(* Every step keeps the invariant, and publishes one entry or none.         *)
LEMMA NextPublication ==
    ASSUME TypeInv, PublicationInv, [Next]_vars
    PROVE  PublicationInv' /\ (PI!Publish \/ (Published' = Published /\ active' = active))
<1>1. CASE \E r \in Reconciler : BeginCandidate(r)
  BY <1>1, BeginCandidateKeeps
<1>2. CASE \E r \in Reconciler : CommitBuild(r)
  BY <1>2, CommitBuildKeeps
<1>3. CASE \E r \in Reconciler : Activate(r)
  BY <1>3, ActivatePublishes
<1>4. CASE \E r \in Reconciler : FailCandidate(r)
  <2>1. PICK r \in Reconciler : FailCandidate(r) BY <1>4
  <2>2. /\ pc' = [pc EXCEPT ![r] = "release"] /\ r \in Holder
        /\ UNCHANGED <<cand, seen, source>>
    BY <2>1 DEF FailCandidate, Goto, workVars, envVars
  <2>3. CASE CloseCandidate(cand[r], "failed")
    BY <2>2, <2>3, CloseKeeps DEF Building
  <2>4. CASE UNCHANGED genVars
    BY <2>2, <2>4, QuietMove, QuietKeeps, SameGens DEF Building
  <2>5. QED BY <2>1, <2>3, <2>4 DEF FailCandidate
<1>5. CASE \E d \in Doctor : AbandonNext(d)
  <2>1. PICK d \in Doctor : AbandonNext(d) BY <1>5
  <2>2. PICK g : CloseCandidate(g, "abandoned") BY <2>1 DEF AbandonNext
  <2>3. PICK next : pc' = [pc EXCEPT ![d] = next] BY <2>1 DEF AbandonNext, Goto
  <2>4. d \notin Reconciler /\ UNCHANGED <<cand, seen, source>>
    BY <2>1 DEF AbandonNext
  <2>5. QED BY <2>2, <2>3, <2>4, CloseKeeps
<1>6. CASE /\ ~ \E r \in Reconciler : BeginCandidate(r) \/ CommitBuild(r) \/ Activate(r)
                                         \/ FailCandidate(r)
           /\ ~ \E d \in Doctor : AbandonNext(d)
  BY <1>6, QuietSteps, QuietKeeps DEF Quiet
<1>7. QED BY <1>1, <1>2, <1>3, <1>4, <1>5, <1>6

(* The inductive invariant behind ActiveIsComplete and Atomic: no two       *)
(* reconciles share a candidate, only complete ones are ever committed.     *)
THEOREM PublicationInvHolds == Spec => []PublicationInv
<1>1. TypeInv /\ PublicationInv /\ [Next]_vars => PublicationInv'
  BY NextPublication
<1>2. QED BY <1>1, InitPublication, TypeInvHolds, PTL DEF Spec

(* INV-005: whatever the processes do and however long they take, the       *)
(* active generation is committed and complete.                             *)
THEOREM ActiveIsComplete == Spec => []ActiveComplete
<1>1. PublicationInv => ActiveComplete
  BY DEF PublicationInv, ActiveCommitted, CommittedComplete, ActiveComplete, Committed, InState
<1>2. QED BY <1>1, PublicationInvHolds, PTL

(* The catalogue implements the published index: a step either publishes    *)
(* one new, complete generation or leaves readers with what they had.       *)
THEOREM Atomic == Spec => PublicationIsAtomic
<1>1. Init => PI!Init
  <2> SUFFICES ASSUME Init PROVE PI!Init OBVIOUS
  <2>1. gens = << >> /\ active = 0 BY DEF Init, GenInit
  <2>2. Committed = {} BY <2>1, EmptySeq DEF Committed, InState
  <2>3. QED BY <2>1, <2>2 DEF PI!Init
<1>2. TypeInv /\ PublicationInv /\ [Next]_vars
        => [PI!Publish]_<<{PublishedEntry(g) : g \in Committed}, active>>
  BY NextPublication DEF Published
<1>3. QED
  BY <1>1, <1>2, TypeInvHolds, PublicationInvHolds, PTL DEF Spec, PublicationIsAtomic, PI!Spec

-----------------------------------------------------------------------------
(* Exclusion.                                                               *)

(* The row is there or it is not.                                           *)
RowWhole == lease.holder = NoHolder => lease = NoLease

(* A command that has not acquired the lease is not the row's holder.       *)
FreshHolder == \A p \in Holder : pc[p] \in {"idle", "acquire"} => lease.holder # p

(* A timely command at work is the one that acquired the lease last, and    *)
(* nobody may take over.  The row may still name an earlier holder.         *)
WorkerCovered ==
    ~ AllowOverrun =>
        \A p \in Holder :
            Working(p) => owner = p /\ lease.holder # NoHolder /\ lease.age <= StaleAge

ExclusionInv == RowWhole /\ FreshHolder /\ WorkerCovered

(* Nobody works on an empty catalogue.                                      *)
LEMMA InitExclusion == Init => ExclusionInv
<1> SUFFICES ASSUME Init PROVE ExclusionInv OBVIOUS
<1>1. lease.holder = NoHolder /\ lease = NoLease BY DEF Init, LeaseInit, NoLease
<1>2. \A p \in Holder : p # NoHolder /\ ~ Working(p)
  BY DEF Init, Working, Leased
<1>3. QED BY <1>1, <1>2 DEF ExclusionInv, RowWhole, FreshHolder, WorkerCovered

(* Nobody starts to work, and nobody is fresh that was not.                 *)
NobodyEnters ==
    /\ lease' = lease /\ owner' = owner
    /\ \A q \in Holder :
         /\ Working(q)' => Working(q)
         /\ pc'[q] \in {"idle", "acquire"} => pc[q] \in {"idle", "acquire"}

(* A command that moves on without starting to work makes nobody enter.     *)
LEMMA MoveEntersNot ==
    ASSUME TypeInv, NEW p \in Holder, NEW next, pc' = [pc EXCEPT ![p] = next],
           UNCHANGED leaseVars,
           next \in Leased => Working(p),
           next \in {"idle", "acquire"} => pc[p] = "idle"
    PROVE  NobodyEnters
<1>1. \A q \in Holder : pc'[q] = IF q = p THEN next ELSE pc[q]
  BY DEF TypeInv, TypeOK
<1>2. \A q \in Holder : Working(q)' => Working(q) BY <1>1 DEF Working
<1>3. QED BY <1>1, <1>2 DEF NobodyEnters, leaseVars

(* Only Acquire brings a command between acquiring and releasing.           *)
LEMMA NobodyStarts ==
    ASSUME TypeInv, [Next]_vars,
           ~ (\E p \in Holder : Acquire(p) \/ Release(p)), ~ Tick
    PROVE  NobodyEnters
<1> USE DEF Goto
<1>1. CASE \E p \in Holder : RefuseLease(p)
  <2>1. PICK p \in Holder : RefuseLease(p) BY <1>1
  <2>2. pc' = [pc EXCEPT ![p] = "done"] /\ UNCHANGED leaseVars BY <2>1 DEF RefuseLease
  <2>3. QED BY MoveEntersNot, <2>2 DEF Leased
<1>2. CASE \E p \in Holder : BusyTimeout(p)
  <2>1. PICK p \in Holder : BusyTimeout(p) BY <1>2
  <2> DEFINE next == AfterBusy[pc[p]]
  <2>2. /\ next \in {"done", "release", "failing"}
        /\ next \in {"release", "failing"} => Working(p)
        /\ pc' = [pc EXCEPT ![p] = next] /\ UNCHANGED leaseVars
    BY <2>1 DEF BusyTimeout, AfterBusy, Working, Leased
  <2> HIDE DEF next
  <2>3. QED BY MoveEntersNot, <2>2 DEF Leased
<1>3. CASE \E r \in Reconciler : ReconcileStep(r)
  <2>1. PICK r \in Reconciler : ReconcileStep(r) BY <1>3
  <2>2. PICK next : /\ pc' = [pc EXCEPT ![r] = next] /\ next \in Leased
                    /\ Working(r) /\ UNCHANGED leaseVars
    BY <2>1
       DEF ReconcileStep, ReadParent, ReadMaxSeq, BeginCandidate, SequenceTaken, HashFiles,
           BeginBuild, CommitBuild, Activate, ActivationRefused, FailCandidate,
           ReconcileError, Working, Leased
  <2>3. next \notin {"idle", "acquire"} BY <2>2 DEF Leased
  <2>4. QED BY MoveEntersNot, <2>2, <2>3
<1>4. CASE \E p \in Doctor \cup Compiler : DoctorStep(p) \/ CompileStep(p)
  <2>1. PICK p \in Doctor \cup Compiler : DoctorStep(p) \/ CompileStep(p) BY <1>4
  <2>2. PICK next : /\ pc' = [pc EXCEPT ![p] = next] /\ next \in Leased
                    /\ Working(p) /\ UNCHANGED leaseVars
    BY <2>1
       DEF DoctorStep, AbandonNext, AbandonError, CompileStep, CreateSession,
           CheckTransition, WriteTransition, Working, Leased
  <2>3. next \notin {"idle", "acquire"} BY <2>2 DEF Leased
  <2>4. QED BY MoveEntersNot, <2>2, <2>3
<1>5. CASE \/ \E r \in Reconciler : InvokeReconcile(r)
           \/ \E d \in Doctor : InvokeDoctor(d)
           \/ \E k \in Compiler : InvokeCompile(k)
  <2>1. PICK p \in Holder : /\ pc[p] = "idle" /\ UNCHANGED leaseVars
                            /\ \E next \in {"acquire", "done"} : pc' = [pc EXCEPT ![p] = next]
    BY <1>5 DEF InvokeReconcile, InvokeDoctor, InvokeCompile
  <2>2. PICK next \in {"acquire", "done"} : pc' = [pc EXCEPT ![p] = next] BY <2>1
  <2>3. next \notin Leased BY <2>2 DEF Leased
  <2>4. QED BY MoveEntersNot, <2>1, <2>2, <2>3
<1>6. CASE \E p \in Holder : Crash(p)
  <2>1. PICK p \in Holder : Crash(p) BY <1>6
  <2>2. pc' = [pc EXCEPT ![p] = "crashed"] /\ UNCHANGED leaseVars BY <2>1 DEF Crash
  <2>3. QED BY MoveEntersNot, <2>2 DEF Leased
<1>7. CASE EditSource \/ ClientStep \/ UNCHANGED vars
  BY <1>7 DEF EditSource, ClientStep, vars, Working, NobodyEnters, leaseVars
<1>8. QED
  BY <1>1, <1>2, <1>3, <1>4, <1>5, <1>6, <1>7 DEF Next, CommandStep

(* Every step keeps exclusion, as long as no command overruns.              *)
LEMMA NextExclusion ==
    ASSUME TypeInv, ExclusionInv, [Next]_vars PROVE ExclusionInv'
<1> USE DEF Goto
<1>p. /\ pc \in [Holder -> Step] /\ lease.holder \in Holder \cup {NoHolder}
      /\ lease.age \in Nat
  BY DEF TypeInv, TypeOK, LeaseTypeOK, MaxAge
<1>1. CASE \E p \in Holder : Acquire(p)
  <2>1. PICK p \in Holder : Acquire(p) BY <1>1
  <2>2. /\ pc[p] = "acquire" /\ pc' = [pc EXCEPT ![p] = FirstStep(p)]
        /\ lease' = [holder |-> IF lease = NoLease THEN p ELSE lease.holder, age |-> 0]
        /\ owner' = p
        /\ lease = NoLease \/ lease.holder = p \/ lease.age > StaleAge
    BY <2>1 DEF Acquire, AcquireLease, UpsertLease, LeaseFree
  <2>3. lease.holder # p BY <2>2 DEF ExclusionInv, FreshHolder
  <2>4. FirstStep(p) \notin {"idle", "acquire"} BY DEF FirstStep
  <2>5. /\ lease'.holder = (IF lease = NoLease THEN p ELSE lease.holder) /\ lease'.age = 0
        /\ lease'.holder \in Holder
    BY <1>p, <2>2 DEF ExclusionInv, RowWhole
  <2>6. RowWhole' BY <2>5 DEF RowWhole
  <2>7. \A q \in Holder : pc'[q] = IF q = p THEN FirstStep(p) ELSE pc[q] BY <1>p, <2>2
  <2>8. FreshHolder'
    BY <1>p, <2>3, <2>4, <2>5, <2>7 DEF ExclusionInv, FreshHolder
  <2>9. WorkerCovered'
    <3> SUFFICES ASSUME ~ AllowOverrun, NEW q \in Holder, Working(q)'
                 PROVE  /\ owner' = q /\ lease'.holder # NoHolder /\ lease'.age <= StaleAge
      BY DEF WorkerCovered
    <3>1. q = p
      <4>1. SUFFICES ASSUME q # p PROVE FALSE OBVIOUS
      <4>2. Working(q) BY <2>7, <4>1 DEF Working
      <4>3. lease.holder # NoHolder /\ lease.age <= StaleAge
        BY <4>2 DEF ExclusionInv, WorkerCovered
      <4>4. lease # NoLease BY <4>3 DEF NoLease
      <4>5. QED BY <1>p, <2>2, <2>3, <4>3, <4>4
    <3>2. QED BY <2>2, <2>5, <3>1
  <2>10. QED BY <2>6, <2>8, <2>9 DEF ExclusionInv
<1>2. CASE \E p \in Holder : Release(p)
  <2>1. PICK p \in Holder : Release(p) BY <1>2
  <2>2. /\ pc[p] = "release" /\ pc' = [pc EXCEPT ![p] = "done"]
        /\ lease' = lease \/ lease' = NoLease
    BY <2>1 DEF Release, ReleaseLease, leaseVars
  <2>3. \A q \in Holder : pc'[q] = IF q = p THEN "done" ELSE pc[q] BY <1>p, <2>2
  <2>4. RowWhole' BY <2>2 DEF ExclusionInv, RowWhole
  <2>5. FreshHolder'
    BY <2>2, <2>3 DEF ExclusionInv, FreshHolder, NoLease
  <2>6. WorkerCovered'
    <3> SUFFICES ASSUME ~ AllowOverrun, NEW q \in Holder, Working(q)' PROVE FALSE
      BY DEF WorkerCovered
    <3>1. q # p /\ Working(q) BY <2>3 DEF Working, Leased
    <3>2. Working(p) BY <2>2 DEF Working, Leased
    <3>3. owner = q /\ owner = p BY <3>1, <3>2 DEF ExclusionInv, WorkerCovered
    <3>4. QED BY <3>1, <3>3
  <2>7. QED BY <2>4, <2>5, <2>6 DEF ExclusionInv
<1>3. CASE Tick
  <2>1. /\ AllowOverrun \/ lease.age < StaleAge \/ \A p \in Holder : ~ Working(p)
        /\ lease # NoLease /\ lease' = [lease EXCEPT !.age = lease.age + 1]
        /\ owner' = owner /\ pc' = pc
    BY <1>3 DEF Tick, AgeLease
  <2>2. lease \in [holder : Holder \cup {NoHolder}, age : 0 .. MaxAge]
    BY DEF TypeInv, TypeOK, LeaseTypeOK
  <2>3. lease'.holder = lease.holder /\ lease'.age = lease.age + 1
    BY <2>1, <2>2
  <2>4. RowWhole' BY <2>1, <2>3 DEF ExclusionInv, RowWhole
  <2>5. FreshHolder' BY <2>1, <2>3 DEF ExclusionInv, FreshHolder
  <2>6. \A p \in Holder : Working(p)' = Working(p) BY <2>1 DEF Working
  <2>7. WorkerCovered'
    BY <1>p, <2>1, <2>3, <2>6 DEF ExclusionInv, WorkerCovered
  <2>8. QED BY <2>4, <2>5, <2>7 DEF ExclusionInv
<1>4. CASE ~ (\E p \in Holder : Acquire(p) \/ Release(p)) /\ ~ Tick
  <2>1. NobodyEnters BY <1>4, NobodyStarts
  <2>2. QED BY <2>1 DEF NobodyEnters, ExclusionInv, RowWhole, FreshHolder, WorkerCovered
<1>5. QED BY <1>1, <1>2, <1>3, <1>4

(* The inductive invariant behind Exclusive: a row is whole, a fresh        *)
(* invocation is in no row, and a working command is covered by a fresh row. *)
THEOREM ExclusionInvHolds == Spec => []ExclusionInv
<1>1. TypeInv /\ ExclusionInv /\ [Next]_vars => ExclusionInv'
  BY NextExclusion
<1>2. QED BY <1>1, InitExclusion, TypeInvHolds, PTL DEF Spec

(* INV-020: if no command outlives StaleAge, at most one is ever between    *)
(* acquiring the lease and having released it, although the row may name    *)
(* a holder that crashed.                                                   *)
THEOREM Exclusive == Spec => [](~ AllowOverrun => OneWriter)
<1>1. ExclusionInv => (~ AllowOverrun => OneWriter)
  BY DEF ExclusionInv, WorkerCovered, OneWriter
<1>2. QED BY <1>1, ExclusionInvHolds, PTL

-----------------------------------------------------------------------------
(* What needs timely commands: if none outlives StaleAge, the generations    *)
(* form one line and a doctor spares the living.  And the theorems about     *)
(* task sessions, some of which need that line.                              *)

(* The active generation is the newest of the committed ones.               *)
ActiveIsLatest == \A g \in Committed : g <= active

(* No generation knows a tree that is yet to come.                          *)
TreesKnown == \A g \in Committed : gens[g].tree <= source

(* What a working reconcile has read is still so: its parent is the active  *)
(* generation, its candidate is newer, the previous files are those of the  *)
(* active generation, and the tree it hashed is no older than any published. *)
InOrder(r) ==
    /\ pc[r] \in {"maxseq", "insert"} => head[r].parent = active
    /\ pc[r] \in Building => active < cand[r] /\ gens[cand[r]].parent = active
    /\ pc[r] = "activate" => gens[cand[r]].base = active
    /\ pc[r] \in {"build", "persist", "activate"} =>
          /\ seen[r] <= source
          /\ \A g \in Committed : gens[g].tree <= seen[r]

OrderInv ==
    /\ ActiveIsLatest
    /\ TreesKnown
    /\ \A r \in Reconciler : InOrder(r)

(* Everything is known of a reconcile that is not working.                  *)
LEMMA RestingInOrder ==
    ASSUME NEW r \in Reconciler, ~ Working(r)
    PROVE  InOrder(r)
BY DEF InOrder, Working, Leased, Building

(* Timely commands work alone.                                              *)
LEMMA AloneAtWork ==
    ASSUME ~ AllowOverrun, ExclusionInv, NEW p \in Holder, NEW q \in Holder,
           Working(p), Working(q)
    PROVE  p = q
BY DEF ExclusionInv, WorkerCovered

(* Nothing is ordered in an empty catalogue.                                *)
LEMMA InitOrder == Init => OrderInv
<1> SUFFICES ASSUME Init PROVE OrderInv OBVIOUS
<1>1. gens = << >> BY DEF Init, GenInit
<1>2. Committed = {} BY <1>1, EmptySeq DEF Committed, InState
<1>3. \A r \in Reconciler : InOrder(r) BY RestingInOrder DEF Init, Working, Leased
<1>4. QED BY <1>2, <1>3 DEF OrderInv, ActiveIsLatest, TreesKnown

(* A step that keeps the generations, and after which every reconcile rests *)
(* or knows what it knew.                                                   *)
Steady ==
    /\ gens' = gens /\ active' = active
    /\ source' \in Nat /\ source <= source'
    /\ \A r \in Reconciler :
          \/ pc'[r] \notin Leased
          \/ /\ cand'[r] = cand[r] /\ head'[r].parent = head[r].parent
             /\ pc'[r] \in {"maxseq", "insert"} => pc[r] \in {"maxseq", "insert"}
             /\ pc'[r] \in Building => pc[r] \in Building
             /\ pc'[r] = "activate" => pc[r] = "activate"
             /\ pc'[r] \in {"build", "persist", "activate"} =>
                   pc[r] \in {"build", "persist", "activate"} /\ seen'[r] = seen[r]

(* A steady step keeps the order.                                           *)
LEMMA SteadyKeeps == ASSUME TypeInv, OrderInv, Steady PROVE OrderInv'
<1>1. Committed' = Committed BY DEF Steady, Committed, InState
<1>2. source \in Nat /\ source' \in Nat /\ source <= source'
  BY DEF TypeInv, TypeOK, Steady
<1>3. \A g \in Committed : gens[g].tree \in Nat
  BY RowType DEF TypeInv, TypeOK, Committed, InState, Generation
<1>4. \A r \in Reconciler : seen[r] \in Nat BY DEF TypeInv, TypeOK
<1>5. ActiveIsLatest' BY <1>1 DEF OrderInv, ActiveIsLatest, Steady
<1>6. TreesKnown' BY <1>1, <1>2, <1>3 DEF OrderInv, TreesKnown, Steady
<1>7. ASSUME NEW r \in Reconciler PROVE InOrder(r)'
  <2>0. InOrder(r) BY DEF OrderInv
  <2>1. CASE pc'[r] \notin Leased
    BY <2>1 DEF InOrder, Leased, Building
  <2>2. CASE pc'[r] \in Leased
    BY <2>0, <2>2, <1>1, <1>2, <1>4 DEF InOrder, Steady
  <2>3. QED BY <2>1, <2>2
<1>8. QED BY <1>5, <1>6, <1>7 DEF OrderInv

(* One process moves to a step at which nothing more is known, and the rows *)
(* and what the reconciles have read stay as they are.                      *)
LEMMA SteadyMove ==
    ASSUME TypeInv, NEW p \in Holder, NEW next, pc' = [pc EXCEPT ![p] = next],
           \/ p \notin Reconciler
           \/ next \notin Building \cup {"maxseq", "insert"}
           \/ next = "failing" /\ pc[p] \in Building,
           UNCHANGED <<genVars, head, cand, seen, source>>
    PROVE  Steady
<1>1. \A r \in Reconciler : pc'[r] = IF r = p THEN next ELSE pc[r]
  BY DEF TypeInv, TypeOK
<1>2. source \in Nat BY DEF TypeInv, TypeOK
<1>3. \A r \in Reconciler :
        \/ pc'[r] = pc[r]
        \/ pc'[r] \notin Building \cup {"maxseq", "insert"}
        \/ pc'[r] = "failing" /\ pc[r] \in Building
  BY <1>1
<1>4. QED BY <1>2, <1>3, SameGens DEF Steady, Building

(* Every step but six is steady.                                            *)
LEMMA SteadySteps ==
    ASSUME TypeInv, [Next]_vars,
           ~ \E r \in Reconciler : \/ ReadParent(r) \/ BeginCandidate(r) \/ HashFiles(r)
                                   \/ CommitBuild(r) \/ Activate(r) \/ FailCandidate(r),
           ~ \E d \in Doctor : AbandonNext(d)
    PROVE  Steady
<1> USE DEF Goto, workVars, envVars
<1>1. CASE \E p \in Holder : Acquire(p) \/ RefuseLease(p) \/ Release(p) \/ Crash(p)
  <2>1. PICK p \in Holder : Acquire(p) \/ RefuseLease(p) \/ Release(p) \/ Crash(p) BY <1>1
  <2>2. PICK next \in {"parent", "abandon", "create", "done", "crashed"} :
               pc' = [pc EXCEPT ![p] = next]
    BY <2>1 DEF Acquire, RefuseLease, Release, Crash, FirstStep
  <2>3. UNCHANGED <<genVars, head, cand, seen, source>>
    BY <2>1 DEF Acquire, RefuseLease, Release, Crash
  <2>4. QED BY <2>2, <2>3, SteadyMove DEF Building
<1>2. CASE \E p \in Holder : BusyTimeout(p)
  <2>1. PICK p \in Holder : BusyTimeout(p) BY <1>2
  <2> DEFINE next == AfterBusy[pc[p]]
  <2>2. /\ next \in {"done", "release", "failing"}
        /\ next = "failing" => pc[p] = "activate"
        /\ pc' = [pc EXCEPT ![p] = next]
        /\ UNCHANGED <<genVars, head, cand, seen, source>>
    BY <2>1, AfterBusyStep DEF BusyTimeout
  <2> HIDE DEF next
  <2>3. QED BY <2>2, SteadyMove DEF Building
<1>3. CASE \E r \in Reconciler : \/ InvokeReconcile(r) \/ SequenceTaken(r)
                                 \/ ActivationRefused(r) \/ ReconcileError(r)
  <2>1. PICK r \in Reconciler : \/ InvokeReconcile(r) \/ SequenceTaken(r)
                                \/ ActivationRefused(r) \/ ReconcileError(r)
    BY <1>3
  <2>2. PICK next \in {"acquire", "release", "failing"} :
               /\ pc' = [pc EXCEPT ![r] = next]
               /\ next = "failing" => pc[r] = "activate"
    BY <2>1 DEF InvokeReconcile, SequenceTaken, ActivationRefused, ReconcileError
  <2>3. UNCHANGED <<genVars, head, cand, seen, source>>
    BY <2>1 DEF InvokeReconcile, SequenceTaken, ActivationRefused, ReconcileError
  <2>4. QED BY <2>2, <2>3, SteadyMove DEF Building
<1>4. CASE \E r \in Reconciler : ReadMaxSeq(r)
  <2>1. PICK r \in Reconciler : ReadMaxSeq(r) BY <1>4
  <2>2. pc[r] = "maxseq" /\ pc' = [pc EXCEPT ![r] = "insert"]
        /\ UNCHANGED <<genVars, cand, seen, source>>
    BY <2>1 DEF ReadMaxSeq
  <2>3. \A q \in Reconciler : head'[q].parent = head[q].parent
    BY <2>1 DEF ReadMaxSeq, TypeInv, TypeOK
  <2>4. \A q \in Reconciler : pc'[q] = IF q = r THEN "insert" ELSE pc[q]
    BY <2>2 DEF TypeInv, TypeOK
  <2>5. source \in Nat BY DEF TypeInv, TypeOK
  <2>6. QED BY <2>2, <2>3, <2>4, <2>5, SameGens DEF Steady, Building
<1>5. CASE \E r \in Reconciler : BeginBuild(r)
  <2>1. PICK r \in Reconciler : BeginBuild(r) BY <1>5
  <2>2. pc[r] = "build" /\ pc' = [pc EXCEPT ![r] = "persist"]
        /\ UNCHANGED <<genVars, head, cand, seen, source>>
    BY <2>1 DEF BeginBuild
  <2>3. \A q \in Reconciler : pc'[q] = IF q = r THEN "persist" ELSE pc[q]
    BY <2>2 DEF TypeInv, TypeOK
  <2>4. source \in Nat BY DEF TypeInv, TypeOK
  <2>5. QED BY <2>2, <2>3, <2>4, SameGens DEF Steady, Building
<1>6. CASE \E p \in Doctor \cup Compiler : \/ p \in Doctor /\ (InvokeDoctor(p) \/ AbandonError(p))
                                           \/ p \in Compiler /\ (InvokeCompile(p) \/ CompileStep(p))
  <2>1. PICK p \in Doctor \cup Compiler :
               \/ p \in Doctor /\ (InvokeDoctor(p) \/ AbandonError(p))
               \/ p \in Compiler /\ (InvokeCompile(p) \/ CompileStep(p))
    BY <1>6
  <2>2. PICK next : pc' = [pc EXCEPT ![p] = next]
    BY <2>1 DEF InvokeDoctor, AbandonError, InvokeCompile, CompileStep, CreateSession,
                CheckTransition, WriteTransition
  <2>3. UNCHANGED <<genVars, head, cand, seen, source>>
    BY <2>1 DEF InvokeDoctor, AbandonError, InvokeCompile, CompileStep, CreateSession,
                CheckTransition, WriteTransition
  <2>4. p \in Holder /\ p \notin Reconciler OBVIOUS
  <2>5. QED BY <2>2, <2>3, <2>4, SteadyMove
<1>7. CASE Tick \/ ClientStep \/ UNCHANGED vars
  <2>1. UNCHANGED <<genVars, pc, workVars, envVars>>
    <3>1. CASE ClientStep
      <4>1. UNCHANGED genVars
        BY <3>1, RowType, ClientWritesType, ClientReadsType
           DEF ClientStep, TypeInv, TypeOK, GenTypeOK
      <4>2. QED BY <3>1, <4>1 DEF ClientStep
    <3>2. QED BY <1>7, <3>1 DEF Tick, vars
  <2>2. source \in Nat BY DEF TypeInv, TypeOK
  <2>3. QED BY <2>1, <2>2, SameGens DEF Steady
<1>8. CASE EditSource
  BY <1>8, SameGens DEF EditSource, Steady, TypeInv, TypeOK
<1>9. QED
  BY <1>1, <1>2, <1>3, <1>4, <1>5, <1>6, <1>7, <1>8
     DEF Next, CommandStep, ReconcileStep, DoctorStep

(* After a step of a timely command every other one still rests.            *)
LEMMA OthersRest ==
    ASSUME ~ AllowOverrun, TypeInv, ExclusionInv, NEW p \in Holder, Working(p), NEW next,
           pc' = [pc EXCEPT ![p] = next]
    PROVE  \A r \in Reconciler : r # p => InOrder(r)'
<1> SUFFICES ASSUME NEW r \in Reconciler, r # p PROVE InOrder(r)' OBVIOUS
<1>1. ~ Working(r) BY AloneAtWork
<1>2. pc'[r] = pc[r] BY DEF TypeInv, TypeOK
<1>3. QED BY <1>1, <1>2 DEF InOrder, Working, Leased, Building

(* Numbers of generations and versions of trees are natural numbers.        *)
LEMMA Numbers ==
    ASSUME TypeInv
    PROVE  /\ Len(gens) \in Nat /\ DOMAIN gens = 1 .. Len(gens)
           /\ active \in 0 .. Len(gens)
           /\ Committed \subseteq DOMAIN gens
           /\ \A g \in DOMAIN gens : gens[g].tree \in Nat
           /\ source \in Nat
           /\ \A r \in Reconciler : seen[r] \in Nat /\ cand[r] \in Nat
BY RowType DEF TypeInv, TypeOK, GenTypeOK, Committed, InState, Generation

(* The latest committed generation, which a reconcile reads as its parent,  *)
(* is the active one.                                                       *)
LEMMA LatestIsActive ==
    ASSUME TypeInv, ActiveIsLatest, ActiveCommitted, NEW g \in 0 .. Len(gens),
           IsLatestCommitted(g)
    PROVE  g = active
<1>1. /\ Committed \subseteq 1 .. Len(gens) /\ Len(gens) \in Nat
      /\ active \in 0 .. Len(gens)
  BY Numbers
<1>2. g \in Committed \cup {0} /\ \A h \in Committed : h <= g
  BY DEF IsLatestCommitted
<1>3. QED BY <1>1, <1>2 DEF ActiveIsLatest, ActiveCommitted

(* begin_candidate reads its parent,                                        *)
LEMMA ReadParentInOrder ==
    ASSUME ~ AllowOverrun, TypeInv, PublicationInv, ExclusionInv, OrderInv,
           NEW r \in Reconciler, ReadParent(r)
    PROVE  OrderInv'
<1>1. PICK g \in 0 .. Len(gens) :
             IsLatestCommitted(g) /\ head' = [head EXCEPT ![r].parent = g]
  BY DEF ReadParent
<1>2. /\ pc[r] = "parent" /\ pc' = [pc EXCEPT ![r] = "maxseq"]
      /\ UNCHANGED <<genVars, cand, seen, source>>
  BY DEF ReadParent, Goto
<1>3. g = active BY <1>1, LatestIsActive DEF OrderInv, PublicationInv
<1>4. head'[r].parent = active /\ pc'[r] = "maxseq"
  BY <1>1, <1>2, <1>3 DEF TypeInv, TypeOK
<1>5. gens' = gens /\ active' = active /\ source' = source /\ Committed' = Committed
  BY <1>2, SameGens DEF Committed, InState
<1>6. ActiveIsLatest' /\ TreesKnown' BY <1>5 DEF OrderInv, ActiveIsLatest, TreesKnown
<1>7. InOrder(r)' BY <1>4, <1>5 DEF InOrder, Building
<1>8. \A q \in Reconciler : q # r => InOrder(q)'
  BY <1>2, OthersRest DEF Working, Leased
<1>9. QED BY <1>6, <1>7, <1>8 DEF OrderInv

(* and inserts a candidate, with the highest number so far, that knows it.  *)
LEMMA BeginCandidateInOrder ==
    ASSUME ~ AllowOverrun, TypeInv, PublicationInv, ExclusionInv, OrderInv,
           NEW r \in Reconciler, BeginCandidate(r)
    PROVE  OrderInv'
<1> DEFINE n   == head[r].seq
           par == head[r].parent
<1>1. /\ InsertCandidate(n, par) /\ par \in Nat
      /\ cand' = [cand EXCEPT ![r] = n]
      /\ pc[r] = "insert" /\ pc' = [pc EXCEPT ![r] = "hash"]
      /\ source' = source
  BY DEF BeginCandidate, Goto, TypeInv, TypeOK
<1>2. par = active BY <1>1 DEF OrderInv, InOrder
<1> HIDE DEF n, par
<1>3. GenTypeOK BY DEF TypeInv, TypeOK
<1>4. /\ GenTypeOK' /\ n = Len(gens) + 1 /\ Len(gens') = n
      /\ \A h \in DOMAIN gens : gens'[h] = gens[h]
      /\ gens'[n] = [state |-> "candidate", parent |-> par,
                     files |-> 0, base |-> 0, tree |-> 0]
      /\ active' = active
  BY <1>1, <1>3, InsertEffect, Zenon
<1>5. gens'[n].state = "candidate" /\ gens'[n].parent = par BY <1>4
<1>6. DOMAIN gens' = 1 .. n BY <1>4, LenProperties DEF GenTypeOK
<1>7. /\ Len(gens) \in Nat /\ DOMAIN gens = 1 .. Len(gens) /\ active \in 0 .. Len(gens)
  BY Numbers
<1>8. Committed' = Committed /\ \A g \in Committed : gens'[g] = gens[g]
  BY <1>4, <1>5, <1>6, <1>7 DEF Committed, InState
<1>9. ActiveIsLatest' /\ TreesKnown'
  BY <1>1, <1>4, <1>8 DEF OrderInv, ActiveIsLatest, TreesKnown
<1>10. cand'[r] = n /\ pc'[r] = "hash" BY <1>1 DEF TypeInv, TypeOK
<1>11. InOrder(r)'
  BY <1>2, <1>4, <1>5, <1>7, <1>10 DEF InOrder
<1>12. \A q \in Reconciler : q # r => InOrder(q)'
  BY <1>1, OthersRest DEF Working, Leased
<1>13. QED BY <1>9, <1>11, <1>12 DEF OrderInv

(* Phase A hashes the tree as it is now.                                    *)
LEMMA HashFilesInOrder ==
    ASSUME ~ AllowOverrun, TypeInv, ExclusionInv, OrderInv,
           NEW r \in Reconciler, HashFiles(r)
    PROVE  OrderInv'
<1>1. /\ pc[r] = "hash" /\ pc' = [pc EXCEPT ![r] = "build"]
      /\ seen' = [seen EXCEPT ![r] = source]
      /\ UNCHANGED <<genVars, head, cand, source>>
  BY DEF HashFiles, Goto
<1>2. seen'[r] = source /\ pc'[r] = "build" BY <1>1 DEF TypeInv, TypeOK
<1>3. gens' = gens /\ active' = active /\ source' = source /\ Committed' = Committed
  BY <1>1, SameGens DEF Committed, InState
<1>4. ActiveIsLatest' /\ TreesKnown' BY <1>3 DEF OrderInv, ActiveIsLatest, TreesKnown
<1>5. InOrder(r)'
  BY <1>1, <1>2, <1>3, Numbers DEF OrderInv, InOrder, Building, TreesKnown
<1>6. \A q \in Reconciler : q # r => InOrder(q)'
  BY <1>1, OthersRest DEF Working, Leased
<1>7. QED BY <1>4, <1>5, <1>6 DEF OrderInv

(* Phases B to D compute against the files of the active generation.        *)
LEMMA CommitBuildInOrder ==
    ASSUME ~ AllowOverrun, TypeInv, PublicationInv, ExclusionInv, OrderInv,
           NEW r \in Reconciler, CommitBuild(r)
    PROVE  OrderInv'
<1> DEFINE g == cand[r]
<1>1. /\ PersistFiles(g, seen[r]) /\ seen[r] \in Nat
      /\ UNCHANGED <<cand, seen, source>>
      /\ pc[r] = "persist"
  BY DEF CommitBuild, TypeInv, TypeOK
<1>2. PICK next \in {"activate", "failing"} : pc' = [pc EXCEPT ![r] = next]
  BY DEF CommitBuild, Goto
<1>3. g \in DOMAIN gens /\ Len(gens) \in Nat /\ DOMAIN gens = 1 .. Len(gens)
  BY <1>1, Numbers DEF TypeInv, CandidateKnown, Building
<1>4. gens[g].state # "committed" BY <1>1 DEF PublicationInv, Unpublished, Building
<1>5. /\ active < g /\ gens[g].parent = active
      /\ seen[r] <= source /\ \A h \in Committed : gens[h].tree <= seen[r]
  BY <1>1 DEF OrderInv, InOrder, Building
<1>6. /\ GenTypeOK' /\ OnlyRow(g) /\ active' = active
      /\ gens'[g].base = active /\ gens'[g].parent = active
      /\ gens'[g].state = gens[g].state
  BY <1>1, <1>3, <1>5, PersistEffect DEF TypeInv, TypeOK
<1>7. cand'[r] = g /\ pc'[r] = next BY <1>1, <1>2 DEF TypeInv, TypeOK
<1> HIDE DEF g
<1>8. DOMAIN gens' = DOMAIN gens
  BY <1>3, <1>6, LenProperties DEF GenTypeOK, OnlyRow
<1>9. Committed' = Committed /\ \A h \in Committed : gens'[h] = gens[h]
  BY <1>4, <1>6, <1>8 DEF Committed, InState, OnlyRow
<1>10. ActiveIsLatest' /\ TreesKnown'
  BY <1>1, <1>6, <1>9 DEF OrderInv, ActiveIsLatest, TreesKnown
<1>11. InOrder(r)'
  BY <1>1, <1>5, <1>6, <1>7, <1>9 DEF InOrder, Building
<1>12. \A q \in Reconciler : q # r => InOrder(q)'
  BY <1>1, <1>2, OthersRest DEF Working, Leased
<1>13. QED BY <1>10, <1>11, <1>12 DEF OrderInv

(* activate_candidate publishes the successor of the active generation.     *)
LEMMA ActivateInOrder ==
    ASSUME ~ AllowOverrun, TypeInv, PublicationInv, ExclusionInv, OrderInv,
           NEW r \in Reconciler, Activate(r)
    PROVE  OrderInv' /\ PI!PublishNext
<1> DEFINE g == cand[r]
<1>1. /\ CommitCandidate(g, seen[r]) /\ seen[r] \in Nat
      /\ UNCHANGED <<cand, seen, source>>
      /\ pc[r] = "activate" /\ pc' = [pc EXCEPT ![r] = "release"]
  BY DEF Activate, Goto, workVars, envVars, TypeInv, TypeOK
<1>2. g \in DOMAIN gens /\ Len(gens) \in Nat /\ DOMAIN gens = 1 .. Len(gens)
  BY <1>1, Numbers DEF TypeInv, CandidateKnown, Building
<1>3. /\ active < g /\ gens[g].parent = active /\ gens[g].base = active
      /\ seen[r] <= source /\ \A h \in Committed : gens[h].tree <= seen[r]
  BY <1>1 DEF OrderInv, InOrder, Building
<1> HIDE DEF g
<1>4. /\ GenTypeOK' /\ OnlyRow(g) /\ active' = g
      /\ gens[g].state = "candidate" /\ gens'[g].state = "committed"
      /\ gens'[g].tree = seen[r] /\ gens'[g].base = gens[g].base
      /\ gens'[g].parent = gens[g].parent
  BY <1>1, <1>2, CommitEffect DEF TypeInv, TypeOK
<1>5. DOMAIN gens' = DOMAIN gens
  BY <1>2, <1>4, LenProperties DEF GenTypeOK, OnlyRow
<1>6. /\ g \notin Committed /\ Committed' = Committed \cup {g}
      /\ \A h \in Committed : gens'[h] = gens[h]
  BY <1>2, <1>4, <1>5 DEF Committed, InState, OnlyRow
<1>7. ActiveIsLatest'
  <2>1. \A h \in Committed : h <= active BY DEF OrderInv, ActiveIsLatest
  <2>2. Committed \subseteq Nat /\ active \in Nat /\ g \in Nat BY <1>2, Numbers
  <2>3. QED BY <1>3, <1>4, <1>6, <2>1, <2>2 DEF ActiveIsLatest
<1>8. TreesKnown' BY <1>1, <1>3, <1>4, <1>6 DEF OrderInv, TreesKnown
<1>9. \A q \in Reconciler : InOrder(q)'
  <2>1. InOrder(r)' BY <1>1 DEF InOrder, Building, TypeInv, TypeOK
  <2>2. \A q \in Reconciler : q # r => InOrder(q)'
    BY <1>1, OthersRest DEF Working, Leased
  <2>3. QED BY <2>1, <2>2
<1>10. PI!Publish BY ActivatePublishes
<1>11. \A e \in Published' \ Published : PI!Succeeds(e)
  <2>1. SUFFICES ASSUME NEW e \in Published', e \notin Published PROVE PI!Succeeds(e)
    OBVIOUS
  <2>2. PICK h \in Committed' :
          e = [gen |-> h, parent |-> gens'[h].parent, base |-> gens'[h].base,
               files |-> gens'[h].files, tree |-> gens'[h].tree]
    BY DEF Published, PublishedEntry
  <2>3. h = g
    <3>1. CASE h \in Committed
      <4>1. e \in Published BY <1>6, <2>2, <3>1 DEF Published, PublishedEntry
      <4>2. QED BY <2>1, <4>1
    <3>2. QED BY <1>6, <3>1
  <2>4. /\ e.gen = g /\ e.parent = active /\ e.base = active /\ e.tree = seen[r]
    BY <1>3, <1>4, <2>2, <2>3
  <2>5. \A f \in Published : f.tree <= seen[r]
    BY <1>3 DEF Published, PublishedEntry
  <2>6. QED BY <1>2, <1>3, <2>4, <2>5, Numbers DEF PI!Succeeds, Published
<1>12. PI!PublishNext BY <1>10, <1>11 DEF PI!PublishNext, Published
<1>13. QED BY <1>7, <1>8, <1>9, <1>12 DEF OrderInv

(* fail_candidate and abandon_candidate leave every other command resting.  *)
LEMMA CloseInOrder ==
    ASSUME ~ AllowOverrun, TypeInv, ExclusionInv, OrderInv,
           NEW p \in Holder, Working(p), NEW next,
           next \notin Building \cup {"maxseq", "insert"} \/ p \notin Reconciler,
           pc' = [pc EXCEPT ![p] = next],
           NEW g, NEW st \in {"failed", "abandoned"}, CloseCandidate(g, st),
           source' = source
    PROVE  OrderInv'
<1>1. /\ GenTypeOK' /\ OnlyRow(g) /\ active' = active /\ gens[g].state = "candidate"
      /\ g \in DOMAIN gens => gens'[g].state = st
  BY CloseEffect DEF TypeInv, TypeOK
<1>2. DOMAIN gens' = DOMAIN gens
  BY <1>1, LenProperties, Numbers DEF GenTypeOK, OnlyRow
<1>3. Committed' = Committed /\ \A h \in Committed : gens'[h] = gens[h]
  BY <1>1, <1>2 DEF Committed, InState, OnlyRow
<1>4. ActiveIsLatest' /\ TreesKnown'
  BY <1>1, <1>3 DEF OrderInv, ActiveIsLatest, TreesKnown
<1>5. \A q \in Reconciler : q # p => InOrder(q)' BY OthersRest
<1>6. p \in Reconciler => InOrder(p)' BY DEF InOrder, Building, TypeInv, TypeOK
<1>7. QED BY <1>4, <1>5, <1>6 DEF OrderInv

(* Every step of timely commands keeps the order, and publishes the         *)
(* successor of the active generation or nothing.                           *)
LEMMA NextOrder ==
    ASSUME ~ AllowOverrun, TypeInv, PublicationInv, ExclusionInv, OrderInv, [Next]_vars
    PROVE  /\ OrderInv'
           /\ PI!PublishNext \/ (Published' = Published /\ active' = active)
<1>0. PI!Publish \/ (Published' = Published /\ active' = active)
  BY NextPublication
<1>1. CASE \E r \in Reconciler : Activate(r)
  BY <1>1, ActivateInOrder
<1>2. CASE \E r \in Reconciler : BeginCandidate(r)
  BY <1>2, BeginCandidateInOrder, BeginCandidateKeeps
<1>3. CASE \E r \in Reconciler : CommitBuild(r)
  BY <1>3, CommitBuildInOrder, CommitBuildKeeps
<1>4. CASE \E r \in Reconciler : FailCandidate(r)
  <2>1. PICK r \in Reconciler : FailCandidate(r) BY <1>4
  <2>2. /\ pc' = [pc EXCEPT ![r] = "release"] /\ r \in Holder /\ pc[r] = "failing"
        /\ UNCHANGED <<head, cand, seen, source>>
    BY <2>1 DEF FailCandidate, Goto, workVars, envVars
  <2>3. CASE CloseCandidate(cand[r], "failed")
    <3>1. Working(r) BY <2>2 DEF Working, Leased
    <3>2. OrderInv' BY <2>2, <2>3, <3>1, CloseInOrder DEF Building
    <3>3. Published' = Published /\ active' = active
      BY <2>2, <2>3, CloseKeeps DEF Building
    <3>4. QED BY <3>2, <3>3
  <2>4. CASE UNCHANGED genVars
    <3>1. OrderInv' BY <2>2, <2>4, SteadyMove, SteadyKeeps DEF Building
    <3>2. Published' = Published /\ active' = active
      BY <2>2, <2>4, QuietMove, QuietKeeps, SameGens DEF Building
    <3>3. QED BY <3>1, <3>2
  <2>5. QED BY <2>1, <2>3, <2>4 DEF FailCandidate
<1>5. CASE \E d \in Doctor : AbandonNext(d)
  <2>1. PICK d \in Doctor : AbandonNext(d) BY <1>5
  <2>2. PICK g : CloseCandidate(g, "abandoned") BY <2>1 DEF AbandonNext
  <2>3. PICK next : pc' = [pc EXCEPT ![d] = next] BY <2>1 DEF AbandonNext, Goto
  <2>4. /\ d \in Holder /\ d \notin Reconciler /\ Working(d)
        /\ UNCHANGED <<head, cand, seen, source>>
    BY <2>1 DEF AbandonNext, Working, Leased
  <2>5. OrderInv' BY <2>2, <2>3, <2>4, CloseInOrder
  <2>6. Published' = Published /\ active' = active BY <2>2, <2>3, <2>4, CloseKeeps
  <2>7. QED BY <2>5, <2>6
<1>6. CASE \E r \in Reconciler : ReadParent(r) \/ HashFiles(r)
  <2>1. OrderInv' BY <1>6, ReadParentInOrder, HashFilesInOrder
  <2>2. UNCHANGED <<gens, active>> BY <1>6 DEF ReadParent, HashFiles, genVars
  <2>3. Published' = Published /\ active' = active
    BY <2>2 DEF Published, PublishedEntry, Committed, InState
  <2>4. QED BY <2>1, <2>3
<1>7. CASE /\ ~ \E r \in Reconciler : \/ ReadParent(r) \/ BeginCandidate(r) \/ HashFiles(r)
                                      \/ CommitBuild(r) \/ Activate(r) \/ FailCandidate(r)
           /\ ~ \E d \in Doctor : AbandonNext(d)
  <2>1. Steady BY <1>7, SteadySteps
  <2>2. Published' = Published /\ active' = active
    BY <2>1 DEF Steady, Published, PublishedEntry, Committed, InState
  <2>3. QED BY <2>1, <2>2, SteadyKeeps
<1>8. QED BY <1>1, <1>2, <1>3, <1>4, <1>5, <1>6, <1>7

(* The inductive invariant behind Ordered: the active generation is the     *)
(* newest, and a working reconcile builds its successor.                    *)
THEOREM OrderInvHolds == ASSUME ~ AllowOverrun PROVE Spec => []OrderInv
<1>1. TypeInv /\ PublicationInv /\ ExclusionInv /\ OrderInv /\ [Next]_vars => OrderInv'
  BY NextOrder
<1>2. QED
  BY <1>1, InitOrder, TypeInvHolds, PublicationInvHolds, ExclusionInvHolds, PTL DEF Spec

(* R-015: if no command outlives StaleAge, the catalogue implements the     *)
(* ordered index: each published generation succeeds the one before it,     *)
(* knows it as its parent, was computed against it and reflects no older    *)
(* tree, whatever crashes, takeovers and busy databases there are.          *)
THEOREM Ordered == ASSUME ~ AllowOverrun PROVE Spec => PublicationIsOrdered
<1>1. Init => PI!Init
  <2> SUFFICES ASSUME Init PROVE PI!Init OBVIOUS
  <2>1. gens = << >> /\ active = 0 BY DEF Init, GenInit
  <2>2. Committed = {} BY <2>1, EmptySeq DEF Committed, InState
  <2>3. QED BY <2>1, <2>2 DEF PI!Init
<1>2. TypeInv /\ PublicationInv /\ ExclusionInv /\ OrderInv /\ [Next]_vars
        => [PI!PublishNext]_<<{PublishedEntry(g) : g \in Committed}, active>>
  BY NextOrder DEF Published
<1>3. QED
  BY <1>1, <1>2, TypeInvHolds, PublicationInvHolds, ExclusionInvHolds, OrderInvHolds, PTL
     DEF Spec, PublicationIsOrdered, PI!OrderedSpec

-----------------------------------------------------------------------------
(* Doctors.                                                                 *)

(* A candidate is abandoned by a doctor and by nobody else.                 *)
LEMMA OnlyDoctorsAbandon ==
    ASSUME TypeInv, PublicationInv, [Next]_vars,
           ~ \E d \in Doctor : AbandonNext(d),
           NEW g \in DOMAIN gens, gens[g].state = "candidate"
    PROVE  gens'[g].state # "abandoned"
<1>0. GenTypeOK BY DEF TypeInv, TypeOK
<1>1. CASE \E r \in Reconciler : BeginCandidate(r)
  <2>1. PICK r \in Reconciler : BeginCandidate(r) BY <1>1
  <2>2. InsertCandidate(head[r].seq, head[r].parent) /\ head[r].parent \in Nat
    BY <2>1 DEF BeginCandidate, TypeInv, TypeOK
  <2>3. gens'[g] = gens[g] BY <1>0, <2>2, InsertEffect
  <2>4. QED BY <2>3
<1>2. CASE \E r \in Reconciler : CommitBuild(r)
  <2>1. PICK r \in Reconciler : CommitBuild(r) BY <1>2
  <2>2. PersistFiles(cand[r], seen[r]) /\ seen[r] \in Nat
    BY <2>1 DEF CommitBuild, TypeInv, TypeOK
  <2>3. gens'[g].state = gens[g].state BY <1>0, <2>2, PersistEffect DEF OnlyRow
  <2>4. QED BY <2>3
<1>3. CASE \E r \in Reconciler : Activate(r)
  <2>1. PICK r \in Reconciler : Activate(r) BY <1>3
  <2>2. CommitCandidate(cand[r], seen[r]) /\ seen[r] \in Nat
    BY <2>1 DEF Activate, TypeInv, TypeOK
  <2>3. cand[r] \in DOMAIN gens
    BY <2>1, Numbers DEF Activate, TypeInv, CandidateKnown, Building
  <2>4. gens'[g] = gens[g] \/ gens'[g].state = "committed"
    BY <1>0, <2>2, <2>3, CommitEffect DEF OnlyRow
  <2>5. QED BY <2>4
<1>4. CASE \E r \in Reconciler : FailCandidate(r)
  <2>1. PICK r \in Reconciler : FailCandidate(r) BY <1>4
  <2>2. CASE CloseCandidate(cand[r], "failed")
    <3>1. gens'[g] = gens[g] \/ gens'[g].state = "failed"
      BY <1>0, <2>2, CloseEffect DEF OnlyRow
    <3>2. QED BY <3>1
  <2>3. CASE UNCHANGED genVars BY <2>3, SameGens
  <2>4. QED BY <2>1, <2>2, <2>3 DEF FailCandidate
<1>5. CASE ~ \E r \in Reconciler : BeginCandidate(r) \/ CommitBuild(r) \/ Activate(r)
                                     \/ FailCandidate(r)
  BY <1>5, QuietSteps DEF Quiet
<1>6. QED BY <1>1, <1>2, <1>3, <1>4, <1>5

(* cli.rs:1544: a timely doctor works when no reconcile does, so it never   *)
(* abandons the candidate that one is building, although it chose its       *)
(* candidates before it asked for the lease.                                *)
THEOREM DoctorSpares == ASSUME ~ AllowOverrun PROVE Spec => DoctorSparesTheLiving
<1> DEFINE Spares == \A r \in Reconciler :
                        Working(r) /\ cand[r] # 0 /\ gens[cand[r]].state = "candidate"
                          => gens'[cand[r]].state # "abandoned"
<1>1. TypeInv /\ PublicationInv /\ ExclusionInv /\ [Next]_vars => Spares
  <2> SUFFICES ASSUME TypeInv, PublicationInv, ExclusionInv, [Next]_vars,
                      NEW r \in Reconciler, Working(r), cand[r] # 0,
                      gens[cand[r]].state = "candidate"
               PROVE  gens'[cand[r]].state # "abandoned"
    OBVIOUS
  <2>1. ~ \E d \in Doctor : AbandonNext(d)
    <3> SUFFICES ASSUME NEW d \in Doctor, AbandonNext(d) PROVE FALSE OBVIOUS
    <3>1. Working(d) BY DEF AbandonNext, Working, Leased
    <3>2. d = r BY <3>1, AloneAtWork
    <3>3. QED BY <3>2
  <2>2. cand[r] \in DOMAIN gens BY Numbers DEF TypeInv, CandidateKnown
  <2>3. QED BY <2>1, <2>2, OnlyDoctorsAbandon
<1>2. QED
  BY <1>1, TypeInvHolds, PublicationInvHolds, ExclusionInvHolds, PTL
     DEF Spec, DoctorSparesTheLiving

-----------------------------------------------------------------------------
(* Task sessions: what one is anchored to, what moves it, what is final.    *)

(* The row of s is moved to a state and otherwise left as it was.           *)
MovesTo(s, st) ==
    /\ session'[s].state = st
    /\ session'[s].bound = session[s].bound
    /\ session'[s].end = session[s].end

(* What a step may do to the row of s, and who does it.                     *)
Kept(s) == session'[s] = session[s]

Started(s) ==
    /\ s.start = active
    /\ session'[s].bound = TRUE
    /\ \/ session[s].state = "none" /\ session'[s].state = "created"
       \/ /\ session[s].state # "none"
          /\ session'[s].state = session[s].state
          /\ session'[s].end = session[s].end
          /\ session[s].bound = TRUE => session'[s] = session[s]

Compiled(k, s) ==
    /\ target[k] = s
    /\ \/ pc[k] = "create" /\ session[s].state = "none" /\ session'[s].state = "created"
       \/ pc[k] = "mark" /\ MovesTo(s, "context_compiled")

Activated(c, s) ==
    /\ client[c].op = "activate" /\ client[c].on = s
    /\ \/ session[s].state = "created" /\ MovesTo(s, "context_compiled")
       \/ session[s].state = "context_compiled" /\ MovesTo(s, "active")

Completed(s) ==
    /\ session[s].state = "reconciled"
    /\ session'[s].state = "completed"
    /\ session'[s].bound = session[s].bound
    /\ session'[s].end = active

Abandoned(s) == session[s].state \in {"active", "reconciled"} /\ MovesTo(s, "abandoned")

Reconciled(s) ==
    /\ active' # active
    /\ session[s].state = "active" /\ s.start < active'
    /\ MovesTo(s, "reconciled")

(* A state alone is replaced.                                               *)
LEMMA StateReplaced ==
    ASSUME SessionTypeOK, NEW s \in Session, NEW st,
           session' = [session EXCEPT ![s] = [session[s] EXCEPT !.state = st]]
    PROVE  MovesTo(s, st) /\ \A t \in Session : t # s => Kept(t)
<1>1. session \in [Session -> SessionRow] BY DEF SessionTypeOK
<1> DEFINE row == [session[s] EXCEPT !.state = st]
<1>2. row.state = st /\ row.bound = session[s].bound /\ row.end = session[s].end
  BY <1>1 DEF SessionRow
<1>3. session' = [session EXCEPT ![s] = row] OBVIOUS
<1> HIDE DEF row
<1>4. session'[s] = row /\ \A t \in Session : t # s => session'[t] = session[t]
  BY <1>1, <1>3
<1>5. QED BY <1>2, <1>4 DEF MovesTo, Kept

(* What a caller of task and governor commands does to the sessions.        *)
LEMMA ClientMoves ==
    ASSUME SessionTypeOK, NEW c \in Client, ClientWrites(c), NEW s \in Session
    PROVE  Kept(s) \/ Started(s) \/ Activated(c, s) \/ Completed(s) \/ Abandoned(s)
<1>0. session \in [Session -> SessionRow] BY DEF SessionTypeOK
<1>1. CASE \E t \in Session : StartSession(c, t)
  <2>1. PICK t \in Session : StartSession(c, t) BY <1>1
  <2> DEFINE row == [CreateIfAbsent(t) EXCEPT !.bound = TRUE]
  <2>2. t.start = active /\ session' = [session EXCEPT ![t] = row]
    BY <2>1 DEF StartSession
  <2>3. session[t] \in SessionRow BY <1>0
  <2>4. CASE session[t].state = "none"
    <3>1. row.bound = TRUE /\ row.state = "created"
      BY <2>4 DEF CreateIfAbsent, NoSession
    <3> HIDE DEF row
    <3>2. session'[t] = row /\ \A u \in Session : u # t => session'[u] = session[u]
      BY <1>0, <2>2
    <3>3. QED BY <2>2, <2>4, <3>1, <3>2 DEF Started, Kept
  <2>5. CASE session[t].state # "none"
    <3>1. row = [session[t] EXCEPT !.bound = TRUE] BY <2>5 DEF CreateIfAbsent
    <3>2. /\ row.bound = TRUE /\ row.state = session[t].state /\ row.end = session[t].end
          /\ session[t].bound = TRUE => row = session[t]
      BY <2>3, <3>1 DEF SessionRow
    <3> HIDE DEF row
    <3>3. session'[t] = row /\ \A u \in Session : u # t => session'[u] = session[u]
      BY <1>0, <2>2
    <3>4. QED BY <2>2, <2>5, <3>2, <3>3 DEF Started, Kept
  <2>6. QED BY <2>4, <2>5
<1>2. CASE \E t \in Session : AbandonSession(c, t)
  <2>1. PICK t \in Session : AbandonSession(c, t) BY <1>2
  <2>2. /\ session' = [session EXCEPT ![t] = [session[t] EXCEPT !.state = "abandoned"]]
        /\ session[t].state \in {"active", "reconciled"}
    BY <2>1 DEF AbandonSession
  <2>3. QED BY <2>2, StateReplaced DEF Abandoned
<1>3. CASE MarkCompiled(c)
  <2> DEFINE t == client[c].on
  <2>1. client[c].op = "activate" /\ t \in Session
    BY <1>3, PendingShape DEF MarkCompiled
  <2>2. CASE session[t].state = "created"
    <3>1. session' = [session EXCEPT ![t] = [session[t] EXCEPT !.state = "context_compiled"]]
      BY <1>3, <2>2 DEF MarkCompiled
    <3> HIDE DEF t
    <3>2. MovesTo(t, "context_compiled") /\ \A u \in Session : u # t => Kept(u)
      BY <2>1, <3>1, StateReplaced
    <3>3. QED BY <2>1, <2>2, <3>2 DEF Activated, t
  <2>3. CASE session[t].state # "created"
    BY <1>3, <2>3 DEF MarkCompiled, Kept
  <2>4. QED BY <2>2, <2>3
<1>4. CASE MarkActive(c)
  <2> DEFINE t == client[c].on
  <2>1. client[c].op = "activate" /\ t \in Session
    BY <1>4, PendingShape DEF MarkActive
  <2>2. CASE session[t].state = "context_compiled"
    <3>1. session' = [session EXCEPT ![t] = [session[t] EXCEPT !.state = "active"]]
      BY <1>4, <2>2 DEF MarkActive
    <3> HIDE DEF t
    <3>2. MovesTo(t, "active") /\ \A u \in Session : u # t => Kept(u)
      BY <2>1, <3>1, StateReplaced
    <3>3. QED BY <2>1, <2>2, <3>2 DEF Activated, t
  <2>3. CASE session[t].state # "context_compiled"
    BY <1>4, <2>3 DEF MarkActive, Kept
  <2>4. QED BY <2>2, <2>3
<1>5. CASE CommitCompletion(c)
  <2> DEFINE t == client[c].on
             row == [session[t] EXCEPT !.state = "completed", !.end = client[c].to,
                                       !.outcome = client[c].outcome]
  <2>1. t \in Session BY <1>5, PendingShape DEF CommitCompletion
  <2>2. CASE session[t].state = "reconciled" /\ active = client[c].to
    <3>1. session' = [session EXCEPT ![t] = row]
      BY <1>5, <2>2 DEF CommitCompletion
    <3>2. row.state = "completed" /\ row.bound = session[t].bound /\ row.end = active
      BY <1>0, <2>1, <2>2 DEF SessionRow
    <3> HIDE DEF row, t
    <3>3. session'[t] = row /\ \A u \in Session : u # t => session'[u] = session[u]
      BY <1>0, <2>1, <3>1
    <3>4. QED BY <2>2, <3>2, <3>3 DEF Completed, Kept
  <2>3. CASE ~ (session[t].state = "reconciled" /\ active = client[c].to)
    BY <1>5, <2>3 DEF CommitCompletion, Kept
  <2>4. QED BY <2>2, <2>3
<1>6. QED BY <1>1, <1>2, <1>3, <1>4, <1>5 DEF ClientWrites

(* What atlas context-ir does to them.                                      *)
LEMMA CompileMoves ==
    ASSUME TypeInv, NEW k \in Compiler, CompileStep(k), NEW s \in Session
    PROVE  Kept(s) \/ Compiled(k, s)
<1>0. session \in [Session -> SessionRow] BY DEF TypeInv, TypeOK, SessionTypeOK
<1>1. CASE CreateSession(k)
  <2> DEFINE t == target[k]
             row == CreateIfAbsent(t)
  <2>1. /\ t \in Session /\ pc[k] = "create"
        /\ session' = [session EXCEPT ![t] = row]
    BY <1>1 DEF CreateSession, TypeInv, TargetChosen
  <2>2. \/ session[t].state = "none" /\ row.state = "created"
        \/ row = session[t]
    BY DEF CreateIfAbsent, NoSession
  <2> HIDE DEF row
  <2>3. session'[t] = row /\ \A u \in Session : u # t => session'[u] = session[u]
    BY <1>0, <2>1
  <2>4. QED BY <2>1, <2>2, <2>3 DEF Compiled, Kept
<1>2. CASE CheckTransition(k)
  BY <1>2 DEF CheckTransition, sessionVars, Kept
<1>3. CASE WriteTransition(k)
  <2> DEFINE t == target[k]
  <2>1. /\ t \in Session /\ pc[k] = "mark"
        /\ session' = [session EXCEPT ![t] = [session[t] EXCEPT !.state = "context_compiled"]]
    BY <1>3 DEF WriteTransition, TypeInv, TargetChosen
  <2>2. SessionTypeOK BY DEF TypeInv, TypeOK
  <2> HIDE DEF t
  <2>3. MovesTo(t, "context_compiled") /\ \A u \in Session : u # t => Kept(u)
    BY <2>1, <2>2, StateReplaced
  <2>4. QED BY <2>1, <2>3 DEF Compiled, t
<1>4. QED BY <1>1, <1>2, <1>3 DEF CompileStep

(* What activate_candidate does to them: the older active ones are          *)
(* reconciled, and no other one is touched.                                 *)
LEMMA ActivateMoves ==
    ASSUME TypeInv, PublicationInv, NEW r \in Reconciler, Activate(r), NEW s \in Session
    PROVE  /\ active' # active
           /\ IF session[s].state = "active" /\ s.start < active' THEN Reconciled(s)
                                                                  ELSE Kept(s)
<1> DEFINE g   == cand[r]
           row == [session[s] EXCEPT !.state = "reconciled"]
<1>1. CommitCandidate(g, seen[r]) /\ ReconcileSessions(g) /\ pc[r] = "activate"
  BY DEF Activate
<1>2. g # 0 /\ gens[g].state = "candidate" /\ active' = g
  BY <1>1 DEF TypeInv, CandidateKnown, Building, CommitCandidate
<1>3. active' # active
  BY <1>2 DEF PublicationInv, ActiveCommitted, Committed, InState
<1>4. session[s] \in SessionRow BY DEF TypeInv, TypeOK, SessionTypeOK
<1>5. /\ row.state = "reconciled" /\ row.bound = session[s].bound
      /\ row.end = session[s].end
  BY <1>4 DEF SessionRow
<1>6. session'[s] = IF session[s].state = "active" /\ s.start < g THEN row ELSE session[s]
  BY <1>1 DEF ReconcileSessions
<1> HIDE DEF row, g
<1>7. QED BY <1>2, <1>3, <1>5, <1>6 DEF Reconciled, MovesTo, Kept

(* Every step but activate_candidate keeps the active generation, and every *)
(* other step of a reconcile, a doctor or the lease keeps the sessions.     *)
LEMMA ActiveMoves ==
    ASSUME TypeInv, PublicationInv, [Next]_vars, ~ \E r \in Reconciler : Activate(r)
    PROVE  active' = active
<1>1. CASE \E r \in Reconciler : BeginCandidate(r)
  BY <1>1, BeginCandidateKeeps
<1>2. CASE \E r \in Reconciler : CommitBuild(r)
  BY <1>2, CommitBuildKeeps
<1>3. CASE \E r \in Reconciler : FailCandidate(r)
  BY <1>3, SameGens DEF FailCandidate, CloseCandidate
<1>4. CASE \E d \in Doctor : AbandonNext(d)
  BY <1>4 DEF AbandonNext, CloseCandidate
<1>5. CASE /\ ~ \E r \in Reconciler : BeginCandidate(r) \/ CommitBuild(r) \/ Activate(r)
                                         \/ FailCandidate(r)
           /\ ~ \E d \in Doctor : AbandonNext(d)
  BY <1>5, QuietSteps DEF Quiet
<1>6. QED BY <1>1, <1>2, <1>3, <1>4, <1>5

(* Committed generations stay committed.                                    *)
LEMMA CommittedGrows ==
    ASSUME TypeInv, PublicationInv, [Next]_vars
    PROVE  Committed \subseteq Committed'
<1>1. Published \subseteq Published'
  BY NextPublication DEF PI!Publish, Published
<1>2. SUFFICES ASSUME NEW g \in Committed PROVE g \in Committed' OBVIOUS
<1>3. PublishedEntry(g) \in Published' BY <1>1 DEF Published
<1>4. PICK h \in Committed' :
        PublishedEntry(g) = [gen |-> h, parent |-> gens'[h].parent, base |-> gens'[h].base,
                             files |-> gens'[h].files, tree |-> gens'[h].tree]
  BY <1>3 DEF Published, PublishedEntry
<1>5. g = h BY <1>4 DEF PublishedEntry
<1>6. QED BY <1>5

(* Every step of the catalogue moves a session in one of seven ways.        *)
LEMMA SessionMoves ==
    ASSUME TypeInv, PublicationInv, [Next]_vars, NEW s \in Session
    PROVE  \/ Kept(s) \/ Started(s) \/ Completed(s) \/ Abandoned(s) \/ Reconciled(s)
           \/ \E k \in Compiler : CompileStep(k) /\ Compiled(k, s)
           \/ \E c \in Client : ClientWrites(c) /\ Activated(c, s)
<1> USE DEF Goto, workVars, envVars
<1>1. CASE \E r \in Reconciler : Activate(r)
  BY <1>1, ActivateMoves
<1>2. CASE \E k \in Compiler : CompileStep(k)
  BY <1>2, CompileMoves
<1>3. CASE ClientStep
  <2>1. CASE \E c \in Client : ClientWrites(c)
    BY <2>1, ClientMoves DEF TypeInv, TypeOK
  <2>2. CASE \E c \in Client : ClientReads(c)
    BY <2>2, ClientReadsType, Numbers DEF Kept, TypeInv, TypeOK
  <2>3. QED BY <1>3, <2>1, <2>2 DEF ClientStep
<1>4. CASE \E r \in Reconciler : ReconcileStep(r) /\ ~ Activate(r)
  BY <1>4
     DEF ReconcileStep, ReadParent, ReadMaxSeq, BeginCandidate, SequenceTaken, HashFiles,
         BeginBuild, CommitBuild, ActivationRefused, FailCandidate, ReconcileError,
         sessionVars, Kept
<1>5. CASE \E d \in Doctor : DoctorStep(d)
  BY <1>5 DEF DoctorStep, AbandonNext, AbandonError, sessionVars, Kept
<1>6. CASE \E p \in Holder : Acquire(p) \/ RefuseLease(p) \/ Release(p) \/ BusyTimeout(p)
                               \/ Crash(p)
  BY <1>6 DEF Acquire, RefuseLease, Release, BusyTimeout, Crash, sessionVars, Kept
<1>7. CASE \/ \E r \in Reconciler : InvokeReconcile(r)
           \/ \E d \in Doctor : InvokeDoctor(d)
           \/ \E k \in Compiler : InvokeCompile(k)
           \/ Tick \/ EditSource \/ UNCHANGED vars
  BY <1>7 DEF InvokeReconcile, InvokeDoctor, InvokeCompile, Tick, EditSource, vars,
              sessionVars, Kept
<1>8. QED
  BY <1>1, <1>2, <1>3, <1>4, <1>5, <1>6, <1>7 DEF Next, CommandStep

-----------------------------------------------------------------------------
(* Where sessions start, and what they were reconciled by.                  *)

StartsPublished ==
    /\ \A s \in Session : session[s].state # "none" => s.start \in Committed
    /\ \A k \in Compiler : target[k] \in Session => target[k].start \in Committed

NewerReconciles ==
    \A s \in Session :
        session[s].state \in {"reconciled", "completed"} => \E g \in Committed : g > s.start

AnchorInv == StartsPublished /\ NewerReconciles

(* A completed session ends later than it started.                          *)
EndsLater ==
    \A s \in Session :
        session[s].state = "completed" =>
            session[s].end \in Committed /\ session[s].end > s.start

(* A command that starts at the active generation starts at a published one. *)
LEMMA ActiveStart ==
    ASSUME PublicationInv, NEW s \in Session, s.start = active
    PROVE  s.start \in Committed
BY DEF PublicationInv, ActiveCommitted

(* No session is there yet.                                                 *)
LEMMA InitAnchor == Init => AnchorInv /\ EndsLater
<1> SUFFICES ASSUME Init PROVE AnchorInv /\ EndsLater OBVIOUS
<1>1. \A s \in Session : session[s].state = "none"
  BY DEF Init, SessionInit, NoSession
<1>2. \A k \in Compiler : target[k] \notin Session BY DEF Init
<1>3. QED
  BY <1>1, <1>2 DEF AnchorInv, StartsPublished, NewerReconciles, EndsLater

(* A compiler's session is chosen at the active generation.                 *)
LEMMA TargetsPublished ==
    ASSUME TypeInv, PublicationInv, [Next]_vars, AnchorInv, NEW k \in Compiler,
           target'[k] \in Session
    PROVE  target'[k].start \in Committed
<1>1. CASE target' = target
  BY <1>1 DEF AnchorInv, StartsPublished
<1>2. CASE \E q \in Compiler : InvokeCompile(q)
  <2>1. PICK q \in Compiler : InvokeCompile(q) BY <1>2
  <2>2. CASE target' = target BY <2>2, <1>1
  <2>3. CASE target' # target
    <3>1. PICK s \in Session : s.start = active /\ target' = [target EXCEPT ![q] = s]
      BY <2>1, <2>3 DEF InvokeCompile
    <3>2. target'[k] = s \/ target'[k] = target[k] BY <3>1 DEF TypeInv, TypeOK
    <3>3. QED BY <3>1, <3>2, ActiveStart DEF AnchorInv, StartsPublished
  <2>4. QED BY <2>2, <2>3
<1>3. CASE ~ \E q \in Compiler : InvokeCompile(q)
  <2>1. target' = target
    BY <1>3 DEF Next, vars, workVars, CommandStep, Acquire, RefuseLease, Release, BusyTimeout,
                ReconcileStep, ReadParent, ReadMaxSeq, BeginCandidate, SequenceTaken,
                HashFiles, BeginBuild, CommitBuild, Activate, ActivationRefused,
                FailCandidate, ReconcileError, InvokeReconcile, InvokeDoctor, DoctorStep,
                AbandonNext, AbandonError, CompileStep, CreateSession, CheckTransition,
                WriteTransition, Crash, Tick, EditSource, ClientStep
  <2>2. QED BY <1>1, <2>1
<1>4. QED BY <1>2, <1>3

(* Every step keeps sessions anchored.                                      *)
LEMMA NextAnchor ==
    ASSUME TypeInv, PublicationInv, [Next]_vars, AnchorInv
    PROVE  AnchorInv'
<1>1. Committed \subseteq Committed' BY CommittedGrows
<1>2. ASSUME NEW s \in Session, session'[s].state # "none" PROVE s.start \in Committed'
  <2>1. CASE session[s].state # "none"
    BY <1>1, <2>1 DEF AnchorInv, StartsPublished
  <2>2. CASE session[s].state = "none"
    <3>1. Started(s) \/ \E k \in Compiler : Compiled(k, s)
      BY <1>2, <2>2, SessionMoves
         DEF Kept, Completed, Abandoned, Reconciled, Activated
    <3>2. CASE Started(s) BY <1>1, <3>2, ActiveStart DEF Started
    <3>3. CASE \E k \in Compiler : Compiled(k, s)
      BY <1>1, <3>3 DEF Compiled, AnchorInv, StartsPublished
    <3>4. QED BY <3>1, <3>2, <3>3
  <2>3. QED BY <2>1, <2>2
<1>3. \A k \in Compiler : target'[k] \in Session => target'[k].start \in Committed'
  BY <1>1, TargetsPublished
<1>4. ASSUME NEW s \in Session, session'[s].state \in {"reconciled", "completed"}
      PROVE  \E g \in Committed' : g > s.start
  <2>1. CASE session[s].state \in {"reconciled", "completed"}
    BY <1>1, <2>1 DEF AnchorInv, NewerReconciles
  <2>2. CASE session[s].state \notin {"reconciled", "completed"}
    <3>1. Reconciled(s)
      BY <1>4, <2>2, SessionMoves
         DEF Kept, Started, Completed, Abandoned, Compiled, Activated, MovesTo
    <3>2. PublicationInv' /\ TypeInv' BY NextPublication, NextType
    <3>3. active' # active /\ s.start < active' BY <3>1 DEF Reconciled
    <3>4. active' \in Committed' /\ active' \in Nat /\ s.start \in Nat
      BY <3>2, <3>3, RowType
         DEF PublicationInv, ActiveCommitted, TypeInv, TypeOK, GenTypeOK
    <3>5. active' > s.start BY <3>3, <3>4
    <3>6. QED BY <3>4, <3>5
  <2>3. QED BY <2>1, <2>2
<1>5. QED BY <1>2, <1>3, <1>4 DEF AnchorInv, StartsPublished, NewerReconciles

(* The inductive invariant behind Anchored, whatever overruns.              *)
THEOREM AnchorInvHolds == Spec => []AnchorInv
<1>1. TypeInv /\ PublicationInv /\ AnchorInv /\ [Next]_vars => AnchorInv'
  BY NextAnchor
<1>2. QED BY <1>1, InitAnchor, TypeInvHolds, PublicationInvHolds, PTL DEF Spec

(* A completion's end is the newest generation, as timely commands go.      *)
LEMMA NextEnd ==
    ASSUME TypeInv, PublicationInv, OrderInv, AnchorInv, EndsLater, [Next]_vars
    PROVE  EndsLater'
<1>1. Committed \subseteq Committed' BY CommittedGrows
<1>2. SUFFICES ASSUME NEW s \in Session, session'[s].state = "completed"
               PROVE  session'[s].end \in Committed' /\ session'[s].end > s.start
  BY DEF EndsLater
<1>3. CASE session[s].state = "completed"
  <2>1. session'[s].end = session[s].end
    BY <1>2, <1>3, SessionMoves
       DEF Kept, Started, Completed, Abandoned, Reconciled, Compiled, Activated, MovesTo
  <2>2. QED BY <1>1, <1>3, <2>1 DEF EndsLater
<1>4. CASE session[s].state # "completed"
  <2>1. Completed(s)
    BY <1>2, <1>4, SessionMoves
       DEF Kept, Started, Abandoned, Reconciled, Compiled, Activated, MovesTo
  <2>2. PICK g \in Committed : g > s.start
    BY <2>1 DEF Completed, AnchorInv, NewerReconciles
  <2>3. g <= active BY DEF OrderInv, ActiveIsLatest
  <2>4. g \in Nat \ {0} /\ active \in Nat /\ s.start \in Nat BY Numbers
  <2>5. active > s.start /\ active # 0 BY <2>2, <2>3, <2>4
  <2>6. active \in Committed BY <2>5 DEF PublicationInv, ActiveCommitted
  <2>7. QED BY <1>1, <2>1, <2>5, <2>6 DEF Completed
<1>5. QED BY <1>3, <1>4

(* If no command outlives StaleAge, a session starts at a published         *)
(* generation, is reconciled by a later one, and is completed against a     *)
(* later one.  Only the completion needs timely commands: a late activation *)
(* of an old candidate would make an older generation active again.         *)
THEOREM Anchored == ASSUME ~ AllowOverrun PROVE Spec => []SessionAnchored
<1>1. TypeInv /\ PublicationInv /\ OrderInv /\ AnchorInv /\ EndsLater /\ [Next]_vars
        => EndsLater'
  BY NextEnd
<1>2. AnchorInv /\ EndsLater => SessionAnchored
  BY DEF AnchorInv, StartsPublished, NewerReconciles, EndsLater, SessionAnchored
<1>3. QED
  BY <1>1, <1>2, InitAnchor, TypeInvHolds, PublicationInvHolds, OrderInvHolds,
     AnchorInvHolds, PTL DEF Spec

(* README.md:197: whatever overruns, the commit of a newer generation       *)
(* reconciles every and only the older active sessions.                     *)
THEOREM Reconciles == Spec => CommitReconciles
<1> DEFINE Rec == \A s \in Session :
                     LET was == session[s].state
                         is  == session'[s].state
                     IN  /\ active' # active /\ was = "active" /\ s.start < active'
                              => is = "reconciled"
                         /\ was # "reconciled" /\ is = "reconciled"
                              => was = "active" /\ s.start < active' /\ active' # active
<1>1. TypeInv /\ PublicationInv /\ [Next]_vars => Rec
  <2> SUFFICES ASSUME TypeInv, PublicationInv, [Next]_vars, NEW s \in Session
               PROVE  /\ active' # active /\ session[s].state = "active" /\ s.start < active'
                           => session'[s].state = "reconciled"
                      /\ session[s].state # "reconciled" /\ session'[s].state = "reconciled"
                           => /\ session[s].state = "active"
                              /\ s.start < active' /\ active' # active
    OBVIOUS
  <2>1. ASSUME active' # active, session[s].state = "active", s.start < active'
        PROVE  session'[s].state = "reconciled"
    <3>1. PICK r \in Reconciler : Activate(r) BY <2>1, ActiveMoves
    <3>2. QED BY <2>1, <3>1, ActivateMoves DEF Reconciled, MovesTo
  <2>2. ASSUME session[s].state # "reconciled", session'[s].state = "reconciled"
        PROVE  session[s].state = "active" /\ s.start < active' /\ active' # active
    BY <2>2, SessionMoves
       DEF Kept, Started, Completed, Abandoned, Reconciled, Compiled, Activated, MovesTo
  <2>3. QED BY <2>1, <2>2
<1>2. QED
  BY <1>1, TypeInvHolds, PublicationInvHolds, PTL DEF Spec, CommitReconciles

-----------------------------------------------------------------------------
(* What is final.                                                           *)

(* Only a session that was explicitly started is ever activated.  (The       *)
(* column is compared with TRUE, which is how the provers read it.)         *)
BoundInv ==
    /\ \A s \in Session : session[s].bound = TRUE => session[s].state # "none"
    /\ \A s \in Session :
          session[s].state \in {"active", "reconciled"} \cup Terminal => session[s].bound = TRUE
    /\ \A c \in Client : client[c].op = "activate" => session[client[c].on].bound = TRUE

(* A caller that is about to activate a session read, now or before, that   *)
(* it had been started.                                                     *)
LEMMA ActivatorMoves ==
    ASSUME TypeInv, [Next]_vars, NEW c \in Client, client'[c].op = "activate"
    PROVE  \/ client[c].op = "activate" /\ client'[c].on = client[c].on
           \/ /\ client'[c].on \in Session
              /\ session[client'[c].on].bound = TRUE
              /\ session' = session
<1>0. client \in [Client -> Pending] BY DEF TypeInv, TypeOK, SessionTypeOK
<1>i. Idle.op # "activate" BY DEF Idle
<1>1. CASE client' = client BY <1>1
<1>2. CASE ClientStep
  <2>1. PICK d \in Client : ClientWrites(d) \/ ClientReads(d) BY <1>2 DEF ClientStep
  <2>2. CASE \E s \in Session : StartSession(d, s) \/ AbandonSession(d, s)
    BY <1>1, <2>2 DEF StartSession, AbandonSession
  <2>3. CASE MarkCompiled(d)
    <3> DEFINE now == [client[d] EXCEPT !.seen = "context_compiled"]
    <3>1. client' = [client EXCEPT ![d] = now] \/ client' = [client EXCEPT ![d] = Idle]
      BY <2>3 DEF MarkCompiled
    <3>2. client[d] \in [op : {"activate"}, on : Session, seen : {"created", "context_compiled"}]
      BY <2>3, PendingShape DEF MarkCompiled, TypeInv, TypeOK
    <3>3. now.on = client[d].on /\ client[d].op = "activate" BY <3>2
    <3> HIDE DEF now
    <3>4. \/ client'[c] = client[c]
          \/ c = d /\ client'[c] = now
          \/ client'[c] = Idle
      BY <1>0, <3>1
    <3>5. QED BY <1>i, <3>3, <3>4
  <2>4. CASE MarkActive(d) \/ CommitCompletion(d) \/ ClientStops(d)
    <3>1. client' = [client EXCEPT ![d] = Idle]
      BY <2>4 DEF MarkActive, CommitCompletion, ClientStops
    <3>2. client'[c] = client[c] \/ client'[c] = Idle BY <1>0, <3>1
    <3>3. QED BY <1>i, <3>2
  <2>5. CASE \E s \in Session : ReadForActivation(d, s)
    <3>1. PICK s \in Session : ReadForActivation(d, s) BY <2>5
    <3> DEFINE now == [op |-> "activate", on |-> s, seen |-> session[s].state]
    <3>2. client' = [client EXCEPT ![d] = now] /\ session[s].bound = TRUE /\ session' = session
      BY <3>1 DEF ReadForActivation, TypeInv, TypeOK, SessionTypeOK, SessionRow
    <3>3. now.on = s OBVIOUS
    <3> HIDE DEF now
    <3>4. client'[c] = client[c] \/ client'[c] = now BY <1>0, <3>2
    <3>5. QED BY <3>2, <3>3, <3>4
  <2>6. CASE \E s \in Session, o \in Outcome : ReadForCompletion(d, s, o)
    <3>1. PICK s \in Session, o \in Outcome : ReadForCompletion(d, s, o) BY <2>6
    <3> DEFINE now == [op |-> "complete", on |-> s, to |-> active, outcome |-> o]
    <3>2. client' = [client EXCEPT ![d] = now] BY <3>1 DEF ReadForCompletion
    <3>3. now.op # "activate" OBVIOUS
    <3> HIDE DEF now
    <3>4. client'[c] = client[c] \/ client'[c] = now BY <1>0, <3>2
    <3>5. QED BY <3>3, <3>4
  <2>7. QED
    BY <2>1, <2>2, <2>3, <2>4, <2>5, <2>6 DEF ClientWrites, ClientReads
<1>3. CASE ~ ClientStep
  <2>1. client' = client
    BY <1>3 DEF Next, vars, sessionVars, CommandStep, Acquire, RefuseLease, Release,
                BusyTimeout, ReconcileStep, ReadParent, ReadMaxSeq, BeginCandidate,
                SequenceTaken, HashFiles, BeginBuild, CommitBuild, Activate,
                ActivationRefused, FailCandidate, ReconcileError, InvokeReconcile,
                InvokeDoctor, DoctorStep, AbandonNext, AbandonError, InvokeCompile,
                CompileStep, CreateSession, CheckTransition, WriteTransition, Crash, Tick,
                EditSource
  <2>2. QED BY <1>1, <2>1
<1>4. QED BY <1>2, <1>3

(* No session is there yet, and nobody has read one.                        *)
LEMMA InitBound == Init => BoundInv
<1> SUFFICES ASSUME Init PROVE BoundInv OBVIOUS
<1>1. \A s \in Session : session[s].state = "none" /\ session[s].bound = FALSE
  BY DEF Init, SessionInit, NoSession
<1>2. \A c \in Client : client[c].op = "idle"
  BY DEF Init, SessionInit, Idle
<1>3. QED BY <1>1, <1>2 DEF BoundInv, Terminal

(* Every step activates only what was started.                              *)
LEMMA NextBound ==
    ASSUME TypeInv, PublicationInv, BoundInv, [Next]_vars
    PROVE  BoundInv'
<1>1. ASSUME NEW s \in Session
      PROVE  /\ session[s].bound = TRUE => session'[s].bound = TRUE
             /\ session'[s].bound = TRUE => session'[s].state # "none"
  <2>0. session[s].bound = TRUE => session[s].state # "none" BY DEF BoundInv
  <2>1. CASE \E c \in Client : Activated(c, s)
    BY <2>0, <2>1 DEF Activated, MovesTo
  <2>2. CASE \E k \in Compiler : Compiled(k, s)
    BY <2>0, <2>2 DEF Compiled, MovesTo
  <2>3. CASE Kept(s) \/ Started(s) \/ Completed(s) \/ Abandoned(s) \/ Reconciled(s)
    BY <2>0, <2>3 DEF Kept, Started, Completed, Abandoned, Reconciled, MovesTo
  <2>4. QED BY <2>1, <2>2, <2>3, SessionMoves
<1>2. ASSUME NEW s \in Session,
             session'[s].state \in {"active", "reconciled"} \cup Terminal
      PROVE  session'[s].bound = TRUE
  <2>1. CASE \E c \in Client : Activated(c, s)
    BY <1>1, <2>1 DEF BoundInv, Activated
  <2>2. CASE \E k \in Compiler : Compiled(k, s)
    BY <1>2, <2>2 DEF Compiled, MovesTo, Terminal
  <2>3. CASE Kept(s) \/ Started(s) \/ Completed(s) \/ Abandoned(s) \/ Reconciled(s)
    BY <1>2, <2>3
       DEF BoundInv, Kept, Started, Completed, Abandoned, Reconciled, MovesTo, Terminal
  <2>4. QED BY <2>1, <2>2, <2>3, SessionMoves
<1>3. ASSUME NEW c \in Client, client'[c].op = "activate"
      PROVE  session'[client'[c].on].bound = TRUE
  <2>1. CASE client[c].op = "activate" /\ client'[c].on = client[c].on
    <3>1. client[c].on \in Session BY <2>1, PendingShape DEF TypeInv, TypeOK
    <3>2. QED BY <1>1, <2>1, <3>1 DEF BoundInv
  <2>2. CASE client'[c].on \in Session /\ session[client'[c].on].bound = TRUE
    BY <1>1, <2>2
  <2>3. QED BY <1>3, <2>1, <2>2, ActivatorMoves
<1>4. QED BY <1>1, <1>2, <1>3 DEF BoundInv

(* The inductive invariant behind TerminalStays.                            *)
THEOREM BoundInvHolds == Spec => []BoundInv
<1>1. TypeInv /\ PublicationInv /\ BoundInv /\ [Next]_vars => BoundInv'
  BY NextBound
<1>2. QED BY <1>1, InitBound, TypeInvHolds, PublicationInvHolds, PTL DEF Spec

(* task_session.rs:1166, with its one exception: a terminal session never   *)
(* changes again unless atlas context-ir, which checked the session's state *)
(* in an earlier statement, writes its transition over it.                  *)
TerminalButForCompilers ==
    [][\A s \in Session :
          session[s].state \in Terminal
            /\ (\A k \in Compiler : WriteTransition(k) => target[k] # s)
            => session'[s] = session[s]]_vars

(* A terminal session is final for every caller and command but that one.   *)
THEOREM TerminalStays == Spec => TerminalButForCompilers
<1> DEFINE Stays == \A s \in Session :
                       session[s].state \in Terminal
                         /\ (\A k \in Compiler : WriteTransition(k) => target[k] # s)
                         => session'[s] = session[s]
<1>1. TypeInv /\ PublicationInv /\ BoundInv /\ [Next]_vars => Stays
  <2> SUFFICES ASSUME TypeInv, PublicationInv, BoundInv, [Next]_vars, NEW s \in Session,
                      session[s].state \in Terminal,
                      \A k \in Compiler : WriteTransition(k) => target[k] # s
               PROVE  session'[s] = session[s]
    OBVIOUS
  <2>1. session[s].bound = TRUE BY DEF BoundInv
  <2>2. ASSUME NEW k \in Compiler, CompileStep(k), Compiled(k, s) PROVE FALSE
    BY <2>2 DEF CompileStep, CreateSession, CheckTransition, Compiled, Terminal
  <2>3. QED
    BY <2>1, <2>2, SessionMoves
       DEF Kept, Started, Completed, Abandoned, Reconciled, Activated, Terminal
<1>2. QED
  BY <1>1, TypeInvHolds, PublicationInvHolds, BoundInvHolds, PTL
     DEF Spec, TerminalButForCompilers

(* Without atlas context-ir a terminal session is final.                    *)
THEOREM TerminalFinal == ASSUME Compiler = {} PROVE Spec => TerminalIsFinal
<1>1. (\A s \in Session :
          session[s].state \in Terminal
            /\ (\A k \in Compiler : WriteTransition(k) => target[k] # s)
            => session'[s] = session[s])
      => \A s \in Session : session[s].state \in Terminal => session'[s] = session[s]
  OBVIOUS
<1>2. QED BY <1>1, TerminalStays, PTL DEF TerminalButForCompilers, TerminalIsFinal

=============================================================================
