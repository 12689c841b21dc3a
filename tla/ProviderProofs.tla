--------------------------- MODULE ProviderProofs ---------------------------
(* Theorems about ProviderExecution: what a published generation has of its *)
(* providers, for any number of providers, scopes, files, cycles, edits,    *)
(* failures and crashes.                                                    *)
EXTENDS ProviderExecution, SequenceTheorems, TLAPS

USE ProviderAssumption

-----------------------------------------------------------------------------
(* The generations, row by row.                                             *)

Good == {"complete", "partial"}
Status == Good \cup {"excluded", "failed"}

CoverageRows == UNION {[S -> Status] : S \in SUBSET Provider}

Row == [state : {"candidate", "committed", "failed"},
        files : [Doc -> Content], exe : [Provider -> Nat], coverage : CoverageRows]

(* Only the row of the candidate may differ, and this is what it is.        *)
OnlyCandidate(row) ==
    /\ gens' \in Seq(Row) /\ Len(gens') = Len(gens)
    /\ \A g \in DOMAIN gens : g # Candidate => gens'[g] = gens[g]
    /\ gens'[Candidate] = row
    /\ Candidate' = Candidate

(* The rows of a list of generations.                                       *)
LEMMA RowsTyped ==
    ASSUME NEW rows \in Seq(Row)
    PROVE  /\ Len(rows) \in Nat /\ DOMAIN rows = 1 .. Len(rows)
           /\ \A g \in DOMAIN rows :
                rows[g] \in Row /\ rows[g].state \in {"candidate", "committed", "failed"}
<1>1. /\ Len(rows) \in Nat /\ DOMAIN rows = 1 .. Len(rows)
      /\ \A g \in DOMAIN rows : rows[g] \in Row
  BY LenProperties, ElementOfSeq
<1>2. \A r \in Row : r.state \in {"candidate", "committed", "failed"} BY DEF Row
<1>3. QED BY <1>1, <1>2

(* INSERT OR IGNORE: a key that was there keeps its value.                  *)
LEMMA InsertOrIgnored ==
    ASSUME NEW table, NEW k, NEW v
    PROVE  LET t == InsertOrIgnore(table, k, v) IN
           /\ DOMAIN t = DOMAIN table \cup {k}
           /\ \A x \in DOMAIN table : t[x] = table[x]
           /\ k \notin DOMAIN table => t[k] = v
BY DEF InsertOrIgnore

(* A provider's first coverage row, or the one it already has.              *)
LEMMA CoverageInserted ==
    ASSUME NEW rows \in CoverageRows, NEW p \in Provider, NEW st \in Status
    PROVE  InsertOrIgnore(rows, p, st) \in CoverageRows
<1>1. PICK S \in SUBSET Provider : rows \in [S -> Status] BY DEF CoverageRows
<1>2. InsertOrIgnore(rows, p, st) \in [S \cup {p} -> Status]
  BY <1>1 DEF InsertOrIgnore
<1>3. QED BY <1>2 DEF CoverageRows

(* Nothing is covered yet.                                                  *)
LEMMA NoCoverage == <<>> \in CoverageRows /\ DOMAIN <<>> = {}
<1>1. <<>> \in Seq(Status) /\ Len(<<>>) = 0 BY EmptySeq
<1>2. DOMAIN <<>> = {} /\ <<>> \in [{} -> Status] BY <1>1, LenProperties
<1>3. QED BY <1>2 DEF CoverageRows

(* Replacing the candidate's row leaves the others.                         *)
LEMMA ReplaceCandidate ==
    ASSUME gens \in Seq(Row), Len(gens) # 0, NEW row \in Row,
           gens' = [gens EXCEPT ![Candidate] = row]
    PROVE  OnlyCandidate(row)
<1>1. Len(gens) \in Nat /\ DOMAIN gens = 1 .. Len(gens) BY LenProperties
<1>2. Candidate \in 1 .. Len(gens) BY <1>1 DEF Candidate
<1>3. /\ gens' \in Seq(Row) /\ Len(gens') = Len(gens)
      /\ gens'[Candidate] = row
      /\ \A g \in DOMAIN gens : g # Candidate => gens'[g] = gens[g]
  BY <1>1, <1>2, ExceptSeq
<1>4. QED BY <1>3 DEF OnlyCandidate, Candidate

(* What record_coverage, a rollback and the end of a cycle do to it.        *)
LEMMA CoverEffect ==
    ASSUME gens \in Seq(Row), Len(gens) # 0, NEW p \in Provider, NEW st \in Status,
           Cover(p, st)
    PROVE  \E row \in Row :
             /\ OnlyCandidate(row)
             /\ row.state = gens[Candidate].state /\ row.files = gens[Candidate].files
             /\ row.exe = gens[Candidate].exe
             /\ row.coverage = InsertOrIgnore(gens[Candidate].coverage, p, st)
<1> DEFINE old == gens[Candidate]
           cov == InsertOrIgnore(old.coverage, p, st)
           row == [old EXCEPT !.coverage = cov]
<1>1. old \in Row BY LenProperties, ElementOfSeq DEF Candidate
<1>2. cov \in CoverageRows BY <1>1, CoverageInserted DEF Row
<1>3. gens' = [gens EXCEPT ![Candidate] = row] BY DEF Cover
<1> HIDE DEF cov, old
<1>4. /\ row \in Row /\ row.state = old.state /\ row.files = old.files
      /\ row.exe = old.exe /\ row.coverage = cov
  BY <1>1, <1>2 DEF Row
<1>5. OnlyCandidate(row) BY <1>3, <1>4, ReplaceCandidate
<1>6. QED BY <1>4, <1>5 DEF cov, old

(* A rolled back transaction leaves the candidate without coverage.         *)
LEMMA RollbackEffect ==
    ASSUME gens \in Seq(Row), Len(gens) # 0,
           gens' = [gens EXCEPT ![Candidate].coverage = <<>>]
    PROVE  \E row \in Row : OnlyCandidate(row) /\ row.state = gens[Candidate].state
<1> DEFINE old == gens[Candidate]
           row == [old EXCEPT !.coverage = <<>>]
<1>1. old \in Row BY LenProperties, ElementOfSeq DEF Candidate
<1>2. gens' = [gens EXCEPT ![Candidate] = row] OBVIOUS
<1> HIDE DEF old
<1>3. row \in Row /\ row.state = old.state BY <1>1, NoCoverage DEF Row
<1>4. OnlyCandidate(row) BY <1>2, <1>3, ReplaceCandidate
<1>5. QED BY <1>3, <1>4 DEF old

(* A candidate is committed or failed, with what it has.                    *)
LEMMA CloseEffect ==
    ASSUME gens \in Seq(Row), Len(gens) # 0, NEW st \in {"committed", "failed"},
           gens' = [gens EXCEPT ![Candidate].state = st]
    PROVE  \E row \in Row :
             /\ OnlyCandidate(row)
             /\ row.state = st /\ row.files = gens[Candidate].files
             /\ row.exe = gens[Candidate].exe /\ row.coverage = gens[Candidate].coverage
<1> DEFINE old == gens[Candidate]
           row == [old EXCEPT !.state = st]
<1>1. old \in Row BY LenProperties, ElementOfSeq DEF Candidate
<1>2. gens' = [gens EXCEPT ![Candidate] = row] OBVIOUS
<1> HIDE DEF old
<1>3. /\ row \in Row /\ row.state = st /\ row.files = old.files
      /\ row.exe = old.exe /\ row.coverage = old.coverage
  BY <1>1 DEF Row
<1>4. OnlyCandidate(row) BY <1>2, <1>3, ReplaceCandidate
<1>5. QED BY <1>3, <1>4 DEF old

(* A cycle begins with a new row for the tree it walked.                    *)
LEMMA BeginEffect ==
    ASSUME gens \in Seq(Row), tree \in [Doc -> Content], exe \in [Provider -> Nat],
           gens' = Append(gens, [state |-> "candidate", files |-> tree, exe |-> exe,
                                 coverage |-> <<>>])
    PROVE  /\ gens' \in Seq(Row) /\ Len(gens') = Len(gens) + 1
           /\ \A g \in DOMAIN gens : gens'[g] = gens[g]
           /\ DOMAIN gens' = DOMAIN gens \cup {Candidate'}
           /\ gens'[Candidate'] = [state |-> "candidate", files |-> tree, exe |-> exe,
                                   coverage |-> <<>>]
<1> DEFINE row == [state |-> "candidate", files |-> tree, exe |-> exe, coverage |-> <<>>]
<1>1. row \in Row BY NoCoverage DEF Row
<1>2. gens' = Append(gens, row) OBVIOUS
<1> HIDE DEF row
<1>3. Len(gens) \in Nat /\ DOMAIN gens = 1 .. Len(gens) BY LenProperties
<1>4. /\ gens' \in Seq(Row) /\ Len(gens') = Len(gens) + 1
      /\ \A g \in 1 .. Len(gens) : gens'[g] = gens[g]
      /\ gens'[Len(gens) + 1] = row
  BY <1>1, <1>2, AppendProperties
<1>5. DOMAIN gens' = 1 .. Len(gens) + 1 BY <1>4, LenProperties
<1>6. QED BY <1>3, <1>4, <1>5 DEF row, Candidate

-----------------------------------------------------------------------------
(* Types, and the shape of a cycle.                                         *)

(* Plans are handled one by one; the child process exists only while its    *)
(* plan is run, and its output directory until its outcome is recorded.     *)
CycleShape ==
    /\ pc = "idle" => next = 1 /\ blocked = FALSE
    /\ pc # "idle" => Len(gens) # 0 /\ gens[Candidate].state = "candidate"
    /\ pc \in {"probe", "fingerprint", "launch", "decode"} => next \in 1 .. Len(Plans)
    /\ pc \in {"commit", "activate"} => next = Len(Plans) + 1
    /\ pc # "launch" => phase = "off" /\ child = "none" /\ verdict = "none"
    /\ pc \in {"launch", "decode"} => print \in DOMAIN output

TypeInv == TypeOK /\ gens \in Seq(Row) /\ CycleShape

(* The plan at hand, and the candidate.                                     *)
LEMMA AtHand ==
    ASSUME TypeInv
    PROVE  /\ Len(Plans) \in Nat /\ DOMAIN Plans = 1 .. Len(Plans)
           /\ \A i \in DOMAIN Plans : Plans[i].provider \in Provider /\ Plans[i].docs \subseteq Doc
           /\ next \in DOMAIN Plans => Plan.provider \in Provider /\ Plan.docs \subseteq Doc
           /\ Len(gens) \in Nat /\ DOMAIN gens = 1 .. Len(gens)
           /\ Len(gens) # 0 => Candidate \in DOMAIN gens
           /\ \A g \in DOMAIN gens : gens[g] \in Row
<1>1. Len(Plans) \in Nat /\ DOMAIN Plans = 1 .. Len(Plans)
  BY LenProperties
<1>2. \A i \in DOMAIN Plans : Plans[i] \in [provider : Provider, docs : SUBSET Doc]
  BY <1>1, ElementOfSeq
<1>3. /\ Len(gens) \in Nat /\ DOMAIN gens = 1 .. Len(gens)
      /\ \A g \in DOMAIN gens : gens[g] \in Row
  BY LenProperties, ElementOfSeq DEF TypeInv
<1>4. QED BY <1>1, <1>2, <1>3 DEF Plan, Candidate

(* The runtime's own steps keep its types.                                  *)
LEMMA RuntimeType ==
    ASSUME RuntimeTypeOK,
           Launch \/ LaunchFails \/ RuntimeStep \/ ChildExits \/ KinExits \/ Forget
             \/ UNCHANGED runtimeVars
    PROVE  RuntimeTypeOK'
BY DEF RuntimeTypeOK, Launch, LaunchFails, RuntimeStep, PollExited, StopWaiting, LeaveInGrace,
       HardKill, Reap, Capture, ChildExits, KinExits, Forget, runtimeVars, Phase, Exited,
       Child, Verdict

(* Nothing has happened yet.                                                *)
LEMMA InitType == Init => TypeInv
<1> SUFFICES ASSUME Init PROVE TypeInv OBVIOUS
<1>1. RuntimeTypeOK
  BY DEF Init, RuntimeInit, RuntimeTypeOK, Phase, Child, Verdict, Exited
<1>2. gens \in Seq(Row) /\ Len(gens) = 0 /\ DOMAIN gens = {}
  BY EmptySeq, LenProperties DEF Init
<1>3. next \in 1 .. Len(Plans) + 1
  BY LenProperties DEF Init
<1>4. /\ tree \in [Doc -> Content] /\ exe \in [Provider -> Nat]
      /\ blocked \in BOOLEAN /\ raced \in BOOLEAN /\ pc = "idle"
  BY DEF Init
<1>7. active \in 0 .. Len(gens) BY <1>2 DEF Init
<1>8. TypeOK BY <1>1, <1>2, <1>3, <1>4, <1>7 DEF TypeOK
<1>5. CycleShape BY DEF Init, RuntimeInit, CycleShape
<1>6. QED BY <1>2, <1>5, <1>8 DEF TypeInv

(* A step that leaves the rows alone.                                       *)
LEMMA RowsKept ==
    ASSUME TypeInv, RuntimeTypeOK', UNCHANGED <<gens, active>>,
           tree' \in [Doc -> Content], exe' \in [Provider -> Nat], raced' \in BOOLEAN,
           pc' \in {"idle", "probe", "fingerprint", "launch", "decode", "commit", "activate"},
           next' \in 1 .. Len(Plans) + 1, blocked' \in BOOLEAN,
           CycleShape'
    PROVE  TypeInv'
BY DEF TypeInv, TypeOK

(* A step that changes the candidate's row alone.                           *)
LEMMA RowReplaced ==
    ASSUME TypeInv, Len(gens) # 0, RuntimeTypeOK', NEW row \in Row, OnlyCandidate(row),
           active' \in {active, Candidate},
           UNCHANGED worldVars,
           pc' \in {"idle", "probe", "fingerprint", "launch", "decode", "commit", "activate"},
           next' \in 1 .. Len(Plans) + 1, blocked' \in BOOLEAN,
           CycleShape'
    PROVE  TypeInv'
<1>1. /\ gens' \in Seq(Row) /\ Len(gens') = Len(gens)
      /\ Len(gens) \in Nat /\ Candidate \in 1 .. Len(gens)
  BY AtHand DEF OnlyCandidate
<1>2. \A g \in DOMAIN gens' : gens'[g].state \in {"candidate", "committed", "failed"}
  BY <1>1, RowsTyped
<1>3. active' \in 0 .. Len(gens') BY <1>1 DEF TypeInv, TypeOK
<1>4. QED BY <1>1, <1>2, <1>3 DEF TypeInv, TypeOK, worldVars

(* The next plan, or the end of the list.                                   *)
LEMMA Advanced ==
    ASSUME TypeInv, next \in DOMAIN Plans, Advance
    PROVE  /\ next' = next + 1 /\ next' \in 1 .. Len(Plans) + 1
           /\ pc' \in {"probe", "commit"}
           /\ pc' = "probe" => next' \in 1 .. Len(Plans)
           /\ pc' = "commit" => next' = Len(Plans) + 1
BY AtHand DEF Advance

(* An outcome is recorded, and the next plan is at hand.                    *)
LEMMA RecordType ==
    ASSUME TypeInv, pc \in {"probe", "fingerprint", "launch", "decode"},
           NEW st \in Status, Cover(Plan.provider, st), Advance,
           RuntimeTypeOK', phase' = "off" /\ child' = "none" /\ verdict' = "none",
           UNCHANGED <<worldVars, active>>, blocked' \in BOOLEAN
    PROVE  TypeInv'
<1>1. /\ next \in DOMAIN Plans /\ Plan.provider \in Provider
      /\ Len(gens) # 0 /\ gens \in Seq(Row) /\ gens[Candidate].state = "candidate"
  BY AtHand DEF TypeInv, CycleShape
<1>2. PICK row \in Row : OnlyCandidate(row) /\ row.state = gens[Candidate].state
  BY <1>1, CoverEffect
<1>3. /\ pc' \in {"probe", "commit"} /\ next' \in 1 .. Len(Plans) + 1
      /\ pc' = "probe" => next' \in 1 .. Len(Plans)
      /\ pc' = "commit" => next' = Len(Plans) + 1
  BY <1>1, Advanced
<1>4. Len(gens') # 0 /\ gens'[Candidate'].state = "candidate"
  BY <1>1, <1>2 DEF OnlyCandidate
<1>5. CycleShape' BY <1>3, <1>4 DEF CycleShape
<1>6. QED BY <1>1, <1>2, <1>3, <1>5, RowReplaced

(* A cycle ends, with what it did to the candidate's row.                   *)
LEMMA EndType ==
    ASSUME TypeInv, pc # "idle", EndCycle, RuntimeTypeOK',
           phase' = "off" /\ child' = "none" /\ verdict' = "none",
           UNCHANGED gens \/ \E row \in Row : OnlyCandidate(row),
           active' \in {active, Candidate}, UNCHANGED worldVars
    PROVE  TypeInv'
<1>1. Len(gens) # 0 /\ Candidate \in 1 .. Len(gens)
  BY AtHand DEF TypeInv, CycleShape
<1>2. next' \in 1 .. Len(Plans) + 1 /\ blocked' \in BOOLEAN
  <2>1. Len(Plans) \in Nat BY AtHand
  <2>2. next' = 1 BY DEF EndCycle
  <2>3. next' \in 1 .. Len(Plans) + 1 BY <2>1, <2>2
  <2>4. blocked' \in BOOLEAN BY DEF EndCycle
  <2>5. QED BY <2>3, <2>4
<1>6. CycleShape' BY DEF EndCycle, CycleShape
<1>3. CASE UNCHANGED gens
  BY <1>1, <1>2, <1>3, <1>6, AtHand DEF EndCycle, TypeInv, TypeOK, worldVars
<1>4. CASE \E row \in Row : OnlyCandidate(row)
  BY <1>1, <1>2, <1>4, <1>6, RowReplaced DEF EndCycle
<1>5. QED BY <1>3, <1>4

(* Each outcome becomes a status of the coverage table.                     *)
LEMMA CoverageStatus ==
    ASSUME NEW outcome \in {"complete", "partial", "unavailable", "failed"}
    PROVE  /\ CoverageFor(outcome) \in Status
           /\ CoverageFor(outcome) \in Good <=> ~ Failure(outcome)
           /\ CoverageFor(outcome) = "complete" <=> outcome = "complete"
BY DEF CoverageFor, Status, Good, Failure

(* Each step before the run of a plan,                                      *)
LEMMA PrepareType ==
    ASSUME TypeInv,
           BeginCycle \/ ProbeAvailable \/ ProbeUnavailable \/ Reuse \/ PrepareRun
    PROVE  TypeInv'
<1>r. RuntimeTypeOK /\ gens \in Seq(Row) BY DEF TypeInv, TypeOK
<1>1. CASE BeginCycle
  <2>1. /\ gens' \in Seq(Row) /\ Len(gens') = Len(gens) + 1
        /\ gens'[Candidate'].state = "candidate"
    BY <1>1, <1>r, BeginEffect DEF BeginCycle, TypeInv, TypeOK
  <2>2. /\ Len(gens) \in Nat /\ Len(gens') # 0 /\ active \in 0 .. Len(gens')
        /\ \A g \in DOMAIN gens' : gens'[g].state \in {"candidate", "committed", "failed"}
    BY <1>r, <2>1, RowsTyped DEF TypeInv, TypeOK
  <2>3. /\ next' = 1 /\ pc' = (IF Plans = <<>> THEN "commit" ELSE "probe")
        /\ blocked' = FALSE
    BY <1>1 DEF BeginCycle, TypeInv, CycleShape
  <2>4. Plans = <<>> => Len(Plans) = 0 BY EmptySeq
  <2>5. Plans # <<>> => 1 \in 1 .. Len(Plans) BY EmptySeq, LenProperties, AtHand
  <2>6. CycleShape'
    <3>1. phase' = "off" /\ child' = "none" /\ verdict' = "none"
      BY <1>1 DEF BeginCycle, CycleShape, TypeInv, runtimeVars
    <3>2. pc' \in {"commit", "probe"} BY <2>3
    <3>3. /\ pc' = "probe" => next' \in 1 .. Len(Plans)
          /\ pc' = "commit" => next' = Len(Plans) + 1
      BY <2>3, <2>4, <2>5
    <3>4. QED BY <2>1, <2>2, <3>1, <3>2, <3>3 DEF CycleShape
  <2>7. TypeOK'
    BY <1>1, <1>r, <2>1, <2>2, <2>3, RuntimeType DEF BeginCycle, TypeInv, TypeOK, worldVars
  <2>8. QED BY <2>1, <2>6, <2>7 DEF TypeInv
<1>2. CASE ProbeAvailable
  <2>1. CycleShape' BY <1>2 DEF ProbeAvailable, TypeInv, CycleShape, runtimeVars, tableVars,
                                Candidate
  <2>2. QED
    BY <1>2, <1>r, <2>1, RuntimeType, RowsKept
       DEF ProbeAvailable, TypeInv, TypeOK, worldVars, tableVars
<1>3. CASE ProbeUnavailable
  <2>1. Cover(Plan.provider, CoverageFor("unavailable")) /\ CoverageFor("unavailable") \in Status
    BY <1>3, CoverageStatus DEF ProbeUnavailable
  <2>2. /\ phase' = "off" /\ child' = "none" /\ verdict' = "none"
        /\ blocked' \in BOOLEAN
    BY <1>3 DEF ProbeUnavailable, TypeInv, TypeOK, CycleShape, runtimeVars, Blocks, Failure
  <2>3. QED BY <1>3, <1>r, <2>1, <2>2, RuntimeType, RecordType DEF ProbeUnavailable
<1>4. CASE Reuse
  <2>1. /\ Cover(Plan.provider, work.exec[CurrentPrint])
        /\ work.exec[CurrentPrint] \in Status
    BY <1>4 DEF Reuse, Reusable, Status, Good
  <2>2. /\ phase' = "off" /\ child' = "none" /\ verdict' = "none"
        /\ blocked' \in BOOLEAN
    BY <1>4 DEF Reuse, TypeInv, TypeOK, CycleShape, runtimeVars
  <2>3. QED BY <1>4, <1>r, <2>1, <2>2, RuntimeType, RecordType DEF Reuse
<1>5. CASE PrepareRun
  <2>1. print' \in DOMAIN output'
    <3>1. DOMAIN InsertOrIgnore(output, CurrentPrint, NoArtifact) = DOMAIN output \cup {CurrentPrint}
      BY InsertOrIgnored
    <3>2. QED BY <1>5, <3>1 DEF PrepareRun
  <2>2. CycleShape' BY <1>5, <2>1 DEF PrepareRun, TypeInv, CycleShape, tableVars, Candidate
  <2>3. QED
    BY <1>5, <1>r, <2>2, RuntimeType, RowsKept
       DEF PrepareRun, TypeInv, TypeOK, worldVars, tableVars
<1>6. QED BY <1>1, <1>2, <1>3, <1>4, <1>5

(* each step of a run,                                                      *)
LEMMA RunType ==
    ASSUME TypeInv, Start \/ Run \/ RunFailed \/ RunError \/ RunSucceeded
    PROVE  TypeInv'
<1>r. RuntimeTypeOK /\ gens \in Seq(Row) BY DEF TypeInv, TypeOK
<1>1. CASE Start \/ Run
  <2>1. RuntimeTypeOK' BY <1>1, <1>r, RuntimeType DEF Start, Run
  <2>2. pc = "launch" /\ UNCHANGED <<worldVars, tableVars, cycleVars, output>>
    BY <1>1 DEF Start, Run
  <2>3. CycleShape'
    BY <2>2 DEF TypeInv, CycleShape, tableVars, cycleVars, Candidate
  <2>4. QED
    BY <2>1, <2>2, <2>3, RowsKept
       DEF TypeInv, TypeOK, worldVars, tableVars, cycleVars
<1>2. CASE RunFailed
  <2>1. /\ ProcessOutcome \in {"complete", "partial", "unavailable", "failed"}
        /\ CoverageFor(ProcessOutcome) \in Status
    BY CoverageStatus DEF ProcessOutcome
  <2>2. RuntimeTypeOK' BY <1>2, <1>r, RuntimeType DEF RunFailed
  <2>3. /\ phase' = "off" /\ child' = "none" /\ verdict' = "none"
        /\ Cover(Plan.provider, CoverageFor(ProcessOutcome))
        /\ pc = "launch" /\ UNCHANGED <<worldVars, active>>
    BY <1>2 DEF RunFailed, Forget, RecordOutcome
  <2>4. blocked' \in BOOLEAN
    BY <1>2 DEF RunFailed, RecordOutcome, TypeInv, TypeOK, Blocks, Failure
  <2>5. Advance BY <1>2 DEF RunFailed
  <2>6. QED BY <2>1, <2>2, <2>3, <2>4, <2>5, RecordType
<1>3. CASE RunError
  <2>1. Len(gens) # 0 BY <1>3 DEF RunError, TypeInv, CycleShape
  <2>2. \E row \in Row : OnlyCandidate(row)
    BY <1>3, <1>r, <2>1, RollbackEffect DEF RunError
  <2>3. RuntimeTypeOK' BY <1>3, <1>r, RuntimeType DEF RunError
  <2>4. /\ pc # "idle" /\ EndCycle /\ active' \in {active, Candidate}
        /\ UNCHANGED worldVars
        /\ phase' = "off" /\ child' = "none" /\ verdict' = "none"
    BY <1>3 DEF RunError, Forget
  <2>5. QED BY <2>2, <2>3, <2>4, EndType
<1>4. CASE RunSucceeded
  <2>1. RuntimeTypeOK' BY <1>4, <1>r, RuntimeType DEF RunSucceeded
  <2>2. CycleShape'
    BY <1>4 DEF RunSucceeded, Forget, TypeInv, CycleShape, tableVars, Candidate
  <2>3. QED
    BY <1>4, <2>1, <2>2, RowsKept
       DEF RunSucceeded, TypeInv, TypeOK, worldVars, tableVars
<1>5. QED BY <1>1, <1>2, <1>3, <1>4

(* each step from its output to the end of the cycle,                       *)
LEMMA DecideType ==
    ASSUME TypeInv,
           OutputRefused \/ PersistDocuments \/ CommitTables \/ Activate \/ FailCandidate
    PROVE  TypeInv'
<1>r. RuntimeTypeOK /\ gens \in Seq(Row) BY DEF TypeInv, TypeOK
<1>1. CASE OutputRefused \/ PersistDocuments
  <2>1. PICK outcome \in {"complete", "partial", "failed"} :
          \E mapped : RecordOutcome(outcome, mapped)
    BY <1>1 DEF OutputRefused, PersistDocuments
  <2>2. CoverageFor(outcome) \in Status BY CoverageStatus
  <2>3. /\ pc = "decode" /\ Advance /\ UNCHANGED <<runtimeVars, worldVars, active>>
        /\ Cover(Plan.provider, CoverageFor(outcome))
    BY <1>1, <2>1 DEF OutputRefused, PersistDocuments, RecordOutcome
  <2>4. blocked' \in BOOLEAN
    BY <2>1 DEF RecordOutcome, TypeInv, TypeOK, Blocks, Failure
  <2>5. RuntimeTypeOK' BY <1>r, <2>3, RuntimeType
  <2>6. phase' = "off" /\ child' = "none" /\ verdict' = "none"
    BY <2>3 DEF TypeInv, CycleShape, runtimeVars
  <2>7. QED BY <2>2, <2>3, <2>4, <2>5, <2>6, RecordType
<1>2. CASE CommitTables
  <2>1. RuntimeTypeOK' BY <1>2, <1>r, RuntimeType DEF CommitTables
  <2>2. CycleShape'
    BY <1>2 DEF CommitTables, TypeInv, CycleShape, runtimeVars, Candidate
  <2>3. QED
    BY <1>2, <2>1, <2>2, RowsKept DEF CommitTables, TypeInv, TypeOK, worldVars
<1>3. CASE Activate \/ FailCandidate
  <2>1. Len(gens) # 0 BY <1>3 DEF Activate, FailCandidate, TypeInv, CycleShape
  <2>2. PICK st \in {"committed", "failed"} : gens' = [gens EXCEPT ![Candidate].state = st]
    BY <1>3 DEF Activate, FailCandidate
  <2>3. \E row \in Row : OnlyCandidate(row)
    BY <1>r, <2>1, <2>2, CloseEffect
  <2>4. /\ pc = "activate" /\ EndCycle /\ active' \in {active, Candidate}
        /\ UNCHANGED <<runtimeVars, worldVars>>
    BY <1>3 DEF Activate, FailCandidate
  <2>5. RuntimeTypeOK' BY <1>r, <2>4, RuntimeType
  <2>6. phase' = "off" /\ child' = "none" /\ verdict' = "none"
    BY <2>4 DEF TypeInv, CycleShape, runtimeVars
  <2>7. QED BY <2>3, <2>4, <2>5, <2>6, EndType
<1>4. QED BY <1>1, <1>2, <1>3

(* and each step of the world around it keeps the types and the shape.      *)
LEMMA WorldType ==
    ASSUME TypeInv, World
    PROVE  TypeInv'
<1>r. RuntimeTypeOK /\ gens \in Seq(Row) BY DEF TypeInv, TypeOK
<1>1. CASE ProviderExits
  <2>1. RuntimeTypeOK' BY <1>1, <1>r, RuntimeType DEF ProviderExits
  <2>2. UNCHANGED <<worldVars, tableVars, cycleVars>> /\ ChildExits BY <1>1 DEF ProviderExits
  <2>3. DOMAIN output' = DOMAIN output BY <1>1 DEF ProviderExits
  <2>4. pc = "launch" BY <2>2 DEF ChildExits, TypeInv, CycleShape
  <2>5. CycleShape'
    BY <2>2, <2>3, <2>4 DEF TypeInv, CycleShape, tableVars, cycleVars, Candidate
  <2>6. QED
    BY <2>1, <2>2, <2>5, RowsKept DEF TypeInv, TypeOK, worldVars, tableVars, cycleVars
<1>2. CASE DescendantExits
  <2>1. RuntimeTypeOK' BY <1>2, <1>r, RuntimeType DEF DescendantExits
  <2>2. CycleShape'
    BY <1>2 DEF DescendantExits, KinExits, TypeInv, CycleShape, tableVars, cycleVars, Candidate
  <2>3. QED
    BY <1>2, <2>1, <2>2, RowsKept
       DEF DescendantExits, TypeInv, TypeOK, worldVars, tableVars, cycleVars
<1>3. CASE EditFile \/ UpgradeProvider
  <2>1. /\ UNCHANGED <<runtimeVars, cycleVars, tableVars, output>>
        /\ raced' = (raced \/ Reading)
    BY <1>3 DEF EditFile, UpgradeProvider
  <2>2. tree' \in [Doc -> Content] BY <1>3 DEF EditFile, UpgradeProvider, TypeInv, TypeOK
  <2>3. exe' \in [Provider -> Nat] BY <1>3 DEF EditFile, UpgradeProvider, TypeInv, TypeOK
  <2>4. raced' \in BOOLEAN BY <2>1 DEF Reading, TypeInv, TypeOK
  <2>5. RuntimeTypeOK' BY <1>r, <2>1, RuntimeType
  <2>6. CycleShape'
    BY <2>1 DEF TypeInv, CycleShape, runtimeVars, tableVars, cycleVars, Candidate
  <2>7. QED
    BY <2>1, <2>2, <2>3, <2>4, <2>5, <2>6, RowsKept DEF TypeInv, TypeOK, tableVars, cycleVars
<1>4. CASE Crash
  <2>1. Len(gens) # 0 BY <1>4 DEF Crash, TypeInv, CycleShape
  <2>2. UNCHANGED gens \/ \E row \in Row : OnlyCandidate(row)
    BY <1>4, <1>r, <2>1, RollbackEffect DEF Crash
  <2>3. RuntimeTypeOK' BY <1>4, <1>r, RuntimeType DEF Crash
  <2>4. /\ pc # "idle" /\ EndCycle /\ active' \in {active, Candidate}
        /\ UNCHANGED worldVars
        /\ phase' = "off" /\ child' = "none" /\ verdict' = "none"
    BY <1>4 DEF Crash, Forget
  <2>5. QED BY <2>2, <2>3, <2>4, EndType
<1>5. QED BY <1>1, <1>2, <1>3, <1>4 DEF World

(* So does every step.                                                      *)
LEMMA NextType == TypeInv /\ [Next]_vars => TypeInv'
<1> SUFFICES ASSUME TypeInv, [Next]_vars PROVE TypeInv' OBVIOUS
<1>1. CASE Next BY <1>1, PrepareType, RunType, DecideType, WorldType DEF Next, Work
<1>2. CASE UNCHANGED vars
  <2>1. UNCHANGED <<runtimeVars, cycleVars, tableVars, worldVars, output>> BY <1>2 DEF vars
  <2>2. RuntimeTypeOK' BY <2>1, RuntimeType DEF TypeInv, TypeOK
  <2>3. CycleShape'
    BY <2>1 DEF TypeInv, CycleShape, runtimeVars, tableVars, cycleVars, Candidate
  <2>4. QED
    BY <2>1, <2>2, <2>3, RowsKept DEF TypeInv, TypeOK, worldVars, tableVars, cycleVars
<1>3. QED BY <1>1, <1>2

(* The variables have their types, and a candidate is open exactly while a  *)
(* cycle of the reconcile runs.                                             *)
THEOREM TypeInvHolds == Spec => []TypeInv
BY InitType, NextType, PTL DEF Spec

-----------------------------------------------------------------------------
(* What a step does to the rows, the plan at hand and the decision.         *)

(* The plan at hand gets its outcome.  A required provider that fails       *)
(* blocks the candidate for good.                                           *)
Records(st) ==
    /\ pc \in {"probe", "fingerprint", "launch", "decode"}
    /\ Cover(Plan.provider, st)
    /\ Advance
    /\ blocked' = FALSE => blocked = FALSE /\ (Plan.provider \in Required => st \in Good)

(* The steps that record an outcome.                                        *)
Outcome == ProbeUnavailable \/ Reuse \/ RunFailed \/ OutputRefused \/ PersistDocuments

(* The cycle goes on with the same plan, or none runs.                      *)
Quiet ==
    /\ UNCHANGED <<gens, next, blocked, work>>
    /\ pc' = "idle" <=> pc = "idle"
    /\ Reading' => Reading

(* The cycle ends and publishes nothing.                                    *)
GivesUp ==
    /\ pc # "idle" /\ EndCycle
    /\ UNCHANGED gens \/ \E row \in Row : OnlyCandidate(row) /\ row.state # "committed"

(* "complete" is only recorded for an execution that is reused as such and  *)
(* for an index that mapped without a partial document.                     *)
Earned(st) ==
    st = "complete" =>
        \/ /\ pc = "fingerprint" /\ work' = work
           /\ CurrentPrint \in DOMAIN work.exec /\ work.exec[CurrentPrint] = "complete"
        \/ pc = "decode" /\ work' = Recorded("complete", DOMAIN Artifact.saw)

(* However a plan ends, one outcome is recorded, and no index is dropped.   *)
LEMMA OutcomeRecords ==
    ASSUME TypeInv, Outcome
    PROVE  (\E st \in Status : Records(st) /\ Earned(st)) /\ work.whole \subseteq work'.whole
<1> DEFINE Goal(st) == Records(st) /\ Earned(st)
<1>o. ASSUME NEW outcome \in {"complete", "partial", "unavailable", "failed"}, NEW mapped,
             RecordOutcome(outcome, mapped), Advance, pc \in {"launch", "decode"},
             outcome = "complete" => pc = "decode" /\ mapped = DOMAIN Artifact.saw
      PROVE  (\E st \in Status : Goal(st)) /\ work.whole \subseteq work'.whole
  <2>1. /\ CoverageFor(outcome) \in Status
        /\ CoverageFor(outcome) \in Good <=> ~ Failure(outcome)
        /\ CoverageFor(outcome) = "complete" <=> outcome = "complete"
    BY CoverageStatus
  <2>2. /\ Cover(Plan.provider, CoverageFor(outcome))
        /\ blocked' = (blocked \/ Blocks(Plan.provider, outcome))
        /\ work' = Recorded(outcome, mapped) /\ work.whole \subseteq work'.whole
    BY <1>o DEF RecordOutcome, Recorded
  <2>3. Records(CoverageFor(outcome))
    BY <1>o, <2>1, <2>2 DEF Records, Blocks, TypeInv, TypeOK
  <2>4. Earned(CoverageFor(outcome)) BY <1>o, <2>1, <2>2 DEF Earned
  <2>5. QED BY <2>1, <2>2, <2>3, <2>4
<1>1. CASE ProbeUnavailable
  <2>1. CoverageFor("unavailable") \in Status /\ CoverageFor("unavailable") # "complete"
        /\ Failure("unavailable")
    BY CoverageStatus DEF Failure
  <2>2. Records(CoverageFor("unavailable"))
    BY <1>1, <2>1 DEF ProbeUnavailable, Records, Blocks, TypeInv, TypeOK
  <2>3. work' = work BY <1>1 DEF ProbeUnavailable
  <2>4. QED BY <2>1, <2>2, <2>3 DEF Earned
<1>2. CASE Reuse
  <2>1. /\ work.exec[CurrentPrint] \in Good /\ work.exec[CurrentPrint] \in Status
        /\ pc = "fingerprint" /\ work' = work /\ CurrentPrint \in DOMAIN work.exec
    BY <1>2 DEF Reuse, Reusable, Good, Status
  <2>2. Records(work.exec[CurrentPrint]) BY <1>2, <2>1 DEF Reuse, Records
  <2>3. Earned(work.exec[CurrentPrint]) BY <2>1 DEF Earned
  <2>4. QED BY <2>1, <2>2, <2>3
<1>3. CASE RunFailed
  <2>1. /\ ProcessOutcome \in {"complete", "partial", "unavailable", "failed"}
        /\ RecordOutcome(ProcessOutcome, {}) /\ Advance /\ pc = "launch"
        /\ ProcessOutcome # "complete"
    BY <1>3 DEF RunFailed, ProcessOutcome, Failure
  <2>2. QED BY <1>o, <2>1
<1>4. CASE OutputRefused
  <2>1. RecordOutcome("failed", {}) /\ Advance /\ pc = "decode" BY <1>4 DEF OutputRefused
  <2>2. QED BY <1>o, <2>1
<1>5. CASE PersistDocuments
  <2>1. /\ pc = "decode" /\ Advance
        /\ \/ RecordOutcome("complete", DOMAIN Artifact.saw)
           \/ RecordOutcome("partial", DOMAIN Artifact.saw)
    BY <1>5 DEF PersistDocuments
  <2>2. QED BY <1>o, <2>1
<1>6. QED BY <1>1, <1>2, <1>3, <1>4, <1>5 DEF Outcome

(* Every step is one of these, the beginning of a cycle or its activation.  *)
LEMMA StepKinds ==
    ASSUME TypeInv, [Next]_vars
    PROVE  BeginCycle \/ Activate \/ Outcome \/ Quiet \/ GivesUp
<1>r. gens \in Seq(Row) BY DEF TypeInv
<1>1. CASE ProbeAvailable \/ PrepareRun \/ Start \/ Run \/ RunSucceeded \/ CommitTables
  BY <1>1 DEF ProbeAvailable, PrepareRun, Start, Run, RunSucceeded, CommitTables, Quiet,
              Reading, tableVars, cycleVars
<1>2. CASE ProviderExits \/ DescendantExits \/ EditFile \/ UpgradeProvider \/ UNCHANGED vars
  BY <1>2 DEF ProviderExits, DescendantExits, EditFile, UpgradeProvider, vars, Quiet,
              Reading, tableVars, cycleVars
<1>3. CASE RunError \/ Crash
  <2>1. /\ pc # "idle" /\ EndCycle /\ Len(gens) # 0
        /\ UNCHANGED gens \/ gens' = [gens EXCEPT ![Candidate].coverage = <<>>]
    BY <1>3 DEF RunError, Crash, TypeInv, CycleShape
  <2>2. gens[Candidate].state = "candidate" BY <2>1 DEF TypeInv, CycleShape
  <2>3. CASE gens' = [gens EXCEPT ![Candidate].coverage = <<>>]
    <3>1. PICK row \in Row : OnlyCandidate(row) /\ row.state = gens[Candidate].state
      BY <1>r, <2>1, <2>3, RollbackEffect
    <3>2. QED BY <2>1, <2>2, <3>1 DEF GivesUp
  <2>4. QED BY <2>1, <2>3 DEF GivesUp
<1>4. CASE FailCandidate
  <2>1. pc # "idle" /\ EndCycle /\ Len(gens) # 0 BY <1>4 DEF FailCandidate, TypeInv, CycleShape
  <2>2. PICK row \in Row : OnlyCandidate(row) /\ row.state = "failed"
    BY <1>4, <1>r, <2>1, CloseEffect DEF FailCandidate
  <2>3. QED BY <2>1, <2>2 DEF GivesUp
<1>5. QED BY <1>1, <1>2, <1>3, <1>4 DEF Next, Work, World, Outcome

(* Only an activation publishes a row, and what it had stays as it is.      *)
LEMMA PublishedRow ==
    ASSUME TypeInv, [Next]_vars, NEW g \in DOMAIN gens', gens'[g].state = "committed"
    PROVE  /\ g \in DOMAIN gens
           /\ \/ gens'[g] = gens[g]
              \/ /\ Activate /\ g = Candidate
                 /\ gens'[g].files = gens[g].files /\ gens'[g].exe = gens[g].exe
                 /\ gens'[g].coverage = gens[g].coverage
<1>r. gens \in Seq(Row) /\ Len(gens) \in Nat /\ DOMAIN gens = 1 .. Len(gens)
  BY RowsTyped DEF TypeInv
<1>o. ASSUME NEW row \in Row, OnlyCandidate(row)
      PROVE  DOMAIN gens' = DOMAIN gens /\ (g # Candidate => gens'[g] = gens[g])
             /\ gens'[Candidate] = row
  BY <1>r, <1>o, RowsTyped DEF OnlyCandidate
<1>1. CASE BeginCycle
  <2>1. /\ \A h \in DOMAIN gens : gens'[h] = gens[h]
        /\ DOMAIN gens' = DOMAIN gens \cup {Candidate'}
        /\ gens'[Candidate'].state = "candidate"
    BY <1>1, <1>r, BeginEffect DEF BeginCycle, TypeInv, TypeOK
  <2>2. QED BY <2>1
<1>2. CASE Activate
  <2>1. Len(gens) # 0 BY <1>2 DEF Activate, TypeInv, CycleShape
  <2>2. PICK row \in Row :
          /\ OnlyCandidate(row) /\ row.files = gens[Candidate].files
          /\ row.exe = gens[Candidate].exe /\ row.coverage = gens[Candidate].coverage
    BY <1>2, <1>r, <2>1, CloseEffect DEF Activate
  <2>3. QED BY <1>2, <1>o, <2>2
<1>3. CASE Outcome
  <2>1. PICK st \in Status : Records(st) BY <1>3, OutcomeRecords
  <2>2. Len(gens) # 0 /\ gens[Candidate].state = "candidate" /\ Plan.provider \in Provider
    BY <2>1, AtHand DEF Records, TypeInv, CycleShape
  <2>3. PICK row \in Row : OnlyCandidate(row) /\ row.state = gens[Candidate].state
    BY <1>r, <2>1, <2>2, CoverEffect DEF Records
  <2>4. QED BY <1>o, <2>2, <2>3
<1>4. CASE Quiet BY <1>4 DEF Quiet
<1>5. CASE GivesUp BY <1>5, <1>o DEF GivesUp
<1>6. QED BY <1>1, <1>2, <1>3, <1>4, <1>5, StepKinds

(* The candidate's row and the plan at hand after an outcome.               *)
LEMMA RecordedRow ==
    ASSUME TypeInv, NEW st \in Status, Records(st)
    PROVE  /\ next \in DOMAIN Plans /\ next' = next + 1
           /\ Candidate' = Candidate /\ DOMAIN gens' = DOMAIN gens /\ Candidate \in DOMAIN gens
           /\ gens'[Candidate].coverage = InsertOrIgnore(gens[Candidate].coverage, Plan.provider, st)
           /\ gens'[Candidate].files = gens[Candidate].files
           /\ gens'[Candidate].exe = gens[Candidate].exe
<1>1. /\ Len(gens) # 0 /\ gens \in Seq(Row) /\ Candidate \in DOMAIN gens
      /\ next \in DOMAIN Plans /\ Plan.provider \in Provider
  BY AtHand DEF Records, TypeInv, CycleShape
<1>2. PICK row \in Row :
        /\ OnlyCandidate(row) /\ row.files = gens[Candidate].files
        /\ row.exe = gens[Candidate].exe
        /\ row.coverage = InsertOrIgnore(gens[Candidate].coverage, Plan.provider, st)
  BY <1>1, CoverEffect DEF Records
<1>3. DOMAIN gens' = DOMAIN gens BY <1>1, <1>2, RowsTyped DEF OnlyCandidate
<1>4. QED BY <1>1, <1>2, <1>3 DEF OnlyCandidate, Records, Advance

-----------------------------------------------------------------------------
(* Required providers.                                                      *)

(* None of the required providers has failed, and those of the plans before *)
(* the n-th have a row.                                                     *)
RequiredUpTo(cov, n) ==
    \A p \in Required :
        /\ p \in DOMAIN cov => cov[p] \in Good
        /\ \A i \in 1 .. n - 1 : Plans[i].provider = p => p \in DOMAIN cov

RequiredSoFar ==
    pc # "idle" /\ blocked = FALSE => RequiredUpTo(gens[Candidate].coverage, next)

RequiredInv == RequiredSoFar /\ RequiredIsPresent

(* One more outcome, of a provider that is not required or has not failed.  *)
LEMMA OneMore ==
    ASSUME NEW cov, NEW n \in Nat, RequiredUpTo(cov, n), NEW st,
           Plans[n].provider \in Required => st \in Good
    PROVE  RequiredUpTo(InsertOrIgnore(cov, Plans[n].provider, st), n + 1)
<1> DEFINE q == Plans[n].provider
           new == InsertOrIgnore(cov, q, st)
<1>1. /\ DOMAIN new = DOMAIN cov \cup {q}
      /\ \A x \in DOMAIN cov : new[x] = cov[x]
      /\ q \notin DOMAIN cov => new[q] = st
  BY InsertOrIgnored
<1> HIDE DEF new
<1> SUFFICES ASSUME NEW p \in Required
             PROVE  /\ p \in DOMAIN new => new[p] \in Good
                    /\ \A i \in 1 .. n + 1 - 1 : Plans[i].provider = p => p \in DOMAIN new
  BY DEF RequiredUpTo, new
<1>2. p \in DOMAIN new => new[p] \in Good
  BY <1>1 DEF RequiredUpTo
<1>3. ASSUME NEW i \in 1 .. n + 1 - 1, Plans[i].provider = p PROVE p \in DOMAIN new
  <2>1. i \in 1 .. n - 1 \/ i = n OBVIOUS
  <2>2. QED BY <1>1, <1>3, <2>1 DEF RequiredUpTo
<1>4. QED BY <1>2, <1>3

(* Nobody has failed before the first plan.                                 *)
LEMMA InitRequired == Init => RequiredInv
<1> SUFFICES ASSUME Init PROVE RequiredInv OBVIOUS
<1>1. DOMAIN gens = {} BY NoCoverage DEF Init
<1>2. QED BY <1>1 DEF Init, RequiredInv, RequiredSoFar, RequiredIsPresent

(* What is known of the candidate's required providers stays true,          *)
LEMMA NextRequiredSoFar == TypeInv /\ RequiredSoFar /\ [Next]_vars => RequiredSoFar'
<1> SUFFICES ASSUME TypeInv, RequiredSoFar, [Next]_vars, pc' # "idle", blocked' = FALSE
             PROVE  RequiredUpTo(gens'[Candidate'].coverage, next')
  BY DEF RequiredSoFar, RequiredUpTo, Candidate
<1>1. CASE BeginCycle
  <2>1. gens'[Candidate'].coverage = <<>>
    BY <1>1, BeginEffect DEF BeginCycle, TypeInv, TypeOK
  <2>2. next' = 1 BY <1>1 DEF BeginCycle, TypeInv, CycleShape
  <2>3. 1 .. next' - 1 = {} BY <2>2
  <2>4. QED BY <2>1, <2>3, NoCoverage DEF RequiredUpTo
<1>2. CASE Outcome
  <2>1. PICK st \in Status : Records(st) BY <1>2, OutcomeRecords
  <2>2. /\ next \in DOMAIN Plans /\ next' = next + 1 /\ Candidate' = Candidate
        /\ gens'[Candidate].coverage = InsertOrIgnore(gens[Candidate].coverage, Plan.provider, st)
    BY <2>1, RecordedRow
  <2>3. next \in Nat BY <2>2, AtHand
  <2>4. RequiredUpTo(gens[Candidate].coverage, next)
    BY <2>1 DEF Records, RequiredSoFar
  <2>5. Plan.provider \in Required => st \in Good BY <2>1 DEF Records
  <2>6. RequiredUpTo(InsertOrIgnore(gens[Candidate].coverage, Plan.provider, st), next + 1)
    BY <2>3, <2>4, <2>5, OneMore DEF Plan
  <2>7. QED BY <2>2, <2>6
<1>3. CASE Quiet BY <1>3 DEF Quiet, RequiredSoFar, Candidate
<1>4. CASE Activate \/ GivesUp BY <1>4 DEF Activate, GivesUp, EndCycle
<1>5. QED BY <1>1, <1>2, <1>3, <1>4, StepKinds

(* so that an activation has all of them.                                   *)
LEMMA NextRequired == TypeInv /\ RequiredInv /\ [Next]_vars => RequiredInv'
<1> SUFFICES ASSUME TypeInv, RequiredInv, [Next]_vars PROVE RequiredInv' OBVIOUS
<1>1. RequiredSoFar' BY NextRequiredSoFar DEF RequiredInv
<1>2. ASSUME NEW g \in DOMAIN gens', gens'[g].state = "committed",
             NEW i \in DOMAIN Plans, Plans[i].provider \in Required
      PROVE  /\ Plans[i].provider \in DOMAIN gens'[g].coverage
             /\ gens'[g].coverage[Plans[i].provider] \in Good
  <2>1. CASE g \in DOMAIN gens /\ gens'[g] = gens[g]
    BY <1>2, <2>1 DEF RequiredInv, RequiredIsPresent, Good
  <2>2. CASE Activate /\ g = Candidate /\ gens'[g].coverage = gens[g].coverage
    <3>1. pc # "idle" /\ blocked = FALSE /\ next = Len(Plans) + 1
      BY <2>2 DEF Activate, TypeInv, TypeOK, CycleShape
    <3>2. RequiredUpTo(gens[g].coverage, Len(Plans) + 1)
      BY <2>2, <3>1 DEF RequiredInv, RequiredSoFar
    <3>3. i \in 1 .. Len(Plans) + 1 - 1 BY AtHand
    <3>4. QED BY <1>2, <2>2, <3>2, <3>3 DEF RequiredUpTo
  <2>3. QED BY <1>2, <2>1, <2>2, PublishedRow
<1>3. RequiredIsPresent' BY <1>2 DEF RequiredIsPresent, Good
<1>4. QED BY <1>1, <1>3 DEF RequiredInv

(* A published generation has evidence from every required provider that was  *)
(* planned for: decide_activation lets no candidate pass  *)
(* that misses one, however many providers, scopes and cycles there are,    *)
(* and whatever failed, timed out or crashed on the way.                    *)
THEOREM RequiredPresent == Spec => []RequiredIsPresent
<1>1. RequiredInv => RequiredIsPresent BY DEF RequiredInv
<1>2. QED BY <1>1, TypeInvHolds, InitRequired, NextRequired, PTL DEF Spec

-----------------------------------------------------------------------------
(* The facts and the text they were read from.                              *)

(* While a cycle reads, the world is as its walk found it.                  *)
WorldRead == Reading => tree = gens[Candidate].files /\ exe = gens[Candidate].exe

(* The fingerprint at hand is the one of the candidate.                     *)
PrintRead ==
    /\ pc = "fingerprint" => print.exe = gens[Candidate].exe[Plan.provider]
    /\ pc \in {"launch", "decode"} =>
          print = Fingerprint(Plan, gens[Candidate].files, gens[Candidate].exe)

(* An output on disk, whichever cycle left it there, is of the text and by  *)
(* the executable its directory is named for.                               *)
OutputRead ==
    \A k \in DOMAIN output :
        /\ output[k] = [kind |-> output[k].kind, saw |-> output[k].saw, exe |-> output[k].exe]
        /\ output[k].kind \in {"index", "partial"} =>
              /\ DOMAIN output[k].saw \subseteq k.plan.docs
              /\ \A d \in DOMAIN output[k].saw : output[k].saw[d] = k.files[d]
              /\ output[k].exe = k.exe

FactsRead(table) == \A f \in table.facts : f.saw = f.text

FactsInv ==
    raced = FALSE => WorldRead /\ PrintRead /\ OutputRead /\ FactsRead(db) /\ FactsRead(work)

(* The world either rests in a step, or moves alone.                        *)
LEMMA WorldSteps ==
    ASSUME TypeInv, [Next]_vars, raced' = FALSE
    PROVE  /\ raced = FALSE
           /\ \/ UNCHANGED <<tree, exe>>
              \/ ~ Reading /\ UNCHANGED <<runtimeVars, cycleVars, tableVars, output>>
<1>1. CASE EditFile \/ UpgradeProvider
  BY <1>1 DEF EditFile, UpgradeProvider, TypeInv, TypeOK
<1>2. CASE BeginCycle \/ UNCHANGED vars BY <1>2 DEF BeginCycle, vars, worldVars
<1>3. CASE Work
  BY <1>3 DEF Work, ProbeAvailable, ProbeUnavailable, Reuse, PrepareRun, Start, Run, RunFailed,
              RunError, RunSucceeded, OutputRefused, PersistDocuments, CommitTables, Activate,
              FailCandidate, worldVars
<1>4. CASE ProviderExits \/ DescendantExits \/ Crash
  BY <1>4 DEF ProviderExits, DescendantExits, Crash, worldVars
<1>5. QED BY <1>1, <1>2, <1>3, <1>4 DEF Next, World

(* A cycle that was not disturbed reads what its candidate says,            *)
LEMMA NextWorldRead ==
    ASSUME TypeInv, [Next]_vars, raced' = FALSE, WorldRead
    PROVE  WorldRead'
<1> SUFFICES ASSUME Reading'
             PROVE  tree' = gens'[Candidate'].files /\ exe' = gens'[Candidate'].exe
  BY DEF WorldRead, Reading, Candidate
<1>w. \/ UNCHANGED <<tree, exe>>
      \/ ~ Reading /\ UNCHANGED <<runtimeVars, cycleVars, tableVars, output>>
  BY WorldSteps
<1>1. CASE BeginCycle
  <2>1. gens'[Candidate'] = [state |-> "candidate", files |-> tree, exe |-> exe, coverage |-> <<>>]
    BY <1>1, BeginEffect DEF BeginCycle, TypeInv, TypeOK
  <2>2. gens'[Candidate'].files = tree /\ gens'[Candidate'].exe = exe BY <2>1
  <2>3. tree' = tree /\ exe' = exe BY <1>1 DEF BeginCycle, worldVars
  <2>4. QED BY <2>2, <2>3
<1>2. CASE Outcome
  <2>1. PICK st \in Status : Records(st) BY <1>2, OutcomeRecords
  <2>2. Reading BY <2>1 DEF Records, Reading
  <2>3. /\ Candidate' = Candidate
        /\ gens'[Candidate].files = gens[Candidate].files
        /\ gens'[Candidate].exe = gens[Candidate].exe
    BY <2>1, RecordedRow
  <2>4. UNCHANGED <<tree, exe>> BY <1>w, <2>2
  <2>5. QED BY <2>2, <2>3, <2>4 DEF WorldRead
<1>3. CASE Quiet BY <1>3, <1>w DEF Quiet, WorldRead, Candidate
<1>4. CASE Activate \/ GivesUp BY <1>4 DEF Activate, GivesUp, EndCycle, Reading
<1>5. QED BY <1>1, <1>2, <1>3, <1>4, StepKinds

(* fingerprints it,                                                         *)
LEMMA NextPrintRead ==
    ASSUME TypeInv, [Next]_vars, raced = FALSE, WorldRead, PrintRead
    PROVE  PrintRead'
<1>1. CASE pc' \notin {"fingerprint", "launch", "decode"} BY <1>1 DEF PrintRead
<1>2. CASE ProbeAvailable
  <2>1. /\ print' = Fingerprint(Plan, gens[Candidate].files, gens[Candidate].exe)
        /\ pc' = "fingerprint" /\ UNCHANGED <<gens, next>>
    BY <1>2 DEF ProbeAvailable, WorldRead, Reading, tableVars
  <2>2. QED BY <2>1 DEF PrintRead, Fingerprint, Plan, Candidate
<1>3. CASE PrepareRun
  <2>1. /\ print' = CurrentPrint /\ pc' = "launch" /\ UNCHANGED <<gens, next>>
        /\ print.exe = gens[Candidate].exe[Plan.provider] /\ tree = gens[Candidate].files
    BY <1>3 DEF PrepareRun, WorldRead, Reading, PrintRead, tableVars
  <2>2. CurrentPrint = Fingerprint(Plan, gens[Candidate].files, gens[Candidate].exe)
    BY <2>1 DEF CurrentPrint, Fingerprint
  <2>3. QED BY <2>1, <2>2 DEF PrintRead, Fingerprint, Plan, Candidate
<1>4. CASE pc' = pc /\ UNCHANGED <<gens, next, print>>
  BY <1>4 DEF PrintRead, Fingerprint, Plan, Candidate
<1>5. CASE BeginCycle BY <1>1, <1>5 DEF BeginCycle
<1>6. CASE Activate \/ GivesUp BY <1>1, <1>6 DEF Activate, GivesUp, EndCycle
<1>7. CASE Outcome
  <2>1. PICK st \in Status : Records(st) BY <1>7, OutcomeRecords
  <2>2. QED BY <1>1, <2>1 DEF Records, Advance
<1>8. CASE RunSucceeded
  <2>1. pc = "launch" /\ pc' = "decode" /\ UNCHANGED <<gens, next, print>>
    BY <1>8 DEF RunSucceeded, tableVars
  <2>2. QED BY <2>1 DEF PrintRead, Fingerprint, Plan, Candidate
<1>12. CASE Start \/ Run BY <1>4, <1>12 DEF Start, Run, tableVars, cycleVars
<1>13. CASE CommitTables BY <1>1, <1>13 DEF CommitTables
<1>9. CASE ProviderExits \/ DescendantExits \/ EditFile \/ UpgradeProvider \/ UNCHANGED vars
  BY <1>4, <1>9 DEF ProviderExits, DescendantExits, EditFile, UpgradeProvider, vars,
                    tableVars, cycleVars
<1>10. CASE RunError \/ Crash \/ FailCandidate
  BY <1>1, <1>10 DEF RunError, Crash, FailCandidate, EndCycle
<1>11. QED BY <1>2, <1>3, <1>5, <1>6, <1>7, <1>8, <1>9, <1>10, <1>12,
              <1>13 DEF Next, Work, World, Outcome

(* and what the provider leaves is of it.                                   *)
LEMMA NextOutputRead ==
    ASSUME TypeInv, [Next]_vars, raced = FALSE, WorldRead, PrintRead, OutputRead
    PROVE  OutputRead'
<1>1. CASE UNCHANGED output BY <1>1 DEF OutputRead
<1>2. CASE CleanUp BY <1>2 DEF CleanUp, OutputRead
<1>3. CASE PrepareRun
  <2>1. /\ DOMAIN output' = DOMAIN output \cup {CurrentPrint}
        /\ \A k \in DOMAIN output : output'[k] = output[k]
        /\ CurrentPrint \notin DOMAIN output => output'[CurrentPrint] = NoArtifact
    <3>1. output' = InsertOrIgnore(output, CurrentPrint, NoArtifact) BY <1>3 DEF PrepareRun
    <3> DEFINE new == InsertOrIgnore(output, CurrentPrint, NoArtifact)
    <3>2. /\ DOMAIN new = DOMAIN output \cup {CurrentPrint}
          /\ \A k \in DOMAIN output : new[k] = output[k]
          /\ CurrentPrint \notin DOMAIN output => new[CurrentPrint] = NoArtifact
      BY InsertOrIgnored
    <3> HIDE DEF new
    <3>3. QED BY <3>1, <3>2 DEF new
  <2>2. /\ NoArtifact = [kind |-> NoArtifact.kind, saw |-> NoArtifact.saw, exe |-> NoArtifact.exe]
        /\ NoArtifact.kind \notin {"index", "partial"}
    BY DEF NoArtifact
  <2>3. QED BY <2>1, <2>2 DEF OutputRead
<1>4. CASE ProviderExits /\ output' # output
  <2>1. pc = "launch" /\ print \in DOMAIN output
    BY <1>4 DEF ProviderExits, ChildExits, TypeInv, CycleShape
  <2>2. /\ print.files = Restrict(tree, Plan.docs) /\ print.exe = exe[Plan.provider]
        /\ print.plan.docs = Plan.docs
    BY <2>1 DEF PrintRead, WorldRead, Reading, Fingerprint
  <2>3. PICK new : /\ output' = [output EXCEPT ![print] = new]
                   /\ new = [kind |-> new.kind, saw |-> new.saw, exe |-> new.exe]
                   /\ new.kind \in {"index", "partial"} =>
                        /\ new.exe = exe[Plan.provider]
                        /\ \E docs \in SUBSET Plan.docs : new.saw = Restrict(tree, docs)
    <3>1. CASE output' = [output EXCEPT ![print].kind = "unusable"]
      <4> DEFINE new == [output[print] EXCEPT !.kind = "unusable"]
      <4>1. output' = [output EXCEPT ![print] = new] BY <3>1
      <4>2. output[print] = [kind |-> output[print].kind, saw |-> output[print].saw,
                             exe |-> output[print].exe]
        BY <2>1 DEF OutputRead
      <4>3. /\ new = [kind |-> new.kind, saw |-> new.saw, exe |-> new.exe]
            /\ new.kind = "unusable"
        BY <4>2
      <4>4. QED BY <4>1, <4>3
    <3>2. CASE \E kind \in {"index", "partial"}, docs \in SUBSET Plan.docs :
                 output' = [output EXCEPT ![print] =
                   [kind |-> kind, saw |-> Restrict(tree, docs), exe |-> exe[Plan.provider]]]
      <4>1. PICK kind \in {"index", "partial"}, docs \in SUBSET Plan.docs :
                 output' = [output EXCEPT ![print] =
                   [kind |-> kind, saw |-> Restrict(tree, docs), exe |-> exe[Plan.provider]]]
        BY <3>2
      <4> DEFINE new == [kind |-> kind, saw |-> Restrict(tree, docs), exe |-> exe[Plan.provider]]
      <4>2. /\ new = [kind |-> new.kind, saw |-> new.saw, exe |-> new.exe]
            /\ new.saw = Restrict(tree, docs) /\ new.exe = exe[Plan.provider]
        OBVIOUS
      <4>3. QED BY <4>1, <4>2
    <3>3. QED BY <1>4, <3>1, <3>2 DEF ProviderExits
  <2>4. /\ DOMAIN output' = DOMAIN output /\ output'[print] = new
        /\ \A k \in DOMAIN output : k # print => output'[k] = output[k]
    BY <2>1, <2>3
  <2>5. new.kind \in {"index", "partial"} =>
          /\ DOMAIN new.saw \subseteq print.plan.docs
          /\ \A d \in DOMAIN new.saw : new.saw[d] = print.files[d]
          /\ new.exe = print.exe
    BY <2>2, <2>3 DEF Restrict
  <2>6. QED BY <2>3, <2>4, <2>5 DEF OutputRead
<1>5. CASE RunFailed \/ RunError \/ OutputRefused \/ PersistDocuments
  BY <1>2, <1>5 DEF RunFailed, RunError, OutputRefused, PersistDocuments
<1>6. CASE BeginCycle \/ ProbeAvailable \/ ProbeUnavailable \/ Reuse \/ Start \/ Run \/ RunSucceeded
           \/ CommitTables \/ Activate \/ FailCandidate
  BY <1>1, <1>6 DEF BeginCycle, ProbeAvailable, ProbeUnavailable, Reuse, Start, Run,
                    RunSucceeded, CommitTables, Activate, FailCandidate
<1>7. CASE DescendantExits \/ EditFile \/ UpgradeProvider \/ Crash \/ UNCHANGED vars
  BY <1>1, <1>7 DEF DescendantExits, EditFile, UpgradeProvider, Crash, vars
<1>8. QED BY <1>1, <1>3, <1>4, <1>5, <1>6, <1>7 DEF Next, Work, World

(* The facts of an index hang on the text they were read from, by the       *)
(* executable the walk found.                                               *)
LEMMA FactsOfRead ==
    ASSUME TypeInv, PrintRead, OutputRead, pc = "decode", Artifact.kind \in {"index", "partial"}
    PROVE  /\ DOMAIN Artifact.saw \subseteq Plan.docs
           /\ FactsOf(DOMAIN Artifact.saw) =
                {Fact(Plan.provider, d, gens[Candidate].files[d], gens[Candidate].files[d],
                      gens[Candidate].exe[Plan.provider]) : d \in DOMAIN Artifact.saw}
<1>1. print \in DOMAIN output BY DEF TypeInv, CycleShape
<1>2. /\ DOMAIN Artifact.saw \subseteq print.plan.docs
      /\ \A d \in DOMAIN Artifact.saw : Artifact.saw[d] = print.files[d]
      /\ Artifact.exe = print.exe
  BY <1>1 DEF OutputRead, Artifact
<1>3. /\ print.plan = Plan /\ print.files = Restrict(gens[Candidate].files, Plan.docs)
      /\ print.exe = gens[Candidate].exe[Plan.provider]
  BY DEF PrintRead, Fingerprint
<1>4. \A d \in DOMAIN Artifact.saw : Artifact.saw[d] = gens[Candidate].files[d]
  BY <1>2, <1>3 DEF Restrict
<1>5. QED BY <1>2, <1>3, <1>4 DEF FactsOf

(* The tables after a step: rolled back, committed, as they were, or with   *)
(* an outcome and its facts.                                                *)
LEMMA TableSteps ==
    ASSUME TypeInv, [Next]_vars
    PROVE  \/ UNCHANGED <<db, work>>
           \/ db' = work' /\ db' \in {db, work}
           \/ /\ db' = db
              /\ \E outcome : outcome # "complete" /\ RecordOutcome(outcome, {})
           \/ db' = db /\ PersistDocuments
<1>1. CASE BeginCycle \/ ProbeAvailable \/ ProbeUnavailable \/ Reuse \/ PrepareRun \/ Start \/ Run
           \/ RunError \/ RunSucceeded \/ CommitTables \/ Activate \/ FailCandidate
  BY <1>1 DEF BeginCycle, ProbeAvailable, ProbeUnavailable, Reuse, PrepareRun, Start, Run,
              RunError, RunSucceeded, CommitTables, Activate, FailCandidate, tableVars
<1>2. CASE World \/ UNCHANGED vars
  BY <1>2 DEF World, ProviderExits, DescendantExits, EditFile, UpgradeProvider, Crash, vars,
              tableVars
<1>3. CASE RunFailed \/ OutputRefused BY <1>3 DEF RunFailed, OutputRefused, Failure
<1>4. CASE PersistDocuments BY <1>4 DEF PersistDocuments
<1>5. QED BY <1>1, <1>2, <1>3, <1>4 DEF Next, Work

(* No table gets a fact of another text.                                    *)
LEMMA NextFactsRead ==
    ASSUME TypeInv, [Next]_vars, PrintRead, OutputRead, FactsRead(db), FactsRead(work)
    PROVE  FactsRead(db') /\ FactsRead(work')
<1>1. CASE UNCHANGED <<db, work>> BY <1>1
<1>2. CASE db' = work' /\ db' \in {db, work} BY <1>2
<1>3. CASE db' = db /\ \E outcome : outcome # "complete" /\ RecordOutcome(outcome, {})
  <2>1. work'.facts = work.facts BY <1>3 DEF RecordOutcome, Recorded, FactsOf
  <2>2. QED BY <1>3, <2>1 DEF FactsRead
<1>4. CASE db' = db /\ PersistDocuments
  <2>1. work'.facts = work.facts \cup FactsOf(DOMAIN Artifact.saw)
    BY <1>4 DEF PersistDocuments, RecordOutcome, Recorded
  <2>2. FactsOf(DOMAIN Artifact.saw) =
          {Fact(Plan.provider, d, gens[Candidate].files[d], gens[Candidate].files[d],
                gens[Candidate].exe[Plan.provider]) : d \in DOMAIN Artifact.saw}
    BY <1>4, FactsOfRead DEF PersistDocuments
  <2>3. \A f \in FactsOf(DOMAIN Artifact.saw) : f.saw = f.text BY <2>2 DEF Fact
  <2>4. QED BY <1>4, <2>1, <2>3 DEF FactsRead
<1>5. QED BY <1>1, <1>2, <1>3, <1>4, TableSteps

(* There is no fact and no output yet.                                      *)
LEMMA InitFacts == Init => FactsInv
<1> SUFFICES ASSUME Init PROVE FactsInv OBVIOUS
<1>1. DOMAIN output = {} BY NoCoverage DEF Init
<1>2. db.facts = {} /\ work.facts = {} /\ pc = "idle" BY DEF Init, Empty
<1>3. QED BY <1>1, <1>2 DEF FactsInv, WorldRead, Reading, PrintRead, OutputRead, FactsRead

(* An undisturbed step keeps all of it.                                     *)
LEMMA NextFacts == TypeInv /\ FactsInv /\ [Next]_vars => FactsInv'
<1> SUFFICES ASSUME TypeInv, FactsInv, [Next]_vars, raced' = FALSE
             PROVE  WorldRead' /\ PrintRead' /\ OutputRead' /\ FactsRead(db') /\ FactsRead(work')
  BY DEF FactsInv, FactsRead
<1>1. raced = FALSE BY WorldSteps
<1>2. WorldRead /\ PrintRead /\ OutputRead /\ FactsRead(db) /\ FactsRead(work)
  BY <1>1 DEF FactsInv
<1>3. QED BY <1>1, <1>2, NextWorldRead, NextPrintRead, NextOutputRead, NextFactsRead

(* No fact hangs on a text other than the one its provider read, whether it *)
(* was decoded from the output of this cycle or from what an earlier or a   *)
(* crashed one left under the same fingerprint: without a change of the     *)
(* world while a cycle reads it, the name of an output directory tells its  *)
(* text.                                                                    *)
THEOREM FactsMatch == Spec => []FactsMatchTheirRevision
<1>1. FactsInv /\ TypeInv => FactsMatchTheirRevision
  BY DEF FactsInv, TypeInv, TypeOK, FactsRead, FactsMatchTheirRevision
<1>2. QED BY <1>1, TypeInvHolds, InitFacts, NextFacts, PTL DEF Spec

-----------------------------------------------------------------------------
(* Complete coverage has its index, and the index its facts.                *)

(* A row that says complete has an index of its inputs behind it.           *)
Backed(row, i, tables) ==
    LET p == Plans[i].provider IN
    /\ p \in DOMAIN row.coverage
    /\ row.coverage[p] = "complete"
    => \E w \in tables.whole : w.print = Fingerprint(Plans[i], row.files, row.exe)

(* So has a recorded execution, which is what makes it reusable.            *)
ExecBacked(table) ==
    \A k \in DOMAIN table.exec : table.exec[k] = "complete" => \E w \in table.whole : w.print = k

(* The documents of an index are files of its scope, and have their facts.  *)
IndexFacts(table) ==
    \A w \in table.whole : \A d \in w.docs :
        /\ d \in w.print.plan.docs
        /\ Fact(w.print.plan.provider, d, w.print.files[d], w.print.files[d], w.print.exe)
             \in table.facts

Settled == pc \in {"idle", "activate"} => db = work

TablesBacked ==
    /\ ExecBacked(db) /\ ExecBacked(work)
    /\ IndexFacts(db) /\ IndexFacts(work)
    /\ db.whole \subseteq work.whole
    /\ Settled

(* The first scope of a provider writes its row, the later ones find it.    *)
CandidateBacked ==
    pc # "idle" =>
        /\ \A i \in DOMAIN Plans : i < next =>
              /\ Plans[i].provider \in DOMAIN gens[Candidate].coverage
              /\ FirstPlan(i) => Backed(gens[Candidate], i, work)
        /\ \A i \in DOMAIN Plans : i >= next /\ FirstPlan(i) =>
              Plans[i].provider \notin DOMAIN gens[Candidate].coverage

PublishedBacked ==
    \A g \in DOMAIN gens : gens[g].state = "committed" =>
        \A i \in DOMAIN Plans : FirstPlan(i) => Backed(gens[g], i, db)

CoverInv == raced = FALSE => TablesBacked /\ CandidateBacked /\ PublishedBacked

(* The index behind a row has the facts of the row's own files.             *)
LEMMA BackedSupports ==
    ASSUME NEW row, NEW i, NEW table, IndexFacts(table), Backed(row, i, table),
           Plans[i].provider \in DOMAIN row.coverage,
           row.coverage[Plans[i].provider] = "complete"
    PROVE  Supported(row, i, table)
<1> DEFINE k == Fingerprint(Plans[i], row.files, row.exe)
<1>1. /\ k.plan = Plans[i] /\ k.exe = row.exe[Plans[i].provider]
      /\ \A d \in Plans[i].docs : k.files[d] = row.files[d]
  BY DEF Fingerprint, Restrict
<1>2. ASSUME NEW w \in table.whole, w.print = k, NEW d \in w.docs
      PROVE  Fact(Plans[i].provider, d, row.files[d], row.files[d], row.exe[Plans[i].provider])
               \in table.facts
  <2>1. /\ d \in k.plan.docs
        /\ Fact(k.plan.provider, d, k.files[d], k.files[d], k.exe) \in table.facts
    BY <1>2 DEF IndexFacts
  <2> HIDE DEF k
  <2>2. QED BY <1>1, <2>1
<1>3. \E w \in table.whole : w.print = k BY DEF Backed
<1>4. QED BY <1>2, <1>3 DEF Supported

(* The transaction and the database are the same before and after it.       *)
LEMMA NextSettled ==
    ASSUME TypeInv, [Next]_vars, Settled
    PROVE  Settled'
<1>1. CASE BeginCycle \/ ProbeAvailable \/ PrepareRun \/ RunSucceeded
  BY <1>1 DEF BeginCycle, ProbeAvailable, PrepareRun, RunSucceeded, Settled
<1>2. CASE Start \/ Run \/ ProviderExits \/ DescendantExits \/ EditFile \/ UpgradeProvider
           \/ UNCHANGED vars
  BY <1>2 DEF Start, Run, ProviderExits, DescendantExits, EditFile, UpgradeProvider, vars,
              tableVars, cycleVars, Settled
<1>3. CASE Outcome
  <2>1. PICK st \in Status : Records(st) BY <1>3, OutcomeRecords
  <2>2. QED BY <2>1 DEF Records, Advance, Settled
<1>4. CASE CommitTables \/ RunError \/ Crash BY <1>4 DEF CommitTables, RunError, Crash, Settled
<1>5. CASE Activate \/ FailCandidate BY <1>5 DEF Activate, FailCandidate, Settled
<1>6. QED BY <1>1, <1>2, <1>3, <1>4, <1>5 DEF Next, Work, World, Outcome

(* A complete execution is recorded with its index, and an index with its   *)
(* facts.                                                                   *)
LEMMA NextTables ==
    ASSUME TypeInv, [Next]_vars, PrintRead, OutputRead, TablesBacked
    PROVE  TablesBacked'
<1>s. Settled' BY NextSettled DEF TablesBacked
<1>0. /\ ExecBacked(db) /\ ExecBacked(work) /\ IndexFacts(db) /\ IndexFacts(work)
      /\ db.whole \subseteq work.whole
  BY DEF TablesBacked
<1>1. CASE UNCHANGED <<db, work>> BY <1>0, <1>1, <1>s DEF TablesBacked, ExecBacked, IndexFacts
<1>2. CASE db' = work' /\ db' \in {db, work}
  BY <1>0, <1>2, <1>s DEF TablesBacked, ExecBacked, IndexFacts
<1>r. ASSUME NEW outcome, NEW mapped, RecordOutcome(outcome, mapped), db' = db,
             outcome = "complete" =>
                \A d \in mapped :
                    /\ d \in print.plan.docs
                    /\ Fact(print.plan.provider, d, print.files[d], print.files[d], print.exe)
                         \in FactsOf(mapped)
      PROVE  TablesBacked'
  <2> DEFINE new == InsertOrIgnore(work.exec, print, outcome)
             entry == [print |-> print, docs |-> mapped]
  <2>1. /\ DOMAIN new = DOMAIN work.exec \cup {print}
        /\ \A k \in DOMAIN work.exec : new[k] = work.exec[k]
        /\ print \notin DOMAIN work.exec => new[print] = outcome
    BY InsertOrIgnored
  <2> HIDE DEF new
  <2>2. /\ work'.exec = new /\ work'.facts = work.facts \cup FactsOf(mapped)
        /\ work'.whole = work.whole \cup (IF outcome = "complete" THEN {entry} ELSE {})
    BY <1>r DEF RecordOutcome, Recorded, new
  <2>3. entry.print = print /\ entry.docs = mapped OBVIOUS
  <2> HIDE DEF entry
  <2>4. work.whole \subseteq work'.whole BY <2>2
  <2>5. ASSUME NEW k \in DOMAIN new, new[k] = "complete" PROVE \E w \in work'.whole : w.print = k
    <3>1. CASE k \in DOMAIN work.exec BY <1>0, <2>1, <2>4, <2>5, <3>1 DEF ExecBacked
    <3>2. CASE k \notin DOMAIN work.exec BY <2>1, <2>2, <2>3, <2>5, <3>2
    <3>3. QED BY <3>1, <3>2
  <2>6. ASSUME NEW w \in work'.whole, NEW d \in w.docs
        PROVE  /\ d \in w.print.plan.docs
               /\ Fact(w.print.plan.provider, d, w.print.files[d], w.print.files[d], w.print.exe)
                    \in work'.facts
    <3>1. CASE w \in work.whole BY <1>0, <2>2, <2>6, <3>1 DEF IndexFacts
    <3>2. CASE outcome = "complete" /\ w = entry BY <1>r, <2>2, <2>3, <2>6, <3>2
    <3>3. QED BY <2>2, <2>6, <3>1, <3>2
  <2>7. ExecBacked(work') /\ IndexFacts(work') BY <2>2, <2>5, <2>6 DEF ExecBacked, IndexFacts
  <2>8. ExecBacked(db') /\ IndexFacts(db') /\ db'.whole \subseteq work'.whole
    BY <1>0, <1>r, <2>4
  <2>9. QED BY <1>s, <2>4, <2>7, <2>8 DEF TablesBacked, ExecBacked, IndexFacts
<1>3. CASE db' = db /\ \E outcome : outcome # "complete" /\ RecordOutcome(outcome, {})
  BY <1>3, <1>r
<1>4. CASE db' = db /\ PersistDocuments
  <2>1. /\ pc = "decode" /\ Artifact.kind \in {"index", "partial"}
        /\ \E outcome : RecordOutcome(outcome, DOMAIN Artifact.saw)
    BY <1>4 DEF PersistDocuments
  <2>2. /\ DOMAIN Artifact.saw \subseteq Plan.docs
        /\ FactsOf(DOMAIN Artifact.saw) =
             {Fact(Plan.provider, d, gens[Candidate].files[d], gens[Candidate].files[d],
                   gens[Candidate].exe[Plan.provider]) : d \in DOMAIN Artifact.saw}
    BY <2>1, FactsOfRead
  <2>3. /\ print.plan = Plan /\ print.files = Restrict(gens[Candidate].files, Plan.docs)
        /\ print.exe = gens[Candidate].exe[Plan.provider]
    BY <2>1 DEF PrintRead, Fingerprint
  <2>4. \A d \in Plan.docs : print.files[d] = gens[Candidate].files[d] BY <2>3 DEF Restrict
  <2>5. \A d \in DOMAIN Artifact.saw :
          /\ d \in print.plan.docs
          /\ Fact(print.plan.provider, d, print.files[d], print.files[d], print.exe)
               \in FactsOf(DOMAIN Artifact.saw)
    BY <2>2, <2>3, <2>4
  <2>6. QED BY <1>4, <1>r, <2>1, <2>5
<1>5. QED BY <1>1, <1>2, <1>3, <1>4, TableSteps

(* "complete" is only ever earned by an index of the candidate's inputs.    *)
LEMMA EarnedIndex ==
    ASSUME TypeInv, WorldRead, PrintRead, ExecBacked(work), Earned("complete")
    PROVE  \E w \in work'.whole :
             w.print = Fingerprint(Plan, gens[Candidate].files, gens[Candidate].exe)
<1>1. CASE /\ pc = "fingerprint" /\ work' = work
           /\ CurrentPrint \in DOMAIN work.exec /\ work.exec[CurrentPrint] = "complete"
  <2>1. CurrentPrint = Fingerprint(Plan, gens[Candidate].files, gens[Candidate].exe)
    BY <1>1 DEF CurrentPrint, Fingerprint, PrintRead, WorldRead, Reading
  <2>2. QED BY <1>1, <2>1 DEF ExecBacked
<1>2. CASE pc = "decode" /\ work' = Recorded("complete", DOMAIN Artifact.saw)
  <2>1. print = Fingerprint(Plan, gens[Candidate].files, gens[Candidate].exe)
    BY <1>2 DEF PrintRead
  <2>2. [print |-> print, docs |-> DOMAIN Artifact.saw] \in work'.whole BY <1>2 DEF Recorded
  <2>3. QED BY <2>1, <2>2
<1>3. QED BY <1>1, <1>2 DEF Earned

(* An outcome writes the row of a provider's first scope and leaves the     *)
(* others alone.                                                            *)
LEMMA NextCandidateBacked ==
    ASSUME TypeInv, [Next]_vars, WorldRead, PrintRead, OutputRead, TablesBacked, CandidateBacked
    PROVE  CandidateBacked'
<1> SUFFICES ASSUME pc' # "idle"
             PROVE  /\ \A i \in DOMAIN Plans : i < next' =>
                          /\ Plans[i].provider \in DOMAIN gens'[Candidate'].coverage
                          /\ FirstPlan(i) => Backed(gens'[Candidate'], i, work')
                    /\ \A i \in DOMAIN Plans : i >= next' /\ FirstPlan(i) =>
                          Plans[i].provider \notin DOMAIN gens'[Candidate'].coverage
  BY DEF CandidateBacked, Backed, Candidate, FirstPlan
<1>0. DOMAIN Plans = 1 .. Len(Plans) /\ Len(Plans) \in Nat BY AtHand
<1>1. CASE BeginCycle
  <2>1. gens'[Candidate'].coverage = <<>>
    BY <1>1, BeginEffect DEF BeginCycle, TypeInv, TypeOK
  <2>2. next' = 1 BY <1>1 DEF BeginCycle, TypeInv, CycleShape
  <2>3. \A i \in DOMAIN Plans : ~ (i < next') BY <1>0, <2>2
  <2>4. QED BY <2>1, <2>3, NoCoverage
<1>2. CASE Outcome
  <2>1. PICK st \in Status : Records(st) /\ Earned(st) BY <1>2, OutcomeRecords
  <2>2. /\ next \in DOMAIN Plans /\ next' = next + 1 /\ Candidate' = Candidate
        /\ gens'[Candidate].coverage = InsertOrIgnore(gens[Candidate].coverage, Plan.provider, st)
        /\ gens'[Candidate].files = gens[Candidate].files
        /\ gens'[Candidate].exe = gens[Candidate].exe
    BY <2>1, RecordedRow
  <2>3. /\ \A i \in DOMAIN Plans : i < next =>
              /\ Plans[i].provider \in DOMAIN gens[Candidate].coverage
              /\ FirstPlan(i) => Backed(gens[Candidate], i, work)
        /\ \A i \in DOMAIN Plans : i >= next /\ FirstPlan(i) =>
              Plans[i].provider \notin DOMAIN gens[Candidate].coverage
    BY <2>1 DEF Records, CandidateBacked
  <2> DEFINE old == gens[Candidate]
             row == gens'[Candidate]
             new == InsertOrIgnore(old.coverage, Plan.provider, st)
  <2>4. /\ DOMAIN new = DOMAIN old.coverage \cup {Plan.provider}
        /\ \A p \in DOMAIN old.coverage : new[p] = old.coverage[p]
        /\ Plan.provider \notin DOMAIN old.coverage => new[Plan.provider] = st
    BY InsertOrIgnored
  <2> HIDE DEF new
  <2>5. row.coverage = new /\ row.files = old.files /\ row.exe = old.exe BY <2>2 DEF new
  <2>6. work.whole \subseteq work'.whole /\ ExecBacked(work)
    BY <1>2, OutcomeRecords DEF TablesBacked
  <2>7. next < next' /\ next' \in Nat /\ (\A i \in DOMAIN Plans : i < next' <=> i < next \/ i = next)
    BY <1>0, <2>2
  <2>8. ASSUME NEW i \in DOMAIN Plans, i < next'
        PROVE  /\ Plans[i].provider \in DOMAIN row.coverage
               /\ FirstPlan(i) => Backed(row, i, work')
    <3>1. CASE i < next
      <4>1. Plans[i].provider \in DOMAIN old.coverage /\ (FirstPlan(i) => Backed(old, i, work))
        BY <2>3, <3>1
      <4> HIDE DEF old, row
      <4>2. QED BY <2>4, <2>5, <2>6, <4>1 DEF Backed
    <3>2. CASE i = next
      <4>1. FirstPlan(i) => new[Plan.provider] = st BY <1>0, <2>2, <2>3, <2>4, <3>2 DEF Plan
      <4>2. ASSUME st = "complete"
            PROVE  \E w \in work'.whole : w.print = Fingerprint(Plan, old.files, old.exe)
        BY <2>1, <2>6, <4>2, EarnedIndex
      <4> HIDE DEF old, row
      <4>3. QED BY <2>4, <2>5, <3>2, <4>1, <4>2 DEF Backed, Plan
    <3>3. QED BY <2>7, <2>8, <3>1, <3>2
  <2>9. ASSUME NEW i \in DOMAIN Plans, i >= next', FirstPlan(i)
        PROVE  Plans[i].provider \notin DOMAIN row.coverage
    <3>1. next \in 1 .. i - 1 /\ i >= next BY <1>0, <2>2, <2>9
    <3>2. Plans[i].provider # Plan.provider BY <2>9, <3>1 DEF FirstPlan, Plan
    <3>3. Plans[i].provider \notin DOMAIN old.coverage BY <2>3, <2>9, <3>1
    <3> HIDE DEF old, row
    <3>4. QED BY <2>4, <2>5, <3>2, <3>3
  <2>10. QED BY <2>2, <2>8, <2>9
<1>3. CASE Quiet BY <1>3 DEF Quiet, CandidateBacked, Candidate
<1>4. CASE Activate \/ GivesUp BY <1>4 DEF Activate, GivesUp, EndCycle
<1>5. QED BY <1>1, <1>2, <1>3, <1>4, StepKinds

(* What is published had its index, and indexes stay.                       *)
LEMMA NextPublishedBacked ==
    ASSUME TypeInv, [Next]_vars, TablesBacked, CandidateBacked, PublishedBacked
    PROVE  PublishedBacked'
<1>1. db.whole \subseteq db'.whole
  <2>1. db' \in {db, work} BY TableSteps
  <2>2. QED BY <2>1 DEF TablesBacked
<1>2. ASSUME NEW g \in DOMAIN gens', gens'[g].state = "committed", NEW i \in DOMAIN Plans,
             FirstPlan(i)
      PROVE  Backed(gens'[g], i, db')
  <2>1. CASE g \in DOMAIN gens /\ gens'[g] = gens[g]
    BY <1>1, <1>2, <2>1 DEF PublishedBacked, Backed
  <2>2. CASE /\ Activate /\ g = Candidate
             /\ gens'[g].files = gens[g].files /\ gens'[g].exe = gens[g].exe
             /\ gens'[g].coverage = gens[g].coverage
    <3>1. pc = "activate" /\ next = Len(Plans) + 1 /\ db = work /\ db' = db
      BY <2>2 DEF Activate, TypeInv, CycleShape, TablesBacked, Settled
    <3>2. i < next BY <3>1, AtHand
    <3>3. Backed(gens[g], i, work) BY <1>2, <2>2, <3>1, <3>2 DEF CandidateBacked
    <3>4. QED BY <2>2, <3>1, <3>3 DEF Backed
  <2>3. QED BY <1>2, <2>1, <2>2, PublishedRow
<1>3. QED BY <1>2 DEF PublishedBacked, Backed, FirstPlan

(* Nothing is recorded, covered or published yet.                           *)
LEMMA InitCover == Init => CoverInv
<1> SUFFICES ASSUME Init PROVE CoverInv OBVIOUS
<1>1. DOMAIN gens = {} /\ db = work /\ db.whole = {} /\ DOMAIN db.exec = {} /\ pc = "idle"
  BY NoCoverage DEF Init, Empty
<1>2. QED
  BY <1>1 DEF CoverInv, TablesBacked, ExecBacked, IndexFacts, Settled, CandidateBacked,
              PublishedBacked

(* An undisturbed step keeps all of it.                                     *)
LEMMA NextCover == TypeInv /\ FactsInv /\ CoverInv /\ [Next]_vars => CoverInv'
<1> SUFFICES ASSUME TypeInv, FactsInv, CoverInv, [Next]_vars, raced' = FALSE
             PROVE  TablesBacked' /\ CandidateBacked' /\ PublishedBacked'
  BY DEF CoverInv
<1>1. raced = FALSE BY WorldSteps
<1>2. WorldRead /\ PrintRead /\ OutputRead BY <1>1 DEF FactsInv
<1>3. TablesBacked /\ CandidateBacked /\ PublishedBacked BY <1>1 DEF CoverInv
<1>4. QED BY <1>2, <1>3, NextTables, NextCandidateBacked, NextPublishedBacked

(* A published generation that says a provider's coverage is complete has   *)
(* behind it an index made from that generation's files by that cycle's     *)
(* executable, for the first scope of the provider, and a fact for every    *)
(* document of every such index, from that generation's text: whether the   *)
(* provider ran, its execution was reused from any earlier cycle, or a      *)
(* crashed one had left the output, and whatever its other scopes did.      *)
THEOREM CoverageHonest == Spec => []CoverageIsHonest
<1>1. CoverInv /\ TypeInv => CoverageIsHonest
  <2> SUFFICES ASSUME CoverInv, TypeInv, ~ raced,
                      NEW g \in DOMAIN gens, gens[g].state = "committed",
                      NEW i \in DOMAIN Plans, FirstPlan(i),
                      Plans[i].provider \in DOMAIN gens[g].coverage,
                      gens[g].coverage[Plans[i].provider] = "complete"
               PROVE  Supported(gens[g], i, db)
    BY DEF CoverageIsHonest
  <2>1. IndexFacts(db) /\ Backed(gens[g], i, db)
    BY DEF CoverInv, TypeInv, TypeOK, TablesBacked, PublishedBacked
  <2>2. QED BY <2>1, BackedSupports
<1>2. QED BY <1>1, TypeInvHolds, InitFacts, NextFacts, InitCover, NextCover, PTL DEF Spec

=============================================================================
