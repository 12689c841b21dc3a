---------------------------- MODULE EvidenceProofs ---------------------------
(* Theorems about EvidenceReads: what a serving projection and a persisted  *)
(* difference of two generations say, for any number of files, texts,       *)
(* providers, generations and commands.                                     *)
EXTENDS EvidenceReads, FiniteSetTheorems, WellFoundedInduction, SequenceTheorems, TLAPS

USE StoreAssumption, ServingAssumption, DeltaAssumption

-----------------------------------------------------------------------------
(* Finite sets and their extremes.                                          *)

(* A set of naturals has a least element,                                   *)
LEMMA LeastNatural ==
    ASSUME NEW S \in SUBSET Nat, S # {}
    PROVE  \E m \in S : \A x \in S : m <= x
<1>1. \E m \in S : \A x \in S : ~ (<<x, m>> \in OpToRel(<, Nat))
  BY NatLessThanWellFounded, WFMin
<1>2. PICK m \in S : \A x \in S : ~ (<<x, m>> \in OpToRel(<, Nat)) BY <1>1
<1>3. \A x \in S : ~ (x < m) BY <1>2 DEF OpToRel
<1>4. QED BY <1>3

(* which Min finds.                                                         *)
LEMMA MinIs ==
    ASSUME NEW S \in SUBSET Nat, S # {}
    PROVE  Min(S) \in S
BY LeastNatural DEF Min

(* Max finds an element that no other exceeds.                              *)
LEMMA MaxIs ==
    ASSUME NEW S \in SUBSET Nat, NEW m \in S, \A x \in S : x <= m
    PROVE  Max(S) = m
<1>1. \A y \in S : m >= y OBVIOUS
<1>2. Max(S) \in S /\ \A y \in S : Max(S) >= y BY <1>1 DEF Max
<1>3. Max(S) \in Nat /\ m \in Nat BY <1>2
<1>4. Max(S) >= m /\ m >= Max(S) BY <1>1, <1>2
<1>5. QED BY <1>3, <1>4

(* The values of a function on a finite set are finitely many.              *)
LEMMA FiniteValues ==
    ASSUME NEW S, IsFiniteSet(S), NEW f, DOMAIN f = S, NEW T, T = {f[x] : x \in S}
    PROVE  IsFiniteSet(T) /\ Cardinality(T) <= Cardinality(S)
<1> DEFINE g == [x \in S |-> f[x]]
<1>1. g \in Surjection(S, T) BY DEF Surjection
<1>2. QED BY <1>1, FS_Surjection

(* A finite set has an element of the highest rank.                         *)
LEMMA HighestRank ==
    ASSUME NEW S, IsFiniteSet(S), S # {}, NEW rank \in [S -> Nat]
    PROVE  \E m \in S : \A x \in S : rank[x] <= rank[m]
<1> DEFINE above(x) == {y \in S : rank[y] > rank[x]}
           count == [x \in S |-> Cardinality(above(x))]
<1>1. ASSUME NEW x \in S
      PROVE  IsFiniteSet(above(x)) /\ Cardinality(above(x)) \in Nat
  <2>1. above(x) \in SUBSET S OBVIOUS
  <2>2. IsFiniteSet(above(x)) BY <2>1, FS_Subset
  <2>3. QED BY <2>2, FS_CardinalityType
<1>2. count \in [S -> Nat] BY <1>1
<1>3. ASSUME NEW m \in S, NEW y \in S, rank[y] > rank[m] PROVE count[y] < count[m]
  <2>1. above(y) \in SUBSET above(m) /\ y \in above(m) /\ y \notin above(y)
    BY <1>3
  <2> HIDE DEF above
  <2>2. Cardinality(above(y)) <= Cardinality(above(m)) /\ Cardinality(above(y)) # Cardinality(above(m))
    BY <1>1, <2>1, FS_Subset
  <2>3. Cardinality(above(y)) < Cardinality(above(m)) BY <1>1, <2>2
  <2>4. QED BY <2>3
<1> HIDE DEF count
<1> DEFINE counts == {count[x] : x \in S}
<1>4. counts \in SUBSET Nat /\ counts # {} BY <1>2
<1>5. PICK n \in counts : \A k \in counts : n <= k
  <2> HIDE DEF counts
  <2>1. QED BY <1>4, LeastNatural
<1>6. PICK m \in S : n = count[m] BY <1>5
<1>7. \A y \in S : count[m] <= count[y] BY <1>5, <1>6
<1>8. \A y \in S : ~ rank[y] > rank[m] BY <1>2, <1>3, <1>7
<1>9. QED BY <1>8

-----------------------------------------------------------------------------
(* The store: generations, their files and their facts.                     *)

Texts == Text \cup {Absent}

Resolutions == UNION {[S -> Doc \cup {None}] : S \in SUBSET Fact}

Row == [state : {"candidate", "committed", "failed"}, parent : Nat,
        files : [Doc -> Texts], resolved : Resolutions, ran : SUBSET Provider]

(* The active generation is the last one that was committed.                *)
ActiveIsLast ==
    /\ active = None => Committed = {}
    /\ active # None => active \in Committed /\ \A g \in Committed : g <= active

(* Every parent was active once.                                            *)
Lineage == \A g \in DOMAIN gens : gens[g].parent # None => gens[g].parent \in Committed

(* A reconcile works with what it walked, and activates the candidate it    *)
(* built.                                                                   *)
Reconciles ==
    /\ recon.step = "walked" => recon.files \in [Doc -> Texts]
    /\ recon.step = "built" => Len(gens) # 0 /\ gens[Len(gens)].state = "candidate"

(* The structural extractor has run on every file of every generation.      *)
StructureThere ==
    \A g \in DOMAIN gens : \A d \in Doc : gens[g].files[d] # Absent =>
        [doc |-> d, text |-> gens[g].files[d], by |-> Structural] \in facts

StoreInv ==
    /\ StoreTypeOK /\ gens \in Seq(Row)
    /\ ActiveIsLast /\ Lineage /\ Reconciles /\ StructureThere

(* The rows of a list of generations.                                       *)
LEMMA RowsTyped ==
    ASSUME NEW rows \in Seq(Row)
    PROVE  /\ Len(rows) \in Nat /\ DOMAIN rows = 1 .. Len(rows)
           /\ \A g \in DOMAIN rows : rows[g] \in Row
BY LenProperties, ElementOfSeq

(* What the extractors find in a walk are facts.                            *)
LEMMA ExtractedFacts ==
    ASSUME NEW files \in [Doc -> Texts], NEW by \in Provider \cup {Structural}
    PROVE  /\ Extract(files, by) \subseteq Fact
           /\ \A d \in Doc : files[d] # Absent =>
                [doc |-> d, text |-> files[d], by |-> by] \in Extract(files, by)
<1>1. \A d \in Doc : files[d] # Absent => files[d] \in Text BY DEF Texts
<1>2. QED BY <1>1 DEF Extract, Fact

(* A resolution maps facts to symbols.                                      *)
LEMMA ResolvedRows ==
    ASSUME NEW files, NEW fs \in SUBSET Fact
    PROVE  Resolve(files, fs) \in Resolutions
<1> DEFINE S == {e \in fs : files[e.doc] = e.text /\ e.by # Structural}
<1>1. S \in SUBSET Fact OBVIOUS
<1>2. \A f \in S : Calls[f.doc][f.text] \in Doc BY <1>1 DEF Fact
<1>3. Resolve(files, fs) \in [S -> Doc \cup {None}] BY <1>2 DEF Resolve
<1>4. QED BY <1>1, <1>3 DEF Resolutions

(* The build adds a row for what was walked, with its facts.                *)
LEMMA CommitBuildEffect ==
    ASSUME StoreInv, CommitBuild
    PROVE  /\ gens' \in Seq(Row) /\ Len(gens') = Len(gens) + 1
           /\ \A g \in DOMAIN gens : gens'[g] = gens[g]
           /\ DOMAIN gens' = DOMAIN gens \cup {Len(gens) + 1}
           /\ gens'[Len(gens) + 1].state = "candidate"
           /\ gens'[Len(gens) + 1].parent = active
           /\ gens'[Len(gens) + 1].files = recon.files
           /\ facts \subseteq facts' /\ facts' \subseteq Fact
           /\ \A d \in Doc : recon.files[d] # Absent =>
                [doc |-> d, text |-> recon.files[d], by |-> Structural] \in facts'
<1>1. /\ gens \in Seq(Row) /\ Len(gens) \in Nat /\ DOMAIN gens = 1 .. Len(gens)
      /\ recon.files \in [Doc -> Texts] /\ facts \subseteq Fact
      /\ active \in 0 .. Len(gens)
  BY RowsTyped DEF StoreInv, Reconciles, StoreTypeOK, CommitBuild
<1>2. (IF Committed = {} THEN None ELSE Max(Committed)) = active
  <2>1. Committed \in SUBSET Nat BY <1>1 DEF Committed
  <2>2. CASE active = None BY <2>2 DEF StoreInv, ActiveIsLast
  <2>3. CASE active # None
    <3>1. active \in Committed /\ \A g \in Committed : g <= active
      BY <2>3 DEF StoreInv, ActiveIsLast
    <3>2. Max(Committed) = active BY <2>1, <3>1, MaxIs
    <3>3. QED BY <3>1, <3>2
  <2>4. QED BY <2>2, <2>3
<1>3. PICK ran \in SUBSET Provider :
        /\ facts' = facts \cup UNION {Extract(recon.files, by) : by \in ran \cup {Structural}}
        /\ gens' = Append(gens, [state |-> "candidate", parent |-> active, files |-> recon.files,
                                 resolved |-> Resolve(recon.files, facts'), ran |-> ran])
  BY <1>2 DEF CommitBuild
<1>4. \A by \in ran \cup {Structural} :
        /\ Extract(recon.files, by) \subseteq Fact
        /\ \A d \in Doc : recon.files[d] # Absent =>
             [doc |-> d, text |-> recon.files[d], by |-> by] \in Extract(recon.files, by)
  BY <1>1, ExtractedFacts
<1>5. facts \subseteq facts' /\ facts' \subseteq Fact BY <1>1, <1>3, <1>4
<1>6. \A d \in Doc : recon.files[d] # Absent =>
        [doc |-> d, text |-> recon.files[d], by |-> Structural] \in facts'
  BY <1>3, <1>4
<1> DEFINE row == [state |-> "candidate", parent |-> active, files |-> recon.files,
                   resolved |-> Resolve(recon.files, facts'), ran |-> ran]
<1>7. row \in Row BY <1>1, <1>5, ResolvedRows DEF Row
<1>8. gens' = Append(gens, row) BY <1>3
<1>9. row.state = "candidate" /\ row.parent = active /\ row.files = recon.files OBVIOUS
<1> HIDE DEF row
<1>10. /\ gens' \in Seq(Row) /\ Len(gens') = Len(gens) + 1
       /\ \A g \in 1 .. Len(gens) : gens'[g] = gens[g]
       /\ gens'[Len(gens) + 1] = row
  BY <1>1, <1>7, <1>8, AppendProperties
<1>11. DOMAIN gens' = 1 .. Len(gens) + 1 BY <1>10, RowsTyped
<1>12. QED BY <1>1, <1>5, <1>6, <1>9, <1>10, <1>11

(* An activation decides the last row.                                      *)
LEMMA ActivateEffect ==
    ASSUME StoreInv, Activate
    PROVE  /\ gens' \in Seq(Row) /\ Len(gens') = Len(gens) /\ Len(gens) \in DOMAIN gens
           /\ DOMAIN gens' = DOMAIN gens
           /\ gens[Len(gens)].state = "candidate"
           /\ \A g \in DOMAIN gens : g # Len(gens) => gens'[g] = gens[g]
           /\ \A g \in DOMAIN gens :
                /\ gens'[g].files = gens[g].files /\ gens'[g].parent = gens[g].parent
                /\ gens'[g].resolved = gens[g].resolved /\ gens'[g].ran = gens[g].ran
           /\ \/ gens'[Len(gens)].state = "committed" /\ active' = Len(gens)
              \/ gens'[Len(gens)].state = "failed" /\ active' = active
<1>1. /\ gens \in Seq(Row) /\ Len(gens) \in Nat /\ DOMAIN gens = 1 .. Len(gens)
      /\ Len(gens) # 0 /\ gens[Len(gens)].state = "candidate"
  BY RowsTyped DEF StoreInv, Reconciles, Activate
<1>2. Len(gens) \in DOMAIN gens BY <1>1
<1> DEFINE old == gens[Len(gens)]
<1>3. old \in Row BY <1>1, <1>2, RowsTyped
<1>4. PICK st \in {"committed", "failed"} :
        /\ gens' = [gens EXCEPT ![Len(gens)].state = st]
        /\ st = "committed" => active' = Len(gens)
        /\ st = "failed" => active' = active
  BY DEF Activate
<1> DEFINE row == [old EXCEPT !.state = st]
<1>5. gens' = [gens EXCEPT ![Len(gens)] = row] BY <1>4
<1> HIDE DEF old
<1>6. /\ row \in Row /\ row.state = st /\ row.files = old.files /\ row.parent = old.parent
      /\ row.resolved = old.resolved /\ row.ran = old.ran
  BY <1>3 DEF Row
<1> HIDE DEF row
<1>7. /\ gens' \in Seq(Row) /\ Len(gens') = Len(gens)
      /\ gens'[Len(gens)] = row
      /\ \A g \in DOMAIN gens : g # Len(gens) => gens'[g] = gens[g]
  BY <1>1, <1>2, <1>5, <1>6, ExceptSeq
<1>8. DOMAIN gens' = DOMAIN gens BY <1>1, <1>7, RowsTyped
<1>9. QED BY <1>1, <1>2, <1>4, <1>6, <1>7, <1>8 DEF old

(* The commands that only take or give back the lease.                      *)
LeaseOnly ==
    /\ UNCHANGED <<tree, edits, gens, active, facts, recon>>
    /\ \E command \in {"serving", "temporal"} : Acquire(command) \/ Release(command)

(* Whoever takes or gives back the lease leaves its record in order.        *)
LEMMA LeaseTyped ==
    ASSUME StoreTypeOK, NEW command \in {"reconcile", "serving", "temporal"},
           Acquire(command) \/ Release(command)
    PROVE  working' \subseteq {"reconcile", "serving", "temporal"} /\ overruns' \in 0 .. MaxOverruns
<1>1. /\ working \subseteq {"reconcile", "serving", "temporal"}
      /\ overruns \in Nat /\ overruns <= MaxOverruns /\ MaxOverruns \in Nat
  BY DEF StoreTypeOK
<1>2. CASE Acquire(command)
  <2>1. overruns' = overruns \/ (overruns < MaxOverruns /\ overruns' = overruns + 1)
    BY <1>2 DEF Acquire
  <2>2. overruns' \in 0 .. MaxOverruns BY <1>1, <2>1
  <2>3. QED BY <1>1, <1>2, <2>2 DEF Acquire
<1>3. CASE Release(command) BY <1>1, <1>3 DEF Release
<1>4. QED BY <1>2, <1>3

(* Every step is one of these for the store.                                *)
LEMMA StoreSteps ==
    ASSUME [Next]_vars
    PROVE  EditFile \/ BeginReconcile \/ CommitBuild \/ Activate \/ Abort \/ LeaseOnly
             \/ UNCHANGED storeVars
<1>1. CASE Reconciling BY <1>1 DEF Reconciling
<1>2. CASE Building \/ Reading \/ Paging
  BY <1>2 DEF Building, BeginServingBuild, FinishServingBuild, AbortServingBuild, ScanFacts, Reading,
              OpenReader, ReadTruth, CompareProjection, Paging, FirstPage, NextPage, LeaseOnly
<1>3. CASE Comparing
  BY <1>3 DEF Comparing, BeginTemporal, BeginGenerationDelta, ComputeDelta, PersistDelta,
              SummarizeChanges, Report, EndQuery, AbortQuery, LeaseOnly
<1>4. CASE Completing \/ Leasing
  BY <1>4 DEF Completing, BeginCompletion, FinishCompletion, Leasing, CreateLease, VerifyLease
<1>5. CASE UNCHANGED vars BY <1>5 DEF vars
<1>6. QED BY <1>1, <1>2, <1>3, <1>4, <1>5 DEF Next

(* Nothing is stored yet.                                                   *)
LEMMA InitStore == Init => StoreInv
<1> SUFFICES ASSUME Init PROVE StoreInv OBVIOUS
<1>1. gens \in Seq(Row) /\ Len(gens) = 0 /\ DOMAIN gens = {}
  BY EmptySeq, LenProperties DEF Init, StoreInit
<1>2. Committed = {} BY <1>1 DEF Committed
<1>3. Min(Text) \in Text BY MinIs
<1>4. /\ tree \in [Doc -> Texts] /\ edits = 0 /\ active = 0 /\ facts = {}
      /\ working = {} /\ overruns = 0 /\ recon.step = "idle"
  BY <1>3 DEF Init, StoreInit, Texts, None, Idle
<1>5. StoreTypeOK BY <1>1, <1>4 DEF StoreTypeOK, Texts
<1>6. QED BY <1>1, <1>2, <1>4, <1>5 DEF StoreInv, ActiveIsLast, Lineage, Reconciles,
                                        StructureThere, None

(* No step changes what was committed, nor takes a fact away.               *)
LEMMA CommittedStays ==
    ASSUME StoreInv, [Next]_vars
    PROVE  /\ Committed \subseteq Committed' /\ facts \subseteq facts'
           /\ \A g \in Committed : gens'[g] = gens[g]
           /\ \A g \in DOMAIN gens : g \in DOMAIN gens' /\ gens'[g].files = gens[g].files
           /\ \A g \in Committed' : g \in Committed \/ (Activate /\ g = Len(gens) /\ active' = g)
<1>1. CASE CommitBuild
  <2>1. /\ \A g \in DOMAIN gens : gens'[g] = gens[g]
        /\ DOMAIN gens' = DOMAIN gens \cup {Len(gens) + 1}
        /\ gens'[Len(gens) + 1].state = "candidate" /\ facts \subseteq facts'
    BY <1>1, CommitBuildEffect
  <2>2. Committed' = Committed BY <2>1 DEF Committed
  <2>3. \A g \in Committed : g \in DOMAIN gens BY DEF Committed
  <2>4. QED BY <2>1, <2>2, <2>3
<1>2. CASE Activate
  <2>1. /\ DOMAIN gens' = DOMAIN gens /\ Len(gens) \in DOMAIN gens
        /\ gens[Len(gens)].state = "candidate"
        /\ \A g \in DOMAIN gens : g # Len(gens) => gens'[g] = gens[g]
        /\ \A g \in DOMAIN gens : gens'[g].files = gens[g].files
        /\ gens'[Len(gens)].state = "committed" => active' = Len(gens)
    BY <1>2, ActivateEffect
  <2>2. facts' = facts BY <1>2 DEF Activate
  <2>3. \A g \in Committed : g \in DOMAIN gens /\ gens[g].state = "committed" BY DEF Committed
  <2>4. /\ Committed \subseteq Committed'
        /\ \A g \in Committed' : g \in Committed \/ (g = Len(gens) /\ active' = g)
    BY <2>1 DEF Committed
  <2>5. QED BY <1>2, <2>1, <2>2, <2>3, <2>4
<1>3. CASE UNCHANGED <<gens, facts>>
  <2>1. Committed' = Committed BY <1>3 DEF Committed
  <2>2. QED BY <1>3, <2>1 DEF Committed
<1>4. CASE EditFile \/ BeginReconcile \/ Abort \/ LeaseOnly \/ UNCHANGED storeVars
  BY <1>3, <1>4 DEF EditFile, BeginReconcile, Abort, LeaseOnly, storeVars
<1>5. QED BY <1>1, <1>2, <1>4, StoreSteps

(* A step keeps the store in order.                                         *)
LEMMA NextStore == StoreInv /\ [Next]_vars => StoreInv'
<1> SUFFICES ASSUME StoreInv, [Next]_vars PROVE StoreInv' OBVIOUS
<1>t. /\ tree \in [Doc -> Texts] /\ edits \in 0 .. MaxEdits /\ active \in 0 .. Len(gens)
      /\ facts \subseteq Fact /\ gens \in Seq(Row) /\ Len(gens) \in Nat
      /\ DOMAIN gens = 1 .. Len(gens)
      /\ working \subseteq {"reconcile", "serving", "temporal"} /\ overruns \in 0 .. MaxOverruns
      /\ recon.step \in {"idle", "walked", "built"}
      /\ \A g \in DOMAIN gens :
           gens[g].state \in {"candidate", "committed", "failed"} /\ gens[g].parent \in 0 .. g - 1
  BY RowsTyped DEF StoreInv, StoreTypeOK, Texts
<1>u. ASSUME UNCHANGED <<gens, active, facts>>, tree' \in [Doc -> Texts], edits' \in 0 .. MaxEdits,
             working' \subseteq {"reconcile", "serving", "temporal"}, overruns' \in 0 .. MaxOverruns,
             recon'.step \in {"idle", "walked", "built"}, Reconciles'
      PROVE  StoreInv'
  <2>1. StoreTypeOK' BY <1>t, <1>u DEF StoreTypeOK, Texts
  <2>2. (ActiveIsLast /\ Lineage /\ StructureThere)'
    BY <1>u DEF StoreInv, ActiveIsLast, Lineage, StructureThere, Committed
  <2>3. QED BY <1>t, <1>u, <2>1, <2>2 DEF StoreInv
<1>1. CASE EditFile
  <2>1. tree' \in [Doc -> Texts] /\ edits' \in 0 .. MaxEdits
    BY <1>1, <1>t DEF EditFile, Texts
  <2>2. Reconciles' BY <1>1 DEF EditFile, StoreInv, Reconciles
  <2>3. QED BY <1>1, <1>t, <1>u, <2>1, <2>2 DEF EditFile, leaseVars
<1>2. CASE BeginReconcile
  <2>1. recon'.step = "walked" /\ recon'.files = tree BY <1>2 DEF BeginReconcile
  <2>2. Reconciles' BY <2>1, <1>t DEF Reconciles
  <2>3. Acquire("reconcile") BY <1>2 DEF BeginReconcile
  <2>4. working' \subseteq {"reconcile", "serving", "temporal"} /\ overruns' \in 0 .. MaxOverruns
    BY <2>3, LeaseTyped DEF StoreInv
  <2>5. QED BY <1>2, <1>t, <1>u, <2>1, <2>2, <2>4 DEF BeginReconcile
<1>3. CASE Abort \/ LeaseOnly
  <2>1. /\ UNCHANGED <<tree, edits, gens, active, facts>>
        /\ \E command \in {"reconcile", "serving", "temporal"} : Acquire(command) \/ Release(command)
        /\ recon' = recon \/ recon'.step = "idle"
    BY <1>3 DEF Abort, LeaseOnly, Idle
  <2>2. Reconciles' BY <2>1 DEF StoreInv, Reconciles
  <2>3. working' \subseteq {"reconcile", "serving", "temporal"} /\ overruns' \in 0 .. MaxOverruns
    BY <2>1, LeaseTyped DEF StoreInv
  <2>4. QED BY <1>t, <1>u, <2>1, <2>2, <2>3
<1>4. CASE UNCHANGED storeVars
  <2>1. Reconciles' BY <1>4 DEF storeVars, StoreInv, Reconciles
  <2>2. QED BY <1>4, <1>t, <1>u, <2>1 DEF storeVars, leaseVars
<1>5. CASE CommitBuild
  <2>1. /\ gens' \in Seq(Row) /\ Len(gens') = Len(gens) + 1
        /\ \A g \in DOMAIN gens : gens'[g] = gens[g]
        /\ DOMAIN gens' = DOMAIN gens \cup {Len(gens) + 1}
        /\ gens'[Len(gens) + 1].state = "candidate"
        /\ gens'[Len(gens) + 1].parent = active
        /\ gens'[Len(gens) + 1].files = recon.files
        /\ facts \subseteq facts' /\ facts' \subseteq Fact
        /\ \A d \in Doc : recon.files[d] # Absent =>
             [doc |-> d, text |-> recon.files[d], by |-> Structural] \in facts'
    BY <1>5, CommitBuildEffect
  <2>2. UNCHANGED <<tree, edits, active, working, overruns>> /\ recon'.step = "built"
    BY <1>5 DEF CommitBuild, leaseVars
  <2>3. StoreTypeOK'
    <3>1. \A g \in DOMAIN gens' : /\ gens'[g].state \in {"candidate", "committed", "failed"}
                                  /\ gens'[g].parent \in 0 .. g - 1
      BY <1>t, <2>1
    <3>2. active' \in 0 .. Len(gens') BY <1>t, <2>1, <2>2
    <3>3. QED BY <1>t, <2>1, <2>2, <3>1, <3>2 DEF StoreTypeOK, Texts
  <2>4. Committed' = Committed BY <2>1 DEF Committed
  <2>5. ActiveIsLast' BY <2>2, <2>4 DEF StoreInv, ActiveIsLast
  <2>6. Lineage' BY <2>1, <2>4 DEF StoreInv, Lineage, ActiveIsLast
  <2>7. Reconciles' BY <1>t, <2>1, <2>2 DEF Reconciles
  <2>8. StructureThere' BY <2>1 DEF StoreInv, StructureThere
  <2>9. QED BY <2>1, <2>3, <2>5, <2>6, <2>7, <2>8 DEF StoreInv
<1>6. CASE Activate
  <2>1. /\ gens' \in Seq(Row) /\ Len(gens') = Len(gens) /\ Len(gens) \in DOMAIN gens
        /\ DOMAIN gens' = DOMAIN gens
        /\ gens[Len(gens)].state = "candidate"
        /\ \A g \in DOMAIN gens : g # Len(gens) => gens'[g] = gens[g]
        /\ \A g \in DOMAIN gens :
             gens'[g].files = gens[g].files /\ gens'[g].parent = gens[g].parent
        /\ \/ gens'[Len(gens)].state = "committed" /\ active' = Len(gens)
           \/ gens'[Len(gens)].state = "failed" /\ active' = active
    BY <1>6, ActivateEffect
  <2>2. /\ UNCHANGED <<tree, edits, facts>> /\ recon'.step = "idle"
        /\ working' \subseteq {"reconcile", "serving", "temporal"} /\ overruns' \in 0 .. MaxOverruns
    BY <1>6, LeaseTyped DEF Activate, Idle, StoreInv
  <2>3. StoreTypeOK'
    <3>1. \A g \in DOMAIN gens' : /\ gens'[g].state \in {"candidate", "committed", "failed"}
                                  /\ gens'[g].parent \in 0 .. g - 1
      BY <1>t, <2>1
    <3>2. active' \in 0 .. Len(gens') BY <1>t, <2>1
    <3>3. QED BY <1>t, <2>1, <2>2, <3>1, <3>2 DEF StoreTypeOK, Texts
  <2>4. \/ Committed' = Committed /\ active' = active
        \/ Committed' = Committed \cup {Len(gens)} /\ active' = Len(gens)
    BY <2>1 DEF Committed
  <2>5. ActiveIsLast'
    <3>1. CASE Committed' = Committed /\ active' = active
      BY <3>1 DEF StoreInv, ActiveIsLast
    <3>2. CASE Committed' = Committed \cup {Len(gens)} /\ active' = Len(gens)
      <4>1. \A g \in Committed : g \in 1 .. Len(gens) BY <1>t DEF Committed
      <4>2. Len(gens) # None BY <1>t, <2>1 DEF None
      <4>3. QED BY <1>t, <3>2, <4>1, <4>2 DEF ActiveIsLast
    <3>3. QED BY <2>4, <3>1, <3>2
  <2>6. Lineage' BY <2>1, <2>4 DEF StoreInv, Lineage
  <2>7. Reconciles' BY <2>2 DEF Reconciles
  <2>8. StructureThere' BY <2>1, <2>2 DEF StoreInv, StructureThere
  <2>9. QED BY <2>1, <2>3, <2>5, <2>6, <2>7, <2>8 DEF StoreInv
<1>7. QED BY <1>1, <1>2, <1>3, <1>4, <1>5, <1>6, StoreSteps

(* The store is in order in every reachable state.                          *)
LEMMA StoreInvHolds == Spec => []StoreInv
BY InitStore, NextStore, PTL DEF Spec

-----------------------------------------------------------------------------
(* Types and leases: who works was granted the lease.                       *)

(* The commands at work.                                                    *)
Holding ==
    /\ recon.step # "idle" <=> "reconcile" \in working
    /\ build.step \in {"begun", "scanned"} <=> "serving" \in working
    /\ query.step # "idle" => "temporal" \in working
    /\ scenario \in Scenarios

(* A step of a command under the lease is taken by its holder.              *)
LEMMA NextHolding == StoreInv /\ Holding /\ [Next]_vars => Holding'
<1> SUFFICES ASSUME StoreInv, Holding, [Next]_vars PROVE Holding' OBVIOUS
<1>1. scenario' = scenario BY DEF Next, vars
<1>2. CASE Reconciling
  <2>1. build' = build /\ query' = query BY <1>2 DEF Reconciling, servingVars, deltaVars
  <2>2. CASE EditFile
    BY <1>1, <2>1, <2>2 DEF EditFile, leaseVars, Holding
  <2>3. CASE BeginReconcile
    BY <1>1, <2>1, <2>3 DEF BeginReconcile, Acquire, Holding
  <2>4. CASE CommitBuild
    BY <1>1, <2>1, <2>4 DEF CommitBuild, leaseVars, Holding
  <2>5. CASE Activate \/ Abort
    BY <1>1, <2>1, <2>5 DEF Activate, Abort, Release, Idle, Holding
  <2>6. QED BY <1>2, <2>2, <2>3, <2>4, <2>5 DEF Reconciling
<1>3. CASE Building /\ UNCHANGED deltaVars
  <2>1. recon' = recon /\ query' = query
    BY <1>3 DEF Building, BeginServingBuild, ScanFacts, FinishServingBuild, AbortServingBuild,
                deltaVars, storeVars
  <2>2. CASE BeginServingBuild
    BY <1>1, <2>1, <2>2 DEF BeginServingBuild, Acquire, Holding
  <2>3. CASE ScanFacts
    BY <1>1, <2>1, <2>3 DEF ScanFacts, storeVars, leaseVars, Holding
  <2>4. CASE FinishServingBuild
    <3>1. build'.step \in {"hit", "inconsistent", "built"} BY <2>4 DEF FinishServingBuild
    <3>2. Release("serving") BY <2>4 DEF FinishServingBuild
    <3>3. QED BY <1>1, <2>1, <3>1, <3>2 DEF Release, Holding
  <2>5. CASE AbortServingBuild
    BY <1>1, <2>1, <2>5 DEF AbortServingBuild, Release, Idle, Holding
  <2>6. QED BY <1>3, <2>2, <2>3, <2>4, <2>5 DEF Building
<1>4. CASE (Reading \/ Paging) /\ UNCHANGED deltaVars
  BY <1>1, <1>4 DEF Reading, OpenReader, ReadTruth, CompareProjection, Paging, FirstPage, NextPage,
                    deltaVars, storeVars, leaseVars, Holding
<1>5. CASE Comparing /\ UNCHANGED servingVars
  <2>1. build' = build /\ recon' = recon
    BY <1>5 DEF Comparing, BeginTemporal, BeginGenerationDelta, ComputeDelta, PersistDelta,
                SummarizeChanges, Report, EndQuery, AbortQuery, servingVars, storeVars
  <2>2. CASE BeginTemporal \/ BeginGenerationDelta
    <3>1. query'.step \in {"baseline", "compare", "refused"}
      BY <2>2 DEF BeginTemporal, BeginGenerationDelta
    <3>2. Acquire("temporal") BY <2>2 DEF BeginTemporal, BeginGenerationDelta
    <3>3. QED BY <1>1, <2>1, <3>1, <3>2 DEF Acquire, Holding
  <2>3. CASE ComputeDelta \/ PersistDelta \/ SummarizeChanges \/ Report
    <3>1. query.step # "idle" /\ working' = working
      BY <2>3 DEF ComputeDelta, PersistDelta, SummarizeChanges, Report, storeVars, leaseVars
    <3>2. QED BY <1>1, <2>1, <3>1 DEF Holding
  <2>4. CASE EndQuery \/ AbortQuery
    BY <1>1, <2>1, <2>4 DEF EndQuery, AbortQuery, NoQuery, Release, Holding
  <2>5. QED BY <1>5, <2>2, <2>3, <2>4 DEF Comparing
<1>6. CASE (Completing \/ Leasing) /\ UNCHANGED servingVars
  BY <1>1, <1>6 DEF Completing, BeginCompletion, FinishCompletion, Leasing, CreateLease,
                    VerifyLease, storeVars, leaseVars, servingVars, Holding
<1>7. CASE UNCHANGED vars
  BY <1>7 DEF vars, storeVars, leaseVars, servingVars, deltaVars, Holding
<1>8. QED BY <1>2, <1>3, <1>4, <1>5, <1>6, <1>7 DEF Next

(* The tables keep their types, and whoever works was granted the lease and *)
(* gives up only its own, whatever was taken over from it                   *)
(* (with_cli_writer_lease, release_writer_lease).                           *)
THEOREM EvidenceTyped == Spec => []TypeOK
<1>1. Init => StoreInv /\ Holding
  BY InitStore DEF Init, StoreInit, ServingInit, DeltaInit, Holding, Idle, NoQuery
<1>2. StoreInv /\ Holding /\ [Next]_vars => StoreInv' /\ Holding'
  BY NextStore, NextHolding
<1>3. StoreInv /\ Holding => TypeOK BY DEF StoreInv, Holding, TypeOK
<1>4. QED BY <1>1, <1>2, <1>3, PTL DEF Spec

-----------------------------------------------------------------------------
(* Records: persisted differences and evidence leases.                      *)

(* INSERT OR IGNORE leaves what the table holds.                            *)
LEMMA InsertKeeps ==
    ASSUME NEW table, NEW k, NEW v, NEW x \in DOMAIN table
    PROVE  /\ x \in DOMAIN InsertOrIgnore(table, k, v)
           /\ InsertOrIgnore(table, k, v)[x] = table[x]
BY DEF InsertOrIgnore

(* A persisted difference keeps its content, and a lease once invalidated   *)
(* is never trusted again (persist_generation_delta_rows,                   *)
(* create_evidence_lease, verify_evidence_lease).                           *)
THEOREM RecordsFinal == Spec => RecordsAreFinal
<1> DEFINE Final ==
        /\ \A pair \in DOMAIN deltas : pair \in DOMAIN deltas' /\ deltas'[pair] = deltas[pair]
        /\ \A l \in DOMAIN leases :
             /\ l \in DOMAIN leases'
             /\ leases[l] = "invalidated" => leases'[l] = "invalidated"
<1>1. ASSUME [Next]_vars PROVE [Final]_deltaVars
  <2>1. CASE UNCHANGED <<deltas, leases>> BY <2>1
  <2>2. ASSUME NEW from, NEW to, NEW delta, Persist(from, to, delta) PROVE Final
    BY <2>2, InsertKeeps DEF Persist
  <2>3. CASE Completing
    BY <2>1, <2>2, <2>3 DEF Completing, BeginCompletion, FinishCompletion
  <2>4. CASE Leasing
    <3>1. CASE \E d \in Doc : CreateLease(d)
      <4>1. PICK d \in Doc : CreateLease(d) BY <3>1
      <4>2. deltas' = deltas /\ leases' = InsertOrIgnore(leases, Lease(d), "valid")
        BY <4>1 DEF CreateLease
      <4>3. QED BY <4>2, InsertKeeps
    <3>2. CASE \E l \in DOMAIN leases : VerifyLease(l)
      <4>1. PICK l \in DOMAIN leases : VerifyLease(l) BY <3>2
      <4>2. /\ deltas' = deltas
            /\ leases' = leases \/ leases' = [leases EXCEPT ![l] = "invalidated"]
        BY <4>1 DEF VerifyLease
      <4>3. QED BY <4>2
    <3>3. QED BY <2>4, <3>1, <3>2 DEF Leasing
  <2>5. CASE Comparing
    <3>1. CASE PersistDelta BY <2>2, <3>1 DEF PersistDelta
    <3>2. CASE ~ PersistDelta
      BY <2>1, <2>5, <3>2 DEF Comparing, BeginTemporal, BeginGenerationDelta, ComputeDelta,
                              SummarizeChanges, Report, EndQuery, AbortQuery
    <3>3. QED BY <3>1, <3>2
  <2>6. CASE UNCHANGED deltaVars BY <2>6
  <2>7. QED BY <1>1, <2>3, <2>4, <2>5, <2>6 DEF Next, Reconciling, vars
<1>2. QED BY <1>1, PTL DEF Spec, RecordsAreFinal

-----------------------------------------------------------------------------
(* Projections: what is served is what the facts of a generation said.      *)

(* A running build is of a generation that was committed; what it took as   *)
(* fingerprint are facts of it.  If nothing else has worked since it began, *)
(* that generation is still active and they are all its facts.              *)
BuildFresh ==
    build.step \in {"begun", "scanned"} =>
        /\ build.gen \in Committed /\ build.since \in Nat /\ build.since <= overruns
        /\ BuiltAlone => build.gen = active /\ active # None /\ working = {"serving"}
        /\ build.step = "scanned" =>
             /\ build.print \subseteq FactsOf(build.gen, facts)
             /\ BuiltAlone => build.print = FactsOf(build.gen, facts)

(* What a projection was written from.                                      *)
Found(row) == {e.fact : e \in row.edges}

(* A projection of a committed generation, derived from facts it still has. *)
Whole(row) ==
    /\ row.gen \in Committed
    /\ Found(row) \subseteq FactsOf(row.gen, facts)
    /\ row.cards = Cards(Found(row))
    /\ row.edges = Edges(row.gen, Found(row))
    /\ row.alone => Found(row) = row.print
    /\ Found(row) # {} => row.print \subseteq Found(row)

Stored(row) == \E i \in DOMAIN serving : serving[i] = row

OnePerGeneration ==
    \A i, j \in DOMAIN serving : serving[j].gen = serving[i].gen => i = j

ServingInv ==
    /\ \E S : serving \in Seq(S)
    /\ BuildFresh /\ OnePerGeneration
    /\ \A row : Stored(row) => Whole(row)

(* A generation without a projection is told from one that has one.         *)
LEMMA RowFound ==
    ASSUME ServingInv, NEW i \in DOMAIN serving
    PROVE  RowOf(serving[i].gen) = i /\ i # None
<1> DEFINE g == serving[i].gen
           rows == {j \in DOMAIN serving : serving[j].gen = g}
<1>1. rows = {i} BY DEF ServingInv, OnePerGeneration
<1>2. DOMAIN serving \subseteq Nat \ {0}
  <2>1. PICK S : serving \in Seq(S) BY DEF ServingInv
  <2>2. DOMAIN serving = 1 .. Len(serving) /\ Len(serving) \in Nat BY <2>1, LenProperties
  <2>3. QED BY <2>2
<1>3. i \in Nat /\ i # 0 BY <1>2
<1>4. Max({i}) = i BY <1>3, MaxIs
<1>5. QED BY <1>1, <1>3, <1>4 DEF RowOf, None

(* A projection stays whole while generations and facts are added.          *)
LEMMA WholeStays ==
    ASSUME StoreInv, [Next]_vars
    PROVE  \A row : Whole(row) => Whole(row)'
<1> SUFFICES ASSUME NEW row, Whole(row) PROVE Whole(row)' OBVIOUS
<1>1. row.gen \in Committed /\ row.gen \in DOMAIN gens BY DEF Whole, Committed
<1>2. /\ row.gen \in Committed' /\ facts \subseteq facts'
      /\ gens'[row.gen] = gens[row.gen]
  BY <1>1, CommittedStays
<1>3. FactsOf(row.gen, facts) \subseteq FactsOf(row.gen, facts)' BY <1>2 DEF FactsOf
<1> DEFINE found == Found(row)
<1>4. Edges(row.gen, found)' = Edges(row.gen, found) BY <1>2 DEF Edges, Edge, Found
<1>5. Cards(found)' = Cards(found) BY DEF Cards, Preferred, FactId, Found
<1>7. Found(row)' = Found(row) BY DEF Found
<1>6. QED BY <1>7, <1>2, <1>3, <1>4, <1>5 DEF Whole

(* Nobody begins to work unnoticed beside a build.                          *)
LEMMA StaysAlone ==
    ASSUME StoreInv, Holding, Holding', BuildFresh, [Next]_vars, UNCHANGED build,
           build.step \in {"begun", "scanned"}
    PROVE  /\ overruns \in Nat /\ overruns' \in Nat /\ overruns <= overruns'
           /\ BuiltAlone' => BuiltAlone /\ working' = working /\ UNCHANGED <<gens, active, facts>>
<1>1. overruns \in Nat BY DEF StoreInv, StoreTypeOK
<1>2. "serving" \in working /\ "serving" \in working' BY DEF Holding
<1>3. ASSUME NEW command, Acquire(command)
      PROVE  overruns' = overruns + 1
  BY <1>2, <1>3 DEF Acquire
<1>4. ASSUME overruns' = overruns, BuiltAlone' PROVE BuiltAlone /\ working = {"serving"}
  BY <1>4 DEF BuildFresh, BuiltAlone
<1>5. CASE BeginReconcile
  <2>1. overruns' = overruns + 1 BY <1>3, <1>5 DEF BeginReconcile
  <2>2. ~ BuiltAlone' BY <1>1, <2>1 DEF BuildFresh, BuiltAlone
  <2>3. QED BY <1>1, <2>1, <2>2
<1>6. CASE CommitBuild \/ Activate \/ Abort
  <2>1. overruns' = overruns /\ "reconcile" \in working
    BY <1>6 DEF CommitBuild, Activate, Abort, Release, leaseVars, Holding
  <2>2. QED BY <1>1, <1>4, <2>1
<1>7. CASE LeaseOnly
  <2>1. PICK command \in {"serving", "temporal"} : Acquire(command) \/ Release(command)
    BY <1>7 DEF LeaseOnly
  <2>2. CASE Acquire(command)
    <3>1. overruns' = overruns + 1 BY <1>3, <2>2
    <3>2. ~ BuiltAlone' BY <1>1, <3>1 DEF BuildFresh, BuiltAlone
    <3>3. QED BY <1>1, <3>1, <3>2
  <2>3. CASE Release(command)
    <3>1. overruns' = overruns /\ working' = working \ {command} BY <2>3 DEF Release
    <3>2. command # "serving" BY <1>2, <3>1
    <3>3. BuiltAlone' => BuiltAlone /\ working' = working BY <1>4, <3>1, <3>2
    <3>4. QED BY <1>1, <1>7, <3>1, <3>3 DEF LeaseOnly
  <2>4. QED BY <2>1, <2>2, <2>3
<1>8. CASE EditFile \/ UNCHANGED storeVars
  <2>1. UNCHANGED <<gens, active, facts, working, overruns>>
    BY <1>8 DEF EditFile, storeVars, leaseVars
  <2>2. BuiltAlone' = BuiltAlone BY <2>1 DEF BuiltAlone
  <2>3. QED BY <1>1, <2>1, <2>2
<1>9. QED BY <1>5, <1>6, <1>7, <1>8, StoreSteps

(* A running build stays as it is while others work.                        *)
LEMMA BuildStays ==
    ASSUME StoreInv, Holding, Holding', BuildFresh, [Next]_vars, UNCHANGED build
    PROVE  BuildFresh'
<1> SUFFICES ASSUME build.step \in {"begun", "scanned"} PROVE BuildFresh' BY DEF BuildFresh
<1>1. /\ overruns \in Nat /\ overruns' \in Nat /\ overruns <= overruns'
      /\ BuiltAlone' => BuiltAlone /\ working' = working /\ UNCHANGED <<gens, active, facts>>
  BY StaysAlone
<1>2. build.gen \in Committed' /\ build.since \in Nat /\ build.since <= overruns'
  BY <1>1, CommittedStays DEF BuildFresh
<1>3. /\ facts \subseteq facts' /\ build.gen \in DOMAIN gens
      /\ gens'[build.gen] = gens[build.gen]
  BY CommittedStays DEF BuildFresh, Committed
<1>4. FactsOf(build.gen, facts) \subseteq FactsOf(build.gen, facts)' BY <1>3 DEF FactsOf
<1>5. BuiltAlone' => build.gen = active' /\ active' # None /\ working' = {"serving"}
  BY <1>1 DEF BuildFresh
<1>6. BuiltAlone' => FactsOf(build.gen, facts)' = FactsOf(build.gen, facts)
  BY <1>1 DEF FactsOf
<1>7. ASSUME build.step = "scanned"
      PROVE  /\ build.print \subseteq FactsOf(build.gen, facts)'
             /\ BuiltAlone' => build.print = FactsOf(build.gen, facts)'
  BY <1>1, <1>4, <1>6, <1>7 DEF BuildFresh
<1>8. QED BY <1>2, <1>5, <1>7 DEF BuildFresh

(* A build begins with the active generation, ...                           *)
LEMMA BeginKeeps ==
    ASSUME StoreInv, BeginServingBuild
    PROVE  BuildFresh'
<1>1. /\ build'.step = "begun" /\ build'.gen = active /\ build'.alone = (working = {})
      /\ build'.since = overruns' /\ active # None /\ Acquire("serving")
      /\ UNCHANGED <<gens, active, facts>>
  BY DEF BeginServingBuild
<1>2. overruns' \in Nat BY <1>1, LeaseTyped DEF StoreInv
<1>3. build'.gen \in Committed' BY <1>1 DEF StoreInv, ActiveIsLast, Committed
<1>4. BuiltAlone' => working' = {"serving"} BY <1>1 DEF BuiltAlone, Acquire
<1>5. QED BY <1>1, <1>2, <1>3, <1>4 DEF BuildFresh

(* ... and takes the facts of it that are current.                          *)
LEMMA ScanKeeps ==
    ASSUME StoreInv, BuildFresh, ScanFacts
    PROVE  BuildFresh'
<1>1. /\ build.step = "begun" /\ build'.step = "scanned" /\ build'.gen = build.gen
      /\ build'.alone = build.alone /\ build'.since = build.since
      /\ build'.print = SourceFacts(build.gen)
      /\ UNCHANGED <<gens, active, facts, working, overruns>>
  BY DEF ScanFacts, storeVars, leaseVars
<1>2. BuiltAlone' = BuiltAlone BY <1>1 DEF BuiltAlone
<1>3. FactsOf(build.gen, facts)' = FactsOf(build.gen, facts) /\ Committed' = Committed
  BY <1>1 DEF FactsOf, Committed
<1>4. build'.print \subseteq FactsOf(build.gen, facts) BY <1>1 DEF SourceFacts
<1>5. BuiltAlone => build'.print = FactsOf(build.gen, facts)
  BY <1>1 DEF SourceFacts, IsCurrent, BuildFresh
<1>6. QED BY <1>1, <1>2, <1>3, <1>4, <1>5 DEF BuildFresh

(* A finished build returns a projection, or adds a whole one.              *)
LEMMA FinishKeeps ==
    ASSUME StoreInv, ServingInv, FinishServingBuild, [Next]_vars
    PROVE  ServingInv'
<1>1. /\ build.gen \in Committed /\ build.print \subseteq FactsOf(build.gen, facts)
      /\ BuiltAlone => build.gen = active /\ active # None
                       /\ build.print = FactsOf(build.gen, facts)
  BY DEF FinishServingBuild, ServingInv, BuildFresh
<1>2. /\ SourceFacts(build.gen) \in {FactsOf(build.gen, facts), {}}
      /\ BuiltAlone => SourceFacts(build.gen) = build.print
  BY <1>1 DEF SourceFacts, IsCurrent
<1>3. BuildFresh' BY DEF FinishServingBuild, BuildFresh
<1>4. UNCHANGED <<gens, facts, active>> BY DEF FinishServingBuild
<1>5. CASE UNCHANGED serving
  <2>1. \A row : Stored(row)' => Whole(row)'
    BY <1>5, WholeStays DEF ServingInv, Stored
  <2>2. OnePerGeneration' BY <1>5 DEF ServingInv, OnePerGeneration
  <2>3. QED BY <1>3, <1>5, <2>1, <2>2 DEF ServingInv
<1>6. CASE serving' # serving
  <2> DEFINE found == SourceFacts(build.gen)
             row == [gen |-> build.gen, print |-> build.print, alone |-> BuiltAlone,
                     cards |-> Cards(found), edges |-> Edges(build.gen, found),
                     rollup |-> Rollup(build.gen)]
  <2>1. serving' = Append(serving, row) /\ RowOf(build.gen) = None
    BY <1>6 DEF FinishServingBuild
  <2>2. Whole(row)
    <3> HIDE DEF found
    <3>1. \A f \in found : Edge(build.gen, f).fact = f BY DEF Edge
    <3>2. {e.fact : e \in Edges(build.gen, found)} = found BY <3>1 DEF Edges
    <3>3. Found(row) = found BY <3>2 DEF Found
    <3>4. /\ found \in {FactsOf(build.gen, facts), {}}
          /\ BuiltAlone => found = build.print
      BY <1>2 DEF found
    <3>5. QED BY <1>1, <3>3, <3>4 DEF Whole
  <2>3. row.gen = build.gen OBVIOUS
  <2> HIDE DEF row
  <2>4. \A i \in DOMAIN serving : serving[i].gen # build.gen BY <2>1, RowFound
  <2>5. PICK S : serving \in Seq(S) BY DEF ServingInv
  <2> DEFINE T == {serving[i] : i \in DOMAIN serving} \cup {row}
  <2>6. serving \in Seq(T) /\ Len(serving) \in Nat /\ DOMAIN serving = 1 .. Len(serving)
    <3>1. /\ Len(serving) \in Nat /\ DOMAIN serving = 1 .. Len(serving)
          /\ serving = [i \in 1 .. Len(serving) |-> serving[i]]
      BY <2>5, LenProperties
    <3>2. QED BY <3>1, SeqDef
  <2>7. /\ serving' \in Seq(T) /\ Len(serving') = Len(serving) + 1
        /\ \A i \in 1 .. Len(serving) : serving'[i] = serving[i]
        /\ serving'[Len(serving) + 1] = row
    <3> HIDE DEF T
    <3>1. row \in T BY DEF T
    <3>2. QED BY <2>1, <2>6, <3>1, AppendProperties
  <2>8. DOMAIN serving' = 1 .. Len(serving) + 1 BY <2>6, <2>7, LenProperties
  <2>9. OnePerGeneration'
    <3>1. \A i \in DOMAIN serving' :
            \/ i \in DOMAIN serving /\ serving'[i] = serving[i]
            \/ i = Len(serving) + 1 /\ serving'[i] = row
      BY <2>6, <2>7, <2>8
    <3>2. QED BY <2>3, <2>4, <3>1 DEF ServingInv, OnePerGeneration
  <2>10. \A old : Stored(old)' => Whole(old)'
    <3>1. \A old : Stored(old)' => Stored(old) \/ old = row
      BY <2>6, <2>7, <2>8 DEF Stored
    <3>2. \A old : Stored(old)' => Whole(old) BY <2>2, <3>1 DEF ServingInv
    <3>3. QED BY <3>2, WholeStays
  <2>11. QED BY <1>3, <2>7, <2>9, <2>10 DEF ServingInv
<1>7. QED BY <1>5, <1>6

(* A step keeps the projections whole.                                      *)
LEMMA NextServing == StoreInv /\ Holding /\ ServingInv /\ [Next]_vars => ServingInv'
<1> SUFFICES ASSUME StoreInv, Holding, ServingInv, [Next]_vars PROVE ServingInv' OBVIOUS
<1>1. ASSUME UNCHANGED serving, BuildFresh' PROVE ServingInv'
  <2>1. \A row : Stored(row)' => Whole(row)'
    BY <1>1, WholeStays DEF ServingInv, Stored
  <2>2. OnePerGeneration' BY <1>1 DEF ServingInv, OnePerGeneration
  <2>3. QED BY <1>1, <2>1, <2>2 DEF ServingInv
<1>2. CASE BeginServingBuild BY <1>1, <1>2, BeginKeeps DEF BeginServingBuild
<1>3. CASE ScanFacts BY <1>1, <1>3, ScanKeeps DEF ScanFacts, ServingInv
<1>4. CASE FinishServingBuild BY <1>4, FinishKeeps
<1>5. CASE AbortServingBuild
  <2>1. BuildFresh' BY <1>5 DEF AbortServingBuild, BuildFresh, Idle
  <2>2. QED BY <1>1, <1>5, <2>1 DEF AbortServingBuild
<1>6. CASE ~ Building
  <2>1. UNCHANGED <<serving, build>>
    BY <1>6 DEF Next, vars, servingVars, Reconciling, Reading, OpenReader, ReadTruth,
                CompareProjection, Paging, FirstPage, NextPage
  <2>2. Holding' BY NextHolding
  <2>3. QED BY <1>1, <2>1, <2>2, BuildStays DEF ServingInv
<1>7. QED BY <1>2, <1>3, <1>4, <1>5, <1>6 DEF Building

(* A ready projection is whole, of one state of the facts and the only one  *)
(* of its generation, however many reconciles and builds there were; and of *)
(* the facts it fingerprinted unless its build was overrun or overran       *)
(* (build_serving_generation, acquire_writer_lease).                        *)
THEOREM ProjectionsWhole == Spec => []ProjectionIsWhole
<1>1. Init => StoreInv /\ Holding /\ ServingInv
  <2> SUFFICES ASSUME Init PROVE ServingInv
    BY InitStore DEF Init, StoreInit, ServingInit, DeltaInit, Holding, Idle, NoQuery
  <2>1. serving \in Seq({}) /\ DOMAIN serving = {} BY DEF Init, ServingInit
  <2>2. build.step = "idle" BY DEF Init, ServingInit, Idle
  <2>3. QED BY <2>1, <2>2 DEF ServingInv, BuildFresh, OnePerGeneration, Stored
<1>2. StoreInv /\ Holding /\ ServingInv /\ [Next]_vars => (StoreInv /\ Holding /\ ServingInv)'
  BY NextStore, NextHolding, NextServing
<1>3. ServingInv => ProjectionIsWhole
  BY DEF ServingInv, OnePerGeneration, Stored, Whole, Found, ProjectionIsWhole
<1>4. QED BY <1>1, <1>2, <1>3, PTL DEF Spec

-----------------------------------------------------------------------------
(* Differences: what compute_generation_delta says of two generations.      *)

(* Lists short enough to be returned in full.                               *)
Bounded(delta) ==
    /\ IsFiniteSet(delta.files) /\ IsFiniteSet(delta.symbols) /\ IsFiniteSet(delta.coverage)
    /\ IsFiniteSet(delta.contracts) /\ delta.contracts \subseteq Doc
    /\ IsFiniteSet(RelationshipRows(delta.relationships))

(* A symbol of both generations is reported as changed, vouched for, or     *)
(* the reason of an uncertainty.                                            *)
Accounted(k, delta) ==
    \/ \E c \in delta.symbols : c.key = k /\ c.kind # "added"
    \/ k \in delta.contracts
    \/ delta.uncertainty # {}

Sound(from, to, delta) ==
    /\ from \in Committed /\ to \in Committed
    /\ Bounded(delta)
    /\ delta.files = FileChanges(from, to)
    /\ \A k \in Present(from) \cap Present(to) : Accounted(k, delta)
    /\ \A k \in delta.contracts :
         /\ gens[from].files[k] = gens[to].files[k]
         /\ gens[from].ran \cap gens[to].ran # {}

(* The files of a committed generation.                                     *)
LEMMA CommittedRow ==
    ASSUME StoreInv, NEW g \in Committed
    PROVE  /\ g \in DOMAIN gens /\ gens[g] \in Row
           /\ gens[g].files \in [Doc -> Texts] /\ gens[g].ran \subseteq Provider
<1>1. g \in DOMAIN gens BY DEF Committed
<1>2. gens[g] \in Row BY <1>1, RowsTyped DEF StoreInv
<1>3. QED BY <1>1, <1>2 DEF Row

(* There are finitely many facts.                                           *)
LEMMA FiniteFacts == IsFiniteSet(Fact)
<1> DEFINE By == Provider \cup {Structural}
           Triples == (Doc \X Text) \X By
           fact == [x \in Triples |-> [doc |-> x[1][1], text |-> x[1][2], by |-> x[2]]]
<1>1. IsFiniteSet(By) BY FS_Singleton, FS_Union
<1>2. IsFiniteSet(Triples) BY <1>1, FS_Product
<1>3. Fact = {fact[x] : x \in Triples}
  <2>1. ASSUME NEW f \in Fact PROVE \E x \in Triples : f = fact[x]
    <3>1. <<<<f.doc, f.text>>, f.by>> \in Triples BY DEF Fact
    <3>2. f = fact[<<<<f.doc, f.text>>, f.by>>] BY <3>1 DEF Fact
    <3>3. QED BY <3>1, <3>2
  <2>2. \A x \in Triples : fact[x] \in Fact BY DEF Fact
  <2> HIDE DEF fact, Triples
  <2>3. QED BY <2>1, <2>2
<1>4. DOMAIN fact = Triples OBVIOUS
<1> HIDE DEF fact, Triples
<1>5. QED BY <1>2, <1>3, <1>4, FiniteValues

(* The ids of facts are numbers.                                            *)
LEMMA FactIdNatural ==
    ASSUME NEW f \in Fact
    PROVE  FactId(f) \in Nat
<1>1. f.doc \in Doc /\ f.text \in Text /\ f.by \in Provider \cup {Structural} BY DEF Fact
<1>2. f.doc \in Nat /\ f.text \in Nat BY <1>1
<1>3. f.by \in Nat
  <2>1. Structural \in Nat BY DEF Structural
  <2>2. CASE f.by \in Provider BY <2>2
  <2>3. CASE f.by = Structural BY <2>1, <2>3
  <2>4. QED BY <1>1, <2>2, <2>3
<1>4. \A x, y, z \in Nat : 100 * x + 10 * y + z \in Nat OBVIOUS
<1>5. 100 * f.doc + 10 * f.text + f.by \in Nat BY <1>2, <1>3, <1>4
<1>6. QED BY <1>5 DEF FactId

(* The facts a generation lists are about its files.                        *)
LEMMA KeysAre ==
    ASSUME StoreInv, NEW g \in Committed
    PROVE  /\ Keys(g) \subseteq Doc /\ Present(g) \subseteq Keys(g)
           /\ \A k \in Keys(g) :
                /\ Snapshot(g, k) \in Fact
                /\ Snapshot(g, k).doc = k /\ Snapshot(g, k).text = gens[g].files[k]
<1>1. facts \subseteq Fact BY DEF StoreInv, StoreTypeOK
<1>2. g \in DOMAIN gens BY CommittedRow
<1>3. Keys(g) \subseteq Doc BY <1>1 DEF Keys, FactsOf, Fact
<1>4. Present(g) \subseteq Keys(g)
  <2>1. ASSUME NEW d \in Present(g) PROVE \E f \in FactsOf(g, facts) : f.doc = d
    <3> DEFINE f == [doc |-> d, text |-> gens[g].files[d], by |-> Structural]
    <3>1. f \in facts BY <1>2 DEF StoreInv, StructureThere, Present
    <3>2. f \in FactsOf(g, facts) /\ f.doc = d BY <3>1 DEF FactsOf
    <3>3. QED BY <3>2
  <2>2. QED BY <2>1 DEF Keys
<1>5. ASSUME NEW k \in Keys(g)
      PROVE  /\ Snapshot(g, k) \in Fact
             /\ Snapshot(g, k).doc = k /\ Snapshot(g, k).text = gens[g].files[k]
  <2> DEFINE S == SymbolFacts(g, k)
             rank == [f \in S |-> FactId(f)]
  <2>1. S \in SUBSET Fact BY <1>1 DEF SymbolFacts, FactsOf
  <2>2. S # {} BY DEF SymbolFacts, Keys
  <2>3. \A f \in Fact : FactId(f) \in Nat BY FactIdNatural
  <2>4. rank \in [S -> Nat] BY <2>1, <2>3
  <2>5. IsFiniteSet(S) BY <2>1, FiniteFacts, FS_Subset
  <2>6. \E m \in S : \A f \in S : rank[f] <= rank[m]
    <3> HIDE DEF S, rank
    <3>1. QED BY <2>2, <2>4, <2>5, HighestRank
  <2>7. \E m \in S : \A f \in S : FactId(f) <= FactId(m) BY <2>6
  <2>8. Snapshot(g, k) \in S BY <2>7 DEF Snapshot
  <2>9. QED BY <2>1, <2>8 DEF SymbolFacts, FactsOf
<1>6. QED BY <1>3, <1>4, <1>5

(* A symbol of both generations is none of the additions.                   *)
LEMMA ChangeOfSymbol ==
    ASSUME NEW from, NEW to, NEW key
    PROVE  /\ SymbolChange(from, to, key) # "added"
           /\ SymbolChange(from, to, key) = "none" =>
                /\ Snapshot(from, key).text = Snapshot(to, key).text
                /\ Snapshot(from, key).by = Snapshot(to, key).by
BY DEF SymbolChange

(* The changes of files are finitely many.                                  *)
LEMMA FilesFinite ==
    ASSUME NEW from, NEW to
    PROVE  IsFiniteSet(FileChanges(from, to))
<1> DEFINE new == gens[to].files
           S1 == Present(to) \ Present(from)
           S2 == {e \in Present(to) \cap Present(from) : gens[from].files[e] # new[e]}
           S3 == Present(from) \ Present(to)
           f1 == [d \in S1 |-> [doc |-> d, kind |-> "added", after |-> new[d]]]
           f2 == [d \in S2 |-> [doc |-> d, kind |-> "modified", after |-> new[d]]]
           f3 == [d \in S3 |-> [doc |-> d, kind |-> "removed", after |-> Absent]]
           T1 == {f1[d] : d \in S1}
           T2 == {f2[d] : d \in S2}
           T3 == {f3[d] : d \in S3}
<1>1. S1 \subseteq Doc /\ S2 \subseteq Doc /\ S3 \subseteq Doc BY DEF Present
<1>2. IsFiniteSet(S1) /\ IsFiniteSet(S2) /\ IsFiniteSet(S3) BY <1>1, FS_Subset
<1>3. FileChanges(from, to) = T1 \cup T2 \cup T3 BY DEF FileChanges
<1>4. DOMAIN f1 = S1 /\ DOMAIN f2 = S2 /\ DOMAIN f3 = S3 OBVIOUS
<1> HIDE DEF f1, f2, f3, S1, S2, S3
<1>5. IsFiniteSet(T1) /\ IsFiniteSet(T2) /\ IsFiniteSet(T3) BY <1>2, <1>4, FiniteValues
<1> HIDE DEF T1, T2, T3
<1>6. IsFiniteSet(T1 \cup T2) BY <1>5, FS_Union
<1>7. IsFiniteSet((T1 \cup T2) \cup T3) BY <1>5, <1>6, FS_Union
<1>8. QED BY <1>3, <1>7

(* The changes of symbols are finitely many.                                *)
LEMMA SymbolsFinite ==
    ASSUME StoreInv, NEW from \in Committed, NEW to \in Committed
    PROVE  IsFiniteSet(SymbolChanges(from, to))
<1> DEFINE S1 == Keys(to) \ Keys(from)
           S2 == Keys(from) \ Keys(to)
           S3 == Keys(to) \cap Keys(from)
           f1 == [k \in S1 |-> [key |-> k, kind |-> "added"]]
           f2 == [k \in S2 |-> [key |-> k, kind |-> "removed"]]
           f3 == [k \in S3 |-> [key |-> k, kind |-> SymbolChange(from, to, k)]]
           T1 == {f1[k] : k \in S1}
           T2 == {f2[k] : k \in S2}
           T3 == {f3[k] : k \in S3}
<1>1. S1 \subseteq Doc /\ S2 \subseteq Doc /\ S3 \subseteq Doc BY KeysAre
<1>2. IsFiniteSet(S1) /\ IsFiniteSet(S2) /\ IsFiniteSet(S3) BY <1>1, FS_Subset
<1>3. SymbolChanges(from, to) \subseteq T1 \cup T2 \cup T3 BY DEF SymbolChanges
<1>4. DOMAIN f1 = S1 /\ DOMAIN f2 = S2 /\ DOMAIN f3 = S3 OBVIOUS
<1> HIDE DEF f1, f2, f3, S1, S2, S3
<1>5. IsFiniteSet(T1) /\ IsFiniteSet(T2) /\ IsFiniteSet(T3) BY <1>2, <1>4, FiniteValues
<1> HIDE DEF T1, T2, T3
<1>6. IsFiniteSet(T1 \cup T2) BY <1>5, FS_Union
<1>7. IsFiniteSet((T1 \cup T2) \cup T3) BY <1>5, <1>6, FS_Union
<1>8. QED BY <1>3, <1>7, FS_Subset

(* The changes of relationships are finitely many.                          *)
LEMMA RowsFinite ==
    ASSUME NEW rels, DOMAIN rels \in SUBSET Doc
    PROVE  IsFiniteSet(RelationshipRows(rels))
<1> DEFINE Kinds == {"changed", "retargeted", "removed", "added"}
<1>1. IsFiniteSet(DOMAIN rels) BY FS_Subset
<1>2. IsFiniteSet({"changed"} \cup {"retargeted"}) /\ IsFiniteSet({"removed"} \cup {"added"})
  BY FS_Singleton, FS_Union
<1>3. IsFiniteSet(({"changed"} \cup {"retargeted"}) \cup ({"removed"} \cup {"added"}))
  BY <1>2, FS_Union
<1>4. Kinds = ({"changed"} \cup {"retargeted"}) \cup ({"removed"} \cup {"added"}) OBVIOUS
<1>5. IsFiniteSet(Kinds) BY <1>3, <1>4
<1> HIDE DEF Kinds
<1>6. IsFiniteSet(Kinds \X Doc) BY <1>5, FS_Product
<1>7. IsFiniteSet((DOMAIN rels) \X (Kinds \X Doc)) BY <1>1, <1>6, FS_Product
<1>8. RelationshipRows(rels) \subseteq (DOMAIN rels) \X (Kinds \X Doc)
  BY DEF RelationshipRows, Kinds
<1>9. QED BY <1>7, <1>8, FS_Subset

(* A symbol that is not reported as changed is vouched for or uncertain.    *)
LEMMA SymbolsAccounted ==
    ASSUME StoreInv, NEW from \in Committed, NEW to \in Committed,
           NEW k \in Present(from) \cap Present(to)
    PROVE  Accounted(k, DeltaOf(from, to))
<1> DEFINE delta == DeltaOf(from, to)
<1>1. k \in Keys(from) /\ k \in Keys(to) BY KeysAre
<1>2. /\ delta.symbols = SymbolChanges(from, to) /\ delta.contracts = Contracts(from, to)
      /\ delta.uncertainty = Uncertainty(from, to)
  BY DEF DeltaOf
<1> HIDE DEF delta
<1>3. CASE SymbolChange(from, to, k) # "none"
  <2> DEFINE c == [key |-> k, kind |-> SymbolChange(from, to, k)]
  <2>1. c \in SymbolChanges(from, to) BY <1>1, <1>3 DEF SymbolChanges
  <2>2. c.key = k /\ c.kind # "added" BY ChangeOfSymbol
  <2>3. QED BY <1>2, <2>1, <2>2 DEF Accounted, delta
<1>4. CASE SymbolChange(from, to, k) = "none"
  <2>1. k \in Unchanged(from, to) BY <1>1, <1>4 DEF Unchanged
  <2>2. k \in Contracts(from, to) \/ Uncertainty(from, to) # {}
    BY <2>1 DEF Contracts, Uncertainty
  <2>3. QED BY <1>2, <2>2 DEF Accounted, delta
<1>5. QED BY <1>3, <1>4

(* What is vouched for has the same text in both generations, and a         *)
(* provider that answered for both.                                         *)
LEMMA ContractsHonest ==
    ASSUME StoreInv, NEW from \in Committed, NEW to \in Committed, NEW k \in Contracts(from, to)
    PROVE  /\ k \in Doc /\ gens[from].files[k] = gens[to].files[k]
           /\ gens[from].ran \cap gens[to].ran # {}
<1>1. /\ k \in Keys(from) /\ k \in Keys(to) /\ SymbolChange(from, to, k) = "none"
      /\ Snapshot(from, k).by \in gens[from].ran /\ Snapshot(to, k).by \in gens[to].ran
  BY DEF Contracts, Unchanged, Covered
<1>2. Snapshot(from, k).text = Snapshot(to, k).text /\ Snapshot(from, k).by = Snapshot(to, k).by
  BY <1>1, ChangeOfSymbol
<1>3. /\ k \in Doc /\ Snapshot(from, k).text = gens[from].files[k]
      /\ Snapshot(to, k).text = gens[to].files[k]
  BY <1>1, KeysAre
<1>4. QED BY <1>1, <1>2, <1>3

(* A computed difference is sound.                                          *)
LEMMA DeltaSound ==
    ASSUME StoreInv, NEW from \in Committed, NEW to \in Committed
    PROVE  Sound(from, to, DeltaOf(from, to))
<1> DEFINE delta == DeltaOf(from, to)
           rels == [k \in Keys(from) \cup Keys(to) |-> RelationshipChanges(from, to, k)]
<1>1. /\ delta.files = FileChanges(from, to) /\ delta.symbols = SymbolChanges(from, to)
      /\ delta.relationships = rels /\ delta.coverage = CoverageChanges(from, to)
      /\ delta.contracts = Contracts(from, to)
  BY DEF DeltaOf
<1>2. IsFiniteSet(delta.files) /\ IsFiniteSet(delta.symbols)
  BY <1>1, FilesFinite, SymbolsFinite
<1>3. IsFiniteSet(delta.coverage)
  <2>1. delta.coverage \in SUBSET Provider BY <1>1 DEF CoverageChanges
  <2>2. QED BY <2>1, FS_Subset
<1>4. \A k \in delta.contracts :
        /\ k \in Doc /\ gens[from].files[k] = gens[to].files[k]
        /\ gens[from].ran \cap gens[to].ran # {}
  BY <1>1, ContractsHonest
<1>5. delta.contracts \subseteq Doc /\ IsFiniteSet(delta.contracts)
  <2>1. delta.contracts \in SUBSET Doc BY <1>4
  <2>2. QED BY <2>1, FS_Subset
<1>6. DOMAIN rels \in SUBSET Doc BY KeysAre
<1>7. IsFiniteSet(RelationshipRows(delta.relationships))
  <2> HIDE DEF rels
  <2>1. QED BY <1>1, <1>6, RowsFinite
<1>8. Bounded(delta) BY <1>2, <1>3, <1>5, <1>7 DEF Bounded
<1>9. \A k \in Present(from) \cap Present(to) : Accounted(k, delta) BY SymbolsAccounted
<1> HIDE DEF delta
<1>10. Sound(from, to, delta) BY <1>1, <1>4, <1>8, <1>9 DEF Sound
<1>11. QED BY <1>10 DEF delta

(* It stays sound: what it is about does not change.                        *)
LEMMA SoundStays ==
    ASSUME StoreInv, [Next]_vars
    PROVE  \A from, to, delta : Sound(from, to, delta) => Sound(from, to, delta)'
<1> SUFFICES ASSUME NEW from, NEW to, NEW delta, Sound(from, to, delta)
             PROVE  Sound(from, to, delta)'
  OBVIOUS
<1>1. /\ from \in Committed' /\ to \in Committed'
      /\ gens'[from] = gens[from] /\ gens'[to] = gens[to]
  BY CommittedStays DEF Sound
<1>2. Present(from)' = Present(from) /\ Present(to)' = Present(to) BY <1>1 DEF Present
<1>3. FileChanges(from, to)' = FileChanges(from, to) BY <1>1, <1>2 DEF FileChanges
<1>4. QED BY <1>1, <1>2, <1>3 DEF Sound

(* A list within its limit is returned in full.                             *)
LEMMA ReturnedInFull ==
    ASSUME NEW listed \in SUBSET Nat, IsFiniteSet(listed), NEW limit \in Nat,
           Cardinality(listed) <= limit
    PROVE  Returned(listed, limit) = listed
<1>1. ASSUME NEW d \in listed PROVE Cardinality({e \in listed : e < d}) < limit
  <2> DEFINE below == {e \in listed : e < d}
  <2>1. below \in SUBSET listed /\ d \notin below OBVIOUS
  <2> HIDE DEF below
  <2>2. /\ IsFiniteSet(below) /\ Cardinality(below) <= Cardinality(listed)
        /\ Cardinality(below) = Cardinality(listed) => below = listed
    BY <2>1, FS_Subset
  <2>3. Cardinality(below) # Cardinality(listed) BY <2>1, <2>2
  <2>4. Cardinality(below) \in Nat /\ Cardinality(listed) \in Nat BY <2>2, FS_CardinalityType
  <2>5. Cardinality(below) < limit BY <2>2, <2>3, <2>4
  <2>6. QED BY <2>5 DEF below
<1>2. QED BY <1>1 DEF Returned

(* The changes of files name the files that differ, with what they became.  *)
LEMMA ChangesOfFiles ==
    ASSUME StoreInv, NEW from \in Committed, NEW to \in Committed
    PROVE  /\ \A c \in FileChanges(from, to) :
                /\ c.doc \in Doc /\ c.after = gens[to].files[c.doc]
                /\ c.kind = "added" => c.doc \notin Present(from)
           /\ \A d \in Doc : gens[from].files[d] # gens[to].files[d] =>
                \E c \in FileChanges(from, to) : c.doc = d
<1>1. ASSUME NEW c \in FileChanges(from, to)
      PROVE  /\ c.doc \in Doc /\ c.after = gens[to].files[c.doc]
             /\ c.kind = "added" => c.doc \notin Present(from)
  BY DEF FileChanges, Present
<1>2. ASSUME NEW d \in Doc, gens[from].files[d] # gens[to].files[d]
      PROVE  \E c \in FileChanges(from, to) : c.doc = d
  <2>1. CASE d \in Present(to) \ Present(from)
    <3>1. [doc |-> d, kind |-> "added", after |-> gens[to].files[d]] \in FileChanges(from, to)
      BY <2>1 DEF FileChanges
    <3>2. QED BY <3>1
  <2>2. CASE d \in Present(from) \ Present(to)
    <3>1. [doc |-> d, kind |-> "removed", after |-> Absent] \in FileChanges(from, to)
      BY <2>2 DEF FileChanges
    <3>2. QED BY <3>1
  <2>3. CASE d \in Present(to) \cap Present(from)
    <3>1. [doc |-> d, kind |-> "modified", after |-> gens[to].files[d]] \in FileChanges(from, to)
      BY <1>2, <2>3 DEF FileChanges
    <3>2. QED BY <3>1
  <2>4. QED BY <1>2, <2>1, <2>2, <2>3 DEF Present
<1>3. QED BY <1>1, <1>2

(* The files of every change within the limit were looked at.               *)
Looked(q) ==
    Cardinality(q.delta.files) <= q.limit =>
        \A c \in q.delta.files : c.doc \in Present(q.to) => c.doc \in q.current \cup q.stale

(* Every file the report relies on was met in the tree.                     *)
Verified(from, to, current) ==
    /\ Present(to) \subseteq current
    /\ \A d \in Present(from) : gens[to].files[d] = gens[from].files[d]

(* A report of less than moderate risk left nothing out.                    *)
LEMMA QuietReport ==
    ASSUME NEW q, NEW stale, Bounded(q.delta), q.limit \in Nat,
           Risk(q, stale) \in {"none", "low", "unknown"}
    PROVE  /\ q.stale \cup stale = {} /\ q.delta.uncertainty = {}
           /\ Cardinality(q.delta.files) <= q.limit /\ Cardinality(q.delta.contracts) <= q.limit
           /\ \A c \in q.delta.files \cup q.delta.symbols : c.kind = "added"
<1>1. ~ High(q, stale) /\ ~ Moderate(q) BY DEF Risk
<1>2. q.stale \cup stale = {} /\ q.delta.uncertainty = {} BY <1>1 DEF High
<1>3. \A c \in q.delta.files \cup q.delta.symbols : c.kind = "added"
  BY <1>1 DEF Moderate, Disruptive
<1>4. ~ TotalMatched(q.delta) > q.limit /\ ~ Cardinality(q.delta.contracts) > q.limit
  BY <1>1 DEF Moderate
<1>5. /\ Cardinality(q.delta.files) \in Nat /\ Cardinality(q.delta.symbols) \in Nat
      /\ Cardinality(q.delta.coverage) \in Nat /\ Cardinality(q.delta.contracts) \in Nat
      /\ Cardinality(RelationshipRows(q.delta.relationships)) \in Nat
  BY FS_CardinalityType DEF Bounded
<1>6. Cardinality(q.delta.files) <= q.limit
  <2>1. \A f, s, c, r, limit \in Nat : ~ f + s + c + r > limit => f <= limit OBVIOUS
  <2>2. ~ Cardinality(q.delta.files) + Cardinality(q.delta.symbols) + Cardinality(q.delta.coverage)
            + Cardinality(RelationshipRows(q.delta.relationships)) > q.limit
    BY <1>4 DEF TotalMatched
  <2>3. QED BY <1>5, <2>1, <2>2
<1>7. Cardinality(q.delta.contracts) <= q.limit BY <1>4, <1>5
<1>8. QED BY <1>2, <1>3, <1>6, <1>7

(* What a report of less than moderate risk is about was verified.          *)
LEMMA ReportVerified ==
    ASSUME StoreInv, NEW q, Sound(q.from, q.to, q.delta), q.limit \in Nat, Looked(q),
           NEW contracts, contracts = Returned(q.delta.contracts, q.limit),
           NEW current, current = {k \in contracts : MatchesLive(q.to, k)},
           Risk(q, contracts \ current) \in {"none", "low", "unknown"}
    PROVE  Verified(q.from, q.to, q.current \cup current)
<1>1. /\ q.from \in Committed /\ q.to \in Committed /\ Bounded(q.delta)
      /\ q.delta.files = FileChanges(q.from, q.to)
      /\ \A k \in Present(q.from) \cap Present(q.to) : Accounted(k, q.delta)
  BY DEF Sound
<1>2. /\ q.stale \cup (contracts \ current) = {} /\ q.delta.uncertainty = {}
      /\ Cardinality(q.delta.files) <= q.limit /\ Cardinality(q.delta.contracts) <= q.limit
      /\ \A c \in q.delta.files \cup q.delta.symbols : c.kind = "added"
  BY <1>1, QuietReport
<1>3. contracts = q.delta.contracts
  <2>1. q.delta.contracts \in SUBSET Nat /\ IsFiniteSet(q.delta.contracts)
    BY <1>1 DEF Bounded
  <2>2. QED BY <1>2, <2>1, ReturnedInFull
<1>4. \A c \in q.delta.files : c.doc \in Doc /\ c.doc \notin Present(q.from)
  BY <1>1, <1>2, ChangesOfFiles
<1>5. ASSUME NEW d \in Present(q.from) PROVE gens[q.to].files[d] = gens[q.from].files[d]
  <2>1. d \in Doc BY DEF Present
  <2>2. QED BY <1>1, <1>4, <2>1, ChangesOfFiles
<1>6. ASSUME NEW d \in Present(q.to) PROVE d \in q.current \cup current
  <2>1. CASE d \in Present(q.from)
    <3>1. Accounted(d, q.delta) BY <1>1, <2>1
    <3>2. d \in contracts BY <1>2, <1>3, <3>1 DEF Accounted
    <3>3. QED BY <1>2, <3>2
  <2>2. CASE d \notin Present(q.from)
    <3>1. d \in Doc /\ gens[q.from].files[d] # gens[q.to].files[d] BY <2>2 DEF Present
    <3>2. \E c \in FileChanges(q.from, q.to) : c.doc = d
      <4>1. \A from, to \in Committed : gens[from].files[d] # gens[to].files[d] =>
              \E c \in FileChanges(from, to) : c.doc = d
        BY <3>1, ChangesOfFiles
      <4>2. QED BY <1>1, <3>1, <4>1
    <3>3. PICK c \in q.delta.files : c.doc = d BY <1>1, <3>2
    <3>4. d \in q.current \cup q.stale BY <1>2, <3>3 DEF Looked
    <3>5. QED BY <1>2, <3>4
  <2>3. QED BY <2>1, <2>2
<1>7. QED BY <1>5, <1>6 DEF Verified

(* What a query has at each of its steps.                                   *)
QueryOk(q) ==
    /\ q.step \in {"compare", "answered"} => q.from \in Committed /\ q.to \in Committed
    /\ q.step \in {"persist", "summarize", "validate"} => Sound(q.from, q.to, q.delta)
    /\ q.step = "persist" =>
         q = [step |-> "persist", report |-> q.report, from |-> q.from, to |-> q.to,
              delta |-> q.delta]
    /\ q.step = "validate" => q.limit \in Nat /\ Looked(q)
    /\ q.step = "answered" /\ q.risk \in {"none", "low", "unknown"} =>
         Verified(q.from, q.to, q.current)

(* A persisted or computed difference is sound.                             *)
CompletionOk(q) == q.step = "computed" => Sound(q.from, q.to, q.delta)

DeltaInv ==
    /\ \A q : q = query => QueryOk(q)
    /\ \A q : q = completion => CompletionOk(q)
    /\ \A pair, delta : pair \in DOMAIN deltas /\ deltas[pair] = delta =>
         Sound(pair[1], pair[2], delta)

(* It has so whatever the others do.                                        *)
LEMMA QueryStays ==
    ASSUME StoreInv, [Next]_vars
    PROVE  /\ \A q : QueryOk(q) => QueryOk(q)'
           /\ \A q : CompletionOk(q) => CompletionOk(q)'
<1>1. \A q : Sound(q.from, q.to, q.delta) => Sound(q.from, q.to, q.delta)' BY SoundStays
<1>2. ASSUME NEW g \in Committed
      PROVE  g \in Committed' /\ gens'[g] = gens[g] /\ Present(g)' = Present(g)
  <2>1. g \in Committed' /\ gens'[g] = gens[g] BY CommittedStays
  <2>2. QED BY <2>1 DEF Present
<1>3. ASSUME NEW q, QueryOk(q) PROVE QueryOk(q)'
  <2>1. q.step = "validate" => q.limit \in Nat /\ Looked(q)'
    BY <1>2, <1>3 DEF QueryOk, Looked, Sound
  <2>2. q.step = "answered" /\ q.risk \in {"none", "low", "unknown"} =>
          Verified(q.from, q.to, q.current)'
    BY <1>2, <1>3 DEF QueryOk, Verified
  <2>3. q.step \in {"compare", "answered"} => q.from \in Committed' /\ q.to \in Committed'
    BY <1>2, <1>3 DEF QueryOk
  <2>4. q.step \in {"persist", "summarize", "validate"} => Sound(q.from, q.to, q.delta)'
    BY <1>1, <1>3 DEF QueryOk
  <2>5. QED BY <1>3, <2>1, <2>2, <2>3, <2>4 DEF QueryOk
<1>4. QED BY <1>1, <1>3 DEF CompletionOk

(* A step of a query gives it what the next step needs.                     *)
LEMMA QuerySteps ==
    ASSUME StoreInv, DeltaInv, Comparing, NEW q, q = query'
    PROVE  QueryOk(q)
<1>o. QueryOk(query) BY DEF DeltaInv
<1>1. CASE BeginTemporal
  <2>1. active # None /\ active \in Committed /\ active \in DOMAIN gens
    BY <1>1 DEF BeginTemporal, StoreInv, ActiveIsLast, Committed
  <2>2. gens[active].parent # None => gens[active].parent \in Committed
    BY <2>1 DEF StoreInv, Lineage
  <2>3. PICK from \in {gens[active].parent} \cup Committed :
          q = IF from = None THEN [step |-> "baseline"]
              ELSE IF from \in Ancestors(active)
              THEN [step |-> "compare", report |-> TRUE, from |-> from, to |-> active]
              ELSE [step |-> "refused"]
    BY <1>1 DEF BeginTemporal
  <2>4. q.step = "compare" => q.from \in Committed /\ q.to \in Committed
    BY <2>1, <2>2, <2>3
  <2>5. q.step \in {"baseline", "refused", "compare"} BY <2>3
  <2>6. QED BY <2>4, <2>5 DEF QueryOk
<1>2. CASE BeginGenerationDelta BY <1>2 DEF BeginGenerationDelta, QueryOk
<1>3. CASE ComputeDelta
  <2>1. query.from \in Committed /\ query.to \in Committed BY <1>o, <1>3 DEF ComputeDelta, QueryOk
  <2>2. \A from, to \in Committed : Sound(from, to, DeltaOf(from, to)) BY DeltaSound
  <2>3. /\ q = [step |-> "persist", report |-> query.report, from |-> query.from,
                to |-> query.to, delta |-> DeltaOf(query.from, query.to)]
    BY <1>3 DEF ComputeDelta
  <2>4. Sound(q.from, q.to, q.delta) BY <2>1, <2>2, <2>3
  <2>5. q.step = "persist" /\ q = [step |-> "persist", report |-> q.report, from |-> q.from,
                                   to |-> q.to, delta |-> q.delta]
    BY <2>3
  <2>6. QED BY <2>4, <2>5 DEF QueryOk
<1>4. CASE PersistDelta
  <2>1. /\ query = [step |-> "persist", report |-> query.report, from |-> query.from,
                    to |-> query.to, delta |-> query.delta]
        /\ Sound(query.from, query.to, query.delta)
    BY <1>o, <1>4 DEF PersistDelta, QueryOk
  <2>2. \/ q.step \in {"conflict", "reported"}
        \/ q = [query EXCEPT !.step = "summarize"]
    BY <1>4 DEF PersistDelta
  <2>3. q.step \in {"conflict", "reported"} \/ (q.step = "summarize" /\ q.from = query.from
            /\ q.to = query.to /\ q.delta = query.delta)
    BY <2>1, <2>2
  <2>4. QED BY <2>1, <2>3 DEF QueryOk
<1>5. CASE SummarizeChanges
  <2>1. Sound(query.from, query.to, query.delta) BY <1>o, <1>5 DEF SummarizeChanges, QueryOk
  <2>2. PICK limit \in RecordLimits :
          LET paths == Returned({c.doc : c \in query.delta.files}, limit) \cap Present(query.to)
              current == {d \in paths : MatchesLive(query.to, d)}
          IN  q = [step |-> "validate", from |-> query.from, to |-> query.to,
                   delta |-> query.delta, limit |-> limit, current |-> current,
                   stale |-> paths \ current]
    BY <1>5 DEF SummarizeChanges
  <2> DEFINE docs == {c.doc : c \in query.delta.files}
             paths == Returned(docs, limit) \cap Present(query.to)
             current == {d \in paths : MatchesLive(query.to, d)}
  <2>3. /\ q.step = "validate" /\ q.from = query.from /\ q.to = query.to /\ q.delta = query.delta
        /\ q.limit = limit /\ q.current = current /\ q.stale = paths \ current
    BY <2>2
  <2>4. /\ query.from \in Committed /\ query.to \in Committed
        /\ IsFiniteSet(query.delta.files) /\ query.delta.files = FileChanges(query.from, query.to)
    BY <2>1 DEF Sound, Bounded
  <2>5. docs \in SUBSET Nat
    <3>1. \A from, to \in Committed : \A c \in FileChanges(from, to) : c.doc \in Doc
      BY ChangesOfFiles
    <3>2. \A c \in query.delta.files : c.doc \in Doc BY <2>4, <3>1
    <3>3. QED BY <3>2
  <2>6. /\ IsFiniteSet(docs) /\ Cardinality(docs) <= Cardinality(query.delta.files)
        /\ Cardinality(docs) \in Nat /\ Cardinality(query.delta.files) \in Nat
    <3> DEFINE f == [c \in query.delta.files |-> c.doc]
    <3>1. DOMAIN f = query.delta.files /\ docs = {f[c] : c \in query.delta.files} OBVIOUS
    <3> HIDE DEF f, docs
    <3>2. IsFiniteSet(docs) /\ Cardinality(docs) <= Cardinality(query.delta.files)
      BY <2>4, <3>1, FiniteValues
    <3>3. QED BY <2>4, <3>2, FS_CardinalityType
  <2>7. limit \in Nat OBVIOUS
  <2>8. Looked(q)
    <3>1. SUFFICES ASSUME Cardinality(query.delta.files) <= limit, NEW c \in query.delta.files,
                          c.doc \in Present(query.to)
                   PROVE  c.doc \in paths
      BY <2>3 DEF Looked
    <3>2. c.doc \in docs OBVIOUS
    <3> HIDE DEF docs
    <3>3. Cardinality(docs) <= limit BY <2>6, <2>7, <3>1
    <3>4. Returned(docs, limit) = docs BY <2>5, <2>6, <2>7, <3>3, ReturnedInFull
    <3>5. QED BY <3>1, <3>2, <3>4
  <2>9. Sound(q.from, q.to, q.delta) BY <2>1, <2>3
  <2>10. QED BY <2>3, <2>7, <2>8, <2>9 DEF QueryOk
<1>6. CASE Report
  <2> DEFINE contracts == Returned(query.delta.contracts, query.limit)
             current == {k \in contracts : MatchesLive(query.to, k)}
             risk == Risk(query, contracts \ current)
  <2>1. /\ q.step = "answered" /\ q.from = query.from /\ q.to = query.to
        /\ q.current = query.current \cup current /\ q.risk = risk
    BY <1>6 DEF Report
  <2>2. Sound(query.from, query.to, query.delta) /\ query.limit \in Nat /\ Looked(query)
    BY <1>o, <1>6 DEF Report, QueryOk
  <2>3. query.from \in Committed /\ query.to \in Committed BY <2>2 DEF Sound
  <2>4. \A old : Sound(old.from, old.to, old.delta) /\ old.limit \in Nat /\ Looked(old) =>
          LET cs == Returned(old.delta.contracts, old.limit)
              cur == {k \in cs : MatchesLive(old.to, k)}
          IN  Risk(old, cs \ cur) \in {"none", "low", "unknown"} =>
                Verified(old.from, old.to, old.current \cup cur)
    BY ReportVerified
  <2>5. risk \in {"none", "low", "unknown"} =>
          Verified(query.from, query.to, query.current \cup current)
    BY <2>2, <2>4
  <2> HIDE DEF current, risk
  <2>6. QED BY <2>1, <2>3, <2>5 DEF QueryOk
<1>7. CASE EndQuery \/ AbortQuery
  BY <1>7 DEF EndQuery, AbortQuery, NoQuery, QueryOk
<1>8. QED BY <1>1, <1>2, <1>3, <1>4, <1>5, <1>6, <1>7 DEF Comparing

(* A step keeps the differences sound.                                      *)
LEMMA NextDelta == StoreInv /\ DeltaInv /\ [Next]_vars => DeltaInv'
<1> SUFFICES ASSUME StoreInv, DeltaInv, [Next]_vars PROVE DeltaInv' OBVIOUS
<1> DEFINE DeltasSound ==
        \A pair, delta : pair \in DOMAIN deltas' /\ deltas'[pair] = delta =>
            Sound(pair[1], pair[2], delta)
<1>1. ASSUME \A q : q = query' => QueryOk(q), \A q : q = completion' => CompletionOk(q),
             DeltasSound
      PROVE  DeltaInv'
  <2>1. \A q : q = query' => QueryOk(q)' BY <1>1, QueryStays
  <2>2. \A q : q = completion' => CompletionOk(q)' BY <1>1, QueryStays
  <2>3. \A pair, delta : pair \in DOMAIN deltas' /\ deltas'[pair] = delta =>
          Sound(pair[1], pair[2], delta)'
    BY <1>1, SoundStays
  <2>4. QED BY <2>1, <2>2, <2>3 DEF DeltaInv
<1>q. CASE UNCHANGED query
  <2>1. \A q : q = query' => QueryOk(q) BY <1>q DEF DeltaInv
  <2>2. CASE BeginCompletion
    <3>1. /\ active # None /\ active \in Committed /\ UNCHANGED deltas
      BY <2>2 DEF BeginCompletion, StoreInv, ActiveIsLast
    <3>2. PICK start \in Committed :
            completion' = [step |-> "computed", from |-> start, to |-> active,
                           delta |-> DeltaOf(start, active)]
      BY <2>2 DEF BeginCompletion
    <3>3. \A from, to \in Committed : Sound(from, to, DeltaOf(from, to)) BY DeltaSound
    <3>4. Sound(start, active, DeltaOf(start, active)) BY <3>1, <3>3
    <3>5. \A q : q = completion' => CompletionOk(q) BY <3>2, <3>4 DEF CompletionOk
    <3>6. DeltasSound BY <3>1 DEF DeltaInv
    <3>7. QED BY <1>1, <2>1, <3>5, <3>6
  <2>3. CASE FinishCompletion
    <3>1. \A q : q = completion' => CompletionOk(q) BY <2>3 DEF FinishCompletion, CompletionOk
    <3>2. Sound(completion.from, completion.to, completion.delta)
      BY <2>3 DEF FinishCompletion, DeltaInv, CompletionOk
    <3>3. UNCHANGED deltas \/ Persist(completion.from, completion.to, completion.delta)
      BY <2>3 DEF FinishCompletion
    <3>4. DeltasSound
      <4>1. CASE UNCHANGED deltas BY <4>1 DEF DeltaInv
      <4>2. CASE Persist(completion.from, completion.to, completion.delta)
        <5>1. \A pair : pair \in DOMAIN deltas' =>
                \/ pair \in DOMAIN deltas /\ deltas'[pair] = deltas[pair]
                \/ /\ pair = <<completion.from, completion.to>>
                   /\ deltas'[pair] = completion.delta
          BY <4>2 DEF Persist, InsertOrIgnore
        <5>2. QED BY <3>2, <5>1 DEF DeltaInv
      <4>3. QED BY <3>3, <4>1, <4>2
    <3>5. QED BY <1>1, <2>1, <3>1, <3>4
  <2>4. CASE UNCHANGED <<deltas, completion>>
    BY <1>1, <2>1, <2>4 DEF DeltaInv
  <2>5. CASE Leasing BY <2>4, <2>5 DEF Leasing, CreateLease, VerifyLease
  <2>6. CASE ~ Completing /\ ~ Leasing /\ ~ Comparing
    BY <2>4, <2>6 DEF Next, vars, deltaVars, Reconciling
  <2>7. CASE Comparing
    <3>1. CASE PersistDelta BY <1>q, <3>1 DEF PersistDelta, DeltaInv, QueryOk
    <3>2. CASE ~ PersistDelta
      BY <2>4, <2>7, <3>2 DEF Comparing, BeginTemporal, BeginGenerationDelta, ComputeDelta,
                              SummarizeChanges, Report, EndQuery, AbortQuery
    <3>3. QED BY <3>1, <3>2
  <2>8. QED BY <2>2, <2>3, <2>5, <2>6, <2>7 DEF Completing
<1>c. CASE Comparing
  <2>1. \A q : q = query' => QueryOk(q) BY <1>c, QuerySteps
  <2>2. UNCHANGED completion
    BY <1>c DEF Comparing, BeginTemporal, BeginGenerationDelta, ComputeDelta, PersistDelta,
                SummarizeChanges, Report, EndQuery, AbortQuery
  <2>3. \A q : q = completion' => CompletionOk(q) BY <2>2 DEF DeltaInv
  <2>4. CASE PersistDelta
    <3>1. Persist(query.from, query.to, query.delta) BY <2>4 DEF PersistDelta
    <3>2. Sound(query.from, query.to, query.delta) BY <2>4 DEF PersistDelta, DeltaInv, QueryOk
    <3>3. \A pair : pair \in DOMAIN deltas' =>
            \/ pair \in DOMAIN deltas /\ deltas'[pair] = deltas[pair]
            \/ pair = <<query.from, query.to>> /\ deltas'[pair] = query.delta
      BY <3>1 DEF Persist, InsertOrIgnore
    <3>4. DeltasSound BY <3>2, <3>3 DEF DeltaInv
    <3>5. QED BY <1>1, <2>1, <2>3, <3>4
  <2>5. CASE ~ PersistDelta
    <3>1. UNCHANGED deltas
      BY <1>c, <2>5 DEF Comparing, BeginTemporal, BeginGenerationDelta, ComputeDelta,
                        SummarizeChanges, Report, EndQuery, AbortQuery
    <3>2. DeltasSound BY <3>1 DEF DeltaInv
    <3>3. QED BY <1>1, <2>1, <2>3, <3>2
  <2>6. QED BY <2>4, <2>5
<1>2. UNCHANGED query \/ Comparing
  BY DEF Next, vars, deltaVars, Reconciling, Completing, BeginCompletion, FinishCompletion,
         Leasing, CreateLease, VerifyLease
<1>3. QED BY <1>2, <1>q, <1>c

(* A sound difference, applied, explains the newer generation.              *)
LEMMA SoundExplains ==
    ASSUME StoreInv, NEW from, NEW to, NEW delta, Sound(from, to, delta)
    PROVE  LET applied == [d \in Doc |->
                   IF \E c \in delta.files : c.doc = d
                   THEN (CHOOSE c \in delta.files : c.doc = d).after ELSE gens[from].files[d]]
           IN  /\ applied = gens[to].files
               /\ \A k \in Present(from) \cap Present(to) :
                    \/ \E c \in delta.symbols : c.key = k
                    \/ k \in delta.contracts
                    \/ delta.uncertainty # {}
               /\ \A k \in delta.contracts :
                    /\ gens[from].files[k] = gens[to].files[k]
                    /\ gens[from].ran \cap gens[to].ran # {}
<1> DEFINE after(d) == IF \E c \in delta.files : c.doc = d
                       THEN (CHOOSE c \in delta.files : c.doc = d).after ELSE gens[from].files[d]
<1>1. from \in Committed /\ to \in Committed /\ delta.files = FileChanges(from, to)
  BY DEF Sound
<1>2. gens[to].files \in [Doc -> Texts] BY <1>1, CommittedRow
<1>3. ASSUME NEW d \in Doc PROVE after(d) = gens[to].files[d]
  <2>1. CASE \E c \in delta.files : c.doc = d
    <3>1. PICK c \in delta.files : c.doc = d /\ after(d) = c.after BY <2>1
    <3>2. QED BY <1>1, <3>1, ChangesOfFiles
  <2>2. CASE ~ \E c \in delta.files : c.doc = d
    <3>1. after(d) = gens[from].files[d] BY <2>2
    <3>2. QED BY <1>1, <2>2, <3>1, ChangesOfFiles
  <2>3. QED BY <2>1, <2>2
<1> HIDE DEF after
<1>4. [d \in Doc |-> after(d)] = gens[to].files BY <1>2, <1>3
<1>5. \A k \in Present(from) \cap Present(to) :
        (\E c \in delta.symbols : c.key = k) \/ k \in delta.contracts \/ delta.uncertainty # {}
  BY DEF Sound, Accounted
<1>6. \A k \in delta.contracts : /\ gens[from].files[k] = gens[to].files[k]
                                 /\ gens[from].ran \cap gens[to].ran # {}
  BY DEF Sound
<1>7. QED BY <1>4, <1>5, <1>6 DEF after

(* A persisted difference, applied to the older generation, gives the       *)
(* newer, vouches only for what both hold, and a report of less than        *)
(* moderate risk has met every file in the tree, for any number of          *)
(* generations, files and commands at work (compute_generation_delta,       *)
(* summarize_risk).                                                         *)
THEOREM DeltasExplained == Spec => []DeltasExplain
<1>1. Init => StoreInv /\ DeltaInv
  <2> SUFFICES ASSUME Init PROVE DeltaInv BY InitStore
  <2>1. query = NoQuery /\ completion = NoQuery /\ DOMAIN deltas = {} BY DEF Init, DeltaInit
  <2>2. QED BY <2>1 DEF DeltaInv, QueryOk, CompletionOk, NoQuery
<1>2. StoreInv /\ DeltaInv /\ [Next]_vars => (StoreInv /\ DeltaInv)' BY NextStore, NextDelta
<1>3. StoreInv /\ DeltaInv => DeltasExplain
  <2> SUFFICES ASSUME StoreInv, DeltaInv PROVE DeltasExplain OBVIOUS
  <2>1. \A pair \in DOMAIN deltas : Sound(pair[1], pair[2], deltas[pair]) BY DEF DeltaInv
  <2>2. DifferencesExplain
    <3> SUFFICES ASSUME NEW pair \in DOMAIN deltas
                 PROVE  LET from == pair[1] to == pair[2] delta == deltas[pair]
                            applied == [d \in Doc |->
                                IF \E c \in delta.files : c.doc = d
                                THEN (CHOOSE c \in delta.files : c.doc = d).after
                                ELSE gens[from].files[d]]
                        IN  /\ applied = gens[to].files
                            /\ \A k \in Present(from) \cap Present(to) :
                                 \/ \E c \in delta.symbols : c.key = k
                                 \/ k \in delta.contracts
                                 \/ delta.uncertainty # {}
                            /\ \A k \in delta.contracts :
                                 /\ gens[from].files[k] = gens[to].files[k]
                                 /\ gens[from].ran \cap gens[to].ran # {}
      BY DEF DifferencesExplain
    <3>1. PICK delta : delta = deltas[pair] OBVIOUS
    <3>2. Sound(pair[1], pair[2], delta) BY <2>1, <3>1
    <3>3. QED BY <3>1, <3>2, SoundExplains, Zenon
  <2>3. LowRiskIsVerified BY DEF DeltaInv, QueryOk, Verified, LowRiskIsVerified
  <2>4. QED BY <2>2, <2>3 DEF DeltasExplain
<1>4. QED BY <1>1, <1>2, <1>3, PTL DEF Spec

-----------------------------------------------------------------------------
(* Answers: the first rows of an order, and of two slices of it.            *)

(* Finitely many edges, all in one line.                                    *)
Line(S) ==
    /\ IsFiniteSet(S)
    /\ \A x \in S : ~ Before(x, x)
    /\ \A x, y \in S : x # y => Before(x, y) \/ Before(y, x)
    /\ \A x, y, z \in S : Before(x, y) /\ Before(y, z) => Before(x, z)

Earlier(e, S) == {x \in S : Before(x, e)}

(* The edges before another are fewer the earlier it is.                    *)
LEMMA EarlierFewer ==
    ASSUME NEW S, Line(S)
    PROVE  /\ \A e \in S : IsFiniteSet(Earlier(e, S)) /\ Cardinality(Earlier(e, S)) \in Nat
           /\ \A x, y \in S : Before(x, y) =>
                Cardinality(Earlier(x, S)) < Cardinality(Earlier(y, S))
<1>1. ASSUME NEW e \in S
      PROVE  IsFiniteSet(Earlier(e, S)) /\ Cardinality(Earlier(e, S)) \in Nat
  <2>1. Earlier(e, S) \in SUBSET S BY DEF Earlier
  <2>2. QED BY <2>1, FS_Subset, FS_CardinalityType DEF Line
<1>2. ASSUME NEW x \in S, NEW y \in S, Before(x, y)
      PROVE  Cardinality(Earlier(x, S)) < Cardinality(Earlier(y, S))
  <2>1. Earlier(x, S) \in SUBSET Earlier(y, S) BY <1>2 DEF Earlier, Line
  <2>2. x \in Earlier(y, S) /\ x \notin Earlier(x, S) BY <1>2 DEF Earlier, Line
  <2>3. /\ Cardinality(Earlier(x, S)) <= Cardinality(Earlier(y, S))
        /\ Cardinality(Earlier(x, S)) # Cardinality(Earlier(y, S))
    BY <1>1, <2>1, <2>2, FS_Subset
  <2>4. QED BY <1>1, <2>3
<1>3. QED BY <1>1, <1>2

(* First(n, S) has n edges at most.                                         *)
LEMMA FirstBounded ==
    ASSUME NEW S, Line(S), NEW n \in Nat
    PROVE  /\ First(n, S) \subseteq S /\ IsFiniteSet(First(n, S))
           /\ Cardinality(First(n, S)) \in Nat /\ Cardinality(First(n, S)) <= n
<1> DEFINE F == First(n, S)
           rank == [e \in F |-> Cardinality(Earlier(e, S))]
<1>1. F = {e \in S : Cardinality(Earlier(e, S)) < n} BY DEF First, Earlier
<1> HIDE DEF F
<1>2. \A e \in F : e \in S /\ rank[e] \in 0 .. n - 1 BY <1>1, EarlierFewer
<1>3. \A x, y \in F : x # y => rank[x] # rank[y]
  <2>1. \A x, y \in F : x # y => Before(x, y) \/ Before(y, x) BY <1>2 DEF Line
  <2>2. \A x, y \in F : Before(x, y) => rank[x] < rank[y] BY <1>2, EarlierFewer
  <2>3. \A x, y \in F : rank[x] \in Nat /\ rank[y] \in Nat BY <1>2
  <2> HIDE DEF rank
  <2>4. QED BY <2>1, <2>2, <2>3
<1>4. rank \in Injection(F, 0 .. n - 1)
  <2>1. rank \in [F -> 0 .. n - 1] BY <1>2
  <2> HIDE DEF rank
  <2>2. QED BY <1>3, <2>1 DEF Injection, IsInjective
<1>5. IsFiniteSet(0 .. n - 1) /\ Cardinality(0 .. n - 1) = n BY FS_Interval
<1> HIDE DEF rank
<1>6. IsFiniteSet(F) /\ Cardinality(F) <= Cardinality(0 .. n - 1) BY <1>4, <1>5, FS_Injection
<1>7. Cardinality(F) \in Nat BY <1>6, FS_CardinalityType
<1>8. F \subseteq S BY <1>2
<1>9. QED BY <1>5, <1>6, <1>7, <1>8 DEF F

(* When it is not all of S, it is full, and the others come later.          *)
LEMMA FirstFills ==
    ASSUME NEW S, Line(S), NEW n \in Nat, NEW e \in S, e \notin First(n, S)
    PROVE  /\ Cardinality(First(n, S)) >= n
           /\ \A x \in First(n, S) : Before(x, e)
<1> DEFINE F == First(n, S)
           rank(x) == Cardinality(Earlier(x, S))
<1>1. F = {x \in S : rank(x) < n} BY DEF First, Earlier
<1>2. \A x \in S : rank(x) \in Nat BY EarlierFewer
<1>3. \A x, y \in S : Before(x, y) => rank(x) < rank(y) BY EarlierFewer
<1> HIDE DEF F, rank
<1>4. ASSUME NEW x \in F PROVE Before(x, e)
  <2>1. x \in S /\ rank(x) < n /\ ~ rank(e) < n /\ x # e BY <1>1, <1>4 DEF F
  <2>2. ~ Before(e, x) BY <1>2, <1>3, <2>1
  <2>3. QED BY <2>1, <2>2 DEF Line
<1>5. PICK m \in S \ F : \A x \in S \ F : rank(m) <= rank(x)
  <2> DEFINE ranks == {rank(x) : x \in S \ F}
  <2>1. ranks \in SUBSET Nat BY <1>2
  <2>2. ranks # {} BY DEF F
  <2>3. \E r \in ranks : \A s \in ranks : r <= s
    <3> HIDE DEF ranks
    <3>1. QED BY <2>1, <2>2, LeastNatural
  <2>4. QED BY <2>3
<1>6. Earlier(m, S) \subseteq F
  <2>1. ASSUME NEW x \in Earlier(m, S), x \notin F PROVE FALSE
    <3>1. x \in S /\ rank(x) < rank(m) BY <1>3, <2>1 DEF Earlier
    <3>2. QED BY <1>2, <1>5, <2>1, <3>1
  <2>2. QED BY <2>1
<1>7. IsFiniteSet(F) /\ Cardinality(F) \in Nat BY FirstBounded DEF F
<1>8. Cardinality(Earlier(m, S)) <= Cardinality(F) BY <1>6, <1>7, FS_Subset
<1>9. rank(m) >= n BY <1>1, <1>2, <1>5
<1>10. Cardinality(F) >= n BY <1>2, <1>5, <1>7, <1>8, <1>9 DEF rank
<1>11. QED BY <1>4, <1>10 DEF F

(* Part of a line is one.                                                   *)
LEMMA LinePart ==
    ASSUME NEW S, Line(S), NEW T \in SUBSET S
    PROVE  Line(T)
<1>1. IsFiniteSet(T) BY FS_Subset DEF Line
<1>2. QED BY <1>1 DEF Line

(* Of two slices, one row longer than the page, the page is what it is of   *)
(* everything, and there is more exactly if there was more of everything.   *)
LEMMA SlicesSuffice ==
    ASSUME NEW A, NEW B, Line(A \cup B), NEW k \in Nat,
           NEW F, F = First(k + 1, A) \cup First(k + 1, B)
    PROVE  /\ First(k, F) = First(k, A \cup B)
           /\ Cardinality(F) > k <=> Cardinality(A \cup B) > k
<1> DEFINE U == A \cup B
<1>1. Line(A) /\ Line(B) /\ Line(U) BY LinePart
<1> HIDE DEF U
<1>2. First(k + 1, A) \subseteq A /\ First(k + 1, B) \subseteq B /\ F \in SUBSET U
  <2>1. First(k + 1, A) \subseteq A /\ First(k + 1, B) \subseteq B BY DEF First
  <2>2. QED BY <2>1 DEF U
<1>3. Line(F) BY <1>1, <1>2, LinePart
<1>4. /\ IsFiniteSet(U) /\ Cardinality(U) \in Nat /\ IsFiniteSet(F) /\ Cardinality(F) \in Nat
      /\ Cardinality(F) <= Cardinality(U)
  BY <1>1, <1>2, <1>3, FS_Subset, FS_CardinalityType DEF Line
<1>5. ASSUME NEW S \in {A, B}, NEW x \in S, x \notin F
      PROVE  \E T \in SUBSET F : /\ IsFiniteSet(T) /\ Cardinality(T) \in Nat
                                 /\ Cardinality(T) > k /\ \A y \in T : Before(y, x)
  <2>1. Line(S) /\ x \notin First(k + 1, S) /\ First(k + 1, S) \in SUBSET F BY <1>1, <1>5
  <2>2. Cardinality(First(k + 1, S)) >= k + 1 /\ \A y \in First(k + 1, S) : Before(y, x)
    BY <2>1, FirstFills
  <2>3. IsFiniteSet(First(k + 1, S)) /\ Cardinality(First(k + 1, S)) \in Nat
    BY <2>1, FirstBounded
  <2>4. QED BY <2>1, <2>2, <2>3
<1>6. ASSUME NEW x \in U, x \notin F
      PROVE  \E T \in SUBSET F : /\ IsFiniteSet(T) /\ Cardinality(T) \in Nat
                                 /\ Cardinality(T) > k /\ \A y \in T : Before(y, x)
  BY <1>5, <1>6 DEF U
<1>7. ASSUME Cardinality(U) > k PROVE Cardinality(F) > k
  <2>1. CASE F = U BY <1>7, <2>1
  <2>2. CASE F # U
    <3>1. PICK x \in U : x \notin F BY <1>2, <2>2
    <3>2. PICK T \in SUBSET F : Cardinality(T) \in Nat /\ Cardinality(T) > k BY <1>6, <3>1
    <3>3. Cardinality(T) <= Cardinality(F) BY <1>4, FS_Subset
    <3>4. QED BY <1>4, <3>2, <3>3
  <2>3. QED BY <2>1, <2>2
<1>8. ASSUME NEW e \in First(k, U) PROVE e \in First(k, F)
  <2>1. e \in U /\ Cardinality(Earlier(e, U)) < k BY DEF First, Earlier
  <2>2. IsFiniteSet(Earlier(e, U)) /\ Cardinality(Earlier(e, U)) \in Nat
    BY <1>1, <2>1, EarlierFewer
  <2>3. Earlier(e, F) \in SUBSET Earlier(e, U) BY <1>2 DEF Earlier
  <2>4. Cardinality(Earlier(e, F)) <= Cardinality(Earlier(e, U))
        /\ Cardinality(Earlier(e, F)) \in Nat
    BY <2>2, <2>3, FS_Subset, FS_CardinalityType
  <2>5. e \in F
    <3>1. ASSUME NEW T \in SUBSET F, Cardinality(T) \in Nat, Cardinality(T) > k,
                 \A y \in T : Before(y, e)
          PROVE  FALSE
      <4>1. T \in SUBSET Earlier(e, U) BY <1>2, <3>1 DEF Earlier
      <4>2. Cardinality(T) <= Cardinality(Earlier(e, U)) BY <2>2, <4>1, FS_Subset
      <4>3. QED BY <2>1, <2>2, <3>1, <4>2
    <3>2. QED BY <1>6, <2>1, <3>1
  <2>6. Cardinality(Earlier(e, F)) < k BY <2>1, <2>2, <2>4
  <2>7. QED BY <2>5, <2>6 DEF First, Earlier
<1>9. ASSUME NEW e \in First(k, F) PROVE e \in First(k, U)
  <2>1. e \in F /\ e \in U /\ Cardinality(Earlier(e, F)) < k BY <1>2 DEF First, Earlier
  <2>2. IsFiniteSet(Earlier(e, F)) /\ Cardinality(Earlier(e, F)) \in Nat
    BY <1>3, <2>1, EarlierFewer
  <2>3. ASSUME NEW x \in Earlier(e, U) PROVE x \in F
    <3>1. x \in U /\ Before(x, e) BY DEF Earlier
    <3>2. ASSUME NEW T \in SUBSET F, Cardinality(T) \in Nat, Cardinality(T) > k,
                 \A y \in T : Before(y, x)
          PROVE  FALSE
      <4>1. \A y \in T : Before(y, e) BY <1>1, <1>2, <2>1, <3>1, <3>2 DEF Line
      <4>2. T \in SUBSET Earlier(e, F) BY <4>1 DEF Earlier
      <4>3. Cardinality(T) <= Cardinality(Earlier(e, F)) BY <2>2, <4>2, FS_Subset
      <4>4. QED BY <2>1, <2>2, <3>2, <4>3
    <3>3. QED BY <1>6, <3>1, <3>2
  <2>4. Earlier(e, U) = Earlier(e, F) BY <1>2, <2>3 DEF Earlier
  <2>5. QED BY <2>1, <2>4 DEF First, Earlier
<1>10. First(k, F) = First(k, U) BY <1>8, <1>9
<1>11. Cardinality(F) > k <=> Cardinality(U) > k BY <1>4, <1>7
<1>12. QED BY <1>10, <1>11 DEF U

(* The edges of a generation are in one line: fact ids are unique.          *)
LEMMA EdgesInLine ==
    ASSUME NEW g, NEW fs \in SUBSET Fact
    PROVE  Line(Edges(g, fs))
<1> DEFINE E == Edges(g, fs)
<1>1. \A x \in E : x.fact \in fs /\ x = Edge(g, x.fact) /\ x.resolved \in BOOLEAN
  <2>1. ASSUME NEW f \in fs PROVE Edge(g, f).fact = f /\ Edge(g, f).resolved \in BOOLEAN
    BY DEF Edge
  <2>2. QED BY <2>1 DEF Edges
<1>2. IsFiniteSet(E)
  <2> DEFINE edge == [f \in fs |-> Edge(g, f)]
  <2>1. IsFiniteSet(fs) BY FiniteFacts, FS_Subset
  <2>2. E = {edge[f] : f \in fs} /\ DOMAIN edge = fs BY DEF Edges
  <2> HIDE DEF edge, E
  <2>3. QED BY <2>1, <2>2, FiniteValues
<1> HIDE DEF E
<1>3. \A x \in E : FactId(x.fact) \in Nat BY <1>1, FactIdNatural
<1>4. \A x, y \in E : x # y => FactId(x.fact) # FactId(y.fact) BY <1>1, IdAssumption
<1>5. \A x \in E : ~ Before(x, x) BY <1>3 DEF Before
<1>6. \A x, y \in E : x # y => Before(x, y) \/ Before(y, x)
  <2>1. SUFFICES ASSUME NEW x \in E, NEW y \in E, x # y PROVE Before(x, y) \/ Before(y, x)
    OBVIOUS
  <2>2. FactId(x.fact) < FactId(y.fact) \/ FactId(y.fact) < FactId(x.fact) BY <1>3, <1>4, <2>1
  <2>3. QED BY <2>2, Zenon DEF Before
<1>7. \A x, y, z \in E : Before(x, y) /\ Before(y, z) => Before(x, z)
  <2>1. SUFFICES ASSUME NEW x \in E, NEW y \in E, NEW z \in E, Before(x, y), Before(y, z)
                 PROVE  Before(x, z)
    OBVIOUS
  <2>2. FactId(x.fact) < FactId(y.fact) /\ FactId(y.fact) < FactId(z.fact)
        => FactId(x.fact) < FactId(z.fact)
    BY <1>3
  <2>3. QED BY <2>1, <2>2, Zenon DEF Before
<1>8. QED BY <1>2, <1>5, <1>6, <1>7 DEF Line, E

(* The relationships of a symbol among some edges.                          *)
Related(es, key, filter) ==
    {e \in es : \/ filter.callees /\ e.fact.doc = key
                \/ filter.callers /\ e.to = key}

(* What reading them returns, and what it costs.                            *)
LEMMA RelationshipsRead ==
    ASSUME NEW es, Line(es), NEW key, NEW filter,
           NEW answer, answer = RelationshipsIn(es, key, filter)
    PROVE  /\ answer.rows = First(RowLimit, Related(es, key, filter))
           /\ answer.truncated <=> Cardinality(Related(es, key, filter)) > RowLimit
           /\ answer.examined \in Nat /\ answer.examined <= 2 * (RowLimit + 1)
<1> DEFINE A == {e \in es : filter.callees /\ e.fact.doc = key}
           B == {e \in es : filter.callers /\ e.to = key}
           F == First(RowLimit + 1, A) \cup First(RowLimit + 1, B)
<1>1. Related(es, key, filter) = A \cup B BY DEF Related
<1>2. A \in SUBSET es /\ B \in SUBSET es /\ A \cup B \in SUBSET es OBVIOUS
<1>3. /\ answer.rows = First(RowLimit, F)
      /\ answer.truncated = (Cardinality(F) > RowLimit)
      /\ answer.examined = Cardinality(First(RowLimit + 1, A)) + Cardinality(First(RowLimit + 1, B))
  BY DEF RelationshipsIn, MergeSlices, Outbound, Inbound, FetchLimit
<1> HIDE DEF A, B
<1>4. Line(A) /\ Line(B) /\ Line(A \cup B) BY <1>2, LinePart
<1>5. RowLimit \in Nat /\ RowLimit + 1 \in Nat OBVIOUS
<1>6. /\ First(RowLimit, F) = First(RowLimit, A \cup B)
      /\ Cardinality(F) > RowLimit <=> Cardinality(A \cup B) > RowLimit
  BY <1>4, <1>5, SlicesSuffice
<1>7. /\ Cardinality(First(RowLimit + 1, A)) \in Nat
      /\ Cardinality(First(RowLimit + 1, A)) <= RowLimit + 1
      /\ Cardinality(First(RowLimit + 1, B)) \in Nat
      /\ Cardinality(First(RowLimit + 1, B)) <= RowLimit + 1
  BY <1>4, <1>5, FirstBounded
<1>8. answer.examined \in Nat /\ answer.examined <= 2 * (RowLimit + 1) BY <1>3, <1>5, <1>7
<1> HIDE DEF F
<1>9. QED BY <1>1, <1>3, <1>6, <1>8

-----------------------------------------------------------------------------
(* Answers: a reader that compares two planes.                              *)

(* An answer a that says what the captured generation's facts said, at a    *)
(* cost that one or two planes justify: what RowsAreTruth asks for.         *)
Said(r) == FactsOf(r.gen, r.saw)

TrueOfSymbol(r, a) ==
    a.rows = IF r.query.key \in DOMAIN Cards(Said(r)) THEN {Cards(Said(r))[r.query.key]} ELSE {}

TrueOfRelationships(r, a) ==
    LET all == Related(Edges(r.gen, Said(r)), r.query.key, r.query.filter)
    IN  /\ a.rows = First(RowLimit, all)
        /\ a.truncated <=> Cardinality(all) > RowLimit

Honest(r, a) ==
    /\ r.query.symbol => TrueOfSymbol(r, a)
    /\ ~ r.query.symbol => TrueOfRelationships(r, a)

Cost(r) == IF r.query.symbol THEN 1 ELSE 2 * (RowLimit + 1)

Compares(r) ==
    \E gen, row, asked, saw, truth, examined, answer :
        r = [step |-> "compare", gen |-> gen, row |-> row, query |-> asked, saw |-> saw,
             truth |-> truth, examined |-> examined, answer |-> answer]

ReaderOk(r) ==
    /\ r.step \in {"idle", "open", "compare", "answered"}
    /\ r.step # "idle" => r.gen \in Committed
    /\ r.step \in {"open", "compare"} => r.row = None \/ r.row \in DOMAIN serving
    /\ r.step \in {"compare", "answered"} =>
         /\ r.saw \subseteq Fact
         /\ r.query.symbol \in BOOLEAN
         /\ r.examined \in Nat
    /\ r.step = "compare" =>
         /\ r.row # None /\ Compares(r)
         /\ Honest(r, r.truth) /\ r.examined <= Cost(r)
    /\ r.step = "answered" =>
         /\ Honest(r, r.answer)
         /\ r.examined <= Cost(r) + (IF r.row = None THEN 0 ELSE Cost(r))

(* It is what the property says.                                            *)
LEMMA OkIsTruth == ReaderOk(reader) => RowsAreTruth
<1> SUFFICES ASSUME ReaderOk(reader), reader.step = "answered" PROVE RowsAreTruth
  BY DEF RowsAreTruth
<1>1. CASE reader.query.symbol
  <2>1. TrueOfSymbol(reader, reader.answer) BY <1>1 DEF ReaderOk, Honest
  <2>2. reader.examined <= IF reader.row = None THEN 1 ELSE 2 BY <1>1 DEF ReaderOk, Cost
  <2>3. QED BY <1>1, <2>1, <2>2 DEF RowsAreTruth, TrueOfSymbol, Said
<1>2. CASE ~ reader.query.symbol
  <2> DEFINE all == Related(Edges(reader.gen, Said(reader)), reader.query.key, reader.query.filter)
             planes == IF reader.row = None THEN 1 ELSE 2
  <2>1. TrueOfRelationships(reader, reader.answer) BY <1>2 DEF ReaderOk, Honest
  <2>2. reader.examined <= 2 * (RowLimit + 1) * planes
    <3>1. reader.examined <= 2 * (RowLimit + 1)
                               + (IF reader.row = None THEN 0 ELSE 2 * (RowLimit + 1))
      BY <1>2 DEF ReaderOk, Cost
    <3>2. RowLimit \in Nat /\ reader.examined \in Nat BY DEF ReaderOk
    <3>3. CASE reader.row = None BY <3>1, <3>2, <3>3
    <3>4. CASE reader.row # None BY <3>1, <3>2, <3>4
    <3>5. QED BY <3>3, <3>4
  <2>3. all = {e \in Edges(reader.gen, FactsOf(reader.gen, reader.saw)) :
                 ~ reader.query.symbol /\ \/ reader.query.filter.callees /\ e.fact.doc = reader.query.key
                                          \/ reader.query.filter.callers /\ e.to = reader.query.key}
    BY <1>2 DEF Related, Said
  <2>4. QED BY <1>2, <2>1, <2>2, <2>3 DEF RowsAreTruth, TrueOfRelationships
<1>3. QED BY <1>1, <1>2

(* Projections are only added.                                              *)
LEMMA ServingGrows ==
    ASSUME ServingInv, [Next]_vars
    PROVE  /\ Len(serving) \in Nat /\ DOMAIN serving = 1 .. Len(serving)
           /\ Len(serving') \in Nat /\ Len(serving') >= Len(serving)
           /\ DOMAIN serving' = 1 .. Len(serving')
           /\ \A i \in DOMAIN serving : i \in DOMAIN serving' /\ serving'[i] = serving[i]
<1>1. PICK S : serving \in Seq(S) BY DEF ServingInv
<1>2. Len(serving) \in Nat /\ DOMAIN serving = 1 .. Len(serving) BY <1>1, LenProperties
<1>3. CASE UNCHANGED serving BY <1>2, <1>3
<1>4. ASSUME NEW row, serving' = Append(serving, row)
      PROVE  /\ Len(serving') = Len(serving) + 1 /\ DOMAIN serving' = 1 .. Len(serving')
             /\ \A i \in DOMAIN serving : i \in DOMAIN serving' /\ serving'[i] = serving[i]
  <2> DEFINE T == {serving[i] : i \in DOMAIN serving} \cup {row}
  <2>1. serving \in Seq(T)
    <3>1. serving = [i \in 1 .. Len(serving) |-> serving[i]] BY <1>1, <1>2, LenProperties
    <3>2. QED BY <1>2, <3>1, SeqDef
  <2>2. row \in T OBVIOUS
  <2> HIDE DEF T
  <2>3. /\ serving' \in Seq(T) /\ Len(serving') = Len(serving) + 1
        /\ \A i \in 1 .. Len(serving) : serving'[i] = serving[i]
    BY <1>4, <2>1, <2>2, AppendProperties
  <2>4. DOMAIN serving' = 1 .. Len(serving') BY <2>3, LenProperties
  <2>5. QED BY <1>2, <2>3, <2>4
<1>5. CASE FinishServingBuild
  <2>1. UNCHANGED serving \/ \E row : serving' = Append(serving, row)
    BY <1>5 DEF FinishServingBuild
  <2>2. QED BY <1>2, <1>3, <1>4, <2>1
<1>6. CASE ~ FinishServingBuild
  BY <1>3, <1>6 DEF Next, vars, servingVars, Reconciling, Building, BeginServingBuild,
                    ScanFacts, AbortServingBuild, Reading, OpenReader, ReadTruth, CompareProjection, Paging,
                    FirstPage, NextPage
<1>7. QED BY <1>5, <1>6

(* What was true of a committed generation stays true of it.                *)
LEMMA OkStays ==
    ASSUME StoreInv, ServingInv, [Next]_vars, NEW r, ReaderOk(r)
    PROVE  ReaderOk(r)'
<1>1. r.step # "idle" => r.gen \in Committed' /\ gens'[r.gen] = gens[r.gen]
  BY CommittedStays DEF ReaderOk
<1>2. DOMAIN serving \subseteq DOMAIN serving' BY ServingGrows
<1>3. ASSUME r.step # "idle"
      PROVE  /\ Said(r)' = Said(r)
             /\ Edges(r.gen, Said(r))' = Edges(r.gen, Said(r))
             /\ Cards(Said(r))' = Cards(Said(r))
  <2>1. Said(r)' = Said(r) BY <1>1, <1>3 DEF Said, FactsOf
  <2>2. QED BY <1>1, <1>3, <2>1 DEF Edges, Edge, Cards, Preferred, FactId
<1>4. ASSUME r.step # "idle", NEW a
      PROVE  Honest(r, a)' <=> Honest(r, a)
  <2>1. \A n, es : First(n, es)' = First(n, es) BY DEF First, Before, FactId
  <2>2. \A es, k, f : Related(es, k, f)' = Related(es, k, f) BY DEF Related
  <2>3. QED BY <1>3, <1>4 DEF Honest, TrueOfSymbol, TrueOfRelationships, Related, First, Before, FactId
<1>5. QED BY <1>1, <1>2, <1>4 DEF ReaderOk, Cost, Compares

(* A row of the active generation is a row.                                 *)
LEMMA RowThere ==
    ASSUME ServingInv, NEW g
    PROVE  RowOf(g) = None \/ RowOf(g) \in DOMAIN serving
<1>1. CASE \E i \in DOMAIN serving : serving[i].gen = g BY <1>1, RowFound
<1>2. CASE ~ \E i \in DOMAIN serving : serving[i].gen = g BY <1>2 DEF RowOf
<1>3. QED BY <1>1, <1>2

(* A symbol has one fact at most to show.                                   *)
LEMMA OneRow ==
    ASSUME NEW rows, rows = {} \/ \E x : rows = {x}
    PROVE  SymbolAnswer(rows).examined \in Nat /\ SymbolAnswer(rows).examined <= 1
<1>1. rows = {} => Cardinality(rows) = 0 BY FS_EmptySet
<1>2. (\E x : rows = {x}) => Cardinality(rows) = 1 BY FS_Singleton
<1>3. Cardinality(rows) = 0 \/ Cardinality(rows) = 1 BY <1>1, <1>2
<1>4. SymbolAnswer(rows).examined = Cardinality(rows) BY DEF SymbolAnswer
<1>5. QED BY <1>3, <1>4

(* What the truth tables say of a symbol and of its relationships is true.  *)
LEMMA TruthIsHonest ==
    ASSUME StoreInv, NEW r, r.gen \in Committed, r.saw = facts,
           NEW a,
           \/ r.query.symbol = TRUE /\ a = TruthSymbol(r.gen, r.query.key)
           \/ r.query.symbol = FALSE /\ a = TruthRelationships(r.gen, r.query.key, r.query.filter)
    PROVE  Honest(r, a) /\ a.examined \in Nat /\ a.examined <= Cost(r)
<1>1. facts \in SUBSET Fact /\ Said(r) \in SUBSET Fact BY DEF StoreInv, StoreTypeOK, Said, FactsOf
<1>2. CASE r.query.symbol = TRUE /\ a = TruthSymbol(r.gen, r.query.key)
  <2> DEFINE fs == SymbolFacts(r.gen, r.query.key)
             rows == IF fs = {} THEN {} ELSE {Preferred(fs)}
  <2>1. a = SymbolAnswer(rows) BY <1>2 DEF TruthSymbol
  <2>2. fs = {f \in Said(r) : f.doc = r.query.key} BY DEF SymbolFacts, Said
  <2>3. r.query.key \in DOMAIN Cards(Said(r)) <=> fs # {} BY <2>2 DEF Cards
  <2>4. fs # {} => Cards(Said(r))[r.query.key] = Preferred(fs) BY <2>2 DEF Cards
  <2>5. TrueOfSymbol(r, a) BY <2>1, <2>3, <2>4 DEF TrueOfSymbol, SymbolAnswer
  <2>6. rows = {} \/ \E x : rows = {x} OBVIOUS
  <2> HIDE DEF rows
  <2>7. a.examined \in Nat /\ a.examined <= 1 BY <2>1, <2>6, OneRow
  <2>8. QED BY <1>2, <2>5, <2>7 DEF Honest, Cost
<1>3. CASE /\ r.query.symbol = FALSE
           /\ a = TruthRelationships(r.gen, r.query.key, r.query.filter)
  <2>1. a = RelationshipsIn(Edges(r.gen, Said(r)), r.query.key, r.query.filter)
    BY <1>3 DEF TruthRelationships, Said
  <2>2. Line(Edges(r.gen, Said(r))) BY <1>1, EdgesInLine
  <2>3. TrueOfRelationships(r, a) /\ a.examined \in Nat /\ a.examined <= 2 * (RowLimit + 1)
    BY <2>1, <2>2, RelationshipsRead DEF TrueOfRelationships
  <2>4. QED BY <1>3, <2>3 DEF Honest, Cost
<1>4. QED BY <1>2, <1>3

(* What a projection costs to read.                                         *)
LEMMA ProjectionCosts ==
    ASSUME StoreInv, ServingInv, reader.row \in DOMAIN serving, reader.query.symbol \in BOOLEAN,
           NEW a, a = Projected(reader.query)
    PROVE  a.examined \in Nat /\ a.examined <= Cost(reader)
<1>1. CASE reader.query.symbol
  <2>1. \E rows : a = SymbolAnswer(rows) /\ (rows = {} \/ \E x : rows = {x})
    BY <1>1 DEF Projected, ProjectedSymbol
  <2>2. a.examined \in Nat /\ a.examined <= 1 BY <2>1, OneRow
  <2>3. QED BY <1>1, <2>2 DEF Cost
<1>2. CASE ~ reader.query.symbol
  <2>1. PICK row : row = serving[reader.row] /\ Stored(row) /\ Whole(row)
    BY DEF ServingInv, Stored
  <2>2. facts \in SUBSET Fact BY DEF StoreInv, StoreTypeOK
  <2>3. Found(row) \in SUBSET Fact BY <2>1, <2>2 DEF Whole, FactsOf
  <2>4. Line(row.edges) BY <2>1, <2>3, EdgesInLine DEF Whole
  <2>5. a = RelationshipsIn(row.edges, reader.query.key, reader.query.filter)
    BY <1>2, <2>1 DEF Projected, ProjectedRelationships
  <2>6. a.examined \in Nat /\ a.examined <= 2 * (RowLimit + 1)
    BY <2>4, <2>5, RelationshipsRead
  <2>7. QED BY <1>2, <2>6 DEF Cost
<1>3. QED BY <1>1, <1>2

(* Every step of the reader takes it to a state that is in order.           *)
LEMMA ReadsAreOk ==
    ASSUME StoreInv, ServingInv, ReaderOk(reader), NEW r, reader' = r,
           OpenReader \/ ReadTruth \/ CompareProjection
    PROVE  ReaderOk(r)
<1>1. CASE OpenReader
  <2>1. active \in Committed BY <1>1 DEF OpenReader, StoreInv, ActiveIsLast
  <2>2. PICK allow \in BOOLEAN :
          r = [step |-> "open", gen |-> active, row |-> IF allow THEN RowOf(active) ELSE None]
    BY <1>1 DEF OpenReader
  <2>3. r.step = "open" /\ r.gen = active /\ (r.row = None \/ r.row = RowOf(active)) BY <2>2
  <2>4. QED BY <2>1, <2>3, RowThere DEF ReaderOk
<1>2. CASE ReadTruth
  <2>1. /\ reader.step = "open" /\ reader.gen \in Committed
        /\ reader.row = None \/ reader.row \in DOMAIN serving
    BY <1>2 DEF ReadTruth, ReaderOk
  <2>2. PICK asked, a :
          /\ \/ asked.symbol = TRUE /\ a = TruthSymbol(reader.gen, asked.key)
             \/ asked.symbol = FALSE /\ a = TruthRelationships(reader.gen, asked.key, asked.filter)
          /\ Read(asked, a)
    <3>1. PICK key \in Doc :
            \/ Read([symbol |-> TRUE, key |-> key], TruthSymbol(reader.gen, key))
            \/ \E filter \in Filters :
                 Read([symbol |-> FALSE, key |-> key, filter |-> filter],
                      TruthRelationships(reader.gen, key, filter))
      BY <1>2 DEF ReadTruth
    <3>2. CASE Read([symbol |-> TRUE, key |-> key], TruthSymbol(reader.gen, key))
      BY <3>2
    <3>3. ASSUME NEW filter \in Filters,
                 Read([symbol |-> FALSE, key |-> key, filter |-> filter],
                      TruthRelationships(reader.gen, key, filter))
          PROVE  \E asked, a :
                   /\ \/ asked.symbol = TRUE /\ a = TruthSymbol(reader.gen, asked.key)
                      \/ /\ asked.symbol = FALSE
                         /\ a = TruthRelationships(reader.gen, asked.key, asked.filter)
                   /\ Read(asked, a)
      BY <3>3
    <3>4. QED BY <3>1, <3>2, <3>3
  <2>3. r = [step |-> IF reader.row = None THEN "answered" ELSE "compare",
             gen |-> reader.gen, row |-> reader.row, query |-> asked,
             saw |-> facts, truth |-> a, examined |-> a.examined, answer |-> a]
    BY <2>2 DEF Read
  <2>4. /\ r.gen = reader.gen /\ r.row = reader.row /\ r.query = asked /\ r.saw = facts
        /\ r.truth = a /\ r.answer = a /\ r.examined = a.examined
        /\ r.step = IF reader.row = None THEN "answered" ELSE "compare"
    BY <2>3
  <2>5. Honest(r, a) /\ a.examined \in Nat /\ a.examined <= Cost(r)
    BY <2>1, <2>2, <2>4, TruthIsHonest
  <2>6. r.step = "compare" => Compares(r) BY <2>3, <2>4 DEF Compares
  <2>7. r.saw \subseteq Fact /\ r.query.symbol \in BOOLEAN
    BY <2>2, <2>4 DEF StoreInv, StoreTypeOK
  <2>8. Cost(r) \in Nat BY DEF Cost
  <2>9. QED BY <2>1, <2>4, <2>5, <2>6, <2>7, <2>8 DEF ReaderOk
<1>3. CASE CompareProjection
  <2>1. /\ reader.step = "compare" /\ reader.gen \in Committed /\ reader.row # None
        /\ reader.row \in DOMAIN serving /\ reader.saw \subseteq Fact
        /\ reader.query.symbol \in BOOLEAN /\ reader.examined \in Nat
        /\ Compares(reader) /\ Honest(reader, reader.truth) /\ reader.examined <= Cost(reader)
    BY <1>3 DEF CompareProjection, ReaderOk
  <2>2. PICK a : a = Projected(reader.query) OBVIOUS
  <2>3. a.examined \in Nat /\ a.examined <= Cost(reader) BY <2>1, <2>2, ProjectionCosts
  <2>4. PICK c : c = IF a.rows = reader.truth.rows /\ a.truncated = reader.truth.truncated
                     THEN a ELSE reader.truth
    OBVIOUS
  <2>5. Honest(reader, c)
    BY <2>1, <2>4 DEF Honest, TrueOfSymbol, TrueOfRelationships
  <2>6. /\ r.step = "answered" /\ r.gen = reader.gen /\ r.row = reader.row
        /\ r.query = reader.query /\ r.saw = reader.saw
        /\ r.answer = c /\ r.examined = reader.examined + a.examined
    <3>1. PICK gen, row, asked, saw, truth, examined, answer :
            reader = [step |-> "compare", gen |-> gen, row |-> row, query |-> asked, saw |-> saw,
                      truth |-> truth, examined |-> examined, answer |-> answer]
      BY <2>1 DEF Compares
    <3>2. r = [[[reader EXCEPT !.step = "answered"] EXCEPT !.answer = c]
                 EXCEPT !.examined = reader.examined + a.examined]
      BY <1>3, <2>2, <2>4 DEF CompareProjection
    <3>3. QED BY <3>1, <3>2
  <2>7. Honest(r, c) /\ Cost(r) = Cost(reader)
    BY <2>5, <2>6 DEF Honest, TrueOfSymbol, TrueOfRelationships, Said, Cost
  <2>8. r.examined \in Nat /\ r.examined <= Cost(r) + Cost(r)
    <3>1. Cost(r) \in Nat BY DEF Cost
    <3>2. QED BY <2>1, <2>3, <2>6, <2>7, <3>1
  <2>9. QED BY <2>1, <2>6, <2>7, <2>8 DEF ReaderOk
<1>4. QED BY <1>1, <1>2, <1>3

(* The step after which it is in order, seen from the next state.           *)
LEMMA OkNext ==
    ASSUME NEW r, ReaderOk(r)', reader' = r
    PROVE  ReaderOk(reader)'
BY DEF ReaderOk, Compares, Honest, TrueOfSymbol, TrueOfRelationships, Said, Cost, Edges, Edge,
       FactsOf

(* A step keeps the reader in order.                                        *)
LEMMA NextReader ==
    StoreInv /\ ServingInv /\ ReaderOk(reader) /\ [Next]_vars => ReaderOk(reader)'
<1> SUFFICES ASSUME StoreInv, ServingInv, ReaderOk(reader), [Next]_vars PROVE ReaderOk(reader)'
  OBVIOUS
<1>1. PICK r : reader' = r OBVIOUS
<1>2. ReaderOk(r)
  <2>1. CASE OpenReader \/ ReadTruth \/ CompareProjection BY <1>1, <2>1, ReadsAreOk
  <2>2. CASE ~ (OpenReader \/ ReadTruth \/ CompareProjection)
    <3>1. reader' = reader
      BY <2>2 DEF Next, vars, servingVars, Reconciling, Reading, Building, BeginServingBuild,
                  ScanFacts, FinishServingBuild, AbortServingBuild, Paging, FirstPage, NextPage
    <3>2. r = reader BY <1>1, <3>1
    <3>3. QED BY <3>2
  <2>3. QED BY <2>1, <2>2
<1>3. ReaderOk(r)' BY <1>2, OkStays
<1>4. QED BY <1>1, <1>3, OkNext

-----------------------------------------------------------------------------
(* Answers: the pages of the status.                                        *)

(* There are no more generations than the bound.                            *)
Capacity ==
    /\ Len(gens) <= MaxGens
    /\ recon.step = "walked" => Len(gens) < MaxGens

LEMMA NextCapacity == StoreInv /\ Capacity /\ [Next]_vars => Capacity'
<1> SUFFICES ASSUME StoreInv, Capacity, [Next]_vars PROVE Capacity' OBVIOUS
<1>1. Len(gens) \in Nat BY RowsTyped DEF StoreInv
<1>2. CASE CommitBuild
  <2>1. Len(gens') = Len(gens) + 1 BY <1>2, CommitBuildEffect
  <2>2. recon.step = "walked" /\ recon'.step = "built" BY <1>2 DEF CommitBuild
  <2>3. QED BY <1>1, <2>1, <2>2 DEF Capacity
<1>3. CASE Activate
  <2>1. Len(gens') = Len(gens) BY <1>3, ActivateEffect
  <2>2. recon'.step = "idle" BY <1>3 DEF Activate, Idle
  <2>3. QED BY <2>1, <2>2 DEF Capacity
<1>4. CASE EditFile \/ BeginReconcile \/ Abort \/ LeaseOnly \/ UNCHANGED storeVars
  BY <1>4 DEF EditFile, BeginReconcile, Abort, LeaseOnly, storeVars, Capacity, Idle
<1>5. QED BY <1>2, <1>3, <1>4, StoreSteps

(* The key of a projection is a positive number.                            *)
LEMMA KeysArePositive ==
    ASSUME StoreInv, ServingInv, Capacity
    PROVE  \A i \in DOMAIN serving : Key(i) \in Nat /\ Key(i) > 0
<1>1. ASSUME NEW i \in DOMAIN serving PROVE Key(i) \in Nat /\ Key(i) > 0
  <2>1. PICK row : row = serving[i] /\ Stored(row) /\ Whole(row) BY DEF ServingInv, Stored
  <2>2. row.gen \in DOMAIN gens BY <2>1 DEF Whole, Committed
  <2>3. gens \in Seq(Row) /\ Len(gens) \in Nat /\ DOMAIN gens = 1 .. Len(gens)
    BY RowsTyped DEF StoreInv
  <2>4. row.gen \in 1 .. MaxGens BY <2>2, <2>3 DEF Capacity
  <2>5. QED BY <2>1, <2>4 DEF Key
<1>2. QED BY <1>1

(* A page has the least keys of what is left, and all of it when it fits.   *)
LEMMA PageIsFirst ==
    ASSUME ServingInv, NEW T \in SUBSET DOMAIN serving, \A i \in T : Key(i) \in Nat
    PROVE  /\ PageRows(T) \subseteq T
           /\ \A i \in PageRows(T), j \in T \ PageRows(T) : Key(i) < Key(j)
           /\ ~ Cardinality(T) > PageLimit => PageRows(T) = T
           /\ Cardinality(T) > PageLimit =>
                /\ Max({Key(i) : i \in PageRows(T)}) \in Nat
                /\ PageRows(T) # {}
                /\ \A i \in T :
                     i \in PageRows(T) <=> Key(i) <= Max({Key(k) : k \in PageRows(T)})
<1> DEFINE below(i) == {j \in T : Key(j) < Key(i)}
           P == PageRows(T)
<1>1. IsFiniteSet(T) /\ Cardinality(T) \in Nat
  <2>1. PICK S : serving \in Seq(S) BY DEF ServingInv
  <2>2. DOMAIN serving = 1 .. Len(serving) /\ Len(serving) \in Nat BY <2>1, LenProperties
  <2>3. IsFiniteSet(DOMAIN serving) BY <2>2, FS_Interval
  <2>4. QED BY <2>3, FS_Subset, FS_CardinalityType
<1>2. \A i \in T : /\ below(i) \in SUBSET T /\ i \notin below(i)
                   /\ IsFiniteSet(below(i)) /\ Cardinality(below(i)) \in Nat
                   /\ Cardinality(below(i)) < Cardinality(T)
  <2>1. SUFFICES ASSUME NEW i \in T
                 PROVE  /\ below(i) \in SUBSET T /\ i \notin below(i)
                        /\ IsFiniteSet(below(i)) /\ Cardinality(below(i)) \in Nat
                        /\ Cardinality(below(i)) < Cardinality(T)
    OBVIOUS
  <2>2. below(i) \in SUBSET T /\ i \notin below(i) OBVIOUS
  <2> HIDE DEF below
  <2>3. IsFiniteSet(below(i)) /\ Cardinality(below(i)) \in Nat
        /\ Cardinality(below(i)) <= Cardinality(T) /\ Cardinality(below(i)) # Cardinality(T)
    BY <1>1, <2>2, FS_Subset, FS_CardinalityType
  <2>4. QED BY <1>1, <2>2, <2>3
<1>3. \A i, j \in T : Key(i) <= Key(j) => below(i) \in SUBSET below(j) OBVIOUS
<1>4. P = {i \in T : Cardinality(below(i)) < PageLimit} BY DEF PageRows
<1> HIDE DEF P, below
<1>5. P \subseteq T BY <1>4
<1>6. ~ Cardinality(T) > PageLimit => P = T BY <1>1, <1>2, <1>4
<1>7. ASSUME NEW i \in P, NEW j \in T \ P PROVE Key(i) < Key(j)
  <2>1. SUFFICES ASSUME Key(j) <= Key(i) PROVE FALSE BY <1>5
  <2>2. Cardinality(below(j)) <= Cardinality(below(i))
    BY <1>2, <1>3, <1>5, <2>1, FS_Subset
  <2>3. Cardinality(below(i)) < PageLimit /\ ~ Cardinality(below(j)) < PageLimit BY <1>4
  <2>4. QED BY <1>2, <1>5, <2>2, <2>3
<1>8. ASSUME Cardinality(T) > PageLimit
      PROVE  \E m \in P : \A i \in P : Key(i) <= Key(m)
  <2>1. T # {}
    <3>1. T = {} => Cardinality(T) = 0 BY FS_EmptySet
    <3>2. PageLimit \in Nat OBVIOUS
    <3>3. QED BY <1>1, <1>8, <3>1, <3>2
  <2> DEFINE keys == {Key(i) : i \in T}
  <2>2. keys \in SUBSET Nat /\ keys # {} BY <2>1
  <2>3. PICK k \in keys : \A n \in keys : k <= n
    <3> HIDE DEF keys
    <3>1. QED BY <2>2, LeastNatural
  <2>4. PICK i \in T : \A j \in T : Key(i) <= Key(j) BY <2>3
  <2>5. below(i) = {} BY <2>4 DEF below
  <2>6. i \in P
    <3>1. Cardinality(below(i)) = 0 BY <2>5, FS_EmptySet
    <3>2. QED BY <1>4, <3>1
  <2> DEFINE rank == [x \in P |-> Key(x)]
  <2>7. IsFiniteSet(P) /\ P # {} /\ rank \in [P -> Nat] BY <1>1, <1>5, <2>6, FS_Subset
  <2> HIDE DEF rank
  <2>8. \E m \in P : \A x \in P : rank[x] <= rank[m] BY <2>7, HighestRank
  <2>9. QED BY <2>8 DEF rank
<1>9. ASSUME Cardinality(T) > PageLimit
      PROVE  /\ Max({Key(i) : i \in P}) \in Nat /\ P # {}
             /\ \A i \in T : i \in P <=> Key(i) <= Max({Key(k) : k \in P})
  <2>1. PICK m \in P : \A i \in P : Key(i) <= Key(m) BY <1>8, <1>9
  <2> DEFINE keys == {Key(i) : i \in P}
  <2>2. keys \in SUBSET Nat /\ Key(m) \in keys /\ \A x \in keys : x <= Key(m) BY <1>5, <2>1
  <2> HIDE DEF keys
  <2>3. Max(keys) = Key(m) BY <2>2, MaxIs
  <2>4. Key(m) \in Nat BY <1>5
  <2>5. \A i \in T : i \in P <=> Key(i) <= Key(m)
    <3>1. ASSUME NEW i \in T, i \notin P PROVE ~ Key(i) <= Key(m)
      BY <1>5, <1>7, <3>1
    <3>2. QED BY <2>1, <3>1
  <2>6. QED BY <2>3, <2>4, <2>5 DEF keys
<1>10. QED BY <1>5, <1>6, <1>7, <1>9 DEF P

(* What a walk of the status has listed: pages in the order of keys, of the *)
(* projections that were superseded when it began, up to where it is.       *)
SupersededThen(p, i) == i \in 1 .. p.max /\ serving[i].gen # p.active

InOrder(pages) ==
    \A m, n \in DOMAIN pages : m < n => \A i \in pages[m], j \in pages[n] : Key(i) < Key(j)

PagerOk(p) ==
    /\ p.step \in {"idle", "more", "done", "stale"}
    /\ p.step \in {"more", "done"} =>
         /\ p.max \in 0 .. Len(serving)
         /\ p.listed \in Seq(SUBSET Nat) /\ InOrder(p.listed)
    /\ p.step = "more" =>
         /\ p.key \in Nat
         /\ \A i : i \in UNION ToSet(p.listed) <=> SupersededThen(p, i) /\ Key(i) <= p.key
    /\ p.step = "done" =>
         \A i : i \in UNION ToSet(p.listed) <=> SupersededThen(p, i)

(* A page more.                                                             *)
LEMMA PageAdded ==
    ASSUME NEW pages \in Seq(SUBSET Nat), NEW page \in SUBSET Nat
    PROVE  /\ Append(pages, page) \in Seq(SUBSET Nat)
           /\ \A i : i \in UNION ToSet(Append(pages, page)) <=> i \in UNION ToSet(pages) \/ i \in page
           /\ InOrder(pages) /\ (\A i \in UNION ToSet(pages), j \in page : Key(i) < Key(j))
                => InOrder(Append(pages, page))
<1> DEFINE all == Append(pages, page)
           last == Len(pages) + 1
<1>1. Len(pages) \in Nat /\ DOMAIN pages = 1 .. Len(pages) BY LenProperties
<1>2. /\ all \in Seq(SUBSET Nat) /\ Len(all) = last
      /\ \A n \in 1 .. Len(pages) : all[n] = pages[n]
      /\ all[last] = page
  BY AppendProperties
<1>3. DOMAIN all = 1 .. last BY <1>2, LenProperties
<1> HIDE DEF all
<1>4. /\ \A n \in DOMAIN pages : n \in DOMAIN all /\ all[n] = pages[n] /\ n < last
      /\ last \in DOMAIN all /\ all[last] = page
      /\ \A n \in DOMAIN all : n \in DOMAIN pages \/ n = last
  BY <1>1, <1>2, <1>3
<1>5. \A i : i \in UNION ToSet(all) <=> i \in UNION ToSet(pages) \/ i \in page
  BY <1>4 DEF ToSet
<1>6. ASSUME InOrder(pages), \A i \in UNION ToSet(pages), j \in page : Key(i) < Key(j)
      PROVE  InOrder(all)
  <2>1. SUFFICES ASSUME NEW m \in DOMAIN all, NEW n \in DOMAIN all, m < n,
                        NEW i \in all[m], NEW j \in all[n]
                 PROVE  Key(i) < Key(j)
    BY DEF InOrder
  <2>2. m \in DOMAIN pages
    <3>1. m # last BY <1>1, <1>3, <2>1
    <3>2. QED BY <1>4, <3>1
  <2>3. i \in pages[m] /\ i \in UNION ToSet(pages) BY <1>4, <2>2 DEF ToSet
  <2>4. CASE n \in DOMAIN pages BY <1>4, <1>6, <2>1, <2>2, <2>3, <2>4 DEF InOrder
  <2>5. CASE n = last BY <1>4, <1>6, <2>3, <2>5
  <2>6. QED BY <1>4, <2>4, <2>5
<1>7. QED BY <1>2, <1>5, <1>6 DEF all

(* The next page of a walk that is in order keeps it so.                    *)
LEMMA PageIsOk ==
    ASSUME StoreInv, ServingInv, Capacity,
           NEW max \in 0 .. Len(serving), NEW key \in Nat, NEW listed \in Seq(SUBSET Nat),
           InOrder(listed),
           \A i : i \in UNION ToSet(listed) <=> i \in Superseded(max) /\ Key(i) <= key,
           NEW r, r = Page(max, key, listed)
    PROVE  PagerOk(r)
<1> DEFINE left == PageAfter(max, key)
           page == PageRows(left)
<1>1. PICK S : serving \in Seq(S) BY DEF ServingInv
<1>2. DOMAIN serving = 1 .. Len(serving) /\ Len(serving) \in Nat BY <1>1, LenProperties
<1>3. left \in SUBSET DOMAIN serving /\ left \in SUBSET Nat
  BY <1>2 DEF PageAfter, Superseded
<1>4. \A i \in DOMAIN serving : Key(i) \in Nat BY KeysArePositive
<1>5. \A i : i \in Superseded(max) => i \in DOMAIN serving BY <1>2 DEF Superseded
<1>6. \A i : i \in left <=> i \in Superseded(max) /\ Key(i) > key BY DEF PageAfter
<1> HIDE DEF left
<1>7. /\ page \subseteq left
      /\ ~ Cardinality(left) > PageLimit => page = left
      /\ Cardinality(left) > PageLimit =>
           /\ Max({Key(i) : i \in page}) \in Nat /\ page # {}
           /\ \A i \in left : i \in page <=> Key(i) <= Max({Key(k) : k \in page})
  BY <1>3, <1>4, PageIsFirst
<1> HIDE DEF page
<1>8. page \in SUBSET Nat BY <1>3, <1>7
<1>9. \A i \in UNION ToSet(listed), j \in page : Key(i) < Key(j)
  <2>1. SUFFICES ASSUME NEW i \in UNION ToSet(listed), NEW j \in page PROVE Key(i) < Key(j)
    OBVIOUS
  <2>2. i \in Superseded(max) /\ Key(i) <= key /\ j \in Superseded(max) /\ Key(j) > key
    BY <1>6, <1>7
  <2>3. Key(i) \in Nat /\ Key(j) \in Nat BY <1>4, <1>5, <2>2
  <2>4. QED BY <2>2, <2>3
<1>10. PICK all \in Seq(SUBSET Nat) :
         /\ all = Append(listed, page) /\ InOrder(all)
         /\ \A i : i \in UNION ToSet(all) <=> i \in UNION ToSet(listed) \/ i \in page
  <2>1. PICK rows \in SUBSET Nat : rows = page BY <1>8
  <2>2. InOrder(listed) /\ \A i \in UNION ToSet(listed), j \in rows : Key(i) < Key(j)
    BY <1>9, <2>1
  <2>3. listed \in Seq(SUBSET Nat) OBVIOUS
  <2>4. /\ Append(listed, rows) \in Seq(SUBSET Nat) /\ InOrder(Append(listed, rows))
        /\ \A i : i \in UNION ToSet(Append(listed, rows))
                   <=> i \in UNION ToSet(listed) \/ i \in rows
    BY ONLY <2>1, <2>2, <2>3, PageAdded
  <2>5. QED BY <2>1, <2>4
<1>11. CASE Cardinality(left) > PageLimit
  <2>1. PICK k \in Nat : k = Max({Key(i) : i \in page}) BY <1>7, <1>11
  <2>2. r = [step |-> "more", active |-> active, max |-> max, key |-> k,
             digest |-> Digest(1 .. max), listed |-> all]
    BY <1>10, <1>11, <2>1 DEF Page, page, left
  <2>3. /\ r.step = "more" /\ r.active = active /\ r.max = max /\ r.key = k /\ r.listed = all
    BY <2>2
  <2>4. \A i : SupersededThen(r, i) <=> i \in Superseded(max)
    BY <2>3 DEF SupersededThen, Superseded
  <2>5. \A i \in left : i \in page <=> Key(i) <= k BY <1>7, <1>11, <2>1
  <2>6. \A i : i \in UNION ToSet(all) <=> i \in Superseded(max) /\ Key(i) <= k
    <3>1. SUFFICES ASSUME NEW i
                   PROVE  i \in UNION ToSet(all) <=> i \in Superseded(max) /\ Key(i) <= k
      OBVIOUS
    <3>2. i \in UNION ToSet(all) <=> (i \in Superseded(max) /\ Key(i) <= key) \/ i \in page
      BY <1>10
    <3>3. CASE i \notin Superseded(max)
      BY <1>6, <1>7, <3>2, <3>3
    <3>4. CASE i \in Superseded(max) /\ i \in left
      BY <1>4, <1>5, <1>6, <2>5, <3>2, <3>4
    <3>5. CASE i \in Superseded(max) /\ i \notin left
      <4>1. Key(i) \in Nat /\ Key(i) <= key BY <1>4, <1>5, <1>6, <3>5
      <4>2. PICK j \in left : j \in page BY <1>7, <1>11
      <4>3. key < Key(j) /\ Key(j) <= k /\ Key(j) \in Nat BY <1>4, <1>5, <1>6, <2>5, <4>2
      <4>4. QED BY <3>2, <3>5, <4>1, <4>3
    <3>6. QED BY <3>3, <3>4, <3>5
  <2>7. QED BY <1>10, <2>3, <2>4, <2>6 DEF PagerOk
<1>12. CASE ~ Cardinality(left) > PageLimit
  <2>1. r = [step |-> "done", active |-> active, max |-> max, key |-> 0,
             digest |-> <<>>, listed |-> all]
    BY <1>10, <1>12 DEF Page, page, left
  <2>2. r.step = "done" /\ r.active = active /\ r.max = max /\ r.listed = all BY <2>1
  <2>3. \A i : SupersededThen(r, i) <=> i \in Superseded(max)
    BY <2>2 DEF SupersededThen, Superseded
  <2>4. page = left BY <1>7, <1>12
  <2>5. \A i : i \in UNION ToSet(all) <=> i \in Superseded(max)
    <3>1. SUFFICES ASSUME NEW i PROVE i \in UNION ToSet(all) <=> i \in Superseded(max)
      OBVIOUS
    <3>2. CASE i \notin Superseded(max) BY <1>6, <1>10, <2>4, <3>2
    <3>3. CASE i \in Superseded(max)
      <4>1. Key(i) \in Nat BY <1>4, <1>5, <3>3
      <4>2. Key(i) <= key \/ Key(i) > key BY <4>1
      <4>3. QED BY <1>6, <1>10, <2>4, <3>3, <4>2
    <3>4. QED BY <3>2, <3>3
  <2>6. QED BY <1>10, <2>2, <2>3, <2>5 DEF PagerOk
<1>13. QED BY <1>11, <1>12

(* What a walk has listed stays listed while projections are added.         *)
LEMMA WalkStays ==
    ASSUME ServingInv, [Next]_vars, NEW p, PagerOk(p)
    PROVE  PagerOk(p)'
<1>1. CASE p.step \in {"more", "done"}
  <2>1. /\ Len(serving) \in Nat /\ DOMAIN serving = 1 .. Len(serving)
        /\ Len(serving') \in Nat /\ Len(serving') >= Len(serving)
        /\ \A i \in DOMAIN serving : serving'[i] = serving[i]
    BY ServingGrows
  <2>2. p.max \in 0 .. Len(serving) BY <1>1 DEF PagerOk
  <2>3. p.max \in 0 .. Len(serving)' BY <2>1, <2>2
  <2>4. \A i \in 1 .. p.max : Key(i)' = Key(i) BY <2>1, <2>2 DEF Key
  <2>5. \A i : SupersededThen(p, i)' <=> SupersededThen(p, i)
    BY <2>1, <2>2 DEF SupersededThen
  <2>6. \A i : SupersededThen(p, i) => i \in 1 .. p.max BY DEF SupersededThen
  <2>7. UNION ToSet(p.listed) \subseteq 1 .. p.max
    BY <1>1, <2>6 DEF PagerOk
  <2>8. \A n \in DOMAIN p.listed : \A i \in p.listed[n] : i \in 1 .. p.max
    BY <2>7 DEF ToSet
  <2>9. InOrder(p.listed)' BY <1>1, <2>4, <2>8 DEF PagerOk, InOrder
  <2>10. CASE p.step = "more"
    <3>1. \A i : i \in UNION ToSet(p.listed) <=> SupersededThen(p, i) /\ Key(i) <= p.key
      BY <2>10 DEF PagerOk
    <3>2. \A i : i \in UNION ToSet(p.listed) <=> SupersededThen(p, i)' /\ Key(i)' <= p.key
      BY <2>4, <2>5, <2>6, <3>1
    <3>3. QED BY <2>3, <2>9, <2>10, <3>2 DEF PagerOk
  <2>11. CASE p.step = "done"
    <3>1. \A i : i \in UNION ToSet(p.listed) <=> SupersededThen(p, i)'
      BY <2>5, <2>11 DEF PagerOk
    <3>2. QED BY <2>3, <2>9, <2>11, <3>1 DEF PagerOk
  <2>12. QED BY <1>1, <2>10, <2>11
<1>2. CASE p.step \notin {"more", "done"} BY <1>2 DEF PagerOk
<1>3. QED BY <1>1, <1>2

(* Every step of the walk takes it to a state that is in order.             *)
LEMMA PagesAreOk ==
    ASSUME StoreInv, ServingInv, Capacity, PagerOk(pager), NEW r, pager' = r,
           FirstPage \/ NextPage
    PROVE  PagerOk(r)
<1>1. CASE FirstPage
  <2>1. PICK S : serving \in Seq(S) BY DEF ServingInv
  <2>2. DOMAIN serving = 1 .. Len(serving) /\ Len(serving) \in Nat BY <2>1, LenProperties
  <2>3. r = Page(Len(serving), 0, <<>>) BY <1>1 DEF FirstPage
  <2>4. <<>> \in Seq(SUBSET Nat) /\ UNION ToSet(<<>>) = {} /\ InOrder(<<>>)
    BY DEF ToSet, InOrder
  <2>5. \A i : ~ (i \in Superseded(Len(serving)) /\ Key(i) <= 0)
    BY <2>2, KeysArePositive DEF Superseded
  <2>6. Len(serving) \in 0 .. Len(serving) /\ 0 \in Nat BY <2>2
  <2>7. \A i : i \in UNION ToSet(<<>>) <=> i \in Superseded(Len(serving)) /\ Key(i) <= 0
    BY <2>4, <2>5
  <2>8. PICK max \in 0 .. Len(serving) : max = Len(serving) BY <2>6
  <2>9. PICK pages \in Seq(SUBSET Nat) : pages = <<>> BY <2>4
  <2>10. /\ InOrder(pages) /\ r = Page(max, 0, pages)
         /\ \A i : i \in UNION ToSet(pages) <=> i \in Superseded(max) /\ Key(i) <= 0
    BY <2>3, <2>4, <2>7, <2>8, <2>9
  <2>11. QED BY <2>6, <2>10, PageIsOk
<1>2. CASE NextPage /\ ~ (pager.active # active \/ pager.digest # Digest(1 .. pager.max))
  <2>1. r = Page(pager.max, pager.key, pager.listed) /\ pager.step = "more"
    BY <1>2 DEF NextPage
  <2>2. PICK max \in 0 .. Len(serving), key \in Nat, listed \in Seq(SUBSET Nat) :
          max = pager.max /\ key = pager.key /\ listed = pager.listed
    BY <2>1 DEF PagerOk
  <2>3. InOrder(listed) BY <2>1, <2>2 DEF PagerOk
  <2>4. \A i : i \in UNION ToSet(listed) <=> SupersededThen(pager, i) /\ Key(i) <= key
    BY <2>1, <2>2 DEF PagerOk
  <2>5. \A i : SupersededThen(pager, i) <=> i \in Superseded(max)
    BY <1>2, <2>2 DEF SupersededThen, Superseded
  <2>6. \A i : i \in UNION ToSet(listed) <=> i \in Superseded(max) /\ Key(i) <= key
    BY <2>4, <2>5
  <2>7. QED BY <2>1, <2>2, <2>3, <2>6, PageIsOk
<1>3. CASE NextPage /\ (pager.active # active \/ pager.digest # Digest(1 .. pager.max))
  <2>1. r = [step |-> "stale"] BY <1>3 DEF NextPage
  <2>2. QED BY <2>1 DEF PagerOk
<1>4. QED BY <1>1, <1>2, <1>3

(* The step after which it is in order, seen from the next state.           *)
LEMMA WalkNext ==
    ASSUME NEW p, PagerOk(p)', pager' = p
    PROVE  PagerOk(pager)'
BY DEF PagerOk, SupersededThen, InOrder, Key

(* A step keeps the walk in order.                                          *)
LEMMA NextPager ==
    StoreInv /\ ServingInv /\ Capacity /\ PagerOk(pager) /\ [Next]_vars => PagerOk(pager)'
<1> SUFFICES ASSUME StoreInv, ServingInv, Capacity, PagerOk(pager), [Next]_vars
             PROVE  PagerOk(pager)'
  OBVIOUS
<1>1. PICK r : pager' = r OBVIOUS
<1>2. PagerOk(r)
  <2>1. CASE FirstPage \/ NextPage BY <1>1, <2>1, PagesAreOk
  <2>2. CASE ~ (FirstPage \/ NextPage)
    <3>1. pager' = pager
      BY <2>2 DEF Next, vars, servingVars, Reconciling, Reading, OpenReader, ReadTruth,
                  CompareProjection, Building, BeginServingBuild, ScanFacts, FinishServingBuild,
                  AbortServingBuild, Paging
    <3>2. r = pager BY <1>1, <3>1
    <3>3. QED BY <3>2
  <2>3. QED BY <2>1, <2>2
<1>3. PagerOk(r)' BY <1>2, WalkStays
<1>4. QED BY <1>1, <1>3, WalkNext

(* What the serving plane answers is what the facts of the captured         *)
(* generation said, at the cost the caller budgeted for, whatever           *)
(* projection there is and whoever builds one meanwhile; and a walk of the  *)
(* status lists every superseded projection once (ServingReader,            *)
(* merge_relationship_slices, serving_status_page).                         *)
THEOREM AnswersTrue == Spec => []AnswersAreTruth
<1> DEFINE AnswersInv ==
      StoreInv /\ Holding /\ ServingInv /\ Capacity /\ ReaderOk(reader) /\ PagerOk(pager)
<1>1. Init => AnswersInv
  <2> SUFFICES ASSUME Init PROVE ServingInv /\ Capacity /\ ReaderOk(reader) /\ PagerOk(pager)
    BY InitStore DEF Init, StoreInit, ServingInit, DeltaInit, Holding, Idle, NoQuery
  <2>1. serving \in Seq({}) /\ DOMAIN serving = {} BY DEF Init, ServingInit
  <2>2. build.step = "idle" BY DEF Init, ServingInit, Idle
  <2>3. ServingInv BY <2>1, <2>2 DEF ServingInv, BuildFresh, OnePerGeneration, Stored
  <2>4. Capacity
    <3>1. Len(gens) = 0 /\ recon.step = "idle" BY DEF Init, StoreInit, Idle
    <3>2. QED BY <3>1 DEF Capacity
  <2>5. reader = [step |-> "idle"] /\ pager = [step |-> "idle"] BY DEF Init, ServingInit, Idle
  <2>6. reader.step = "idle" /\ pager.step = "idle" BY <2>5
  <2>7. QED BY <2>3, <2>4, <2>6 DEF ReaderOk, PagerOk
<1>2. AnswersInv /\ [Next]_vars => AnswersInv'
  BY NextStore, NextHolding, NextServing, NextCapacity, NextReader, NextPager
<1>3. AnswersInv => AnswersAreTruth
  <2> SUFFICES ASSUME AnswersInv PROVE RowsAreTruth /\ PagesListEachOnce BY DEF AnswersAreTruth
  <2>1. RowsAreTruth BY OkIsTruth
  <2>2. ASSUME pager.step = "done" PROVE PagesListEachOnce
    <3>1. InOrder(pager.listed) BY <2>2 DEF PagerOk
    <3>2. \A i : i \in UNION ToSet(pager.listed) <=> SupersededThen(pager, i)
      BY <2>2 DEF PagerOk
    <3>3. UNION ToSet(pager.listed) = {i \in 1 .. pager.max : serving[i].gen # pager.active}
      BY <3>2 DEF SupersededThen
    <3>4. QED BY <3>1, <3>3 DEF PagesListEachOnce, InOrder
  <2>3. QED BY <2>1, <2>2 DEF PagesListEachOnce
<1>4. QED BY <1>1, <1>2, <1>3, PTL DEF Spec
=============================================================================
