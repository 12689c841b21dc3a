---------------------------- MODULE CommandProofs ---------------------------
(* Theorems about the commands that keep no generation of their own: what a *)
(* client sees of a timeline and of a compaction (TaskRecords), for any     *)
(* number of sessions, contexts, processes and days and any limits; and     *)
(* what a setup agrees on (WorkspaceSetup), for any roots, names,           *)
(* configurations and processes, and any catalogues that older versions     *)
(* left.                                                                    *)
EXTENDS TaskRecords, WorkspaceSetup, FiniteSetTheorems, WellFoundedInduction, SequenceTheorems, TLAPS

-----------------------------------------------------------------------------
(* Finite sets, their extremes and their order.                             *)

(* A set of naturals has a least element.                                   *)
LEMMA LeastNatural ==
    ASSUME NEW S \in SUBSET Nat, S # {}
    PROVE  \E m \in S : \A x \in S : m <= x
<1>1. PICK m \in S : \A x \in S : <<x, m>> \notin OpToRel(<, Nat)
    BY NatLessThanWellFounded, WFMin
<1>2. \A x \in S : ~ (x < m)
    BY <1>1 DEF OpToRel
<1>. QED BY <1>2

(* A finite set of naturals has a greatest element, which Max finds.        *)
LEMMA MaxIs ==
    ASSUME NEW S \in SUBSET Nat, S # {}, IsFiniteSet(S)
    PROVE  Max(S) \in S /\ \A x \in S : x <= Max(S)
<1>. DEFINE above(x) == {y \in S : y > x}
            count == [x \in S |-> Cardinality(above(x))]
<1>1. ASSUME NEW x \in S
      PROVE  IsFiniteSet(above(x)) /\ Cardinality(above(x)) \in Nat
    <2>1. above(x) \in SUBSET S
        OBVIOUS
    <2>2. IsFiniteSet(above(x))
        BY <2>1, FS_Subset
    <2>. QED BY <2>2, FS_CardinalityType
<1>2. count \in [S -> Nat]
    BY <1>1
<1>3. ASSUME NEW m \in S, NEW y \in S, y > m
      PROVE  count[y] < count[m]
    <2>1. above(y) \in SUBSET above(m) /\ y \in above(m) /\ y \notin above(y)
        <3>1. \A z \in S : z > y => z > m
            BY <1>3
        <3>2. ~ (y > y) /\ y > m
            BY <1>3
        <3>. QED BY <3>1, <3>2
    <2>. HIDE DEF above
    <2>2. Cardinality(above(y)) <= Cardinality(above(m)) /\ Cardinality(above(y)) # Cardinality(above(m))
        BY <1>1, <2>1, FS_Subset
    <2>3. Cardinality(above(y)) < Cardinality(above(m))
        BY <1>1, <2>2
    <2>. QED BY <2>3
<1>. HIDE DEF count
<1>. DEFINE counts == {count[x] : x \in S}
<1>4. counts \in SUBSET Nat /\ counts # {}
    BY <1>2
<1>5. PICK n \in counts : \A k \in counts : n <= k
    <2>. HIDE DEF counts
    <2>. QED BY <1>4, LeastNatural
<1>6. PICK m \in S : n = count[m]
    BY <1>5
<1>7. \A y \in S : count[m] <= count[y]
    BY <1>5, <1>6
<1>8. \A y \in S : m >= y
    BY <1>2, <1>3, <1>7
<1>9. Max(S) \in S /\ \A y \in S : Max(S) >= y
    BY <1>8 DEF Max
<1>. QED BY <1>9

(* The values of a function on a finite set are finitely many.              *)
LEMMA FiniteValues ==
    ASSUME NEW S, IsFiniteSet(S), NEW f, DOMAIN f = S, NEW T, T = {f[x] : x \in S}
    PROVE  IsFiniteSet(T) /\ Cardinality(T) <= Cardinality(S)
<1>. DEFINE g == [x \in S |-> f[x]]
<1>1. g \in Surjection(S, T)
    BY DEF Surjection
<1>. QED BY <1>1, FS_Surjection

(* R puts the members of S in a line.                                       *)
InLine(S, R) ==
    /\ \A a \in S : <<a, a>> \notin R
    /\ \A a, b, c \in S : <<a, b>> \in R /\ <<b, c>> \in R => <<a, c>> \in R
    /\ \A a, b \in S : a = b \/ <<a, b>> \in R \/ <<b, a>> \in R

(* In a line, one that comes earlier has fewer before it.                   *)
LEMMA EarlierHasFewer ==
    ASSUME NEW S, IsFiniteSet(S), NEW R, InLine(S, R), NEW a \in S, NEW b \in S
    PROVE  /\ Cardinality(S) \in Nat
           /\ Cardinality({d \in S : <<d, a>> \in R}) \in 0 .. Cardinality(S) - 1
           /\ <<a, b>> \in R =>
                 Cardinality({d \in S : <<d, a>> \in R}) < Cardinality({d \in S : <<d, b>> \in R})
<1>. DEFINE before(e) == {d \in S : <<d, e>> \in R}
<1>1. before(a) \in SUBSET S /\ before(b) \in SUBSET S /\ a \notin before(a)
    BY DEF InLine
<1>2. /\ IsFiniteSet(before(a)) /\ IsFiniteSet(before(b))
      /\ Cardinality(before(a)) \in Nat /\ Cardinality(before(b)) \in Nat
    <2>1. IsFiniteSet(before(a)) /\ IsFiniteSet(before(b))
        BY <1>1, FS_Subset
    <2>. QED BY <2>1, FS_CardinalityType
<1>3. Cardinality(S) \in Nat
    BY FS_CardinalityType
<1>4. Cardinality(before(a)) < Cardinality(S)
    <2>1. before(a) # S
        BY <1>1
    <2>. HIDE DEF before
    <2>2. Cardinality(before(a)) <= Cardinality(S) /\ Cardinality(before(a)) # Cardinality(S)
        BY <1>1, <2>1, FS_Subset
    <2>. QED BY <1>2, <1>3, <2>2
<1>5. ASSUME <<a, b>> \in R
      PROVE  Cardinality(before(a)) < Cardinality(before(b))
    <2>1. before(a) \in SUBSET before(b) /\ before(a) # before(b)
        BY <1>1, <1>5 DEF InLine
    <2>. HIDE DEF before
    <2>2. Cardinality(before(a)) <= Cardinality(before(b)) /\ Cardinality(before(a)) # Cardinality(before(b))
        BY <1>2, <2>1, FS_Subset
    <2>. QED BY <1>2, <2>2
<1>. HIDE DEF before
<1>6. Cardinality(before(a)) \in 0 .. Cardinality(S) - 1
    BY <1>2, <1>3, <1>4
<1>. QED BY <1>3, <1>5, <1>6 DEF before

(* Ordered lists every member of a finite line once, each after those       *)
(* before it.                                                               *)
LEMMA OrderedLists ==
    ASSUME NEW S, IsFiniteSet(S), NEW R, InLine(S, R), NEW o, o = Ordered(S, R)
    PROVE  /\ Cardinality(S) \in Nat
           /\ o \in [1 .. Cardinality(S) -> S]
           /\ \A i, j \in 1 .. Cardinality(S) : i < j => <<o[i], o[j]>> \in R
           /\ \A e \in S : \E i \in 1 .. Cardinality(S) : o[i] = e
<1>. DEFINE n == Cardinality(S)
            place == [e \in S |-> PlaceIn(S, R, e)]
<1>1. n \in Nat
    BY FS_CardinalityType
<1>2. ASSUME NEW a \in S
      PROVE  place[a] \in 1 .. n
    <2>. DEFINE k == Cardinality({d \in S : <<d, a>> \in R})
    <2>1. k \in 0 .. n - 1
        BY EarlierHasFewer
    <2>2. place[a] = 1 + k
        BY DEF PlaceIn
    <2>. HIDE DEF k, n, place
    <2>. QED BY <1>1, <2>1, <2>2
<1>3. \A a, b \in S : <<a, b>> \in R => place[a] < place[b]
    <2>. SUFFICES ASSUME NEW a \in S, NEW b \in S
                  PROVE  <<a, b>> \in R => place[a] < place[b]
        OBVIOUS
    <2>. DEFINE k(e) == Cardinality({d \in S : <<d, e>> \in R})
    <2>1. k(a) \in 0 .. n - 1 /\ k(b) \in 0 .. n - 1 /\ (<<a, b>> \in R => k(a) < k(b))
        BY EarlierHasFewer
    <2>2. place[a] = 1 + k(a) /\ place[b] = 1 + k(b)
        BY DEF PlaceIn
    <2>. HIDE DEF k, n, place
    <2>. QED BY <1>1, <2>1, <2>2
<1>4. \A i \in 1 .. n : o[i] = CHOOSE e \in S : PlaceIn(S, R, e) = i
    BY DEF Ordered
<1>5. \A e \in S : PlaceIn(S, R, e) = place[e]
    OBVIOUS
<1>. HIDE DEF n, place
<1>6. \A a, b \in S : place[a] = place[b] => a = b
    <2>. SUFFICES ASSUME NEW a \in S, NEW b \in S, place[a] = place[b]
                  PROVE  a = b
        OBVIOUS
    <2>1. ~ (place[a] < place[b]) /\ ~ (place[b] < place[a])
        BY <1>1, <1>2
    <2>. QED BY <1>3, <2>1 DEF InLine
<1>7. \A i \in 1 .. n : \E e \in S : place[e] = i
    <2>1. IsFiniteSet(1 .. n) /\ Cardinality(1 .. n) = n
        BY <1>1, FS_Interval
    <2>2. place \in [S -> 1 .. n]
        BY <1>2 DEF place
    <2>3. place \in Injection(S, 1 .. n)
        BY <1>6, <2>2 DEF Injection, IsInjective
    <2>4. Cardinality(S) = Cardinality(1 .. n)
        BY <2>1 DEF n
    <2>5. place \in Surjection(S, 1 .. n)
        BY <2>1, <2>3, <2>4, FS_Injection
    <2>. QED BY <2>5 DEF Surjection
<1>8. \A i \in 1 .. n : o[i] \in S /\ place[o[i]] = i
    BY <1>4, <1>5, <1>7
<1>9. o \in [1 .. n -> S]
    <2>1. o = [i \in 1 .. n |-> CHOOSE e \in S : PlaceIn(S, R, e) = i]
        BY DEF Ordered, n
    <2>. QED BY <1>8, <2>1
<1>10. ASSUME NEW i \in 1 .. n, NEW j \in 1 .. n, i < j
       PROVE  <<o[i], o[j]>> \in R
    <2>1. o[i] \in S /\ o[j] \in S /\ place[o[i]] = i /\ place[o[j]] = j
        BY <1>8
    <2>2. i \in Int /\ j \in Int /\ ~ (j < i) /\ i # j
        BY <1>1, <1>10
    <2>3. o[i] # o[j] /\ <<o[j], o[i]>> \notin R
        BY <1>3, <2>1, <2>2
    <2>. QED BY <2>1, <2>3 DEF InLine
<1>11. ASSUME NEW e \in S
       PROVE  \E i \in 1 .. n : o[i] = e
    <2>1. o[place[e]] \in S /\ place[o[place[e]]] = place[e]
        BY <1>2, <1>8
    <2>. QED BY <1>2, <1>6, <2>1
<1>. QED BY <1>1, <1>9, <1>10, <1>11 DEF n

-----------------------------------------------------------------------------
(* The order of a timeline.                                                 *)

EventId == [kind : DOMAIN KindRank, r : Nat, ordinal : Nat, part : Nat]

Event == [s : Session, id : EventId, row : Nat, at : Nat]

(* Events of one session, which their ids tell apart.                       *)
Told(S) == \A a, b \in S : a.s = b.s /\ (a.id = b.id => a = b)

(* The key of an event is five numbers, which say what its id is.           *)
LEMMA KeyTyped ==
    ASSUME NEW a \in Event
    PROVE  /\ \A i \in 1 .. 5 : Key(a)[i] \in Int
           /\ \A b \in Event : (\A i \in 1 .. 5 : Key(a)[i] = Key(b)[i]) => a.id = b.id
<1>1. ASSUME NEW b \in Event
      PROVE  /\ Key(b)[1] = b.at /\ Key(b)[2] = KindRank[b.id.kind] /\ Key(b)[3] = b.id.r
             /\ Key(b)[4] = b.id.part /\ Key(b)[5] = -b.id.ordinal
    BY DEF Key
<1>2. ASSUME NEW b \in Event
      PROVE  /\ b.at \in Nat /\ b.id \in EventId
             /\ b.id.kind \in {"supplied", "traversed", "requested", "queried", "outcome"}
             /\ b.id.r \in Nat /\ b.id.part \in Nat /\ b.id.ordinal \in Nat
    BY DEF Event, EventId, KindRank
<1>3. \A k, l \in {"supplied", "traversed", "requested", "queried", "outcome"} :
          KindRank[k] \in Int /\ (KindRank[k] = KindRank[l] => k = l)
    BY DEF KindRank
<1>4. \A i \in 1 .. 5 : i = 1 \/ i = 2 \/ i = 3 \/ i = 4 \/ i = 5
    OBVIOUS
<1>5. \A i \in 1 .. 5 : Key(a)[i] \in Int
    BY <1>1, <1>2, <1>3, <1>4
<1>6. ASSUME NEW b \in Event, \A i \in 1 .. 5 : Key(a)[i] = Key(b)[i]
      PROVE  a.id = b.id
    <2>1. /\ Key(a)[2] = Key(b)[2] /\ Key(a)[3] = Key(b)[3]
          /\ Key(a)[4] = Key(b)[4] /\ Key(a)[5] = Key(b)[5]
        BY <1>6
    <2>2. a.id.kind = b.id.kind
        BY <1>1, <1>2, <1>3, <2>1
    <2>3. a.id.r = b.id.r /\ a.id.part = b.id.part
        BY <1>1, <2>1
    <2>4. a.id.ordinal = b.id.ordinal
        BY <1>1, <1>2, <2>1
    <2>. QED BY <1>2, <2>2, <2>3, <2>4 DEF EventId
<1>. QED BY <1>5, <1>6

(* The events of a session are in a line.                                   *)
LEMMA EarlierInLine ==
    ASSUME NEW S \in SUBSET Event, Told(S)
    PROVE  InLine(S, {p \in S \X S : Earlier(p[1], p[2])})
<1>1. \A a \in S : ~ Earlier(a, a)
    BY KeyTyped DEF Earlier
<1>2. ASSUME NEW a \in S, NEW b \in S, NEW c \in S, Earlier(a, b), Earlier(b, c)
      PROVE  Earlier(a, c)
    <2>1. \A i \in 1 .. 5 : Key(a)[i] \in Int /\ Key(b)[i] \in Int /\ Key(c)[i] \in Int
        BY KeyTyped
    <2>2. PICK i \in 1 .. 5 : Key(a)[i] < Key(b)[i] /\ \A j \in 1 .. i - 1 : Key(a)[j] = Key(b)[j]
        BY <1>2 DEF Earlier
    <2>3. PICK k \in 1 .. 5 : Key(b)[k] < Key(c)[k] /\ \A j \in 1 .. k - 1 : Key(b)[j] = Key(c)[j]
        BY <1>2 DEF Earlier
    <2>4. CASE i <= k
        <3>1. \A j \in 1 .. i - 1 : j \in 1 .. k - 1
            BY <2>4
        <3>2. \A j \in 1 .. i - 1 : Key(a)[j] = Key(c)[j]
            BY <2>2, <2>3, <3>1
        <3>3. Key(b)[i] <= Key(c)[i]
            BY <2>1, <2>3, <2>4
        <3>4. Key(a)[i] < Key(c)[i]
            BY <2>1, <2>2, <3>3
        <3>. QED BY <3>2, <3>4 DEF Earlier
    <2>5. CASE k < i
        <3>1. \A j \in 1 .. k - 1 : j \in 1 .. i - 1
            BY <2>5
        <3>2. \A j \in 1 .. k - 1 : Key(a)[j] = Key(c)[j]
            BY <2>2, <2>3, <3>1
        <3>3. Key(a)[k] = Key(b)[k]
            BY <2>2, <2>5
        <3>4. Key(a)[k] < Key(c)[k]
            BY <2>3, <3>3
        <3>. QED BY <3>2, <3>4 DEF Earlier
    <2>. QED BY <2>4, <2>5
<1>3. ASSUME NEW a \in S, NEW b \in S, a # b
      PROVE  Earlier(a, b) \/ Earlier(b, a)
    <2>. DEFINE D == {i \in 1 .. 5 : Key(a)[i] # Key(b)[i]}
    <2>1. a.id # b.id
        BY <1>3 DEF Told
    <2>2. D # {}
        BY <2>1, KeyTyped
    <2>3. PICK i \in D : \A j \in D : i <= j
        <3>1. D \in SUBSET Nat
            OBVIOUS
        <3>. HIDE DEF D
        <3>. QED BY <2>2, <3>1, LeastNatural
    <2>4. i \in 1 .. 5 /\ \A j \in 1 .. i - 1 : Key(a)[j] = Key(b)[j]
        <3>1. ASSUME NEW j \in 1 .. i - 1
              PROVE  Key(a)[j] = Key(b)[j]
            <4>1. j \in 1 .. 5 /\ ~ (i <= j)
                OBVIOUS
            <4>. QED BY <2>3, <4>1
        <3>. QED BY <3>1
    <2>5. Key(a)[i] < Key(b)[i] \/ Key(b)[i] < Key(a)[i]
        <3>1. Key(a)[i] \in Int /\ Key(b)[i] \in Int
            BY <2>4, KeyTyped
        <3>. QED BY <3>1
    <2>6. \A j \in 1 .. i - 1 : Key(b)[j] = Key(a)[j]
        BY <2>4
    <2>. QED BY <2>4, <2>5, <2>6 DEF Earlier
<1>. QED BY <1>1, <1>2, <1>3 DEF InLine

-----------------------------------------------------------------------------
(* Pages of a timeline.                                                     *)

(* A list in order, and one of exactly the members of S.                    *)
InTurn(list) == \A i, j \in 1 .. Len(list) : i < j => Earlier(list[i], list[j])

Lists(list, S) ==
    /\ \A i \in 1 .. Len(list) : list[i] \in S
    /\ \A e \in S : \E i \in 1 .. Len(list) : list[i] = e

(* A list and one of what comes after it, one after the other.              *)
LEMMA Continued ==
    ASSUME NEW s \in Seq(Event), NEW t \in Seq(Event), NEW A, NEW B,
           InTurn(s), Lists(s, A), InTurn(t), Lists(t, B),
           \A a \in A, b \in B : Earlier(a, b)
    PROVE  /\ s \o t \in Seq(Event) /\ InTurn(s \o t)
           /\ \A C : C = A \union B => Lists(s \o t, C)
<1>1. PICK m \in Nat : m = Len(s)
    BY LenProperties
<1>2. PICK n \in Nat : n = Len(t)
    BY LenProperties
<1>0. PICK u : u = s \o t
    OBVIOUS
<1>3. u \in Seq(Event) /\ Len(u) = m + n
    BY <1>1, <1>2, <1>0, ConcatProperties
<1>4. \A i \in 1 .. m + n : u[i] = IF i <= m THEN s[i] ELSE t[i - m]
    BY <1>1, <1>2, <1>0, ConcatProperties
<1>5. ASSUME NEW i \in 1 .. m + n, NEW j \in 1 .. m + n, i < j
      PROVE  Earlier(u[i], u[j])
    <2>1. CASE j <= m
        <3>1. i \in 1 .. m /\ j \in 1 .. m /\ i <= m
            BY <1>5, <2>1
        <3>2. u[i] = s[i] /\ u[j] = s[j]
            BY <1>4, <3>1
        <3>. QED BY <1>1, <1>5, <3>1, <3>2 DEF InTurn
    <2>2. CASE i <= m /\ ~ (j <= m)
        <3>1. i \in 1 .. m /\ j - m \in 1 .. n
            BY <2>2
        <3>2. u[i] = s[i] /\ u[j] = t[j - m]
            BY <1>4, <2>2
        <3>3. s[i] \in A /\ t[j - m] \in B
            BY <1>1, <1>2, <3>1 DEF Lists
        <3>. QED BY <3>2, <3>3
    <2>3. CASE ~ (i <= m)
        <3>1. i - m \in 1 .. n /\ j - m \in 1 .. n /\ i - m < j - m /\ ~ (j <= m)
            BY <1>5, <2>3
        <3>2. u[i] = t[i - m] /\ u[j] = t[j - m]
            BY <1>4, <2>3, <3>1
        <3>. QED BY <1>2, <3>1, <3>2 DEF InTurn
    <2>. QED BY <2>1, <2>2, <2>3
<1>6. ASSUME NEW i \in 1 .. m + n
      PROVE  u[i] \in A \union B
    <2>1. CASE i <= m
        <3>1. i \in 1 .. m /\ u[i] = s[i]
            BY <1>4, <2>1
        <3>. QED BY <1>1, <3>1 DEF Lists
    <2>2. CASE ~ (i <= m)
        <3>1. i - m \in 1 .. n /\ u[i] = t[i - m]
            BY <1>4, <2>2
        <3>. QED BY <1>2, <3>1 DEF Lists
    <2>. QED BY <2>1, <2>2
<1>7. ASSUME NEW e \in A \union B
      PROVE  \E i \in 1 .. m + n : u[i] = e
    <2>1. CASE e \in A
        <3>1. PICK i \in 1 .. m : s[i] = e
            BY <1>1, <2>1 DEF Lists
        <3>2. i \in 1 .. m + n /\ i <= m
            OBVIOUS
        <3>. QED BY <1>4, <3>1, <3>2
    <2>2. CASE e \in B
        <3>1. PICK i \in 1 .. n : t[i] = e
            BY <1>2, <2>2 DEF Lists
        <3>2. i + m \in 1 .. m + n /\ ~ (i + m <= m) /\ i + m - m = i
            OBVIOUS
        <3>. QED BY <1>4, <3>1, <3>2
    <2>. QED BY <2>1, <2>2
<1>8. InTurn(u)
    BY <1>3, <1>5 DEF InTurn
<1>9. ASSUME NEW C, C = A \union B
      PROVE  Lists(u, C)
    BY <1>3, <1>6, <1>7, <1>9 DEF Lists
<1>. QED BY <1>3, <1>8, <1>9, <1>0

(* A page is the first of what is left, in order: all of it, or PageLimit   *)
(* events before which no other comes.                                      *)
LEMMA PageIsFirst ==
    ASSUME RetentionAssumption, NEW S \in SUBSET Event, IsFiniteSet(S), Told(S),
           NEW page, page = SubSeq(InTime(S), 1, Smaller(PageLimit, Cardinality(S)))
    PROVE  /\ page \in Seq(Event) /\ InTurn(page)
           /\ Cardinality(S) <= PageLimit => Lists(page, S)
           /\ Cardinality(S) > PageLimit =>
                 /\ page[PageLimit] \in S
                 /\ Lists(page, {e \in S : ~ Earlier(page[PageLimit], e)})
<1>. DEFINE R == {p \in S \X S : Earlier(p[1], p[2])}
<1>1. InLine(S, R)
    BY EarlierInLine
<1>2. \A a, b : <<a, b>> \in R => Earlier(a, b)
    OBVIOUS
<1>3. \A a, b \in S : Earlier(a, b) => <<a, b>> \in R
    OBVIOUS
<1>4. InTime(S) = Ordered(S, R)
    BY DEF InTime
<1>. HIDE DEF R
<1>5. PICK o : o = InTime(S)
    OBVIOUS
<1>6. PICK n : n = Cardinality(S)
    OBVIOUS
<1>7. /\ n \in Nat /\ o \in [1 .. n -> S]
      /\ \A i, j \in 1 .. n : i < j => <<o[i], o[j]>> \in R
      /\ \A e \in S : \E i \in 1 .. n : o[i] = e
    BY <1>1, <1>4, <1>5, <1>6, OrderedLists
<1>8. \A i, j \in 1 .. n : i < j => Earlier(o[i], o[j])
    BY <1>2, <1>7
<1>9. ASSUME NEW i \in 1 .. n, NEW j \in 1 .. n, Earlier(o[i], o[j])
      PROVE  i < j
    <2>1. o[i] \in S /\ o[j] \in S /\ <<o[i], o[j]>> \in R
        BY <1>3, <1>7, <1>9
    <2>2. i # j
        BY <1>1, <2>1 DEF InLine
    <2>3. ~ (j < i)
        <3>1. SUFFICES ASSUME <<o[j], o[i]>> \in R PROVE FALSE
            BY <1>7
        <3>. QED BY <1>1, <2>1, <3>1 DEF InLine
    <2>. QED BY <1>7, <2>2, <2>3
<1>10. PICK k : k = Smaller(PageLimit, n)
    OBVIOUS
<1>11. /\ PageLimit \in Nat \ {0} /\ k \in 0 .. n
       /\ n <= PageLimit => k = n
       /\ n > PageLimit => k = PageLimit
    BY <1>7, <1>10 DEF Smaller, RetentionAssumption
<1>12. o \in Seq(S) /\ Len(o) = n
    BY <1>7, SeqDef, LenProperties
<1>13. page = SubSeq(o, 1, k)
    BY <1>5, <1>6, <1>10
<1>14. /\ page \in Seq(S) /\ Len(page) = k
       /\ \A i \in 1 .. k : page[i] = o[i]
    <2>1. k \in Int /\ 1 \in Int /\ \A i \in 1 .. k : o[i] \in S
        BY <1>7, <1>11
    <2>2. /\ SubSeq(o, 1, k) \in Seq(S)
          /\ Len(SubSeq(o, 1, k)) = IF 1 <= k THEN k - 1 + 1 ELSE 0
          /\ \A i \in 1 .. k - 1 + 1 : SubSeq(o, 1, k)[i] = o[1 + i - 1]
        BY ONLY <2>1, SubSeqProperties
    <2>3. k - 1 + 1 = k /\ (IF 1 <= k THEN k - 1 + 1 ELSE 0) = k
        BY <1>7, <1>11
    <2>4. \A i \in 1 .. k : 1 + i - 1 = i
        OBVIOUS
    <2>. QED BY <1>13, <2>2, <2>3, <2>4
<1>15. page \in Seq(Event)
    BY <1>14, SeqMonotonic
<1>16. InTurn(page)
    BY <1>7, <1>8, <1>11, <1>14 DEF InTurn
<1>17. \A i \in 1 .. k : page[i] \in S /\ i \in 1 .. n
    BY <1>7, <1>11, <1>14
<1>18. ASSUME n <= PageLimit
       PROVE  Lists(page, S)
    BY <1>7, <1>11, <1>14, <1>17, <1>18 DEF Lists
<1>19. ASSUME n > PageLimit
       PROVE  /\ page[PageLimit] \in S
              /\ Lists(page, {e \in S : ~ Earlier(page[PageLimit], e)})
    <2>1. k = PageLimit /\ k \in 1 .. k /\ k \in 1 .. n /\ page[k] = o[k]
        BY <1>7, <1>11, <1>14, <1>19
    <2>2. ASSUME NEW i \in 1 .. k
          PROVE  page[i] \in S /\ ~ Earlier(page[k], page[i])
        <3>1. ~ (k < i) /\ page[i] = o[i] /\ i \in 1 .. n
            BY <1>11, <1>14, <1>17
        <3>. QED BY <1>9, <1>17, <2>1, <3>1
    <2>3. ASSUME NEW e \in S, ~ Earlier(page[k], e)
          PROVE  \E i \in 1 .. k : page[i] = e
        <3>1. PICK i \in 1 .. n : o[i] = e
            BY <1>7
        <3>2. ~ (k < i)
            BY <1>8, <2>1, <2>3, <3>1
        <3>3. i \in 1 .. k
            BY <1>7, <1>11, <3>2
        <3>. QED BY <1>14, <3>1, <3>3
    <2>. QED BY <1>14, <1>17, <2>1, <2>2, <2>3 DEF Lists
<1>. QED BY <1>6, <1>15, <1>16, <1>18, <1>19

-----------------------------------------------------------------------------
(* The rows of the catalogue.                                               *)

SessionRow == [state : {"none", "open", "terminal"}, bound : BOOLEAN, done : Nat]

Metrics == [s : Session \union {0}, n : MetricIds, at : Nat]

(* The events of a session have ids of their own, and one that tells its    *)
(* outcome is of a session that has ended.                                  *)
EventsOk ==
    /\ events \in SUBSET Event /\ IsFiniteSet(events)
    /\ \A a, b \in events : a.s = b.s /\ a.id = b.id => a = b
    /\ \A e \in events : e.id.kind = "outcome" => session[e.s].state = "terminal"

(* No two metrics have one number.                                          *)
MetricsOk ==
    /\ metrics \in SUBSET Metrics /\ IsFiniteSet(metrics)
    /\ \A a, b \in metrics : a.n = b.n => a = b

(* The command between two of its transactions.                             *)
CommandOk ==
    /\ command.step \in {"idle", "begun", "compiled", "valid"}
    /\ command.step # "idle" => command.s \in Session /\ command.r \in Request
    /\ command.step \in {"compiled", "valid"} =>
          \E serving \in BOOLEAN : command.ir = Compiled[command.r][serving]

RecordsTypeOK ==
    /\ session \in [Session -> SessionRow]
    /\ served \in BOOLEAN
    /\ day \in Nat
    /\ IsFiniteSet(contexts)
    /\ EventsOk /\ MetricsOk /\ CommandOk

(* The number of the next row is above all others.                          *)
LEMMA NextRowIs ==
    ASSUME EventsOk
    PROVE  NextRow \in Nat
<1>. DEFINE rows == {e.row : e \in events}
            f == [e \in events |-> e.row]
            all == rows \union {0}
<1>1. rows \in SUBSET Nat
    BY DEF EventsOk, Event
<1>2. IsFiniteSet(rows)
    <2>1. rows = {f[e] : e \in events} /\ DOMAIN f = events
        OBVIOUS
    <2>. HIDE DEF f, rows
    <2>. QED BY <2>1, FiniteValues DEF EventsOk
<1>. HIDE DEF rows
<1>3. all \in SUBSET Nat /\ all # {} /\ IsFiniteSet(all)
    BY <1>1, <1>2, FS_AddElement
<1>4. Max(all) \in Nat
    <2>. HIDE DEF all
    <2>. QED BY <1>3, MaxIs
<1>. QED BY <1>4 DEF NextRow, rows

(* Nor is the number a capture ends with below any.                         *)
LEMMA CapturesAll ==
    ASSUME EventsOk, NEW s, NEW row, row = Max({e.row : e \in EventsOf(s)} \union {0})
    PROVE  row \in Nat /\ Captured(s, row) = EventsOf(s)
<1>. DEFINE rows == {e.row : e \in EventsOf(s)}
            f == [e \in EventsOf(s) |-> e.row]
            all == rows \union {0}
<1>1. EventsOf(s) \in SUBSET events
    BY DEF EventsOf
<1>2. IsFiniteSet(EventsOf(s))
    BY <1>1, FS_Subset DEF EventsOk
<1>3. rows \in SUBSET Nat
    BY <1>1 DEF EventsOk, Event
<1>4. IsFiniteSet(rows)
    <2>1. rows = {f[e] : e \in EventsOf(s)} /\ DOMAIN f = EventsOf(s)
        OBVIOUS
    <2>. HIDE DEF f, rows
    <2>. QED BY <1>2, <2>1, FiniteValues
<1>5. \A e \in EventsOf(s) : e.row \in all
    OBVIOUS
<1>. HIDE DEF rows
<1>6. all \in SUBSET Nat /\ all # {} /\ IsFiniteSet(all)
    BY <1>3, <1>4, FS_AddElement
<1>7. row = Max(all)
    BY DEF rows
<1>8. row \in Nat /\ \A x \in all : x <= row
    <2>. HIDE DEF all
    <2>. QED BY <1>6, <1>7, MaxIs
<1>. HIDE DEF all
<1>. QED BY <1>5, <1>8 DEF Captured

(* Inserting events whose ids are new keeps the ids apart.                  *)
LEMMA InsertKeeps ==
    ASSUME RecordsTypeOK, NEW s \in Session, NEW ids \in SUBSET EventId, IsFiniteSet(ids),
           ~ Collides(s, ids), events' = events \union Inserted(s, ids),
           \A e \in events' : e.id.kind = "outcome" => session'[e.s].state = "terminal"
    PROVE  EventsOk'
<1>. DEFINE row(id) == [s |-> s, id |-> id, row |-> NextRow, at |-> day]
            f == [id \in ids |-> row(id)]
<1>1. NextRow \in Nat
    BY NextRowIs DEF RecordsTypeOK
<1>2. Inserted(s, ids) = {row(id) : id \in ids}
    BY DEF Inserted
<1>3. Inserted(s, ids) \in SUBSET Event
    BY <1>1, <1>2 DEF RecordsTypeOK, Event
<1>4. IsFiniteSet(Inserted(s, ids))
    <2>1. Inserted(s, ids) = {f[id] : id \in ids} /\ DOMAIN f = ids
        BY <1>2
    <2>. HIDE DEF f
    <2>. QED BY <2>1, FiniteValues
<1>5. events' \in SUBSET Event /\ IsFiniteSet(events')
    BY <1>3, <1>4, FS_Union DEF RecordsTypeOK, EventsOk
<1>6. ASSUME NEW a \in events', NEW b \in events', a.s = b.s, a.id = b.id
      PROVE  a = b
    <2>1. \A e \in Inserted(s, ids) : e.s = s /\ e.id \in ids /\ e = row(e.id)
        BY <1>2
    <2>2. \A e \in events : e.s = s => e.id \notin ids
        BY DEF Collides, EventsOf
    <2>3. CASE a \in events /\ b \in events
        BY <1>6, <2>3 DEF RecordsTypeOK, EventsOk
    <2>4. CASE a \in Inserted(s, ids) /\ b \in Inserted(s, ids)
        BY <1>6, <2>1, <2>4
    <2>. QED BY <1>6, <2>1, <2>2, <2>3, <2>4
<1>. QED BY <1>5, <1>6 DEF EventsOk

(* Events that go leave the others apart.                                   *)
LEMMA RemoveKeeps ==
    ASSUME EventsOk, events' \in SUBSET events,
           \A e \in events' : session'[e.s].state = session[e.s].state
    PROVE  EventsOk'
<1>1. IsFiniteSet(events')
    BY FS_Subset DEF EventsOk
<1>. QED BY <1>1 DEF EventsOk

(* The ordinal of a delivery is a number, and the ids of its events are     *)
(* finitely many.                                                           *)
LEMMA DeliveryTyped ==
    ASSUME RecordsTypeOK, CompiledAssumption, command.step = "valid"
    PROVE  LET ids == DeliveryIds(command.s, command.r, command.ir)
           IN  ids \in SUBSET EventId /\ IsFiniteSet(ids) /\ \A id \in ids : id.kind # "outcome"
<1>1. PICK s : s = command.s
    OBVIOUS
<1>2. PICK r \in Nat : r = command.r
    BY DEF RecordsTypeOK, CommandOk, CompiledAssumption
<1>. DEFINE mine == {x \in EventsOf(s) : x.id.kind \in {"supplied", "traversed"} /\ x.id.r = r}
            f == [e \in mine |-> e.id.ordinal]
            ordinals == {e.id.ordinal : e \in mine}
            all == {0} \union ordinals
<1>3. mine \in SUBSET events
    BY DEF EventsOf
<1>4. ordinals \in SUBSET Nat
    BY <1>3 DEF RecordsTypeOK, EventsOk, Event, EventId
<1>5. IsFiniteSet(ordinals)
    <2>1. ordinals = {f[e] : e \in mine} /\ DOMAIN f = mine
        OBVIOUS
    <2>2. IsFiniteSet(mine)
        BY <1>3, FS_Subset DEF RecordsTypeOK, EventsOk
    <2>. HIDE DEF f, mine, ordinals
    <2>. QED BY <2>1, <2>2, FiniteValues
<1>6. Ordinal(s, r) \in Nat
    <2>1. Ordinal(s, r) = 1 + Max(all)
        BY DEF Ordinal
    <2>. HIDE DEF ordinals
    <2>2. all = ordinals \union {0}
        OBVIOUS
    <2>3. all \in SUBSET Nat /\ all # {} /\ IsFiniteSet(all)
        BY <1>4, <1>5, <2>2, FS_AddElement
    <2>. HIDE DEF all
    <2>4. Max(all) \in Nat
        BY <2>3, MaxIs
    <2>. QED BY <2>1, <2>4
<1>7. PICK serving \in BOOLEAN : command.ir = Compiled[command.r][serving]
    BY DEF RecordsTypeOK, CommandOk
<1>8. PICK ir : ir = command.ir
    OBVIOUS
<1>9. /\ DOMAIN ir.items \subseteq Nat /\ IsFiniteSet(DOMAIN ir.items)
      /\ ir.hops \subseteq Nat /\ IsFiniteSet(ir.hops)
    BY <1>7, <1>8 DEF RecordsTypeOK, CommandOk, CompiledAssumption
<1>10. PICK ordinal \in Nat : ordinal = Ordinal(s, r)
    BY <1>6
<1>. DEFINE supplied == {Id("supplied", r, ordinal, i) : i \in DOMAIN ir.items}
            traversed == {Id("traversed", r, ordinal, h) : h \in ir.hops}
            g == [i \in DOMAIN ir.items |-> Id("supplied", r, ordinal, i)]
            h1 == [h \in ir.hops |-> Id("traversed", r, ordinal, h)]
<1>11. DeliveryIds(s, r, ir) = supplied \union traversed
    BY <1>10 DEF DeliveryIds
<1>12. supplied \in SUBSET EventId /\ traversed \in SUBSET EventId
    BY <1>9 DEF EventId, Id, KindRank
<1>13. \A id \in supplied \union traversed : id.kind # "outcome"
    BY DEF Id
<1>14. IsFiniteSet(supplied)
    <2>1. supplied = {g[i] : i \in DOMAIN ir.items} /\ DOMAIN g = DOMAIN ir.items
        OBVIOUS
    <2>. HIDE DEF g, supplied
    <2>. QED BY <1>9, <2>1, FiniteValues
<1>15. IsFiniteSet(traversed)
    <2>1. traversed = {h1[h] : h \in ir.hops} /\ DOMAIN h1 = ir.hops
        OBVIOUS
    <2>. HIDE DEF h1, traversed
    <2>. QED BY <1>9, <2>1, FiniteValues
<1>. HIDE DEF supplied, traversed
<1>16. IsFiniteSet(supplied \union traversed)
    BY <1>14, <1>15, FS_Union
<1>. QED BY <1>1, <1>2, <1>8, <1>11, <1>12, <1>13, <1>16

-----------------------------------------------------------------------------
(* Every step keeps the rows well-formed.                                   *)

(* A new metric gets a number no other has.                                 *)
LEMMA MetricIsNew ==
    ASSUME RetentionAssumption, RecordsTypeOK, Cardinality(metrics) < MaxMetrics, NEW s \in Session
    PROVE  Metric(s) \in Metrics /\ \A m \in metrics : m.n # Metric(s).n
<1>. DEFINE f == [m \in metrics |-> m.n]
            used == {m.n : m \in metrics}
            n == CHOOSE k \in MetricIds : \A m \in metrics : m.n # k
<1>1. IsFiniteSet(metrics) /\ used \in SUBSET MetricIds
    BY DEF RecordsTypeOK, MetricsOk, Metrics
<1>2. IsFiniteSet(used) /\ Cardinality(used) <= Cardinality(metrics)
    <2>1. used = {f[m] : m \in metrics} /\ DOMAIN f = metrics
        OBVIOUS
    <2>. HIDE DEF f, used
    <2>. QED BY <1>1, <2>1, FiniteValues
<1>3. used # MetricIds
    <2>1. MaxMetrics \in Nat
        BY DEF RetentionAssumption
    <2>2. Cardinality(MetricIds) = MaxMetrics
        BY <2>1, FS_Interval DEF MetricIds
    <2>3. Cardinality(metrics) \in Nat /\ Cardinality(used) \in Nat
        BY <1>1, <1>2, FS_CardinalityType
    <2>. HIDE DEF used
    <2>. QED BY <1>2, <2>1, <2>2, <2>3
<1>4. \E k \in MetricIds : \A m \in metrics : m.n # k
    BY <1>1, <1>3
<1>5. n \in MetricIds /\ \A m \in metrics : m.n # n
    BY <1>4
<1>6. Metric(s) = [s |-> IF Stored(s) THEN s ELSE 0, n |-> n, at |-> day]
    BY DEF Metric
<1>. HIDE DEF n
<1>. QED BY <1>5, <1>6 DEF RecordsTypeOK, Metrics

(* What deleting by a manifest leaves.                                      *)
LEMMA DeletingLeaves ==
    ASSUME RecordsTypeOK, NEW manifest, DeleteBy(manifest)
    PROVE  /\ metrics' \in SUBSET metrics /\ contexts' \in SUBSET contexts
           /\ events' \in SUBSET events
           /\ session' \in [Session -> SessionRow]
           /\ \A e \in events' : session'[e.s] = session[e.s]
<1>1. NoSession \in SessionRow
    BY DEF NoSession, SessionRow
<1>2. \A e \in events : e.s \in Session
    BY DEF RecordsTypeOK, EventsOk, Event
<1>. QED BY <1>1, <1>2 DEF DeleteBy, RecordsTypeOK

LEMMA DeletingKeeps ==
    ASSUME RecordsTypeOK, NEW manifest, DeleteBy(manifest), UNCHANGED <<served, day, command>>
    PROVE  RecordsTypeOK'
<1>1. /\ metrics' \in SUBSET metrics /\ contexts' \in SUBSET contexts /\ events' \in SUBSET events
      /\ session' \in [Session -> SessionRow]
      /\ \A e \in events' : session'[e.s] = session[e.s]
    BY DeletingLeaves
<1>2. EventsOk'
    BY <1>1, RemoveKeeps DEF RecordsTypeOK
<1>3. IsFiniteSet(metrics') /\ IsFiniteSet(contexts')
    BY <1>1, FS_Subset DEF RecordsTypeOK, MetricsOk
<1>4. MetricsOk'
    BY <1>1, <1>3 DEF RecordsTypeOK, MetricsOk
<1>5. CommandOk'
    BY DEF RecordsTypeOK, CommandOk
<1>. QED BY <1>1, <1>2, <1>3, <1>4, <1>5 DEF RecordsTypeOK

(* The rows stay as they are.                                               *)
LEMMA RowsStay ==
    ASSUME RecordsTypeOK, UNCHANGED <<session, contexts, events, metrics>>, served' \in BOOLEAN,
           day' \in Nat, CommandOk'
    PROVE  RecordsTypeOK'
BY DEF RecordsTypeOK, EventsOk, MetricsOk

LEMMA InitTyped == RecordsInit => RecordsTypeOK
<1>. SUFFICES ASSUME RecordsInit PROVE RecordsTypeOK
    OBVIOUS
<1>1. IsFiniteSet({})
    BY FS_EmptySet
<1>2. session \in [Session -> SessionRow] /\ served \in BOOLEAN /\ day \in Nat
    BY DEF RecordsInit, NoSession, SessionRow
<1>3. EventsOk /\ MetricsOk /\ IsFiniteSet(contexts)
    BY <1>1 DEF RecordsInit, EventsOk, MetricsOk
<1>4. CommandOk
    BY DEF RecordsInit, CommandOk, NoCommand
<1>. QED BY <1>2, <1>3, <1>4 DEF RecordsTypeOK

(* One observation of a session.                                            *)
LEMMA ObservationKeeps ==
    ASSUME RecordsTypeOK, NEW s \in Session, NEW id \in EventId, id.kind # "outcome",
           ~ Collides(s, {id}), events' = events \union Inserted(s, {id}),
           UNCHANGED <<session, served, contexts, metrics, day, command>>
    PROVE  RecordsTypeOK'
<1>1. {id} \in SUBSET EventId /\ IsFiniteSet({id})
    BY FS_Singleton
<1>2. \A e \in Inserted(s, {id}) : e.id = id
    BY DEF Inserted
<1>3. \A e \in events' : e.id.kind = "outcome" => session'[e.s].state = "terminal"
    BY <1>2 DEF RecordsTypeOK, EventsOk
<1>4. EventsOk'
    BY <1>1, <1>3, InsertKeeps
<1>5. CommandOk'
    BY DEF RecordsTypeOK, CommandOk
<1>. QED BY <1>4, <1>5 DEF RecordsTypeOK, MetricsOk

LEMMA NextTyped ==
    ASSUME RetentionAssumption, CompiledAssumption, RecordsTypeOK, [RecordsNext]_recordVars
    PROVE  RecordsTypeOK'
<1>1. ASSUME NEW s \in Session, StartTask(s)
      PROVE  RecordsTypeOK'
    <2>1. session' \in [Session -> SessionRow]
        BY <1>1 DEF StartTask, RecordsTypeOK, SessionRow
    <2>2. \A e \in events : e.id.kind = "outcome" => session'[e.s].state = "terminal"
        <3>1. \A e \in events : e.id.kind = "outcome" => e.s # s
            BY <1>1 DEF StartTask, Stored, RecordsTypeOK, EventsOk
        <3>2. \A t : t # s => session'[t] = session[t]
            BY <1>1 DEF StartTask, RecordsTypeOK
        <3>. QED BY <3>1, <3>2 DEF RecordsTypeOK, EventsOk
    <2>3. UNCHANGED <<served, contexts, events, metrics, day, command>>
        BY <1>1 DEF StartTask
    <2>. QED BY <2>1, <2>2, <2>3 DEF RecordsTypeOK, EventsOk, MetricsOk, CommandOk
<1>2. ASSUME NEW s \in Session, EndTask(s)
      PROVE  RecordsTypeOK'
    <2>1. session' \in [Session -> SessionRow] /\ session'[s].state = "terminal"
          /\ \A t \in Session : t # s => session'[t] = session[t]
        BY <1>2 DEF EndTask, RecordsTypeOK, SessionRow
    <2>2. UNCHANGED <<served, contexts, metrics, day, command>>
        BY <1>2 DEF EndTask
    <2>3. session[s].state = "open"
        BY <1>2 DEF EndTask
    <2>4. PICK ids \in {{}, {Id("outcome", 0, 0, 0)}} : events' = events \union Inserted(s, ids)
        BY <1>2 DEF EndTask
    <2>5. ids \in SUBSET EventId /\ IsFiniteSet(ids)
        <3>1. Id("outcome", 0, 0, 0) \in EventId
            BY DEF Id, EventId, KindRank
        <3>2. IsFiniteSet({}) /\ IsFiniteSet({Id("outcome", 0, 0, 0)})
            BY FS_EmptySet, FS_Singleton
        <3>. QED BY <3>1, <3>2
    <2>6. \A id \in ids : id.kind = "outcome"
        BY DEF Id
    <2>7. ~ Collides(s, ids)
        BY <2>3, <2>6 DEF Collides, EventsOf, RecordsTypeOK, EventsOk
    <2>8. \A e \in events' : e.id.kind = "outcome" => session'[e.s].state = "terminal"
        <3>1. \A e \in Inserted(s, ids) : e.s = s
            BY DEF Inserted
        <3>2. \A e \in events : e.s \in Session
            BY DEF RecordsTypeOK, EventsOk, Event
        <3>. QED BY <2>1, <2>4, <3>1, <3>2 DEF RecordsTypeOK, EventsOk
    <2>9. EventsOk'
        BY <2>4, <2>5, <2>7, <2>8, InsertKeeps
    <2>. QED BY <2>1, <2>2, <2>9 DEF RecordsTypeOK, MetricsOk, CommandOk
<1>3. ASSUME NEW s \in Session, RecordSource(s)
      PROVE  RecordsTypeOK'
    <2>1. PICK n : n = Cardinality({e \in EventsOf(s) : e.id.kind = "requested"}) + 1
        OBVIOUS
    <2>2. n \in Nat
        <3>1. {e \in EventsOf(s) : e.id.kind = "requested"} \in SUBSET events
            BY DEF EventsOf
        <3>2. IsFiniteSet({e \in EventsOf(s) : e.id.kind = "requested"})
            BY <3>1, FS_Subset DEF RecordsTypeOK, EventsOk
        <3>. QED BY <2>1, <3>2, FS_CardinalityType
    <2>3. Id("requested", 0, n, 0) \in EventId /\ Id("requested", 0, n, 0).kind # "outcome"
        BY <2>2 DEF Id, EventId, KindRank
    <2>4. /\ ~ Collides(s, {Id("requested", 0, n, 0)})
          /\ events' = events \union Inserted(s, {Id("requested", 0, n, 0)})
          /\ UNCHANGED <<session, served, contexts, metrics, day, command>>
        BY <1>3, <2>1 DEF RecordSource
    <2>. QED BY <2>3, <2>4, ObservationKeeps
<1>4. ASSUME NEW s \in Session, NEW p \in Process, RecordQuery(s, p)
      PROVE  RecordsTypeOK'
    <2>1. Id("queried", 0, 0, p) \in EventId /\ Id("queried", 0, 0, p).kind # "outcome"
        BY DEF Id, EventId, KindRank, RetentionAssumption
    <2>2. /\ ~ Collides(s, {Id("queried", 0, 0, p)})
          /\ events' = events \union Inserted(s, {Id("queried", 0, 0, p)})
          /\ UNCHANGED <<session, served, contexts, metrics, day, command>>
        BY <1>4 DEF RecordQuery
    <2>. QED BY <2>1, <2>2, ObservationKeeps
<1>5. ASSUME NEW s \in Session, NEW r \in Request, BeginContext(s, r)
      PROVE  RecordsTypeOK'
    <2>1. CommandOk' /\ served' \in BOOLEAN /\ day' \in Nat
        BY <1>5 DEF BeginContext, CommandOk, RecordsTypeOK
    <2>. QED BY <1>5, <2>1, RowsStay DEF BeginContext
<1>6. CASE CompileTask
    <2>1. CommandOk'
        <3>1. command.s \in Session /\ command.r \in Request
            BY <1>6 DEF CompileTask, RecordsTypeOK, CommandOk
        <3>2. PICK serving \in BOOLEAN :
                  command' \in {NoCommand, [step |-> "compiled", s |-> command.s, r |-> command.r,
                                            ir |-> Compiled[command.r][serving]]}
            <4>1. PICK serving \in {served, FALSE} :
                      command' \in {NoCommand, [step |-> "compiled", s |-> command.s, r |-> command.r,
                                                ir |-> Compiled[command.r][serving]]}
                BY <1>6 DEF CompileTask
            <4>. QED BY <4>1 DEF RecordsTypeOK
        <3>. QED BY <3>1, <3>2 DEF CommandOk, NoCommand
    <2>2. MetricsOk'
        <3>1. CASE metrics' = metrics
            BY <3>1 DEF RecordsTypeOK, MetricsOk
        <3>2. CASE Cardinality(metrics) < MaxMetrics /\ metrics' = metrics \union {Metric(command.s)}
            <4>1. Metric(command.s) \in Metrics /\ \A m \in metrics : m.n # Metric(command.s).n
                BY <1>6, <3>2, MetricIsNew DEF CompileTask, RecordsTypeOK, CommandOk
            <4>2. IsFiniteSet(metrics')
                BY <3>2, FS_AddElement DEF RecordsTypeOK, MetricsOk
            <4>. QED BY <3>2, <4>1, <4>2 DEF RecordsTypeOK, MetricsOk
        <3>. QED BY <1>6, <3>1, <3>2 DEF CompileTask
    <2>3. UNCHANGED <<session, served, contexts, events, day>>
        BY <1>6 DEF CompileTask
    <2>. QED BY <2>1, <2>2, <2>3 DEF RecordsTypeOK, EventsOk
<1>7. CASE ValidateSession
    <2>1. CommandOk' /\ served' \in BOOLEAN /\ day' \in Nat
        BY <1>7 DEF ValidateSession, CommandOk, NoCommand, RecordsTypeOK
    <2>. QED BY <1>7, <2>1, RowsStay DEF ValidateSession
<1>8. CASE RecordCompiled
    <2>. DEFINE ids == DeliveryIds(command.s, command.r, command.ir)
    <2>1. command.step = "valid" /\ command.s \in Session
        BY <1>8 DEF RecordCompiled, RecordsTypeOK, CommandOk
    <2>2. /\ command' = NoCommand /\ UNCHANGED <<session, served, metrics, day>>
          /\ contexts' \in {contexts, Persisted}
          /\ \/ UNCHANGED events
             \/ ~ Collides(command.s, ids) /\ events' = events \union Inserted(command.s, ids)
        BY <1>8 DEF RecordCompiled
    <2>3. CommandOk'
        BY <2>2 DEF CommandOk, NoCommand
    <2>4. IsFiniteSet(contexts')
        <3>1. PICK new : Persisted = contexts \union {new}
            BY DEF Persisted
        <3>2. IsFiniteSet(contexts) /\ IsFiniteSet(contexts \union {new})
            BY FS_AddElement DEF RecordsTypeOK
        <3>. QED BY <2>2, <3>1, <3>2
    <2>5. EventsOk'
        <3>1. CASE UNCHANGED events
            BY <2>2, <3>1 DEF RecordsTypeOK, EventsOk
        <3>2. CASE ~ Collides(command.s, ids) /\ events' = events \union Inserted(command.s, ids)
            <4>1. ids \in SUBSET EventId /\ IsFiniteSet(ids) /\ \A id \in ids : id.kind # "outcome"
                BY <2>1, DeliveryTyped
            <4>. HIDE DEF ids
            <4>2. \A e \in Inserted(command.s, ids) : e.id \in ids
                BY DEF Inserted
            <4>3. \A e \in events' : e.id.kind = "outcome" => session'[e.s].state = "terminal"
                BY <2>2, <3>2, <4>1, <4>2 DEF RecordsTypeOK, EventsOk
            <4>. QED BY <2>1, <3>2, <4>1, <4>3, InsertKeeps
        <3>. QED BY <2>2, <3>1, <3>2
    <2>. QED BY <2>2, <2>3, <2>4, <2>5 DEF RecordsTypeOK, MetricsOk
<1>9. CASE ClockMoves
    <2>1. CommandOk'
        BY <1>9 DEF ClockMoves, CommandOk, RecordsTypeOK
    <2>2. served' \in BOOLEAN /\ day' \in Nat
        BY <1>9 DEF ClockMoves, RetentionAssumption, RecordsTypeOK
    <2>. QED BY <1>9, <2>1, <2>2, RowsStay DEF ClockMoves
<1>10. CASE Apply
    <2>1. UNCHANGED <<served, day, command>>
        BY <1>10 DEF Apply
    <2>2. CASE \E manifest : DeleteBy(manifest)
        BY <2>1, <2>2, DeletingKeeps
    <2>3. CASE UNCHANGED <<metrics, events, contexts, session>>
        BY <2>1, <2>3, RowsStay DEF RecordsTypeOK, CommandOk
    <2>. QED BY <1>10, <2>2, <2>3 DEF Apply
<1>11. CASE ApplyElsewhere
    <2>1. UNCHANGED <<served, day, command>> /\ \E manifest : DeleteBy(manifest)
        BY <1>11 DEF ApplyElsewhere
    <2>. QED BY <2>1, DeletingKeeps
<1>12. ASSUME UNCHANGED <<session, contexts, events, metrics, day, command>>, served' \in BOOLEAN
       PROVE  RecordsTypeOK'
    BY <1>12 DEF RecordsTypeOK, EventsOk, MetricsOk, CommandOk
<1>13. CASE BuildProjection \/ ShowNext \/ Preview \/ PreviewNext \/ UNCHANGED recordVars
            \/ \E s \in Session : ShowFirst(s)
    BY <1>12, <1>13 DEF RecordsTypeOK, BuildProjection, ShowNext, Preview, PreviewNext, ShowFirst, recordVars
<1>. QED BY <1>1, <1>2, <1>3, <1>4, <1>5, <1>6, <1>7, <1>8, <1>9, <1>10, <1>11, <1>13 DEF RecordsNext

(* RecordsTypeOK: sessions, contexts, events, metrics and the command       *)
(* between its transactions keep their types; no two events of a session    *)
(* and no two metrics have one id, whatever is deleted and written again.   *)
THEOREM RecordsTyped == RecordsSpec => []RecordsTypeOK
<1>1. RecordsInit => RecordsTypeOK
    BY InitTyped
<1>2. RecordsTypeOK /\ [RecordsNext]_recordVars => RecordsTypeOK'
    BY NextTyped, RetentionAssumption, CompiledAssumption
<1>. QED BY <1>1, <1>2, PTL DEF RecordsSpec

-----------------------------------------------------------------------------
(* A client that pages through a timeline.                                  *)

Walk == [step : {"walking", "listed", "stale"}, s : Session, row : Nat,
         state : {"open", "terminal"}, digest : SUBSET Event, prefix : SUBSET Event,
         listed : Seq(Event), captured : SUBSET Event, last : Event \union {0}]

(* What it has been given is the capture up to the last event, in order,    *)
(* and the whole of it at the end.                                          *)
WalkOk(w) ==
    /\ w \in Walk /\ IsFiniteSet(w.captured) /\ Told(w.captured)
    /\ w.step = "listed" => InTurn(w.listed) /\ Lists(w.listed, w.captured)
    /\ w.step = "walking" =>
          /\ w.digest = w.captured /\ w.last \in w.captured
          /\ InTurn(w.listed) /\ Lists(w.listed, {e \in w.captured : ~ Earlier(w.last, e)})

WalkInv == walk = NoWalk \/ WalkOk(walk)

(* One page more of what is left.                                           *)
LEMMA CutKeeps ==
    ASSUME RetentionAssumption, RecordsTypeOK, NEW w \in Walk,
           IsFiniteSet(w.captured), Told(w.captured), w.digest = w.captured,
           NEW rest \in SUBSET w.captured,
           InTurn(w.listed), Lists(w.listed, w.captured \ rest),
           \A a \in w.captured \ rest, b \in rest : Earlier(a, b)
    PROVE  WalkOk(CutPage(w, rest))
<1>1. PICK page : page = SubSeq(InTime(rest), 1, Smaller(PageLimit, Cardinality(rest)))
    OBVIOUS
<1>2. /\ w.captured \in SUBSET Event /\ rest \in SUBSET Event /\ w.listed \in Seq(Event)
      /\ IsFiniteSet(rest) /\ Told(rest)
    <2>1. IsFiniteSet(rest)
        BY FS_Subset
    <2>. QED BY <2>1 DEF Walk, Told
<1>3. /\ page \in Seq(Event) /\ InTurn(page)
      /\ Cardinality(rest) <= PageLimit => Lists(page, rest)
      /\ Cardinality(rest) > PageLimit =>
            /\ page[PageLimit] \in rest
            /\ Lists(page, {e \in rest : ~ Earlier(page[PageLimit], e)})
    BY <1>1, <1>2, PageIsFirst
<1>4. InLine(w.captured, {p \in w.captured \X w.captured : Earlier(p[1], p[2])})
    BY <1>2, EarlierInLine
<1>5. Cardinality(rest) \in Nat /\ PageLimit \in Nat
    BY <1>2, FS_CardinalityType DEF RetentionAssumption
<1>6. CASE Cardinality(rest) > PageLimit
    <2>1. PICK last : last = page[PageLimit]
        OBVIOUS
    <2>2. PICK new : new = CutPage(w, rest)
        OBVIOUS
    <2>3. new = [w EXCEPT !.step = "walking", !.listed = w.listed \o page, !.last = last,
                          !.prefix = PrefixDigest(w.s, w.row, last)]
        BY <1>1, <1>6, <2>1, <2>2 DEF CutPage
    <2>. DEFINE given == {e \in rest : ~ Earlier(last, e)}
    <2>4. last \in rest /\ Lists(page, given)
        BY <1>3, <1>6, <2>1
    <2>5. {e \in w.captured : ~ Earlier(last, e)} = (w.captured \ rest) \union given
        <3>1. ASSUME NEW e \in w.captured \ rest
              PROVE  ~ Earlier(last, e)
            <4>1. Earlier(e, last)
                BY <2>4
            <4>. QED BY <1>4, <2>4, <4>1 DEF InLine
        <3>. QED BY <3>1
    <2>6. /\ w.listed \o page \in Seq(Event) /\ InTurn(w.listed \o page)
          /\ Lists(w.listed \o page, {e \in w.captured : ~ Earlier(last, e)})
        <3>1. \A a \in w.captured \ rest, b \in given : Earlier(a, b)
            OBVIOUS
        <3>. HIDE DEF given
        <3>. QED BY <1>2, <1>3, <2>4, <2>5, <3>1, Continued
    <2>7. PrefixDigest(w.s, w.row, last) \in SUBSET Event
        BY DEF PrefixDigest, Captured, EventsOf, RecordsTypeOK, EventsOk
    <2>8. /\ new \in Walk /\ new.step = "walking" /\ new.listed = w.listed \o page
          /\ new.captured = w.captured /\ new.digest = w.digest /\ new.last = last
        BY <1>2, <2>3, <2>4, <2>6, <2>7 DEF Walk
    <2>9. WalkOk(new)
        BY <2>4, <2>6, <2>8 DEF WalkOk
    <2>. QED BY <2>2, <2>9
<1>7. CASE Cardinality(rest) <= PageLimit
    <2>1. PICK new : new = CutPage(w, rest)
        OBVIOUS
    <2>2. ~ (Cardinality(rest) > PageLimit)
        BY <1>5, <1>7
    <2>3. new = [w EXCEPT !.step = "listed", !.listed = w.listed \o page]
        BY <1>1, <2>1, <2>2 DEF CutPage
    <2>4. w.captured = (w.captured \ rest) \union rest
        OBVIOUS
    <2>5. /\ w.listed \o page \in Seq(Event) /\ InTurn(w.listed \o page)
          /\ Lists(w.listed \o page, w.captured)
        BY <1>2, <1>3, <1>7, <2>4, Continued
    <2>6. /\ new \in Walk /\ new.step = "listed" /\ new.listed = w.listed \o page
          /\ new.captured = w.captured
        BY <2>3, <2>5 DEF Walk
    <2>7. WalkOk(new)
        BY <2>5, <2>6 DEF WalkOk
    <2>. QED BY <2>1, <2>7
<1>. QED BY <1>5, <1>6, <1>7

LEMMA FirstPageKeeps ==
    ASSUME RetentionAssumption, RecordsTypeOK, NEW s \in Session, ShowFirst(s)
    PROVE  WalkOk(walk')
<1>1. PICK row : row = Max({e.row : e \in EventsOf(s)} \union {0})
    OBVIOUS
<1>2. row \in Nat /\ Captured(s, row) = EventsOf(s)
    BY <1>1, CapturesAll DEF RecordsTypeOK
<1>3. PICK w : w = [step |-> "walking", s |-> s, row |-> row, state |-> session[s].state,
                    digest |-> SnapshotDigest(s, row), prefix |-> {}, listed |-> <<>>,
                    captured |-> EventsOf(s), last |-> 0]
    OBVIOUS
<1>4. walk' = CutPage(w, EventsOf(s))
    BY <1>1, <1>3 DEF ShowFirst
<1>5. EventsOf(s) \in SUBSET Event /\ IsFiniteSet(EventsOf(s)) /\ Told(EventsOf(s))
    <2>1. EventsOf(s) \in SUBSET events
        BY DEF EventsOf
    <2>2. IsFiniteSet(EventsOf(s))
        BY <2>1, FS_Subset DEF RecordsTypeOK, EventsOk
    <2>. QED BY <2>1, <2>2 DEF RecordsTypeOK, EventsOk, EventsOf, Told
<1>6. session[s].state \in {"open", "terminal"}
    BY DEF ShowFirst, Stored, RecordsTypeOK, SessionRow
<1>7. <<>> \in Seq(Event) /\ Len(<<>>) = 0
    BY EmptySeq
<1>8. w \in Walk
    BY <1>2, <1>3, <1>5, <1>6, <1>7 DEF Walk, SnapshotDigest
<1>9. /\ w.captured = EventsOf(s) /\ w.digest = w.captured /\ w.listed = <<>>
    BY <1>2, <1>3 DEF SnapshotDigest
<1>10. InTurn(w.listed) /\ Lists(w.listed, w.captured \ EventsOf(s))
    BY <1>7, <1>9 DEF InTurn, Lists
<1>11. \A a \in w.captured \ EventsOf(s), b \in EventsOf(s) : Earlier(a, b)
    BY <1>9
<1>12. EventsOf(s) \in SUBSET w.captured /\ IsFiniteSet(w.captured) /\ Told(w.captured)
    BY <1>5, <1>9
<1>13. WalkOk(CutPage(w, EventsOf(s)))
    BY <1>8, <1>9, <1>10, <1>11, <1>12, CutKeeps
<1>. QED BY <1>4, <1>13

LEMMA NextPageKeeps ==
    ASSUME RetentionAssumption, RecordsTypeOK, WalkInv, ShowNext
    PROVE  WalkOk(walk')
<1>1. walk.step = "walking" /\ WalkOk(walk)
    BY DEF ShowNext, WalkInv, NoWalk
<1>2. CASE SnapshotDigest(walk.s, walk.row) = walk.digest /\ walk' # [walk EXCEPT !.step = "stale"]
    <2>1. PICK rest : rest = {e \in walk.captured : Earlier(walk.last, e)}
        OBVIOUS
    <2>2. Captured(walk.s, walk.row) = walk.captured
        BY <1>1, <1>2 DEF SnapshotDigest, WalkOk
    <2>3. walk' = CutPage(walk, rest)
        BY <1>2, <2>1, <2>2 DEF ShowNext
    <2>4. InLine(walk.captured, {p \in walk.captured \X walk.captured : Earlier(p[1], p[2])})
        BY <1>1, EarlierInLine DEF WalkOk, Walk
    <2>5. walk.captured \ rest = {e \in walk.captured : ~ Earlier(walk.last, e)}
        BY <2>1
    <2>6. ASSUME NEW a \in walk.captured \ rest, NEW b \in rest
          PROVE  Earlier(a, b)
        <3>1. a \in walk.captured /\ b \in walk.captured /\ walk.last \in walk.captured
            BY <1>1, <2>1 DEF WalkOk
        <3>2. Earlier(walk.last, b) /\ ~ Earlier(walk.last, a)
            BY <2>1
        <3>3. a = walk.last \/ Earlier(a, walk.last)
            BY <2>4, <3>1, <3>2 DEF InLine
        <3>. QED BY <2>4, <3>1, <3>2, <3>3 DEF InLine
    <2>7. WalkOk(CutPage(walk, rest))
        <3>1. /\ walk \in Walk /\ IsFiniteSet(walk.captured) /\ Told(walk.captured)
              /\ walk.digest = walk.captured /\ rest \in SUBSET walk.captured
              /\ InTurn(walk.listed) /\ Lists(walk.listed, walk.captured \ rest)
            BY <1>1, <2>1, <2>5 DEF WalkOk
        <3>2. PICK w : w = walk
            OBVIOUS
        <3>. QED BY <2>6, <3>1, <3>2, CutKeeps
    <2>. QED BY <2>3, <2>7
<1>3. CASE walk' = [walk EXCEPT !.step = "stale"]
    <2>1. walk' \in Walk /\ walk'.step = "stale" /\ walk'.captured = walk.captured
        BY <1>1, <1>3 DEF WalkOk, Walk
    <2>. QED BY <1>1, <2>1 DEF WalkOk
<1>. QED BY <1>2, <1>3 DEF ShowNext

LEMMA NextWalk ==
    ASSUME RetentionAssumption, RecordsTypeOK, WalkInv, [RecordsNext]_recordVars
    PROVE  WalkInv'
<1>1. ASSUME UNCHANGED walk
      PROVE  WalkInv'
    <2>1. WalkOk(walk) => WalkOk(walk')
        BY <1>1
    <2>. QED BY <1>1, <2>1 DEF WalkInv
<1>2. ASSUME NEW s \in Session, StartTask(s) \/ EndTask(s) \/ RecordSource(s)
      PROVE  WalkInv'
    BY <1>1, <1>2 DEF StartTask, EndTask, RecordSource
<1>3. ASSUME NEW s \in Session, ShowFirst(s)
      PROVE  WalkInv'
    BY <1>3, FirstPageKeeps DEF WalkInv
<1>4. CASE ShowNext
    BY <1>4, NextPageKeeps DEF WalkInv
<1>5. ASSUME NEW s \in Session, NEW r \in Request, BeginContext(s, r)
      PROVE  WalkInv'
    BY <1>1, <1>5 DEF BeginContext
<1>6. ASSUME NEW s \in Session, NEW p \in Process, RecordQuery(s, p)
      PROVE  WalkInv'
    BY <1>1, <1>6 DEF RecordQuery
<1>7. CASE BuildProjection \/ CompileTask \/ ValidateSession \/ RecordCompiled \/ ClockMoves
    BY <1>1, <1>7 DEF BuildProjection, CompileTask, ValidateSession, RecordCompiled, ClockMoves
<1>8. CASE Preview \/ PreviewNext \/ Apply \/ ApplyElsewhere \/ UNCHANGED recordVars
    BY <1>1, <1>8 DEF Preview, PreviewNext, Apply, ApplyElsewhere, recordVars
<1>. QED BY <1>2, <1>3, <1>4, <1>5, <1>6, <1>7, <1>8 DEF RecordsNext

-----------------------------------------------------------------------------
(* A client that previews a compaction and applies it.                      *)

Entry == [action : DOMAIN ActionRank, id : Nat, contexts : Nat, events : Nat, metrics : Nat]

(* What the manifest of one moment lists.                                   *)
LEMMA EntriesAre ==
    ASSUME RetentionAssumption, RecordsTypeOK, NEW asOf
    PROVE  /\ Entries(asOf) \in SUBSET Entry /\ IsFiniteSet(Entries(asOf))
           /\ \A a, b \in Entries(asOf) : a.action = b.action /\ a.id = b.id => a = b
           /\ \A e \in Entries(asOf) : e.action # "metric" =>
                 e.id \in Session /\ Terminal(e.id) /\ e = SessionEntry(e.id, asOf)
           /\ \A e \in Entries(asOf) : e.action = "metric" =>
                 \E m \in metrics : m.n = e.id /\ m.s = 0
<1>. DEFINE expired == {s \in Session : Expired(s, asOf)}
            orphaned == {m.n : m \in {x \in Orphans : Older(x.at, asOf, StructuredAge)}}
            F == FirstOf([s \in expired |-> session[s].done])
            G == FirstOf([n \in orphaned |-> DayOfOrphan(n)])
            f == [s \in F |-> SessionEntry(s, asOf)]
            g == [n \in G |-> MetricEntry(n)]
            A == {SessionEntry(s, asOf) : s \in F}
            B == {MetricEntry(n) : n \in G}
<1>1. F \in SUBSET expired /\ G \in SUBSET orphaned
    BY DEF FirstOf
<1>2. Entries(asOf) = A \union B
    BY DEF Entries
<1>3. \A s \in F : s \in Session /\ Terminal(s)
    BY <1>1 DEF Expired
<1>4. \A n \in G : n \in MetricIds /\ \E m \in metrics : m.n = n /\ m.s = 0
    <2>1. \A n \in orphaned : \E m \in metrics : m.n = n /\ m.s = 0
        BY DEF Orphans
    <2>. QED BY <1>1, <2>1 DEF RecordsTypeOK, MetricsOk, Metrics
<1>5. IsFiniteSet(F) /\ IsFiniteSet(G)
    <2>1. F \in SUBSET Session /\ G \in SUBSET MetricIds
        BY <1>3, <1>4
    <2>2. IsFiniteSet(MetricIds)
        <3>1. 1 \in Int /\ MaxMetrics \in Int
            BY DEF RetentionAssumption
        <3>. QED BY <3>1, FS_Interval DEF MetricIds
    <2>. HIDE DEF F, G
    <2>. QED BY <2>1, <2>2, FS_Subset DEF RetentionAssumption
<1>. HIDE DEF F, G
<1>6. IsFiniteSet(A)
    <2>1. A = {f[s] : s \in F} /\ DOMAIN f = F
        OBVIOUS
    <2>. HIDE DEF f, A
    <2>. QED BY <1>5, <2>1, FiniteValues
<1>7. IsFiniteSet(B)
    <2>1. B = {g[n] : n \in G} /\ DOMAIN g = G
        OBVIOUS
    <2>. HIDE DEF g, B
    <2>. QED BY <1>5, <2>1, FiniteValues
<1>8. IsFiniteSet(Entries(asOf))
    <2>. HIDE DEF A, B
    <2>. QED BY <1>2, <1>6, <1>7, FS_Union
<1>9. ASSUME NEW s \in F
      PROVE  /\ SessionEntry(s, asOf) \in Entry
             /\ SessionEntry(s, asOf).id = s /\ SessionEntry(s, asOf).action \in {"derived", "session"}
    <2>1. /\ ContextsOf(s) \in SUBSET contexts /\ EventsOf(s) \in SUBSET events
          /\ MetricsOf(s) \in SUBSET metrics
        BY DEF ContextsOf, EventsOf, MetricsOf
    <2>2. IsFiniteSet(ContextsOf(s)) /\ IsFiniteSet(EventsOf(s)) /\ IsFiniteSet(MetricsOf(s))
        BY <2>1, FS_Subset DEF RecordsTypeOK, EventsOk, MetricsOk
    <2>3. /\ Cardinality(ContextsOf(s)) \in Nat /\ Cardinality(EventsOf(s)) \in Nat
          /\ Cardinality(MetricsOf(s)) \in Nat
        BY <2>2, FS_CardinalityType
    <2>4. s \in Nat
        BY <1>3 DEF RetentionAssumption
    <2>. QED BY <2>3, <2>4 DEF SessionEntry, Entry, ActionRank
<1>10. ASSUME NEW n \in G
       PROVE  MetricEntry(n) \in Entry /\ MetricEntry(n).id = n /\ MetricEntry(n).action = "metric"
    <2>1. n \in Nat
        BY <1>4 DEF MetricIds, RetentionAssumption
    <2>. QED BY <2>1 DEF MetricEntry, Entry, ActionRank
<1>11. ASSUME NEW e \in Entries(asOf)
       PROVE  /\ e \in Entry
              /\ \/ e.action # "metric" /\ e.id \in F /\ e = SessionEntry(e.id, asOf)
                 \/ e.action = "metric" /\ e.id \in G /\ e = MetricEntry(e.id)
    BY <1>2, <1>9, <1>10
<1>12. \A a, b \in Entries(asOf) : a.action = b.action /\ a.id = b.id => a = b
    BY <1>11
<1>13. Entries(asOf) \in SUBSET Entry
    BY <1>11
<1>. QED BY <1>3, <1>4, <1>8, <1>11, <1>12, <1>13

(* They are in a line, so that the manifest lists each of them.             *)
LEMMA ManifestLists ==
    ASSUME RetentionAssumption, RecordsTypeOK, NEW asOf
    PROVE  Manifest(asOf) \in Seq(Entry) /\ ToSet(Manifest(asOf)) = Entries(asOf)
<1>. DEFINE S == Entries(asOf)
            R == {p \in S \X S : EntryBefore(p[1], p[2])}
            n == Cardinality(S)
<1>1. /\ S \in SUBSET Entry /\ IsFiniteSet(S)
      /\ \A a, b \in S : a.action = b.action /\ a.id = b.id => a = b
    BY EntriesAre
<1>. HIDE DEF S
<1>2. InLine(S, R)
    <2>1. \A a \in S : /\ a.action \in {"derived", "session", "metric"} /\ a.id \in Nat
                       /\ ActionRank[a.action] \in Int
        BY <1>1 DEF Entry, ActionRank
    <2>2. \A a, b \in S : ActionRank[a.action] = ActionRank[b.action] => a.action = b.action
        BY <2>1 DEF ActionRank
    <2>3. \A a, b \in S : <<a, b>> \in R <=> EntryBefore(a, b)
        OBVIOUS
    <2>. HIDE DEF R
    <2>4. \A a \in S : <<a, a>> \notin R
        BY <2>1, <2>3 DEF EntryBefore
    <2>5. \A a, b, c \in S : <<a, b>> \in R /\ <<b, c>> \in R => <<a, c>> \in R
        BY <2>1, <2>3 DEF EntryBefore
    <2>6. ASSUME NEW a \in S, NEW b \in S, a # b
          PROVE  EntryBefore(a, b) \/ EntryBefore(b, a)
        <3>1. CASE a.action = b.action
            <4>1. a.id # b.id /\ a.id \in Nat /\ b.id \in Nat
                BY <1>1, <2>1, <2>6, <3>1
            <4>2. a.id < b.id \/ b.id < a.id
                BY <4>1
            <4>. QED BY <3>1, <4>2 DEF EntryBefore
        <3>2. CASE a.action # b.action
            <4>1. /\ ActionRank[a.action] # ActionRank[b.action]
                  /\ ActionRank[a.action] \in Int /\ ActionRank[b.action] \in Int
                BY <2>1, <2>2, <3>2
            <4>2. ActionRank[a.action] < ActionRank[b.action] \/ ActionRank[b.action] < ActionRank[a.action]
                BY <4>1
            <4>. QED BY <4>2 DEF EntryBefore
        <3>. QED BY <3>1, <3>2
    <2>7. \A a, b \in S : a = b \/ <<a, b>> \in R \/ <<b, a>> \in R
        BY <2>3, <2>6
    <2>. QED BY <2>4, <2>5, <2>7 DEF InLine
<1>3. PICK o : o = Ordered(S, R)
    OBVIOUS
<1>4. Manifest(asOf) = o
    BY <1>3 DEF Manifest, S
<1>. HIDE DEF R
<1>5. n \in Nat /\ o \in [1 .. n -> S] /\ \A e \in S : \E i \in 1 .. n : o[i] = e
    BY <1>1, <1>2, <1>3, OrderedLists
<1>6. ToSet(o) = S
    BY <1>5 DEF ToSet
<1>7. o \in Seq(Entry)
    <2>. HIDE DEF n
    <2>1. o \in [1 .. n -> Entry]
        BY <1>1, <1>5
    <2>. QED BY <1>5, <2>1, SeqDef
<1>. QED BY <1>4, <1>6, <1>7 DEF S

Review == [step : {"paging", "seen", "stale"}, asOf : Nat, digest : Seq(Entry), listed : Seq(Entry)]

(* A client has been shown the first entries of what it may confirm, and    *)
(* all of them at the end.                                                  *)
ReviewOk(r) ==
    /\ r \in Review
    /\ r.step \in {"paging", "seen"} =>
          /\ Len(r.listed) <= Len(r.digest)
          /\ \A i \in 1 .. Len(r.listed) : r.listed[i] = r.digest[i]
    /\ r.step = "seen" => r.listed = r.digest

ReviewInv == review = NoReview \/ ReviewOk(review)

(* A page more of the entries.                                              *)
LEMMA EntriesKeep ==
    ASSUME RetentionAssumption, NEW r, ReviewOk(r), r.step = "paging",
           NEW manifest, manifest = r.digest
    PROVE  ReviewOk(CutEntries(r, manifest))
<1>. DEFINE k == Len(r.listed)
            n == Len(manifest)
<1>1. r \in Review /\ r.listed \in Seq(Entry) /\ manifest \in Seq(Entry)
    BY DEF ReviewOk, Review
<1>2. k \in Nat /\ n \in Nat /\ k <= n
    BY <1>1, LenProperties DEF ReviewOk
<1>3. \A i \in 1 .. k : r.listed[i] = manifest[i]
    BY DEF ReviewOk
<1>4. PICK last : last = Smaller(k + PageLimit, n)
    OBVIOUS
<1>5. PageLimit \in Nat /\ last \in Nat /\ k <= last /\ last <= n
    BY <1>2, <1>4 DEF Smaller, RetentionAssumption
<1>6. PICK page : page = SubSeq(manifest, k + 1, last)
    OBVIOUS
<1>7. PICK new : new = CutEntries(r, manifest)
    OBVIOUS
<1>8. new = [r EXCEPT !.listed = r.listed \o page, !.step = IF last < n THEN "paging" ELSE "seen"]
    BY <1>4, <1>6, <1>7 DEF CutEntries
<1>9. \A i \in 1 .. n : manifest[i] \in Entry
    BY <1>1, ElementOfSeq
<1>10. PICK kk \in Nat : kk = k
    BY <1>2
<1>11. PICK nn \in Nat : nn = n
    BY <1>2
<1>. HIDE DEF k, n
<1>12. kk + 1 \in Int /\ last \in Int /\ \A i \in kk + 1 .. last : manifest[i] \in Entry
    BY <1>5, <1>9, <1>11
<1>13. /\ SubSeq(manifest, kk + 1, last) \in Seq(Entry)
       /\ Len(SubSeq(manifest, kk + 1, last)) = IF kk + 1 <= last THEN last - (kk + 1) + 1 ELSE 0
       /\ \A i \in 1 .. last - (kk + 1) + 1 : SubSeq(manifest, kk + 1, last)[i] = manifest[kk + 1 + i - 1]
    BY ONLY <1>12, SubSeqProperties
<1>14. last - (kk + 1) + 1 = last - kk /\ kk <= last /\ (IF kk + 1 <= last THEN last - kk ELSE 0) = last - kk
    BY <1>5, <1>10
<1>15. \A i \in 1 .. last - kk : kk + 1 + i - 1 = kk + i
    BY <1>5
<1>16. page \in Seq(Entry) /\ Len(page) = last - kk /\ \A i \in 1 .. last - kk : page[i] = manifest[kk + i]
    BY <1>6, <1>10, <1>13, <1>14, <1>15
<1>17. PICK u : u = r.listed \o page
    OBVIOUS
<1>18. /\ u \in Seq(Entry) /\ Len(u) = Len(r.listed) + Len(page)
       /\ \A i \in 1 .. Len(r.listed) + Len(page) :
             u[i] = IF i <= Len(r.listed) THEN r.listed[i] ELSE page[i - Len(r.listed)]
    BY ONLY <1>1, <1>16, <1>17, ConcatProperties
<1>19. Len(r.listed) = kk /\ kk + (last - kk) = last
    BY <1>5, <1>10 DEF k
<1>20. /\ Len(u) = last
       /\ \A i \in 1 .. last : u[i] = IF i <= kk THEN r.listed[i] ELSE page[i - kk]
    BY <1>16, <1>18, <1>19
<1>21. ASSUME NEW i \in 1 .. last
       PROVE  u[i] = manifest[i]
    <2>1. CASE i <= kk
        BY <1>3, <1>10, <1>20, <2>1
    <2>2. CASE ~ (i <= kk)
        <3>1. i - kk \in 1 .. last - kk /\ kk + (i - kk) = i
            BY <1>5, <2>2
        <3>. QED BY <1>16, <1>20, <2>2, <3>1
    <2>. QED BY <2>1, <2>2
<1>22. ~ (last < nn) => u = manifest
    <2>1. ASSUME ~ (last < nn)
          PROVE  u = manifest
        <3>1. Len(u) = Len(manifest)
            BY <1>5, <1>11, <1>20, <2>1 DEF n
        <3>. QED BY <1>1, <1>18, <1>20, <1>21, <3>1, SeqEqual
    <2>. QED BY <2>1
<1>23. /\ new \in Review /\ new.listed = u /\ new.digest = manifest
       /\ new.step = IF last < nn THEN "paging" ELSE "seen"
    BY <1>1, <1>8, <1>11, <1>17, <1>18 DEF Review
<1>24. Len(new.listed) <= Len(new.digest)
    BY <1>5, <1>20, <1>23 DEF n
<1>25. ReviewOk(new)
    BY <1>20, <1>21, <1>22, <1>23, <1>24 DEF ReviewOk
<1>. QED BY <1>7, <1>25

LEMMA NextReview ==
    ASSUME RetentionAssumption, RecordsTypeOK, ReviewInv, [RecordsNext]_recordVars
    PROVE  ReviewInv'
<1>1. ASSUME UNCHANGED review
      PROVE  ReviewInv'
    <2>1. ReviewOk(review) => ReviewOk(review')
        BY <1>1
    <2>. QED BY <1>1, <2>1 DEF ReviewInv
<1>2. CASE Preview
    <2>1. PICK manifest : /\ manifest = Manifest(day)
                          /\ review' = CutEntries([step |-> "paging", asOf |-> day,
                                                   digest |-> ManifestDigest(manifest), listed |-> <<>>],
                                                  manifest)
        BY <1>2 DEF Preview
    <2>2. PICK r : r = [step |-> "paging", asOf |-> day, digest |-> ManifestDigest(manifest),
                        listed |-> <<>>]
        OBVIOUS
    <2>3. manifest \in Seq(Entry) /\ ManifestDigest(manifest) = manifest
        BY <2>1, ManifestLists DEF ManifestDigest
    <2>4. <<>> \in Seq(Entry) /\ Len(<<>>) = 0 /\ Len(manifest) \in Nat
        BY <2>3, EmptySeq, LenProperties
    <2>5. r.step = "paging" /\ r.digest = manifest /\ r.listed = <<>> /\ r \in Review
        BY <2>2, <2>3, <2>4 DEF Review, RecordsTypeOK
    <2>6. ReviewOk(r)
        BY <2>4, <2>5 DEF ReviewOk
    <2>7. ReviewOk(CutEntries(r, manifest))
        BY <2>5, <2>6, EntriesKeep
    <2>. QED BY <2>1, <2>2, <2>7 DEF ReviewInv
<1>3. CASE PreviewNext
    <2>1. review.step = "paging" /\ ReviewOk(review)
        BY <1>3 DEF PreviewNext, ReviewInv, NoReview
    <2>2. CASE \E manifest : /\ ManifestDigest(manifest) = review.digest
                             /\ review' = CutEntries(review, manifest)
        <3>1. review' = CutEntries(review, review.digest)
            BY <2>2 DEF ManifestDigest
        <3>2. PICK r : r = review
            OBVIOUS
        <3>3. ReviewOk(CutEntries(r, r.digest))
            BY <2>1, <3>2, EntriesKeep
        <3>. QED BY <3>1, <3>2, <3>3 DEF ReviewInv
    <2>3. CASE review' = [review EXCEPT !.step = "stale"]
        <3>1. review' \in Review /\ review'.step = "stale"
            BY <2>1, <2>3 DEF ReviewOk, Review
        <3>2. ReviewOk(review')
            BY <3>1 DEF ReviewOk
        <3>. QED BY <3>2 DEF ReviewInv
    <2>. QED BY <1>3, <2>2, <2>3 DEF PreviewNext
<1>4. CASE Apply
    BY <1>4 DEF Apply, ReviewInv
<1>5. ASSUME NEW s \in Session, StartTask(s) \/ EndTask(s) \/ RecordSource(s) \/ ShowFirst(s)
      PROVE  ReviewInv'
    BY <1>1, <1>5 DEF StartTask, EndTask, RecordSource, ShowFirst
<1>6. ASSUME NEW s \in Session, NEW r \in Request, BeginContext(s, r)
      PROVE  ReviewInv'
    BY <1>1, <1>6 DEF BeginContext
<1>7. ASSUME NEW s \in Session, NEW p \in Process, RecordQuery(s, p)
      PROVE  ReviewInv'
    BY <1>1, <1>7 DEF RecordQuery
<1>8. CASE BuildProjection \/ CompileTask \/ ValidateSession \/ RecordCompiled \/ ClockMoves
    BY <1>1, <1>8 DEF BuildProjection, CompileTask, ValidateSession, RecordCompiled, ClockMoves
<1>9. CASE ShowNext \/ ApplyElsewhere \/ UNCHANGED recordVars
    BY <1>1, <1>9 DEF ShowNext, ApplyElsewhere, recordVars
<1>. QED BY <1>2, <1>3, <1>4, <1>5, <1>6, <1>7, <1>8, <1>9 DEF RecordsNext

RecordsInv == RecordsTypeOK /\ WalkInv /\ ReviewInv

LEMMA RecordsInvariant == RecordsSpec => []RecordsInv
<1>1. RecordsInit => RecordsInv
    <2>. SUFFICES ASSUME RecordsInit PROVE RecordsInv
        OBVIOUS
    <2>1. WalkInv /\ ReviewInv
        BY DEF RecordsInit, WalkInv, ReviewInv
    <2>. QED BY <2>1, InitTyped DEF RecordsInv
<1>2. RecordsInv /\ [RecordsNext]_recordVars => RecordsInv'
    <2>. SUFFICES ASSUME RecordsInv, [RecordsNext]_recordVars PROVE RecordsInv'
        OBVIOUS
    <2>1. RecordsTypeOK'
        BY NextTyped, RetentionAssumption, CompiledAssumption DEF RecordsInv
    <2>2. WalkInv'
        BY NextWalk, RetentionAssumption DEF RecordsInv
    <2>3. ReviewInv'
        BY NextReview, RetentionAssumption DEF RecordsInv
    <2>. QED BY <2>1, <2>2, <2>3 DEF RecordsInv
<1>. QED BY <1>1, <1>2, PTL DEF RecordsSpec

(* PagesAreWhole: whoever pages to the end of a timeline or of a preview,   *)
(* and is not told that the cursor is stale, has each captured row once, in *)
(* order, and each entry of the manifest it may confirm, whatever was       *)
(* recorded, deleted or re-used in between.                                 *)
THEOREM PagesWhole == RecordsSpec => []PagesAreWhole
<1>1. RecordsInv => PagesAreWhole
    <2>. SUFFICES ASSUME RecordsInv PROVE PagesAreWhole
        OBVIOUS
    <2>1. ASSUME walk.step = "listed"
          PROVE  /\ ToSet(walk.listed) = walk.captured
                 /\ \A i, j \in DOMAIN walk.listed : i < j => Earlier(walk.listed[i], walk.listed[j])
        <3>1. WalkOk(walk)
            BY <2>1 DEF RecordsInv, WalkInv, NoWalk
        <3>2. InTurn(walk.listed) /\ Lists(walk.listed, walk.captured) /\ walk.listed \in Seq(Event)
            BY <2>1, <3>1 DEF WalkOk, Walk
        <3>3. DOMAIN walk.listed = 1 .. Len(walk.listed)
            BY <3>2, LenProperties
        <3>4. ToSet(walk.listed) = walk.captured
            BY <3>2, <3>3 DEF ToSet, Lists
        <3>. QED BY <3>2, <3>3, <3>4 DEF InTurn
    <2>2. ASSUME review.step = "seen"
          PROVE  ManifestDigest(review.listed) = review.digest
        <3>1. ReviewOk(review)
            BY <2>2 DEF RecordsInv, ReviewInv, NoReview
        <3>. QED BY <2>2, <3>1 DEF ReviewOk, ManifestDigest
    <2>. QED BY <2>1, <2>2 DEF PagesAreWhole
<1>. QED BY <1>1, RecordsInvariant, PTL

-----------------------------------------------------------------------------
(* What a compaction deletes.                                               *)

(* Where rows are only added, none is lost.                                 *)
LEMMA NothingGoes ==
    ASSUME contexts \in SUBSET contexts', events \in SUBSET events', metrics \in SUBSET metrics',
           NEW s, Stored(s) => Stored(s)'
    PROVE  ~ Loses(s)
<1>1. /\ ContextsOf(s) \ contexts' = {} /\ EventsOf(s) \ events' = {}
      /\ MetricsOf(s) \ metrics' = {}
    BY DEF ContextsOf, EventsOf, MetricsOf
<1>2. Cardinality({}) = 0
    BY FS_EmptySet
<1>3. Lost(s) = [contexts |-> 0, events |-> 0, metrics |-> 0]
    BY <1>1, <1>2 DEF Lost
<1>. QED BY <1>3 DEF Loses

(* What goes of a session is what its entry in the manifest says.           *)
LEMMA DeletionIsListed ==
    ASSUME RetentionAssumption, RecordsTypeOK, NEW asOf, DeleteBy(Manifest(asOf)),
           NEW s \in Session, Loses(s)
    PROVE  /\ Terminal(s)
           /\ \E e \in Entries(asOf) :
                 /\ e.id = s /\ e.action \in {"derived", "session"}
                 /\ Lost(s) = [contexts |-> e.contexts, events |-> e.events, metrics |-> e.metrics]
                 /\ (e.action = "session") = ~Stored(s)'
<1>1. PICK manifest : manifest = Manifest(asOf)
    OBVIOUS
<1>2. ToSet(manifest) = Entries(asOf)
    BY <1>1, ManifestLists
<1>3. /\ \A a, b \in Entries(asOf) : a.action = b.action /\ a.id = b.id => a = b
      /\ \A e \in Entries(asOf) : e.action # "metric" =>
            e.id \in Session /\ Terminal(e.id) /\ e = SessionEntry(e.id, asOf)
      /\ \A e \in Entries(asOf) : e.action = "metric" => \E m \in metrics : m.n = e.id /\ m.s = 0
    BY EntriesAre
<1>4. PICK whole : whole = Deletions(manifest, "session")
    OBVIOUS
<1>5. PICK old : old = Deletions(manifest, "derived") \union whole
    OBVIOUS
<1>6. PICK numbers : numbers = Deletions(manifest, "metric")
    OBVIOUS
<1>7. /\ metrics' = {m \in metrics : m.s \notin old /\ m.n \notin numbers}
      /\ events' = {e \in events : e.s \notin old}
      /\ contexts' = {c \in contexts : c.s \notin old}
      /\ session' = [t \in Session |-> IF t \in whole THEN NoSession ELSE session[t]]
    BY <1>1, <1>4, <1>5, <1>6 DEF DeleteBy
<1>8. \A t : t \in whole <=> \E e \in Entries(asOf) : e.action = "session" /\ e.id = t
    BY <1>2, <1>4 DEF Deletions
<1>9. \A t : t \in old <=> \E e \in Entries(asOf) : e.action \in {"derived", "session"} /\ e.id = t
    BY <1>2, <1>5, <1>8 DEF Deletions
<1>10. \A n : n \in numbers <=> \E e \in Entries(asOf) : e.action = "metric" /\ e.id = n
    BY <1>2, <1>6 DEF Deletions
<1>11. s \in old
    <2>1. SUFFICES ASSUME s \notin old PROVE FALSE
        OBVIOUS
    <2>2. \A m \in MetricsOf(s) : m.n \notin numbers
        <3>1. SUFFICES ASSUME NEW m \in MetricsOf(s), m.n \in numbers PROVE FALSE
            OBVIOUS
        <3>2. PICK o \in metrics : o.n = m.n /\ o.s = 0
            BY <1>3, <1>10, <3>1
        <3>3. m \in metrics /\ m.s = s
            BY DEF MetricsOf
        <3>4. m = o
            BY <3>2, <3>3 DEF RecordsTypeOK, MetricsOk
        <3>. QED BY <3>2, <3>3, <3>4 DEF RetentionAssumption
    <2>3. /\ ContextsOf(s) \ contexts' = {} /\ EventsOf(s) \ events' = {}
          /\ MetricsOf(s) \ metrics' = {}
        BY <1>7, <2>1, <2>2 DEF ContextsOf, EventsOf, MetricsOf
    <2>4. Cardinality({}) = 0
        BY FS_EmptySet
    <2>5. Lost(s) = [contexts |-> 0, events |-> 0, metrics |-> 0]
        BY <2>3, <2>4 DEF Lost
    <2>6. s \notin whole
        BY <1>5, <2>1
    <2>7. Stored(s)' = Stored(s)
        BY <1>7, <2>6 DEF Stored
    <2>. QED BY <2>5, <2>7 DEF Loses
<1>12. PICK e \in Entries(asOf) : e.action \in {"derived", "session"} /\ e.id = s
    BY <1>9, <1>11
<1>13. Terminal(s) /\ e = SessionEntry(s, asOf)
    BY <1>3, <1>12
<1>14. /\ ContextsOf(s) \ contexts' = ContextsOf(s) /\ EventsOf(s) \ events' = EventsOf(s)
       /\ MetricsOf(s) \ metrics' = MetricsOf(s)
    BY <1>7, <1>11 DEF ContextsOf, EventsOf, MetricsOf
<1>15. /\ e.contexts = Cardinality(ContextsOf(s)) /\ e.events = Cardinality(EventsOf(s))
       /\ e.metrics = Cardinality(MetricsOf(s))
    BY <1>13 DEF SessionEntry
<1>16. Lost(s) = [contexts |-> e.contexts, events |-> e.events, metrics |-> e.metrics]
    BY <1>14, <1>15 DEF Lost
<1>17. (e.action = "session") = ~Stored(s)'
    <2>1. CASE e.action = "session"
        <3>1. s \in whole
            BY <1>8, <1>12, <2>1
        <3>2. session'[s] = NoSession
            BY <1>7, <3>1
        <3>. QED BY <2>1, <3>2 DEF Stored, NoSession
    <2>2. CASE e.action # "session"
        <3>1. s \notin whole
            <4>1. SUFFICES ASSUME NEW d \in Entries(asOf), d.action = "session", d.id = s PROVE FALSE
                BY <1>8
            <4>2. d = SessionEntry(s, asOf)
                BY <1>3, <4>1
            <4>. QED BY <1>13, <2>2, <4>1, <4>2
        <3>2. session'[s] = session[s]
            BY <1>7, <3>1
        <3>. QED BY <1>13, <2>2, <3>2 DEF Stored, Terminal
    <2>. QED BY <2>1, <2>2
<1>. QED BY <1>12, <1>13, <1>16, <1>17

Kept(s) ==
    Loses(s) => /\ Terminal(s)
                /\ review.step = "seen" /\ review' = NoReview => AsListed(s)

LEMMA StepKeeps ==
    ASSUME RetentionAssumption, RecordsInv, [RecordsNext]_recordVars, NEW s \in Session
    PROVE  Kept(s)
<1>1. ASSUME contexts \in SUBSET contexts', events \in SUBSET events', metrics \in SUBSET metrics',
             Stored(s) => Stored(s)'
      PROVE  Kept(s)
    BY <1>1, NothingGoes DEF Kept
<1>2. ASSUME UNCHANGED <<session, contexts, events, metrics>>
      PROVE  Kept(s)
    <2>1. Stored(s) => Stored(s)'
        BY <1>2 DEF Stored
    <2>. QED BY <1>1, <1>2, <2>1
<1>3. ASSUME NEW t \in Session, StartTask(t)
      PROVE  Kept(s)
    <2>1. UNCHANGED <<contexts, events, metrics>> /\ session'[s] \in {session[s], session'[t]}
        BY <1>3 DEF StartTask, RecordsInv, RecordsTypeOK
    <2>2. session'[t].state = "open"
        BY <1>3 DEF StartTask, RecordsInv, RecordsTypeOK
    <2>3. Stored(s) => Stored(s)'
        BY <2>1, <2>2 DEF Stored
    <2>. QED BY <1>1, <2>1, <2>3
<1>4. ASSUME NEW t \in Session, EndTask(t)
      PROVE  Kept(s)
    <2>1. /\ UNCHANGED <<contexts, metrics>> /\ events \in SUBSET events'
          /\ session'[s] \in {session[s], session'[t]} /\ session'[t].state = "terminal"
        BY <1>4 DEF EndTask, RecordsInv, RecordsTypeOK, SessionRow
    <2>2. Stored(s) => Stored(s)'
        BY <2>1 DEF Stored
    <2>. QED BY <1>1, <2>1, <2>2
<1>5. ASSUME UNCHANGED session, contexts \in SUBSET contexts', events \in SUBSET events',
             metrics \in SUBSET metrics'
      PROVE  Kept(s)
    <2>1. Stored(s) => Stored(s)'
        BY <1>5 DEF Stored
    <2>. QED BY <1>1, <1>5, <2>1
<1>6. ASSUME NEW t \in Session, RecordSource(t)
      PROVE  Kept(s)
    <2>1. UNCHANGED <<session, contexts, metrics>> /\ events \in SUBSET events'
        BY <1>6 DEF RecordSource
    <2>. QED BY <1>5, <2>1
<1>7. ASSUME NEW t \in Session, NEW p \in Process, RecordQuery(t, p)
      PROVE  Kept(s)
    <2>1. UNCHANGED <<session, contexts, metrics>> /\ events \in SUBSET events'
        BY <1>7 DEF RecordQuery
    <2>. QED BY <1>5, <2>1
<1>8. CASE CompileTask
    <2>1. UNCHANGED <<session, contexts, events>> /\ metrics \in SUBSET metrics'
        BY <1>8 DEF CompileTask
    <2>. QED BY <1>5, <2>1
<1>9. CASE RecordCompiled
    <2>1. UNCHANGED <<session, metrics>>
        BY <1>9 DEF RecordCompiled
    <2>2. contexts \in SUBSET contexts' /\ events \in SUBSET events'
        BY <1>9 DEF RecordCompiled, Persisted
    <2>. QED BY <1>5, <2>1, <2>2
<1>10. CASE Apply
    <2>1. CASE UNCHANGED <<metrics, events, contexts, session>>
        BY <1>2, <2>1
    <2>2. CASE DeleteBy(Manifest(day)) /\ ManifestDigest(Manifest(day)) = review.digest
        <3>1. SUFFICES ASSUME Loses(s)
                       PROVE  Terminal(s) /\ (review.step = "seen" => AsListed(s))
            BY DEF Kept
        <3>2. /\ Terminal(s)
              /\ \E e \in Entries(day) :
                    /\ e.id = s /\ e.action \in {"derived", "session"}
                    /\ Lost(s) = [contexts |-> e.contexts, events |-> e.events, metrics |-> e.metrics]
                    /\ (e.action = "session") = ~Stored(s)'
            BY <2>2, <3>1, DeletionIsListed DEF RecordsInv
        <3>3. ASSUME review.step = "seen"
              PROVE  AsListed(s)
            <4>1. review.listed = review.digest
                BY <3>3 DEF RecordsInv, ReviewInv, ReviewOk, NoReview
            <4>2. ToSet(review.listed) = Entries(day)
                BY <2>2, <4>1, ManifestLists DEF RecordsInv, ManifestDigest
            <4>3. \A e \in Entries(day) : \E i \in DOMAIN review.listed : review.listed[i] = e
                BY <4>2 DEF ToSet
            <4>. QED BY <3>2, <4>3 DEF AsListed
        <3>. QED BY <3>2, <3>3
    <2>. QED BY <1>10, <2>1, <2>2 DEF Apply
<1>11. CASE ApplyElsewhere
    <2>1. DeleteBy(Manifest(day)) /\ UNCHANGED review
        BY <1>11 DEF ApplyElsewhere
    <2>2. Loses(s) => Terminal(s)
        BY <2>1, DeletionIsListed DEF RecordsInv
    <2>3. ~ (review.step = "seen" /\ review' = NoReview)
        BY <2>1 DEF NoReview
    <2>. QED BY <2>2, <2>3 DEF Kept
<1>12. ASSUME NEW t \in Session, NEW r \in Request, BeginContext(t, r)
       PROVE  Kept(s)
    BY <1>2, <1>12 DEF BeginContext
<1>13. ASSUME NEW t \in Session, ShowFirst(t)
       PROVE  Kept(s)
    BY <1>2, <1>13 DEF ShowFirst
<1>14. CASE BuildProjection \/ ValidateSession \/ ClockMoves \/ ShowNext
    BY <1>2, <1>14 DEF BuildProjection, ValidateSession, ClockMoves, ShowNext
<1>15. CASE Preview \/ PreviewNext \/ UNCHANGED recordVars
    BY <1>2, <1>15 DEF Preview, PreviewNext, recordVars
<1>. QED BY <1>3, <1>4, <1>6, <1>7, <1>8, <1>9, <1>10, <1>11, <1>12, <1>13, <1>14, <1>15
         DEF RecordsNext

(* CompactionIsConfirmed: whatever a step deletes is of terminal sessions,  *)
(* and where a client that was shown every entry confirms it, what goes of  *)
(* each session is, row for row in number, what its entry said.             *)
THEOREM Confirmed == RecordsSpec => CompactionIsConfirmed
<1>1. RecordsInv /\ [RecordsNext]_recordVars =>
         [\A s \in Session :
            Loses(s) => /\ Terminal(s)
                        /\ review.step = "seen" /\ review' = NoReview => AsListed(s)]_recordVars
    BY StepKeeps, RetentionAssumption DEF Kept
<1>. QED BY <1>1, RecordsInvariant, PTL DEF RecordsSpec, CompactionIsConfirmed

-----------------------------------------------------------------------------
(* The setup of a workspace, from here on.                                  *)

USE SetupAssumption

(* Before a command has its catalogue; while it works on it; and once it    *)
(* has loaded the workspace row.                                            *)
Routing == {"locate", "lock", "route", "publish"}
Opened ==
    {"open", "version", "rows", "sums", "check", "apply", "backfill", "backfill row",
     "register", "connect", "load"}
Ending == {"config", "persist", "done"}

Running ==
    [step : Routing \cup Opened \cup Ending, op : {"init", "reconcile"}, root : Root,
     file : CatalogueFile, config : SUBSET Config, seen : 0..4, v : 1..5,
     after : {"check", "apply", "register"}]

TypeInv ==
    /\ catalogues \in [CatalogueFile -> Database]
    /\ \A c \in CatalogueFile : OnePerRoot(catalogues[c].spaces)
    /\ configs \in [CatalogueFile -> SUBSET Config]
    /\ locators \in [Root -> {{}} \cup {{c} : c \in Home}]
    /\ locks \in [Root -> SUBSET Runner]
    /\ process \in [Runner -> {Idle} \cup Running]

(* The file holds the root's workspace.                                     *)
Holds(c, r) == \E w \in catalogues[c].spaces : w.root = r

(* The first half of SetupAgrees.                                           *)
RootsAreRouted == \A r \in Root, c \in Home : Holds(c, r) => locators[r] \subseteq {c}

(* What holds of a process in the middle of its command: it has the lock    *)
(* while it decides;                                                        *)
Locked(p) ==
    /\ At(p, "route") \/ At(p, "publish") => locks[process[p].root] = {p}
    /\ process[p].step \in Routing /\ process[p].op = "init" => process[p].file \in Home

(* what it decided on is still the only choice when it publishes it, and    *)
(* where the root is routed from then on;                                   *)
Routed(p) ==
    /\ At(p, "publish") =>
         /\ process[p].file \in Home
         /\ locators[process[p].root] = {}
         /\ \A c \in Home : Holds(c, process[p].root) => c = process[p].file
    /\ process[p].step \in Opened \cup Ending /\ ~Overridden(p) =>
         locators[process[p].root] = {process[p].file}

(* the row it loaded is there for good, and so is the copy that agrees;     *)
RowOf(p, w) ==
    /\ w \in Mine(p).spaces
    /\ w.root = process[p].root
    /\ process[p].op = "init" => process[p].config = {w.config}

Settled(p) ==
    process[p].step \in Ending =>
        \E w \in Space : RowOf(p, w) /\ (At(p, "done") => configs[process[p].file] = {w.config})

(* and the migration it is about to apply exists.                           *)
NextMigration(p) ==
    /\ process[p].step \in Routing \cup {"open"} => process[p].after = "check"
    /\ At(p, "apply") => process[p].v <= 4
    /\ At(p, "backfill row") => process[p].seen \in Version
    /\ process[p].step \in Opened /\ process[p].after = "apply" =>
         process[p].v = IF At(p, "check") THEN 5 ELSE 4

Good(p) == Locked(p) /\ Routed(p) /\ Settled(p) /\ NextMigration(p)

SetupInv == TypeInv /\ RootsAreRouted /\ \A p \in Runner : Good(p)

(* What a step of p lets the others count on.                               *)
World(p) ==
    /\ \A q \in Runner : q # p => process'[q] = process[q]
    /\ \A q \in Runner, r \in Root : q # p /\ locks[r] = {q} => locks'[r] = {q}
    /\ \A r \in Root : locators'[r] = locators[r] \/ (locks[r] = {p} /\ locators[r] = {})
    /\ \A c \in CatalogueFile : configs[c] # {} => configs'[c] = configs[c]
    /\ \A c \in CatalogueFile : catalogues[c].spaces \subseteq catalogues'[c].spaces
    /\ \A c \in Home : \A w \in catalogues'[c].spaces :
          w \in catalogues[c].spaces \/ locators[w.root] = {c}

(* Elsewhere is a file of its own.                                          *)
LEMMA Files == Elsewhere \in CatalogueFile /\ Home \subseteq CatalogueFile /\ Elsewhere \notin Home
BY DEF CatalogueFile

(* A process at work has a command.                                         *)
LEMMA AtWork ==
    ASSUME TypeInv, NEW p \in Runner, ~At(p, "idle")
    PROVE  process[p] \in Running
BY DEF TypeInv, At, Idle

(* So has one that is not at work, in no step of a command.                 *)
LEMMA AtRest ==
    ASSUME NEW p, process[p].step = "idle"
    PROVE  Good(p)
BY DEF Good, Locked, Routed, Settled, NextMigration, At, Routing, Opened, Ending

(* Whatever p does, the others keep what they had.                          *)
LEMMA OthersStayGood ==
    ASSUME SetupInv, TypeInv', NEW p \in Runner, World(p), NEW q \in Runner, q # p
    PROVE  Good(q)'
<1>0. /\ process'[q] = process[q] /\ Good(q) /\ TypeInv
  BY DEF World, SetupInv
<1>1. CASE process[q].step = "idle"
  BY <1>0, <1>1 DEF Good, Locked, Routed, Settled, NextMigration, At, Routing, Opened, Ending
<1>2. CASE process[q].step # "idle"
  <2> DEFINE r == process[q].root
             f == process[q].file
  <2>0. process[q] \in Running /\ r \in Root /\ f \in CatalogueFile
    BY <1>2, <1>0, AtWork DEF At, Running
  <2>1. Locked(q)'
    BY <1>0, <2>0 DEF World, Good, Locked, At
  <2>2. Routed(q)'
    <3>1. ASSUME At(q, "publish")
          PROVE  /\ f \in Home /\ locators'[r] = {}
                 /\ \A c \in Home : (\E w \in catalogues'[c].spaces : w.root = r) => c = f
      <4>1. f \in Home /\ locators[r] = {} /\ locks[r] = {q}
        BY <1>0, <3>1 DEF Good, Routed, Locked
      <4>2. locators'[r] = {} BY <4>1, <2>0 DEF World
      <4>3. ASSUME NEW c \in Home, NEW w \in catalogues'[c].spaces, w.root = r
            PROVE  c = f
        <5>1. w \in catalogues[c].spaces BY <4>1, <4>3 DEF World
        <5>2. QED BY <5>1, <4>3, <1>0, <3>1 DEF Good, Routed, Holds
      <4>4. QED BY <4>1, <4>2, <4>3
    <3>2. ASSUME process[q].step \in Opened \cup Ending, f # Elsewhere
          PROVE  locators'[r] = {f}
      BY <1>0, <2>0, <3>2 DEF World, Good, Routed, Overridden
    <3>3. QED BY <3>1, <3>2, <1>0 DEF Routed, At, Holds, Overridden
  <2>3. Settled(q)'
    <3>1. SUFFICES ASSUME process[q].step \in Ending PROVE Settled(q)'
      BY <1>0 DEF Settled
    <3>2. PICK w \in Space : RowOf(q, w) /\ (At(q, "done") => configs[f] = {w.config})
      BY <3>1, <1>0 DEF Good, Settled
    <3>3. RowOf(q, w)'
      BY <3>2, <1>0, <2>0 DEF World, RowOf, Mine
    <3>4. At(q, "done")' => configs'[f] = {w.config}
      BY <3>2, <1>0, <2>0 DEF World, At
    <3>5. QED BY <3>3, <3>4, <1>0 DEF Settled
  <2>4. NextMigration(q)'
    BY <1>0 DEF Good, NextMigration, At
  <2>5. QED BY <2>1, <2>2, <2>3, <2>4 DEF Good
<1>3. QED BY <1>1, <1>2

(* So a step of p keeps the invariant if it keeps p's own part.             *)
LEMMA OneStep ==
    ASSUME SetupInv, NEW p \in Runner, TypeInv', RootsAreRouted', World(p), Good(p)'
    PROVE  SetupInv'
BY OthersStayGood DEF SetupInv

(* A step that only moves p, and may give up or take locks.                 *)
LEMMA JustMoves ==
    ASSUME SetupInv, NEW p \in Runner, NEW to \in {Idle} \cup Running,
           process' = [process EXCEPT ![p] = to],
           UNCHANGED <<catalogues, configs, locators>>,
           locks' \in [Root -> SUBSET Runner],
           \A q \in Runner, r \in Root : q # p /\ locks[r] = {q} => locks'[r] = {q}
    PROVE  TypeInv' /\ RootsAreRouted' /\ World(p) /\ process'[p] = to
<1>1. TypeInv'
  BY DEF SetupInv, TypeInv
<1>2. RootsAreRouted'
  BY DEF SetupInv, RootsAreRouted, Holds
<1>3. process'[p] = to /\ \A q \in Runner : q # p => process'[q] = process[q]
  BY DEF SetupInv, TypeInv
<1>4. World(p)
  BY <1>3 DEF World
<1>5. QED BY <1>1, <1>2, <1>3, <1>4

(* A process that ends, is interrupted or killed leaves the rest as it is.  *)
LEMMA StopKeeps ==
    ASSUME SetupInv, NEW p \in Runner, NEW killed, Stop(p, killed)
    PROVE  SetupInv'
<1>1. locks' \in [Root -> SUBSET Runner]
  BY DEF Stop, SetupInv, TypeInv
<1>2. \A q \in Runner, r \in Root : q # p /\ locks[r] = {q} => locks'[r] = {q}
  BY DEF Stop
<1>3. TypeInv' /\ RootsAreRouted' /\ World(p) /\ process'[p] = Idle
  BY <1>1, <1>2, JustMoves DEF Stop
<1>4. Good(p)'
  BY <1>3 DEF Good, Locked, Routed, Settled, NextMigration, At, Idle, Routing, Opened, Ending
<1>5. QED BY <1>3, <1>4, OneStep

(* A command begins on what the command line says.                          *)
LEMMA BeginKeeps ==
    ASSUME SetupInv, NEW p \in Runner, BeginInit(p) \/ BeginReconcile(p)
    PROVE  SetupInv'
<1>0. PICK to \in Running :
        /\ process' = [process EXCEPT ![p] = to]
        /\ to.after = "check"
        /\ \/ to.step \in {"open", "connect"} /\ to.file = Elsewhere
           \/ to.step = "lock" /\ to.file \in Home
           \/ to.step = "locate" /\ to.op = "reconcile"
  <2>1. CASE BeginInit(p)
    <3>1. PICK r \in Root, config \in Config, override \in BOOLEAN :
            process' = [process EXCEPT ![p] =
               IF override THEN Command("open", "init", r, Elsewhere, {config})
               ELSE Command("lock", "init", r, [root |-> r, name |-> config.name], {config})]
      BY <2>1 DEF BeginInit
    <3>2. [root |-> r, name |-> config.name] \in Home BY DEF Home, Config
    <3>3. /\ Command("open", "init", r, Elsewhere, {config}) \in Running
          /\ Command("lock", "init", r, [root |-> r, name |-> config.name], {config}) \in Running
      BY <3>2, Files DEF Command, Running, Routing, Opened
    <3>4. QED BY <3>1, <3>2, <3>3 DEF Command
  <2>2. CASE BeginReconcile(p)
    <3>1. PICK r \in Root, config \in {{}} \cup {{c} : c \in Config}, override \in BOOLEAN :
            process' = [process EXCEPT ![p] =
               Command(IF override THEN "connect" ELSE "locate", "reconcile", r, Elsewhere, config)]
      BY <2>2 DEF BeginReconcile
    <3>2. /\ Command("connect", "reconcile", r, Elsewhere, config) \in Running
          /\ Command("locate", "reconcile", r, Elsewhere, config) \in Running
      BY Files DEF Command, Running, Routing, Opened
    <3>3. QED BY <3>1, <3>2 DEF Command
  <2>3. QED BY <2>1, <2>2
<1>1. UNCHANGED <<catalogues, configs, locators, locks>>
  BY DEF BeginInit, BeginReconcile, Begin
<1>2. TypeInv' /\ RootsAreRouted' /\ World(p) /\ process'[p] = to
  BY <1>0, <1>1, JustMoves DEF SetupInv, TypeInv
<1>3. Good(p)'
  BY <1>0, <1>2
     DEF Good, Locked, Routed, Settled, NextMigration, At, Routing, Opened, Ending, Overridden
<1>4. QED BY <1>2, <1>3, OneStep

(* A locator that is there is followed.                                     *)
LEMMA LocateKeeps ==
    ASSUME SetupInv, NEW p \in Runner, Locate(p)
    PROVE  SetupInv'
<1>0. process[p] \in Running /\ process[p].step = "locate"
  BY AtWork DEF Locate, At, SetupInv
<1> DEFINE r == process[p].root
<1>1. r \in Root /\ locators[r] \in {{}} \cup {{c} : c \in Home}
  BY <1>0 DEF Running, SetupInv, TypeInv
<1>2. PICK to \in Running :
        /\ process' = [process EXCEPT ![p] = to]
        /\ to.root = r /\ to.after = process[p].after
        /\ \/ /\ to.step = "lock" /\ locators[r] = {}
              /\ to.op = process[p].op /\ to.file = process[p].file
           \/ to.step = "connect" /\ locators[r] = {to.file}
  <2>1. CASE locators[r] = {}
    <3> DEFINE to == [process[p] EXCEPT !.step = "lock"]
    <3>1. /\ to \in Running /\ to.root = r /\ to.after = process[p].after /\ to.op = process[p].op
          /\ to.file = process[p].file /\ to.step = "lock"
      BY <1>0 DEF Running, Routing
    <3>2. process' = [process EXCEPT ![p] = to]
      BY <2>1 DEF Locate, Goto
    <3>3. QED BY <3>1, <3>2, <2>1
  <2>2. CASE locators[r] # {}
    <3>1. PICK c \in Home : locators[r] = {c} BY <2>2, <1>1
    <3> DEFINE to == [process[p] EXCEPT !.step = "connect", !.file = c]
    <3>2. /\ to \in Running /\ to.root = r /\ to.after = process[p].after /\ to.op = process[p].op
          /\ to.step = "connect" /\ to.file = c
      BY <1>0, Files DEF Running, Opened
    <3>3. process' = [process EXCEPT ![p] = to]
      BY <3>1, <2>2 DEF Locate
    <3>4. QED BY <3>1, <3>2, <3>3
  <2>3. QED BY <2>1, <2>2
<1>3. UNCHANGED <<catalogues, configs, locators, locks>>
  BY DEF Locate, Unlocked
<1>4. TypeInv' /\ RootsAreRouted' /\ World(p) /\ process'[p] = to
  BY <1>2, <1>3, JustMoves DEF SetupInv, TypeInv
<1>5. Good(p)'
  BY <1>0, <1>2, <1>3, <1>4
     DEF SetupInv, Good, Locked, Routed, Settled, NextMigration, At, Routing, Opened, Ending, Overridden
<1>6. QED BY <1>4, <1>5, OneStep

(* Only one process at a time decides for a root.                           *)
LEMMA TakeLockKeeps ==
    ASSUME SetupInv, NEW p \in Runner, TakeLock(p)
    PROVE  SetupInv'
<1>0. process[p] \in Running /\ process[p].step = "lock"
  BY AtWork DEF TakeLock, At, SetupInv
<1> DEFINE to == [process[p] EXCEPT !.step = "route"]
<1>1. /\ to \in Running /\ to.step = "route" /\ to.root = process[p].root /\ to.op = process[p].op
      /\ to.file = process[p].file /\ to.after = process[p].after
  BY <1>0 DEF Running, Routing
<1>2. process' = [process EXCEPT ![p] = to]
  BY DEF TakeLock, Goto
<1> HIDE DEF to
<1>3. process[p].root \in Root
  BY <1>0 DEF Running
<1>4. /\ locks' \in [Root -> SUBSET Runner]
      /\ locks'[process[p].root] = {p}
      /\ \A q \in Runner, r \in Root : q # p /\ locks[r] = {q} => locks'[r] = {q}
  BY <1>3 DEF TakeLock, SetupInv, TypeInv
<1>5. UNCHANGED <<catalogues, configs, locators>>
  BY DEF TakeLock, Unlocked
<1>6. TypeInv' /\ RootsAreRouted' /\ World(p) /\ process'[p] = to
  BY <1>1, <1>2, <1>4, <1>5, JustMoves
<1>7. Good(p)'
  BY <1>0, <1>1, <1>4, <1>5, <1>6
     DEF SetupInv, Good, Locked, Routed, Settled, NextMigration, At, Routing, Opened, Ending, Overridden
<1>8. QED BY <1>6, <1>7, OneStep

(* There are finitely many default catalogues.                              *)
LEMMA HomeFinite == IsFiniteSet(Home)
<1> DEFINE f == [x \in Root \X Name |-> [root |-> x[1], name |-> x[2]]]
<1>1. IsFiniteSet(Root \X Name) BY FS_Product
<1>2. f \in [Root \X Name -> Home] BY DEF Home
<1>3. ASSUME NEW h \in Home PROVE \E x \in Root \X Name : f[x] = h
  <2>1. <<h.root, h.name>> \in Root \X Name BY DEF Home
  <2>2. f[<<h.root, h.name>>] = h BY <2>1 DEF Home
  <2>3. QED BY <2>1, <2>2
<1>4. f \in Surjection(Root \X Name, Home) BY <1>2, <1>3 DEF Surjection
<1>5. QED BY <1>1, <1>4, FS_Surjection

(* One match is the match.                                                  *)
LEMMA OneMatch ==
    ASSUME NEW r, Cardinality(LegacyMatches(r)) = 1
    PROVE  \E c \in Home : LegacyMatches(r) = {c}
<1>1. LegacyMatches(r) \subseteq Home /\ IsFiniteSet(LegacyMatches(r))
  BY HomeFinite, FS_Subset DEF LegacyMatches
<1>2. QED BY <1>1, FS_Singleton

(* What it decides: to follow a locator, or to publish the only choice.     *)
LEMMA Decision ==
    ASSUME SetupInv, NEW p \in Runner, Route(p)
    PROVE  \/ FailCommand(p)
           \/ \E c \in Home, to \in Running :
                /\ process' = [process EXCEPT ![p] = to]
                /\ to.root = process[p].root /\ to.op = process[p].op /\ to.file = c
                /\ to.after = process[p].after
                /\ Unlocked
                /\ \/ /\ locators[to.root] = {c}
                      /\ to.step \in {"open", "connect"}
                      /\ locks' = [locks EXCEPT ![to.root] = {}]
                   \/ /\ locators[to.root] = {} /\ LegacyMatches(to.root) \subseteq {c}
                      /\ to.step = "publish"
                      /\ locks' = locks
<1>0. process[p] \in Running /\ process[p].step = "route"
  BY AtWork DEF Route, At, SetupInv
<1> DEFINE me == process[p]
           r == me.root
           Ends(c, s, l) ==
             /\ process' = [process EXCEPT ![p].step = s, ![p].file = c]
             /\ locks' = l
             /\ Unlocked
<1>1. /\ r \in Root /\ me.op \in {"init", "reconcile"} /\ me.file \in CatalogueFile
      /\ me.op = "init" => me.file \in Home
      /\ locators[r] \in {{}} \cup {{c} : c \in Home}
  BY <1>0 DEF Running, SetupInv, TypeInv, Good, Locked, Routing
<1>2. \/ FailCommand(p)
      \/ \E c \in locators[r] :
            Ends(c, IF me.op = "init" THEN "open" ELSE "connect", [locks EXCEPT ![r] = {}])
      \/ /\ locators[r] = {}
         /\ me.op = "init" => LegacyMatches(r) \subseteq {me.file}
         /\ me.op = "reconcile" => Cardinality(LegacyMatches(r)) = 1
         /\ Ends(IF me.op = "init" THEN me.file ELSE CHOOSE c \in LegacyMatches(r) : TRUE,
                 "publish", locks)
  <2>1. CASE locators[r] # {} BY <2>1 DEF Route
  <2>2. CASE locators[r] = {} BY <2>2 DEF Route
  <2>3. QED BY <2>1, <2>2
<1> HIDE DEF Ends
<1>3. ASSUME NEW c \in Home, NEW s \in {"open", "connect", "publish"}, NEW l, Ends(c, s, l)
      PROVE  \E to \in Running :
                /\ process' = [process EXCEPT ![p] = to]
                /\ to.root = r /\ to.op = me.op /\ to.file = c /\ to.after = me.after
                /\ to.step = s /\ locks' = l /\ Unlocked
  <2> DEFINE to == [me EXCEPT !.step = s, !.file = c]
  <2>1. /\ to \in Running /\ to.root = r /\ to.op = me.op /\ to.file = c /\ to.after = me.after
        /\ to.step = s
    BY <1>0, Files DEF Running, Routing, Opened
  <2>2. process' = [process EXCEPT ![p] = to] /\ locks' = l /\ Unlocked
    BY <1>3 DEF Ends
  <2>3. QED BY <2>1, <2>2
<1>4. CASE \E c \in locators[r] :
              Ends(c, IF me.op = "init" THEN "open" ELSE "connect", [locks EXCEPT ![r] = {}])
  <2>1. PICK c \in locators[r] :
            Ends(c, IF me.op = "init" THEN "open" ELSE "connect", [locks EXCEPT ![r] = {}])
    BY <1>4
  <2>2. c \in Home /\ locators[r] = {c} BY <1>1
  <2>3. QED BY <2>1, <2>2, <1>3
<1>5. CASE /\ locators[r] = {}
           /\ me.op = "init" => LegacyMatches(r) \subseteq {me.file}
           /\ me.op = "reconcile" => Cardinality(LegacyMatches(r)) = 1
           /\ Ends(IF me.op = "init" THEN me.file ELSE CHOOSE c \in LegacyMatches(r) : TRUE,
                   "publish", locks)
  <2>1. CASE me.op = "init"
    BY <1>5, <2>1, <1>1, <1>3
  <2>2. CASE me.op = "reconcile"
    <3>1. PICK c \in Home : LegacyMatches(r) = {c} BY <2>2, <1>5, OneMatch
    <3>2. (CHOOSE x \in LegacyMatches(r) : TRUE) = c BY <3>1
    <3>3. Ends(c, "publish", locks) BY <1>5, <2>2, <3>2
    <3>4. QED BY <3>1, <3>3, <1>3, <1>5
  <2>3. QED BY <2>1, <2>2, <1>1
<1>6. QED BY <1>2, <1>4, <1>5

LEMMA RouteKeeps ==
    ASSUME SetupInv, NEW p \in Runner, Route(p)
    PROVE  SetupInv'
<1>0. process[p] \in Running /\ process[p].step = "route"
  BY AtWork DEF Route, At, SetupInv
<1>1. CASE FailCommand(p) BY <1>1, StopKeeps DEF FailCommand
<1>2. CASE \E c \in Home, to \in Running :
                /\ process' = [process EXCEPT ![p] = to]
                /\ to.root = process[p].root /\ to.op = process[p].op /\ to.file = c
                /\ to.after = process[p].after
                /\ Unlocked
                /\ \/ /\ locators[to.root] = {c}
                      /\ to.step \in {"open", "connect"}
                      /\ locks' = [locks EXCEPT ![to.root] = {}]
                   \/ /\ locators[to.root] = {} /\ LegacyMatches(to.root) \subseteq {c}
                      /\ to.step = "publish"
                      /\ locks' = locks
  <2>1. PICK c \in Home, to \in Running :
                /\ process' = [process EXCEPT ![p] = to]
                /\ to.root = process[p].root /\ to.op = process[p].op /\ to.file = c
                /\ to.after = process[p].after
                /\ Unlocked
                /\ \/ /\ locators[to.root] = {c}
                      /\ to.step \in {"open", "connect"}
                      /\ locks' = [locks EXCEPT ![to.root] = {}]
                   \/ /\ locators[to.root] = {} /\ LegacyMatches(to.root) \subseteq {c}
                      /\ to.step = "publish"
                      /\ locks' = locks
    BY <1>2
  <2>2. to.root \in Root /\ locks[to.root] = {p}
    BY <2>1, <1>0 DEF Running, SetupInv, Good, Locked, At
  <2>3. /\ locks' \in [Root -> SUBSET Runner]
        /\ \A q \in Runner, r \in Root : q # p /\ locks[r] = {q} => locks'[r] = {q}
        /\ to.step = "publish" => locks'[to.root] = {p}
    BY <2>1, <2>2 DEF SetupInv, TypeInv
  <2>4. TypeInv' /\ RootsAreRouted' /\ World(p) /\ process'[p] = to
    BY <2>1, <2>3, JustMoves DEF Unlocked
  <2>5. to.after = "check"
    BY <2>1, <1>0 DEF SetupInv, Good, NextMigration, Routing
  <2>6. Locked(p)' /\ Settled(p)' /\ NextMigration(p)'
    BY <2>1, <2>3, <2>4, <2>5 DEF Locked, Settled, NextMigration, At, Routing, Opened, Ending
  <2>7. Routed(p)'
    BY <2>1, <2>4 DEF Routed, At, Holds, LegacyMatches, Opened, Ending, Overridden, Unlocked
  <2>8. QED BY <2>4, <2>6, <2>7, OneStep DEF Good
<1>3. QED BY <1>1, <1>2, Decision

(* The locator is there for good before the lock is given up.               *)
LEMMA PublishKeeps ==
    ASSUME SetupInv, NEW p \in Runner, PublishLocator(p)
    PROVE  SetupInv'
<1>0. process[p] \in Running /\ process[p].step = "publish"
  BY AtWork DEF PublishLocator, At, SetupInv
<1> DEFINE me == process[p]
           r == me.root
           f == me.file
<1>1. /\ r \in Root /\ f \in Home /\ locators[r] = {} /\ locks[r] = {p} /\ me.after = "check"
      /\ \A c \in Home : Holds(c, r) => c = f
  BY <1>0 DEF Running, SetupInv, Good, Locked, Routed, NextMigration, Routing, At
<1> DEFINE to == [me EXCEPT !.step = IF me.op = "init" THEN "open" ELSE "connect"]
<1>2. /\ to \in Running /\ to.step \in {"open", "connect"} /\ to.root = r /\ to.file = f
      /\ to.after = "check"
  BY <1>0, <1>1 DEF Running, Opened
<1>3. /\ process' = [process EXCEPT ![p] = to]
      /\ locators' = [locators EXCEPT ![r] = {f}]
      /\ locks' = [locks EXCEPT ![r] = {}]
      /\ UNCHANGED <<catalogues, configs>>
  BY <1>1 DEF PublishLocator, Goto
<1> HIDE DEF to
<1>4. process'[p] = to /\ \A q \in Runner : q # p => process'[q] = process[q]
  BY <1>3 DEF SetupInv, TypeInv
<1>5. /\ locators'[r] = {f} /\ \A x \in Root : x # r => locators'[x] = locators[x]
      /\ \A q \in Runner, x \in Root : q # p /\ locks[x] = {q} => locks'[x] = {q}
  BY <1>1, <1>3 DEF SetupInv, TypeInv
<1>6. TypeInv'
  BY <1>1, <1>2, <1>3 DEF SetupInv, TypeInv
<1>7. RootsAreRouted'
  BY <1>1, <1>3, <1>5 DEF SetupInv, RootsAreRouted, Holds
<1>8. World(p)
  BY <1>1, <1>3, <1>4, <1>5 DEF World
<1>9. Good(p)'
  BY <1>2, <1>4, <1>5
     DEF Good, Locked, Routed, Settled, NextMigration, At, Routing, Opened, Ending
<1>10. QED BY <1>6, <1>7, <1>8, <1>9, OneStep

(* A step on the catalogue of p, once it has one.                           *)
LEMMA WorksOn ==
    ASSUME SetupInv, NEW p \in Runner, process[p] \in Running,
           process[p].step \in Opened \cup Ending,
           NEW to \in Running, process' = [process EXCEPT ![p] = to],
           to.step \in Opened \cup Ending,
           to.root = process[p].root, to.file = process[p].file,
           NEW db \in Database, catalogues' = [catalogues EXCEPT ![process[p].file] = db],
           OnePerRoot(db.spaces), Mine(p).spaces \subseteq db.spaces,
           \A w \in db.spaces : w \in Mine(p).spaces \/ w.root = process[p].root,
           configs' \in [CatalogueFile -> SUBSET Config],
           \A c \in CatalogueFile : configs[c] # {} => configs'[c] = configs[c],
           UNCHANGED <<locators, locks>>
    PROVE  /\ TypeInv' /\ RootsAreRouted' /\ World(p) /\ Locked(p)' /\ Routed(p)'
           /\ process'[p] = to /\ catalogues'[process[p].file] = db
<1> DEFINE f == process[p].file
           r == process[p].root
<1>0. /\ f \in CatalogueFile /\ r \in Root
      /\ catalogues \in [CatalogueFile -> Database]
  BY DEF Running, SetupInv, TypeInv
<1>1. /\ catalogues'[f] = db
      /\ \A c \in CatalogueFile : c # f => catalogues'[c] = catalogues[c]
  BY <1>0
<1>2. process'[p] = to /\ \A q \in Runner : q # p => process'[q] = process[q]
  BY DEF SetupInv, TypeInv
<1>3. TypeInv'
  BY <1>0, <1>1 DEF SetupInv, TypeInv
<1>4. f \in Home => locators[r] = {f}
  BY Files DEF SetupInv, Good, Routed, Overridden
<1>5. \A c \in Home : \A w \in catalogues'[c].spaces :
          w \in catalogues[c].spaces \/ locators[w.root] = {c}
  <2>1. SUFFICES ASSUME NEW c \in Home, NEW w \in catalogues'[c].spaces,
                        w \notin catalogues[c].spaces
                 PROVE  locators[w.root] = {c}
    OBVIOUS
  <2>2. c = f BY <2>1, <1>1, Files
  <2>3. w.root = r BY <2>1, <2>2, <1>1 DEF Mine
  <2>4. QED BY <2>2, <2>3, <1>4
<1>6. \A c \in CatalogueFile : catalogues[c].spaces \subseteq catalogues'[c].spaces
  BY <1>1 DEF Mine
<1>7. RootsAreRouted'
  <2>1. SUFFICES ASSUME NEW x \in Root, NEW c \in Home, NEW w \in catalogues'[c].spaces, w.root = x
                 PROVE  locators[x] \subseteq {c}
    BY DEF RootsAreRouted, Holds
  <2>2. CASE w \in catalogues[c].spaces
    BY <2>1, <2>2 DEF SetupInv, RootsAreRouted, Holds
  <2>3. CASE w \notin catalogues[c].spaces
    BY <2>1, <2>3, <1>5
  <2>4. QED BY <2>2, <2>3
<1>8. World(p)
  BY <1>2, <1>5, <1>6 DEF World
<1>9. Locked(p)' /\ Routed(p)'
  <2>1. to.step \notin Routing BY DEF Routing, Opened, Ending
  <2>2. Locked(p)' BY <1>2, <2>1 DEF Locked, At, Routing
  <2>3. to.file # Elsewhere => locators'[to.root] = {to.file}
    BY DEF SetupInv, Good, Routed, Overridden
  <2>4. QED BY <1>2, <2>1, <2>2, <2>3 DEF Routed, At, Routing, Overridden
<1>10. QED BY <1>1, <1>2, <1>3, <1>7, <1>8, <1>9

(* One of these before the row is loaded keeps the invariant,               *)
LEMMA MigratesOn ==
    ASSUME SetupInv, NEW p \in Runner, process[p] \in Running, process[p].step \in Opened,
           NEW to \in Running, process' = [process EXCEPT ![p] = to],
           to.step \in Opened \ {"open"}, to.root = process[p].root, to.file = process[p].file,
           to.step = "apply" => to.v <= 4,
           to.step = "backfill row" => to.seen \in Version,
           to.after = "apply" => to.v = IF to.step = "check" THEN 5 ELSE 4,
           NEW db \in Database, catalogues' = [catalogues EXCEPT ![process[p].file] = db],
           OnePerRoot(db.spaces), Mine(p).spaces \subseteq db.spaces,
           \A w \in db.spaces : w \in Mine(p).spaces \/ w.root = process[p].root,
           UNCHANGED <<configs, locators, locks>>
    PROVE  SetupInv'
<1>1. configs' \in [CatalogueFile -> SUBSET Config]
  BY DEF SetupInv, TypeInv
<1>2. /\ TypeInv' /\ RootsAreRouted' /\ World(p) /\ Locked(p)' /\ Routed(p)'
      /\ process'[p] = to
  BY <1>1, WorksOn
<1>3. Settled(p)' /\ NextMigration(p)'
  BY <1>2 DEF Settled, NextMigration, At, Routing, Opened, Ending
<1>4. QED BY <1>2, <1>3, OneStep DEF Good

(* whether it reads the catalogue                                           *)
LEMMA ReadsOn ==
    ASSUME SetupInv, NEW p \in Runner, process[p] \in Running, process[p].step \in Opened,
           NEW to \in Running, process' = [process EXCEPT ![p] = to],
           to.step \in Opened \ {"open"}, to.root = process[p].root, to.file = process[p].file,
           to.step = "apply" => to.v <= 4,
           to.step = "backfill row" => to.seen \in Version,
           to.after = "apply" => to.v = IF to.step = "check" THEN 5 ELSE 4,
           UNCHANGED <<catalogues, configs, locators, locks>>
    PROVE  SetupInv'
<1>1. /\ process[p].file \in CatalogueFile /\ catalogues \in [CatalogueFile -> Database]
      /\ \A c \in CatalogueFile : OnePerRoot(catalogues[c].spaces)
  BY DEF Running, SetupInv, TypeInv
<1>2. Mine(p) \in Database /\ OnePerRoot(Mine(p).spaces)
  BY <1>1 DEF Mine
<1>3. catalogues' = [catalogues EXCEPT ![process[p].file] = Mine(p)]
  BY <1>1 DEF Mine
<1>4. QED BY <1>2, <1>3, MigratesOn

(* or writes what is not about workspaces.                                  *)
LEMMA WritesOn ==
    ASSUME SetupInv, NEW p \in Runner, process[p] \in Running, process[p].step \in Opened,
           NEW to \in Running, process' = [process EXCEPT ![p] = to],
           to.step \in Opened \ {"open"}, to.root = process[p].root, to.file = process[p].file,
           to.step = "apply" => to.v <= 4,
           to.step = "backfill row" => to.seen \in Version,
           to.after = "apply" => to.v = IF to.step = "check" THEN 5 ELSE 4,
           NEW db \in Database, catalogues' = [catalogues EXCEPT ![process[p].file] = db],
           db.spaces = Mine(p).spaces,
           UNCHANGED <<configs, locators, locks>>
    PROVE  SetupInv'
<1>1. OnePerRoot(db.spaces)
  BY DEF Running, SetupInv, TypeInv, Mine
<1>2. QED BY <1>1, MigratesOn

LEMMA OpenKeeps ==
    ASSUME SetupInv, NEW p \in Runner, Open(p)
    PROVE  SetupInv'
<1>0. process[p] \in Running /\ process[p].step = "open"
  BY AtWork DEF Open, At, SetupInv
<1> DEFINE f == process[p].file
           db == [catalogues[f] EXCEPT !.exists = TRUE]
           to == [process[p] EXCEPT !.step = "version"]
<1>1. f \in CatalogueFile /\ catalogues[f] \in Database
  BY <1>0 DEF Running, SetupInv, TypeInv
<1>2. db \in Database /\ db.spaces = catalogues[f].spaces
  BY <1>1 DEF Database
<1>3. /\ to \in Running /\ to.step = "version" /\ to.root = process[p].root /\ to.file = f
      /\ to.after = process[p].after
  BY <1>0 DEF Running, Opened
<1>4. to.after = "check"
  BY <1>0, <1>3 DEF SetupInv, Good, NextMigration, At
<1>5. /\ process' = [process EXCEPT ![p] = to]
      /\ catalogues' = [catalogues EXCEPT ![f] = db]
      /\ UNCHANGED <<configs, locators, locks>>
  BY DEF Open, Goto
<1> HIDE DEF to, db
<1>6. QED BY <1>0, <1>1, <1>2, <1>3, <1>4, <1>5, WritesOn DEF Opened, Mine

LEMMA PreflightKeeps ==
    ASSUME SetupInv, NEW p \in Runner, ReadVersion(p) \/ ReadRows(p) \/ ReadSums(p)
    PROVE  SetupInv'
<1> DEFINE me == process[p]
<1>0. me \in Running /\ me.step \in {"version", "rows", "sums"}
  BY AtWork DEF ReadVersion, ReadRows, ReadSums, At, SetupInv
<1>1. CASE FailCommand(p) BY <1>1, StopKeeps DEF FailCommand
<1>2. Mine(p) \in Database
  BY <1>0 DEF Running, SetupInv, TypeInv, Mine
<1>3. me.after = "apply" => me.v = 4
  BY <1>0 DEF SetupInv, Good, NextMigration, Opened, At
<1>4. CASE ~FailCommand(p)
  <2>1. PICK s \in {"rows", "sums", me.after}, n \in 0..4 :
            Step(p, [me EXCEPT !.step = s, !.seen = n])
    <3>1. CASE ReadVersion(p)
      <4>1. Mine(p).version \in 0..4 BY <1>2 DEF Database
      <4>2. QED BY <3>1, <4>1 DEF ReadVersion
    <3>2. me.seen \in 0..4 /\ \A s : [me EXCEPT !.step = s] = [me EXCEPT !.step = s, !.seen = me.seen]
      BY <1>0 DEF Running
    <3>3. CASE ReadRows(p)
      <4>1. Step(p, [me EXCEPT !.step = IF me.seen = 0 THEN me.after ELSE "sums"])
        BY <3>3, <1>4 DEF ReadRows
      <4>2. QED BY <4>1, <3>2
    <3>4. CASE ReadSums(p)
      <4>1. Step(p, [me EXCEPT !.step = me.after])
        BY <3>4, <1>4 DEF ReadSums
      <4>2. QED BY <4>1, <3>2
    <3>5. QED BY <3>1, <3>3, <3>4
  <2> DEFINE to == [me EXCEPT !.step = s, !.seen = n]
  <2>2. /\ to \in Running /\ to.step = s /\ to.root = me.root /\ to.file = me.file
        /\ to.after = me.after /\ to.v = me.v
    BY <1>0 DEF Running, Opened
  <2>3. process' = [process EXCEPT ![p] = to] /\ UNCHANGED <<catalogues, configs, locators, locks>>
    BY <2>1 DEF Step
  <2> HIDE DEF to
  <2>4. s \in Opened \ {"open"} /\ me.step \in Opened
    BY <1>0 DEF Running, Opened
  <2>5. (to.step = "apply" => to.v <= 4) /\ (to.after = "apply" => to.v = IF to.step = "check" THEN 5 ELSE 4)
    BY <1>0, <1>3, <2>2 DEF Running
  <2>6. s # "backfill row"
    BY <1>0 DEF Running
  <2>7. QED BY <1>0, <2>2, <2>3, <2>4, <2>5, <2>6, ReadsOn
<1>5. QED BY <1>1, <1>4

(* The least version of some.                                               *)
LEMMA FirstVersion ==
    ASSUME NEW S, S \subseteq Version, S # {}
    PROVE  Min(S) \in S
<1>1. \E x \in S : \A y \in S : x <= y
  <2>1. CASE 1 \in S BY <2>1 DEF Version
  <2>2. CASE 1 \notin S /\ 2 \in S BY <2>2 DEF Version
  <2>3. CASE 1 \notin S /\ 2 \notin S /\ 3 \in S BY <2>3 DEF Version
  <2>4. CASE 1 \notin S /\ 2 \notin S /\ 3 \notin S
    <3>1. \A x \in S : x = 4 BY <2>4 DEF Version
    <3>2. QED BY <3>1
  <2>5. QED BY <2>1, <2>2, <2>3, <2>4
<1>2. QED BY <1>1 DEF Min

LEMMA CheckAppliedKeeps ==
    ASSUME SetupInv, NEW p \in Runner, CheckApplied(p)
    PROVE  SetupInv'
<1>0. PICK me \in Running : me = process[p] /\ me.step = "check"
  BY AtWork DEF CheckApplied, At, SetupInv
<1> DEFINE left == {v \in Version : v >= me.v /\ v \notin Mine(p).rows}
<1>1. me.after = "apply" => me.v = 5
  BY <1>0 DEF SetupInv, Good, NextMigration, Opened, At
<1>2. PICK to \in Running :
        /\ Step(p, to)
        /\ to.step \in {"backfill", "apply"} /\ to.root = me.root /\ to.file = me.file
        /\ to.step = "apply" => to.v <= 4
        /\ to.after = "apply" => to.v = 4
  <2>1. CASE left = {}
    <3> DEFINE to == [me EXCEPT !.step = "backfill", !.after = "register"]
    <3>1. /\ to \in Running /\ to.step = "backfill" /\ to.after = "register"
          /\ to.root = me.root /\ to.file = me.file
      <4>1. "backfill" \in Opened /\ 4 \in 1..5 BY DEF Opened
      <4>2. QED BY <4>1 DEF Running
    <3>2. Step(p, to) BY <1>0, <2>1 DEF CheckApplied
    <3> HIDE DEF to
    <3>3. QED BY <3>1, <3>2
  <2>2. CASE left # {} /\ Min(left) = 4
    <3> DEFINE to == [me EXCEPT !.step = "backfill", !.after = "apply", !.v = 4]
    <3>1. /\ to \in Running /\ to.step = "backfill" /\ to.v = 4
          /\ to.root = me.root /\ to.file = me.file
      <4>1. "backfill" \in Opened /\ 4 \in 1..5 BY DEF Opened
      <4>2. QED BY <4>1 DEF Running
    <3>2. Step(p, to) BY <1>0, <2>2 DEF CheckApplied
    <3> HIDE DEF to
    <3>3. QED BY <3>1, <3>2
  <2>3. CASE left # {} /\ Min(left) # 4
    <3>1. Min(left) \in left BY <2>3, FirstVersion
    <3>2. PICK n \in 1..4 : n = Min(left) /\ n >= me.v BY <3>1 DEF Version
    <3> DEFINE to == [me EXCEPT !.step = "apply", !.v = n]
    <3>3. /\ to \in Running /\ to.step = "apply" /\ to.v = n /\ to.after = me.after
          /\ to.root = me.root /\ to.file = me.file
      <4>1. "apply" \in Opened /\ n \in 1..5 BY DEF Opened
      <4>2. QED BY <4>1 DEF Running
    <3>4. to.after # "apply" BY <3>2, <3>3, <1>1
    <3>5. Step(p, to) BY <1>0, <2>3, <3>2 DEF CheckApplied
    <3> HIDE DEF to
    <3>6. QED BY <3>2, <3>3, <3>4, <3>5
  <2>4. QED BY <2>1, <2>2, <2>3
<1>3. /\ process' = [process EXCEPT ![p] = to]
      /\ UNCHANGED <<catalogues, configs, locators, locks>>
  BY <1>2 DEF Step
<1>4. QED BY <1>0, <1>2, <1>3, ReadsOn DEF Opened

LEMMA ApplyMigrationKeeps ==
    ASSUME SetupInv, NEW p \in Runner, ApplyMigration(p)
    PROVE  SetupInv'
<1>0. PICK me \in Running : me = process[p] /\ me.step = "apply"
  BY AtWork DEF ApplyMigration, At, SetupInv
<1>00. PICK v \in 1..5 : v = me.v BY DEF Running
<1> DEFINE mine == Mine(p)
           checksummed == v = 2 \/ 2 \in mine.rows
           db == [mine EXCEPT !.version = v, !.rows = @ \cup {v},
                              !.sums = IF checksummed THEN @ \cup {v} ELSE @]
           to == [me EXCEPT !.step = "check", !.v = v + 1]
<1>1. CASE FailCommand(p) BY <1>1, StopKeeps DEF FailCommand
<1>2. CASE ~FailCommand(p)
  <2>1. v \in 1..4 /\ (me.after = "apply" => v = 4)
    <3>1. NextMigration(p) BY DEF SetupInv, Good
    <3>2. v <= 4 BY <3>1, <1>0, <1>00 DEF NextMigration, At
    <3>3. me.after = "apply" => v = 4 BY <3>1, <1>0, <1>00 DEF NextMigration, Opened, At
    <3>4. QED BY <3>2, <3>3
  <2>2. mine \in Database /\ catalogues[me.file] = mine
    BY <1>0 DEF Running, SetupInv, TypeInv, Mine
  <2>3. db \in Database /\ db.spaces = mine.spaces
    <3>1. v \in Version /\ v \in 0..4 BY <2>1 DEF Version
    <3>2. mine.rows \cup {v} \in SUBSET Version /\ mine.sums \cup {v} \in SUBSET Version
      BY <3>1, <2>2 DEF Database
    <3>3. QED BY <3>1, <3>2, <2>2 DEF Database
  <2>4. /\ to \in Running /\ to.step = "check" /\ to.v = v + 1 /\ to.after = me.after
        /\ to.root = me.root /\ to.file = me.file
    <3>1. "check" \in Opened /\ v + 1 \in 1..5 BY <2>1 DEF Opened
    <3>2. QED BY <3>1 DEF Running
  <2>5. /\ process' = [process EXCEPT ![p] = to]
        /\ catalogues' = [catalogues EXCEPT ![me.file] = db]
        /\ UNCHANGED <<configs, locators, locks>>
    BY <1>0, <1>00, <1>2, <2>2 DEF ApplyMigration
  <2>6. db.spaces = Mine(p).spaces BY <2>3
  <2> HIDE DEF to, db, mine
  <2>7. /\ process[p] \in Running /\ process[p].step \in Opened /\ to.step \in Opened \ {"open"}
        /\ to.root = process[p].root /\ to.file = process[p].file
        /\ to.step # "apply" /\ to.step # "backfill row"
        /\ to.after = "apply" => to.v = IF to.step = "check" THEN 5 ELSE 4
        /\ catalogues' = [catalogues EXCEPT ![process[p].file] = db]
    BY <1>0, <2>1, <2>4, <2>5 DEF Opened
  <2>8. QED BY <2>3, <2>4, <2>5, <2>6, <2>7, WritesOn
<1>3. QED BY <1>1, <1>2

LEMMA ChecksumsKeep ==
    ASSUME SetupInv, NEW p \in Runner, ReadChecksums(p) \/ InsertChecksum(p)
    PROVE  SetupInv'
<1>0. PICK me \in Running : me = process[p] /\ me.step \in {"backfill", "backfill row"}
  BY AtWork DEF ReadChecksums, InsertChecksum, At, SetupInv
<1> DEFINE mine == Mine(p)
<1>1. mine \in Database /\ catalogues[me.file] = mine
  BY <1>0 DEF Running, SetupInv, TypeInv, Mine
<1>2. me.after = "apply" => me.v = 4
  BY <1>0 DEF SetupInv, Good, NextMigration, Opened, At
<1>3. CASE FailCommand(p) BY <1>3, StopKeeps DEF FailCommand
<1>4. CASE ReadChecksums(p)
  <2> DEFINE missing == IF 2 \in mine.rows THEN mine.rows \ mine.sums ELSE {}
  <2>1. PICK s \in {"version", "backfill row"}, n \in 0..4 :
            /\ Step(p, [me EXCEPT !.step = s, !.seen = n])
            /\ s = "backfill row" => n \in Version
    <3>1. CASE missing = {}
      <4>1. me.seen \in 0..4 /\ [me EXCEPT !.step = "version"] = [me EXCEPT !.step = "version", !.seen = me.seen]
        BY <1>0 DEF Running
      <4>2. Step(p, [me EXCEPT !.step = "version"]) BY <1>0, <3>1, <1>4 DEF ReadChecksums
      <4>3. QED BY <4>1, <4>2
    <3>2. CASE missing # {}
      <4>1. missing \subseteq Version BY <1>1 DEF Database
      <4>2. Min(missing) \in Version BY <4>1, <3>2, FirstVersion
      <4>3. PICK n \in 0..4 : n = Min(missing) /\ n \in Version BY <4>2 DEF Version
      <4>4. Step(p, [me EXCEPT !.step = "backfill row", !.seen = n])
        BY <1>0, <3>2, <4>3, <1>4 DEF ReadChecksums
      <4>5. QED BY <4>3, <4>4
    <3>3. QED BY <3>1, <3>2
  <2> DEFINE to == [me EXCEPT !.step = s, !.seen = n]
  <2>2. /\ to \in Running /\ to.step = s /\ to.root = me.root /\ to.file = me.file
        /\ to.after = me.after /\ to.v = me.v /\ to.seen = n
    BY <1>0 DEF Running, Opened
  <2>3. process' = [process EXCEPT ![p] = to] /\ UNCHANGED <<catalogues, configs, locators, locks>>
    BY <2>1 DEF Step
  <2> HIDE DEF to
  <2>4. QED BY <1>0, <1>2, <2>1, <2>2, <2>3, ReadsOn DEF Opened
<1>5. CASE InsertChecksum(p) /\ ~FailCommand(p)
  <2> DEFINE db == [mine EXCEPT !.sums = @ \cup {me.seen}]
             to == [me EXCEPT !.step = "backfill"]
  <2>1. me.seen \in Version
    BY <1>0, <1>5 DEF InsertChecksum, SetupInv, Good, NextMigration, At
  <2>2. db \in Database /\ db.spaces = mine.spaces
    BY <2>1, <1>1 DEF Database
  <2>3. /\ to \in Running /\ to.step = "backfill" /\ to.v = me.v /\ to.after = me.after
        /\ to.root = me.root /\ to.file = me.file
    BY <1>0 DEF Running, Opened
  <2>4. /\ process' = [process EXCEPT ![p] = to]
        /\ catalogues' = [catalogues EXCEPT ![me.file] = db]
        /\ UNCHANGED <<configs, locators, locks>>
    BY <1>0, <1>5 DEF InsertChecksum, Write, Goto
  <2> HIDE DEF to, db, mine
  <2>5. QED BY <1>0, <1>2, <2>2, <2>3, <2>4, WritesOn DEF Opened, mine
<1>6. QED BY <1>3, <1>4, <1>5

(* The row that a root has is the row that counts.                          *)
LEMMA RegisteredIs ==
    ASSUME SetupInv, NEW p \in Runner, process[p] \in Running, NEW w, RowOf(p, w)
    PROVE  Registered(p) = w.config
<1>1. process[p].file \in CatalogueFile BY DEF Running
<1>2. OnePerRoot(Mine(p).spaces) BY <1>1 DEF SetupInv, TypeInv, Mine
<1> DEFINE v == CHOOSE x \in Mine(p).spaces : x.root = process[p].root
<1>3. v \in Mine(p).spaces /\ v.root = process[p].root BY DEF RowOf
<1> HIDE DEF v
<1>4. v = w BY <1>2, <1>3 DEF OnePerRoot, RowOf
<1>5. QED BY <1>4 DEF v, Registered

LEMMA RegisterKeeps ==
    ASSUME SetupInv, NEW p \in Runner, Register(p)
    PROVE  SetupInv'
<1>0. PICK me \in Running : me = process[p] /\ me.step = "register"
  BY AtWork DEF Register, At, SetupInv
<1>1. me.after = "apply" => me.v = 4
  BY <1>0 DEF SetupInv, Good, NextMigration, Opened, At
<1>2. PICK config \in me.config :
        LET row == [root |-> me.root, name |-> config.name, config |-> config]
            known == \E w \in Mine(p).spaces : w.root = row.root
        IN  Write(p, "load", [Mine(p) EXCEPT !.spaces = IF known THEN @ ELSE @ \cup {row}])
  BY <1>0 DEF Register
<1> DEFINE row == [root |-> me.root, name |-> config.name, config |-> config]
           known == \E w \in Mine(p).spaces : w.root = me.root
           spaces == IF known THEN Mine(p).spaces ELSE Mine(p).spaces \cup {row}
           db == [Mine(p) EXCEPT !.spaces = spaces]
           to == [me EXCEPT !.step = "load"]
<1>3. Mine(p) \in Database /\ OnePerRoot(Mine(p).spaces)
  BY <1>0 DEF Running, SetupInv, TypeInv, Mine
<1>4. row \in Space /\ row.root = me.root
  BY <1>0 DEF Running, Space, Config
<1>5. db \in Database /\ db.spaces = spaces
  BY <1>3, <1>4 DEF Database
<1>6. OnePerRoot(spaces)
  BY <1>3, <1>4 DEF OnePerRoot
<1>7. Mine(p).spaces \subseteq spaces /\ \A w \in spaces : w \in Mine(p).spaces \/ w.root = me.root
  BY <1>4
<1>8. /\ to \in Running /\ to.step = "load" /\ to.root = me.root /\ to.file = me.file
      /\ to.after = me.after /\ to.v = me.v
  <2>1. "load" \in Opened BY DEF Opened
  <2>2. QED BY <2>1 DEF Running
<1>9. /\ process' = [process EXCEPT ![p] = to]
      /\ catalogues' = [catalogues EXCEPT ![process[p].file] = db]
      /\ UNCHANGED <<configs, locators, locks>>
  BY <1>0, <1>2 DEF Write, Goto
<1> HIDE DEF to, db, spaces
<1>10. /\ process[p] \in Running /\ process[p].step \in Opened /\ to.step \in Opened \ {"open"}
       /\ to.root = process[p].root /\ to.file = process[p].file
       /\ to.step # "apply" /\ to.step # "backfill row"
       /\ to.after = "apply" => to.v = IF to.step = "check" THEN 5 ELSE 4
  BY <1>0, <1>1, <1>8 DEF Opened
<1>11. /\ OnePerRoot(db.spaces) /\ Mine(p).spaces \subseteq db.spaces
       /\ \A w \in db.spaces : w \in Mine(p).spaces \/ w.root = process[p].root
  BY <1>0, <1>5, <1>6, <1>7
<1>12. QED BY <1>5, <1>8, <1>9, <1>10, <1>11, MigratesOn

LEMMA ConnectKeeps ==
    ASSUME SetupInv, NEW p \in Runner, Connect(p)
    PROVE  SetupInv'
<1>0. PICK me \in Running : me = process[p] /\ me.step = "connect"
  BY AtWork DEF Connect, At, SetupInv
<1>1. CASE FailCommand(p) BY <1>1, StopKeeps DEF FailCommand
<1>2. CASE ~FailCommand(p)
  <2> DEFINE to == [me EXCEPT !.step = "load"]
  <2>1. me.after = "apply" => me.v = 4
    BY <1>0 DEF SetupInv, Good, NextMigration, Opened, At
  <2>2. /\ to \in Running /\ to.step = "load" /\ to.root = me.root /\ to.file = me.file
        /\ to.after = me.after /\ to.v = me.v
    <3>1. "load" \in Opened BY DEF Opened
    <3>2. QED BY <3>1 DEF Running
  <2>3. process' = [process EXCEPT ![p] = to] /\ UNCHANGED <<catalogues, configs, locators, locks>>
    BY <1>0, <1>2 DEF Connect, Goto
  <2> HIDE DEF to
  <2>4. QED BY <1>0, <2>1, <2>2, <2>3, ReadsOn DEF Opened
<1>3. QED BY <1>1, <1>2

(* A step after the row is loaded, which leaves the catalogues alone.       *)
LEMMA EndsOn ==
    ASSUME SetupInv, NEW p \in Runner, process[p] \in Running,
           process[p].step \in Opened \cup Ending,
           NEW to \in Running, process' = [process EXCEPT ![p] = to],
           to.step \in Ending, to.root = process[p].root, to.file = process[p].file,
           to.op = process[p].op, to.config = process[p].config,
           NEW w \in Space, RowOf(p, w),
           to.step = "done" => configs'[to.file] = {w.config},
           configs' \in [CatalogueFile -> SUBSET Config],
           \A c \in CatalogueFile : configs[c] # {} => configs'[c] = configs[c],
           UNCHANGED <<catalogues, locators, locks>>
    PROVE  SetupInv'
<1>1. /\ process[p].file \in CatalogueFile /\ catalogues \in [CatalogueFile -> Database]
      /\ \A c \in CatalogueFile : OnePerRoot(catalogues[c].spaces)
  BY DEF Running, SetupInv, TypeInv
<1>2. Mine(p) \in Database /\ OnePerRoot(Mine(p).spaces)
  BY <1>1 DEF Mine
<1>3. catalogues' = [catalogues EXCEPT ![process[p].file] = Mine(p)]
  BY <1>1 DEF Mine
<1>4. /\ TypeInv' /\ RootsAreRouted' /\ World(p) /\ Locked(p)' /\ Routed(p)'
      /\ process'[p] = to
  BY <1>2, <1>3, WorksOn
<1>5. RowOf(p, w)'
  BY <1>4 DEF RowOf, Mine
<1>6. Settled(p)'
  BY <1>4, <1>5 DEF Settled, At
<1>7. NextMigration(p)'
  BY <1>4 DEF NextMigration, At, Routing, Opened, Ending
<1>8. QED BY <1>4, <1>6, <1>7, OneStep DEF Good

LEMMA LoadKeeps ==
    ASSUME SetupInv, NEW p \in Runner, Load(p)
    PROVE  SetupInv'
<1>0. PICK me \in Running : me = process[p] /\ me.step = "load"
  BY AtWork DEF Load, At, SetupInv
<1>1. CASE FailCommand(p) BY <1>1, StopKeeps DEF FailCommand
<1>2. CASE ~FailCommand(p)
  <2> DEFINE to == [me EXCEPT !.step = "config"]
  <2>1. PICK w \in Mine(p).spaces : w.root = me.root /\ (me.op = "init" => {w.config} = me.config)
    BY <1>0, <1>2 DEF Load
  <2>2. w \in Space
    BY <1>0 DEF Running, SetupInv, TypeInv, Mine, Database
  <2>3. RowOf(p, w)
    BY <1>0, <2>1 DEF RowOf
  <2>4. /\ to \in Running /\ to.step = "config" /\ to.root = me.root /\ to.file = me.file
        /\ to.op = me.op /\ to.config = me.config
    <3>1. "config" \in Ending BY DEF Ending
    <3>2. QED BY <3>1 DEF Running
  <2>5. process' = [process EXCEPT ![p] = to] /\ UNCHANGED <<catalogues, configs, locators, locks>>
    BY <1>0, <1>2 DEF Load, Step
  <2>6. configs' \in [CatalogueFile -> SUBSET Config]
    BY <2>5 DEF SetupInv, TypeInv
  <2> HIDE DEF to
  <2>7. process[p] \in Running /\ process[p].step \in Opened /\ to.step \in Ending /\ to.step # "done"
    BY <1>0, <2>4 DEF Opened, Ending
  <2>8. QED BY <1>0, <2>2, <2>3, <2>4, <2>5, <2>6, <2>7, EndsOn
<1>3. QED BY <1>1, <1>2

LEMMA ConfigureKeeps ==
    ASSUME SetupInv, NEW p \in Runner, Configure(p) \/ PersistConfig(p)
    PROVE  SetupInv'
<1>0. PICK me \in Running : me = process[p] /\ me.step \in {"config", "persist"}
  BY AtWork DEF Configure, PersistConfig, At, SetupInv
<1>1. CASE FailCommand(p) BY <1>1, StopKeeps DEF FailCommand
<1>2. CASE ~FailCommand(p)
  <2>1. PICK w \in Space : RowOf(p, w)
    BY <1>0 DEF SetupInv, Good, Settled, Ending
  <2>2. Registered(p) = w.config
    BY <1>0, <2>1, RegisteredIs
  <2>3. me.file \in CatalogueFile /\ configs \in [CatalogueFile -> SUBSET Config]
        /\ w.config \in Config
    BY <1>0, <2>1 DEF Running, SetupInv, TypeInv, Space
  <2>4. PICK s \in {"persist", "done"} :
            /\ process' = [process EXCEPT ![p] = [me EXCEPT !.step = s]]
            /\ s = "done" => configs'[me.file] = {w.config}
            /\ configs' \in [CatalogueFile -> SUBSET Config]
            /\ \A c \in CatalogueFile : configs[c] # {} => configs'[c] = configs[c]
            /\ UNCHANGED <<catalogues, locators, locks>>
    <3>1. CASE Configure(p)
      <4> DEFINE kept == configs[me.file]
      <4>1. /\ kept = {} \/ kept = {w.config}
            /\ Step(p, [me EXCEPT !.step = IF kept = {} THEN "persist" ELSE "done"])
        BY <3>1, <1>0, <1>2, <2>2 DEF Configure
      <4>2. UNCHANGED <<catalogues, configs, locators, locks>>
        BY <4>1 DEF Step
      <4>3. CASE kept = {}
        <5>1. process' = [process EXCEPT ![p] = [me EXCEPT !.step = "persist"]]
          BY <4>1, <4>3 DEF Step
        <5>2. QED BY <5>1, <4>2, <2>3
      <4>4. CASE kept # {}
        <5>1. process' = [process EXCEPT ![p] = [me EXCEPT !.step = "done"]]
          BY <4>1, <4>4 DEF Step
        <5>2. QED BY <5>1, <4>1, <4>2, <4>4, <2>3
      <4>5. QED BY <4>3, <4>4
    <3>2. CASE PersistConfig(p)
      <4>1. /\ configs[me.file] \subseteq {w.config}
            /\ configs' = [configs EXCEPT ![me.file] = {w.config}]
            /\ process' = [process EXCEPT ![p] = [me EXCEPT !.step = "done"]]
            /\ UNCHANGED <<catalogues, locators, locks>>
        BY <3>2, <1>0, <1>2, <2>2 DEF PersistConfig, Goto
      <4>2. /\ configs' \in [CatalogueFile -> SUBSET Config]
            /\ configs'[me.file] = {w.config}
            /\ \A c \in CatalogueFile : configs[c] # {} => configs'[c] = configs[c]
        BY <4>1, <2>3
      <4>3. QED BY <4>1, <4>2
    <3>3. QED BY <3>1, <3>2
  <2> DEFINE to == [me EXCEPT !.step = s]
  <2>5. /\ to \in Running /\ to.step = s /\ to.root = me.root /\ to.file = me.file
        /\ to.op = me.op /\ to.config = me.config
    <3>1. s \in Ending BY DEF Ending
    <3>2. QED BY <3>1 DEF Running
  <2>6. process' = [process EXCEPT ![p] = to] BY <2>4
  <2> HIDE DEF to
  <2>7. process[p] \in Running /\ process[p].step \in Ending /\ to.step \in Ending
    BY <1>0, <2>5 DEF Ending
  <2>8. QED BY <1>0, <2>1, <2>4, <2>5, <2>6, <2>7, EndsOn
<1>3. QED BY <1>1, <1>2

-----------------------------------------------------------------------------
(* In every reachable state the invariant holds.                            *)
LEMMA SetupInvInit == SetupInit => SetupInv
<1> SUFFICES ASSUME SetupInit PROVE SetupInv OBVIOUS
<1>1. Absent \in Database /\ OnePerRoot(Absent.spaces)
  BY DEF Absent, Database, OnePerRoot
<1>2. PICK b \in Before : catalogues = [c \in CatalogueFile |-> IF c \in DOMAIN b THEN b[c] ELSE Absent]
  BY DEF SetupInit
<1>3. \A c \in CatalogueFile : catalogues[c] \in Database /\ OnePerRoot(catalogues[c].spaces)
  BY <1>1, <1>2
<1>4. catalogues \in [CatalogueFile -> Database]
  BY <1>2, <1>3
<1>5. TypeInv
  BY <1>3, <1>4 DEF SetupInit, TypeInv
<1>6. RootsAreRouted
  BY DEF SetupInit, RootsAreRouted
<1>7. \A p \in Runner : Good(p)
  BY AtRest DEF SetupInit, Idle
<1>8. QED BY <1>5, <1>6, <1>7 DEF SetupInv

LEMMA SetupInvStep == SetupInv /\ [SetupNext]_setupVars => SetupInv'
<1> SUFFICES ASSUME SetupInv, [SetupNext]_setupVars PROVE SetupInv' OBVIOUS
<1>1. CASE UNCHANGED setupVars
  <2>1. /\ catalogues' = catalogues /\ configs' = configs /\ locators' = locators
        /\ locks' = locks /\ process' = process
    BY <1>1 DEF setupVars
  <2>2. TypeInv' /\ RootsAreRouted'
    BY <2>1 DEF SetupInv, TypeInv, RootsAreRouted, Holds
  <2>3. \A p \in Runner : Locked(p)' /\ Routed(p)'
    BY <2>1 DEF SetupInv, Good, Locked, Routed, Holds, At, Overridden
  <2>4. \A p \in Runner : Settled(p)' /\ NextMigration(p)'
    BY <2>1 DEF SetupInv, Good, Settled, RowOf, NextMigration, At, Mine
  <2>5. QED BY <2>2, <2>3, <2>4 DEF SetupInv, Good
<1>2. CASE SetupNext
  <2>1. PICK p \in Runner :
        \/ BeginInit(p) \/ BeginReconcile(p) \/ FinishCommand(p) \/ Interrupt(p)
        \/ Locate(p) \/ TakeLock(p) \/ Route(p) \/ PublishLocator(p)
        \/ Open(p) \/ ReadVersion(p) \/ ReadRows(p) \/ ReadSums(p)
        \/ CheckApplied(p) \/ ApplyMigration(p) \/ ReadChecksums(p) \/ InsertChecksum(p)
        \/ Register(p) \/ Connect(p) \/ Load(p) \/ Configure(p) \/ PersistConfig(p)
    BY <1>2 DEF SetupNext
  <2>2. CASE BeginInit(p) \/ BeginReconcile(p) BY <2>2, BeginKeeps
  <2>3. CASE FinishCommand(p) BY <2>3, StopKeeps DEF FinishCommand, FailCommand
  <2>4. CASE Interrupt(p) BY <2>4, StopKeeps DEF Interrupt
  <2>5. CASE Locate(p) BY <2>5, LocateKeeps
  <2>6. CASE TakeLock(p) BY <2>6, TakeLockKeeps
  <2>7. CASE Route(p) BY <2>7, RouteKeeps
  <2>8. CASE PublishLocator(p) BY <2>8, PublishKeeps
  <2>9. CASE Open(p) BY <2>9, OpenKeeps
  <2>10. CASE ReadVersion(p) \/ ReadRows(p) \/ ReadSums(p) BY <2>10, PreflightKeeps
  <2>11. CASE CheckApplied(p) BY <2>11, CheckAppliedKeeps
  <2>12. CASE ApplyMigration(p) BY <2>12, ApplyMigrationKeeps
  <2>13. CASE ReadChecksums(p) \/ InsertChecksum(p) BY <2>13, ChecksumsKeep
  <2>14. CASE Register(p) BY <2>14, RegisterKeeps
  <2>15. CASE Connect(p) BY <2>15, ConnectKeeps
  <2>16. CASE Load(p) BY <2>16, LoadKeeps
  <2>17. CASE Configure(p) \/ PersistConfig(p) BY <2>17, ConfigureKeeps
  <2>18. QED
    BY <2>1, <2>2, <2>3, <2>4, <2>5, <2>6, <2>7, <2>8, <2>9, <2>10, <2>11, <2>12, <2>13,
       <2>14, <2>15, <2>16, <2>17
<1>3. QED BY <1>1, <1>2

(* Every variable has its type; a command that runs has a root, a catalogue *)
(* file and a migration to do next (cli.rs, migrations.rs).                 *)
THEOREM SetupTypes == SetupSpec => []TypeInv
<1>1. SetupInv => TypeInv BY DEF SetupInv
<1>2. QED BY SetupInvInit, SetupInvStep, <1>1, PTL DEF SetupSpec

(* Whatever commands run at once, fail or are killed, no root is routed     *)
(* away from the default catalogue its workspace is in, and a command that  *)
(* ends well ends on one configuration (cli.rs, workspace.rs).              *)
THEOREM SetupIsAgreed == SetupSpec => []SetupAgrees
<1>1. SetupInv => SetupAgrees
  <2> SUFFICES ASSUME SetupInv PROVE SetupAgrees OBVIOUS
  <2>1. \A r \in Root : \A c \in Home :
           (\E w \in catalogues[c].spaces : w.root = r) => locators[r] \subseteq {c}
    BY DEF SetupInv, RootsAreRouted, Holds
  <2>2. ASSUME NEW p \in Runner, At(p, "done")
        PROVE  /\ configs[process[p].file] = {Registered(p)}
               /\ process[p].op = "init" => process[p].config = {Registered(p)}
               /\ ~Overridden(p) => locators[process[p].root] = {process[p].file}
    <3>1. process[p] \in Running BY <2>2, AtWork DEF SetupInv, At
    <3>2. PICK w \in Space : RowOf(p, w) /\ configs[process[p].file] = {w.config}
      BY <2>2 DEF SetupInv, Good, Settled, Ending, At
    <3>3. Registered(p) = w.config BY <3>1, <3>2, RegisteredIs
    <3>4. ~Overridden(p) => locators[process[p].root] = {process[p].file}
      BY <2>2 DEF SetupInv, Good, Routed, Ending, At
    <3>5. QED BY <3>2, <3>3, <3>4 DEF RowOf
  <2>3. QED BY <2>1, <2>2 DEF SetupAgrees
<1>2. QED BY SetupInvInit, SetupInvStep, <1>1, PTL DEF SetupSpec
=============================================================================
