--------------------------- MODULE IdentityProofs ---------------------------
(* Theorems about FileIdentity: what a committed cycle lists, which         *)
(* identity a file keeps and what absence is recorded, for any number of    *)
(* paths and contents and any sequence of edits and cycles.                 *)
EXTENDS FileIdentity, WellFoundedInduction, SequenceTheorems, TLAPS

USE FileIdentityAssumption

-----------------------------------------------------------------------------
(* Induction over a walk, without an operator for the induction hypothesis. *)

(* A set of numbers has a least one.                                        *)
LEMMA Least ==
    ASSUME NEW T, T \subseteq Nat, T # {}
    PROVE  \E m \in T : \A n \in T : m <= n
<1>1. PICK x \in T : \A y \in T : <<y, x>> \notin OpToRel(<, Nat)
    BY NatLessThanWellFounded, WFMin
<1>2. \A y \in T : ~ (y < x)
    BY <1>1 DEF OpToRel
<1>. QED BY <1>2

(* A set with 0 and with the successor of each of its members below n       *)
(* contains 0 .. n.                                                         *)
LEMMA Upwards ==
    ASSUME NEW n \in Nat, NEW S, 0 \in S,
           \A m \in Nat : m < n /\ m \in S => m + 1 \in S
    PROVE  \A m \in 0 .. n : m \in S
<1>. DEFINE Missed == {m \in 0 .. n : m \notin S}
<1>1. SUFFICES ASSUME Missed # {} PROVE FALSE
    OBVIOUS
<1>2. PICK m \in Missed : \A k \in Missed : m <= k
    <2>1. Missed \subseteq Nat
        OBVIOUS
    <2>. QED BY <1>1, <2>1, Least
<1>3. m # 0 /\ m - 1 \in Nat /\ m - 1 < n /\ m - 1 + 1 = m
    OBVIOUS
<1>4. m - 1 \notin Missed
    BY <1>2, <1>3
<1>5. m - 1 \in S
    BY <1>3, <1>4
<1>. QED BY <1>3, <1>5

(* What the walk has made of a path is what visiting it makes of what the   *)
(* walk had made before.                                                    *)
Start == [identity |-> AfterRenames, minted |-> minted, files |-> << >>, ok |-> TRUE]

Walks(f, n) == f = [p \in 0 .. n |-> IF p = 0 THEN Start ELSE Visit(f[p - 1], p)]

LEMMA WalkIsDefined == \E f : Walks(f, Paths)
<1>. DEFINE S == {n \in Nat : \E f : Walks(f, n)}
<1>1. 0 \in S
    <2>1. Walks([p \in 0 .. 0 |-> Start], 0)
        BY DEF Walks
    <2>. QED BY <2>1
<1>2. ASSUME NEW m \in Nat, m \in S
      PROVE  m + 1 \in S
    <2>1. PICK f : Walks(f, m)
        BY <1>2
    <2>. DEFINE g == [p \in 0 .. m + 1 |-> IF p = m + 1 THEN Visit(f[m], m + 1) ELSE f[p]]
    <2>2. ASSUME NEW p \in 0 .. m + 1
          PROVE  g[p] = IF p = 0 THEN Start ELSE Visit(g[p - 1], p)
        <3>1. CASE p = m + 1
            <4>1. p # 0 /\ p - 1 = m /\ m \in 0 .. m + 1 /\ m # m + 1
                BY <3>1
            <4>2. g[p - 1] = f[m]
                BY <4>1
            <4>. QED BY <3>1, <4>1, <4>2
        <3>2. CASE p # m + 1
            <4>1. p \in 0 .. m
                BY <3>2
            <4>2. f[p] = IF p = 0 THEN Start ELSE Visit(f[p - 1], p)
                BY <2>1, <4>1 DEF Walks
            <4>3. p # 0 => p - 1 \in 0 .. m + 1 /\ p - 1 # m + 1
                BY <4>1
            <4>. QED BY <3>2, <4>2, <4>3
        <3>. QED BY <3>1, <3>2
    <2>3. g = [p \in 0 .. m + 1 |-> IF p = 0 THEN Start ELSE Visit(g[p - 1], p)]
        BY <2>2
    <2>. HIDE DEF g
    <2>4. Walks(g, m + 1)
        BY <2>3 DEF Walks
    <2>. QED BY <2>4
<1>. HIDE DEF S
<1>3. Paths \in 0 .. Paths
    OBVIOUS
<1>4. Paths \in S
    BY <1>1, <1>2, <1>3, Upwards
<1>. QED BY <1>4 DEF S

LEMMA WalkIs ==
    /\ Walk[0] = Start
    /\ \A p \in Path : Walk[p] = Visit(Walk[p - 1], p)
<1>1. Walks(Walk, Paths)
    BY WalkIsDefined DEF Walk, Walks, Start
<1>. QED BY <1>1 DEF Walks, Path

-----------------------------------------------------------------------------
(* The progress of a walk, and what storing a path does to it.              *)

Shaped(at) ==
    /\ at = [identity |-> at.identity, minted |-> at.minted, files |-> at.files, ok |-> at.ok]
    /\ at.minted \in Seq(Path)
    /\ at.identity \in [Range(at.minted) -> IdentityRow]
    /\ at.files \in [DOMAIN at.files -> FileRow]
    /\ DOMAIN at.files \subseteq Range(at.minted)
    /\ at.ok \in BOOLEAN

LEMMA RangeIs ==
    ASSUME NEW f
    PROVE  \A x : x \in Range(f) <=> \E n \in DOMAIN f : x = f[n]
BY DEF Range

LEMMA RangeGrows ==
    ASSUME NEW n \in Nat, NEW f, NEW g, NEW p, DOMAIN f = 1 .. n, DOMAIN g = 1 .. n + 1,
           \A k \in 1 .. n : g[k] = f[k], g[n + 1] = p
    PROVE  Range(g) = Range(f) \cup {p}
<1>1. 1 .. n + 1 = (1 .. n) \cup {n + 1}
    OBVIOUS
<1>. QED BY <1>1 DEF Range

LEMMA Appended ==
    ASSUME NEW order \in Seq(Path), NEW p \in Path
    PROVE  /\ Append(order, p) \in Seq(Path)
           /\ DOMAIN order \subseteq DOMAIN Append(order, p)
           /\ \A n \in DOMAIN order : Append(order, p)[n] = order[n]
           /\ \A n \in DOMAIN Append(order, p) \ DOMAIN order :
                 /\ Append(order, p)[n] = p
                 /\ \A m \in DOMAIN order : m < n
           /\ DOMAIN Append(order, p) \subseteq Nat
           /\ Range(Append(order, p)) = Range(order) \cup {p}
<1>1. /\ Append(order, p) \in Seq(Path)
      /\ DOMAIN order = 1 .. Len(order)
      /\ DOMAIN Append(order, p) = 1 .. Len(order) + 1
      /\ \A n \in 1 .. Len(order) : Append(order, p)[n] = order[n]
      /\ Append(order, p)[Len(order) + 1] = p
      /\ Len(order) \in Nat
    OBVIOUS
<1>2. Range(Append(order, p)) = Range(order) \cup {p}
    <2>1. PICK n, g : n = Len(order) /\ g = Append(order, p)
        OBVIOUS
    <2>2. /\ n \in Nat /\ DOMAIN order = 1 .. n /\ DOMAIN g = 1 .. n + 1
          /\ \A k \in 1 .. n : g[k] = order[k]
          /\ g[n + 1] = p
        BY <1>1, <2>1
    <2>3. Range(g) = Range(order) \cup {p}
        BY ONLY <2>2, RangeGrows
    <2>. QED BY <2>1, <2>3
<1>. QED BY <1>1, <1>2

(* A row is stored under its id, and no other row changes.                  *)
Stored(at, up, i, p, presence, hash) ==
    /\ up = [identity |-> at.identity, minted |-> at.minted, files |-> up.files, ok |-> at.ok]
    /\ DOMAIN up.files = DOMAIN at.files \cup {i}
    /\ \A T : (\A j \in DOMAIN up.files : up.files[j] \in T) => up.files \in [DOMAIN up.files -> T]
    /\ \A j \in DOMAIN at.files : j # i => up.files[j] = at.files[j]
    /\ i \notin DOMAIN at.files =>
          up.files[i] = [path |-> p, presence |-> presence, hash |-> hash]
    /\ i \in DOMAIN at.files =>
          up.files[i] = [path |-> at.files[i].path, presence |-> presence,
                         hash |-> IF presence = "present" THEN hash ELSE at.files[i].hash]

LEMMA Upserted ==
    ASSUME NEW at, Shaped(at), NEW i, NEW p, NEW presence, NEW hash,
           NEW up, up = Upsert(at, i, p, presence, hash)
    PROVE  Stored(at, up, i, p, presence, hash)
<1>. DEFINE row ==
                IF i \in DOMAIN at.files
                THEN [path |-> at.files[i].path, presence |-> presence,
                      hash |-> IF presence = "present" THEN hash ELSE at.files[i].hash]
                ELSE [path |-> p, presence |-> presence, hash |-> hash]
            now == [j \in DOMAIN at.files \cup {i} |-> IF j = i THEN row ELSE at.files[j]]
<1>1. up = [at EXCEPT !.files = now]
    BY DEF Upsert
<1>. HIDE DEF now
<1>2. up = [identity |-> at.identity, minted |-> at.minted, files |-> now, ok |-> at.ok]
    BY <1>1 DEF Shaped
<1>3. up.files = now
    BY <1>2
<1>4. /\ DOMAIN now = DOMAIN at.files \cup {i}
      /\ now = [j \in DOMAIN now |-> now[j]]
      /\ \A j \in DOMAIN at.files : j # i => now[j] = at.files[j]
      /\ now[i] = row
    BY DEF now
<1>. HIDE DEF row
<1>5. ASSUME NEW T, \A j \in DOMAIN now : now[j] \in T
      PROVE  now \in [DOMAIN now -> T]
    <2>1. \A j \in DOMAIN at.files \cup {i} : (IF j = i THEN row ELSE at.files[j]) \in T
        BY <1>5 DEF now
    <2>. QED BY <1>4, <2>1 DEF now
<1>. QED BY <1>2, <1>3, <1>4, <1>5 DEF row, Stored

(* A new identity is the last of those minted, and is current at its path.  *)
LEMMA Minted ==
    ASSUME NEW at, Shaped(at), NEW p \in Path, p \notin Range(at.minted),
           NEW new, new = Mint(at, p)
    PROVE  /\ Shaped(new)
           /\ new.files = at.files
           /\ new.ok = at.ok
           /\ new.minted = Append(at.minted, p)
           /\ new.identity[p] = [path |-> p, state |-> "current"]
           /\ \A i \in Range(at.minted) : new.identity[i] = at.identity[i]
<1>. DEFINE ids == [i \in DOMAIN at.identity \cup {p} |->
                        IF i = p THEN [path |-> p, state |-> "current"] ELSE at.identity[i]]
<1>1. new = [at EXCEPT !.minted = Append(@, p), !.identity = ids]
    BY DEF Mint
<1>2. /\ DOMAIN ids = Range(at.minted) \cup {p}
      /\ ids[p] = [path |-> p, state |-> "current"]
      /\ \A i \in Range(at.minted) : ids[i] = at.identity[i]
      /\ ids \in [Range(at.minted) \cup {p} -> IdentityRow]
    BY DEF Shaped, IdentityRow
<1>. HIDE DEF ids
<1>3. new = [identity |-> ids, minted |-> Append(at.minted, p), files |-> at.files, ok |-> at.ok]
    BY <1>1 DEF Shaped
<1>4. /\ Append(at.minted, p) \in Seq(Path)
      /\ Range(Append(at.minted, p)) = Range(at.minted) \cup {p}
    BY Appended DEF Shaped
<1>5. /\ new.identity = ids /\ new.minted = Append(at.minted, p)
      /\ new.files = at.files /\ new.ok = at.ok
    BY <1>3
<1>. QED BY <1>2, <1>3, <1>4, <1>5 DEF Shaped

(* i is the identity that a lookup of p finds.                              *)
FirstAt(ids, order, i, p) ==
    \E n \in DOMAIN order :
        /\ order[n] = i
        /\ ids[i].path = p
        /\ \A m \in DOMAIN order : ids[order[m]].path = p => n <= m

LEMMA LookUpIsFirst ==
    ASSUME NEW at, Shaped(at), NEW p, KnownAs(at, p) # {}
    PROVE  /\ LookUp(at, p) \in Range(at.minted)
           /\ at.identity[LookUp(at, p)].path = p
           /\ FirstAt(at.identity, at.minted, LookUp(at, p), p)
<1>1. KnownAs(at, p) \subseteq DOMAIN at.minted /\ DOMAIN at.minted \subseteq Nat
    BY DEF KnownAs, Shaped
<1>2. PICK n \in KnownAs(at, p) : \A m \in KnownAs(at, p) : n <= m
    BY <1>1, Least
<1>3. \A m \in KnownAs(at, p) : (\A k \in KnownAs(at, p) : m <= k) => m = n
    BY <1>1, <1>2
<1>4. LookUp(at, p) = at.minted[n]
    BY <1>2, <1>3 DEF LookUp
<1>5. n \in DOMAIN at.minted /\ at.identity[at.minted[n]].path = p
    BY <1>2 DEF KnownAs
<1>6. \A m \in DOMAIN at.minted : at.identity[at.minted[m]].path = p => n <= m
    BY <1>2 DEF KnownAs
<1>. QED BY <1>4, <1>5, <1>6, RangeIs DEF FirstAt

LEMMA FirstIsOne ==
    ASSUME NEW order \in Seq(Path), NEW ids, NEW i, NEW j, NEW p,
           FirstAt(ids, order, i, p), FirstAt(ids, order, j, p)
    PROVE  i = j
<1>1. DOMAIN order \subseteq Nat
    OBVIOUS
<1>. QED BY <1>1 DEF FirstAt

(* The first at p stays so when the identity of another path is minted.     *)
LEMMA FirstStays ==
    ASSUME NEW at, Shaped(at), NEW q \in Path, q \notin Range(at.minted),
           NEW i, NEW p, FirstAt(at.identity, at.minted, i, p),
           NEW new, new = Mint(at, q)
    PROVE  FirstAt(new.identity, new.minted, i, p)
<1>1. PICK n \in DOMAIN at.minted :
          /\ at.minted[n] = i
          /\ at.identity[i].path = p
          /\ \A m \in DOMAIN at.minted : at.identity[at.minted[m]].path = p => n <= m
    BY DEF FirstAt
<1>2. /\ new.minted = Append(at.minted, q)
      /\ \A j \in Range(at.minted) : new.identity[j] = at.identity[j]
    <2>1. Shaped(at) /\ q \in Path /\ q \notin Range(at.minted) /\ new = Mint(at, q)
        OBVIOUS
    <2>. QED BY ONLY <2>1, Minted
<1>3. at.minted \in Seq(Path) /\ \A m \in DOMAIN at.minted : at.minted[m] \in Range(at.minted)
    BY RangeIs DEF Shaped
<1>4. n \in DOMAIN new.minted /\ new.minted[n] = i /\ new.identity[i].path = p
    BY <1>1, <1>2, <1>3, Appended
<1>5. ASSUME NEW m \in DOMAIN new.minted, new.identity[new.minted[m]].path = p
      PROVE  n <= m
    <2>1. CASE m \in DOMAIN at.minted
        <3>1. new.minted[m] = at.minted[m]
            BY <1>2, <1>3, <2>1, Appended
        <3>2. at.identity[at.minted[m]].path = p
            BY <1>2, <1>3, <1>5, <2>1, <3>1
        <3>. QED BY <1>1, <2>1, <3>2
    <2>2. CASE m \notin DOMAIN at.minted
        <3>1. n < m
            BY <1>2, <1>3, <2>2, <1>1, Appended
        <3>2. n \in Nat /\ m \in Nat
            BY <1>2, <1>3, <1>4, Appended
        <3>. QED BY <3>1, <3>2
    <2>. QED BY <2>1, <2>2
<1>. QED BY <1>4, <1>5 DEF FirstAt

-----------------------------------------------------------------------------
(* Types.                                                                   *)

LEMMA RenamesMove ==
    ASSUME NEW i \in Renamed
    PROVE  i \in Disappeared /\ NewPath(i) \in Appeared
<1>1. PICK r \in Renames : r[1] = i
    BY DEF Renamed
<1>2. \A x \in Renames : x[1] \in Disappeared /\ x[2] \in Appeared
    BY DEF Renames
<1>3. (CHOOSE x \in Renames : x[1] = i) \in Renames
    BY <1>1
<1>. QED BY <1>1, <1>2, <1>3 DEF NewPath

LEMMA StartShaped ==
    ASSUME TypeOK
    PROVE  Shaped(Start)
<1>1. \A i \in Renamed : NewPath(i) \in Path
    BY RenamesMove DEF Appeared, Present, Walked
<1>2. identity \in [Range(minted) -> IdentityRow] /\ minted \in Seq(Path)
    BY DEF TypeOK
<1>3. AfterRenames \in [Range(minted) -> IdentityRow]
    BY <1>1, <1>2 DEF AfterRenames, IdentityRow
<1>4. << >> \in [DOMAIN << >> -> FileRow] /\ DOMAIN << >> = {}
    OBVIOUS
<1>. HIDE DEF AfterRenames
<1>. QED BY <1>2, <1>3, <1>4 DEF Start, Shaped

(* A row of a known identity is stored,                                     *)
LEMMA UpsertShaped ==
    ASSUME NEW at, Shaped(at), NEW i \in Range(at.minted), NEW p \in Path,
           NEW presence \in {"present", "excluded"}, NEW hash \in Hash \cup {NoFile},
           NEW up, up = Upsert(at, i, p, presence, hash)
    PROVE  Shaped(up)
<1>1. Stored(at, up, i, p, presence, hash)
    BY Upserted
<1>2. at.files \in [DOMAIN at.files -> FileRow]
    BY DEF Shaped
<1>3. \A j \in DOMAIN up.files : up.files[j] \in FileRow
    BY <1>1, <1>2 DEF FileRow, Stored
<1>4. /\ up.identity = at.identity /\ up.minted = at.minted /\ up.ok = at.ok
      /\ up = [identity |-> up.identity, minted |-> up.minted, files |-> up.files, ok |-> up.ok]
    BY <1>1 DEF Stored
<1>. QED BY <1>1, <1>3, <1>4 DEF Shaped, Stored

(* and every path that is visited is.                                       *)
LEMMA VisitShaped ==
    ASSUME TypeOK, NEW at, Shaped(at), NEW p \in Path, NEW to, to = Visit(at, p)
    PROVE  Shaped(to)
<1>1. disk[p] \in Hash \cup {NoFile}
    BY DEF TypeOK
<1>2. CASE at.ok = FALSE \/ p \notin Walked
    BY <1>2 DEF Visit
<1>3. ASSUME p \notin Range(at.minted), NEW presence \in {"present", "excluded"},
             NEW hash \in Hash \cup {NoFile}, to = Upsert(Mint(at, p), p, p, presence, hash)
      PROVE  Shaped(to)
    <2>1. PICK new : new = Mint(at, p)
        OBVIOUS
    <2>2. Shaped(new) /\ new.minted = Append(at.minted, p)
        BY <1>3, <2>1, Minted
    <2>3. p \in Range(new.minted)
        BY <2>2, Appended DEF Shaped
    <2>4. to = Upsert(new, p, p, presence, hash)
        BY <1>3, <2>1
    <2>. QED BY <2>2, <2>3, <2>4, UpsertShaped
<1>4. CASE at.ok # FALSE /\ p \in Present
    <2>1. to = StorePresent(at, p)
        BY <1>4 DEF Visit, Present, Shaped
    <2>2. CASE KnownAs(at, p) # {}
        BY <1>1, <2>1, <2>2, LookUpIsFirst, UpsertShaped DEF StorePresent
    <2>3. CASE KnownAs(at, p) = {} /\ p \in Range(at.minted)
        <3>1. to = [at EXCEPT !.ok = FALSE]
            BY <2>1, <2>3 DEF StorePresent
        <3>. QED BY <3>1 DEF Shaped
    <2>4. CASE KnownAs(at, p) = {} /\ p \notin Range(at.minted)
        BY <1>1, <1>3, <2>1, <2>4 DEF StorePresent
    <2>. QED BY <2>2, <2>3, <2>4
<1>5. CASE at.ok # FALSE /\ p \in Walked /\ p \notin Present
    <2>1. to = StoreExcluded(at, p)
        BY <1>5 DEF Visit, Shaped
    <2>2. CASE p \in Range(at.minted)
        BY <2>1, <2>2, UpsertShaped DEF StoreExcluded
    <2>3. CASE p \notin Range(at.minted)
        BY <1>3, <2>1, <2>3 DEF StoreExcluded
    <2>. QED BY <2>2, <2>3
<1>. QED BY <1>2, <1>4, <1>5

LEMMA WalkShaped ==
    ASSUME TypeOK
    PROVE  \A p \in 0 .. Paths : Shaped(Walk[p])
<1>. DEFINE S == {p \in Nat : p <= Paths => Shaped(Walk[p])}
<1>1. 0 \in S
    BY StartShaped, WalkIs
<1>2. ASSUME NEW m \in Nat, m < Paths, m \in S
      PROVE  m + 1 \in S
    <2>1. PICK at : at = Walk[m]
        OBVIOUS
    <2>2. PICK to : to = Walk[m + 1]
        OBVIOUS
    <2>3. Shaped(at)
        BY <1>2, <2>1
    <2>4. m + 1 \in Path /\ m + 1 - 1 = m
        BY <1>2 DEF Path
    <2>5. to = Visit(at, m + 1)
        BY <2>1, <2>2, <2>4, WalkIs
    <2>6. Shaped(to)
        BY <2>3, <2>4, <2>5, VisitShaped
    <2>. QED BY <2>2, <2>6
<1>3. \A p \in 0 .. Paths : p \in S
    BY <1>1, <1>2, Upwards
<1>. QED BY <1>3

-----------------------------------------------------------------------------
(* Contents.                                                                *)

(* Only contents of admitted files are listed so far.                       *)
Admits(at) ==
    \A i \in DOMAIN at.files :
        at.files[i].hash # NoFile => \E p \in Present : disk[p] = at.files[i].hash

LEMMA UpsertAdmits ==
    ASSUME NEW at, Shaped(at), Admits(at), NEW i, NEW p,
           NEW presence, NEW hash, hash # NoFile => \E q \in Present : disk[q] = hash,
           NEW up, up = Upsert(at, i, p, presence, hash)
    PROVE  Admits(up)
<1>0. Stored(at, up, i, p, presence, hash)
    BY Upserted
<1>1. /\ DOMAIN up.files = DOMAIN at.files \cup {i}
      /\ \A j \in DOMAIN at.files : j # i => up.files[j] = at.files[j]
      /\ i \notin DOMAIN at.files => up.files[i].hash = hash
      /\ i \in DOMAIN at.files => up.files[i].hash \in {hash, at.files[i].hash}
    BY <1>0 DEF Stored
<1>. QED BY <1>1 DEF Admits

LEMMA VisitAdmits ==
    ASSUME TypeOK, NEW at, Shaped(at), Admits(at), NEW p \in Path, NEW to, to = Visit(at, p)
    PROVE  Admits(to)
<1>1. CASE at.ok = FALSE \/ p \notin Walked
    BY <1>1 DEF Visit
<1>2. ASSUME p \notin Range(at.minted), NEW presence, NEW hash,
             hash # NoFile => \E q \in Present : disk[q] = hash,
             to = Upsert(Mint(at, p), p, p, presence, hash)
      PROVE  Admits(to)
    <2>1. PICK new : new = Mint(at, p)
        OBVIOUS
    <2>2. Shaped(new) /\ new.files = at.files
        BY <1>2, <2>1, Minted
    <2>3. Admits(new)
        BY <2>2 DEF Admits
    <2>. QED BY <1>2, <2>1, <2>2, <2>3, UpsertAdmits
<1>3. CASE at.ok # FALSE /\ p \in Present
    <2>1. to = StorePresent(at, p)
        BY <1>3 DEF Visit, Present, Shaped
    <2>2. CASE KnownAs(at, p) # {}
        BY <1>3, <2>1, <2>2, UpsertAdmits DEF StorePresent
    <2>3. CASE KnownAs(at, p) = {} /\ p \in Range(at.minted)
        <3>1. to = [at EXCEPT !.ok = FALSE]
            BY <2>1, <2>3 DEF StorePresent
        <3>2. to.files = at.files
            BY <3>1 DEF Shaped
        <3>. QED BY <3>2 DEF Admits
    <2>4. CASE KnownAs(at, p) = {} /\ p \notin Range(at.minted)
        BY <1>2, <1>3, <2>1, <2>4 DEF StorePresent
    <2>. QED BY <2>2, <2>3, <2>4
<1>4. CASE at.ok # FALSE /\ p \in Walked /\ p \notin Present
    <2>1. to = StoreExcluded(at, p)
        BY <1>4 DEF Visit, Shaped
    <2>2. CASE p \in Range(at.minted)
        BY <2>1, <2>2, UpsertAdmits DEF StoreExcluded
    <2>3. CASE p \notin Range(at.minted)
        BY <1>2, <2>1, <2>3 DEF StoreExcluded
    <2>. QED BY <2>2, <2>3
<1>. QED BY <1>1, <1>3, <1>4

LEMMA WalkAdmits ==
    ASSUME TypeOK
    PROVE  \A p \in 0 .. Paths : Admits(Walk[p])
<1>. DEFINE S == {p \in Nat : p <= Paths => Admits(Walk[p])}
<1>1. 0 \in S
    <2>1. Admits(Start)
        BY DEF Admits, Start
    <2>. QED BY <2>1, WalkIs
<1>2. ASSUME NEW m \in Nat, m < Paths, m \in S
      PROVE  m + 1 \in S
    <2>1. PICK at : at = Walk[m]
        OBVIOUS
    <2>2. PICK to : to = Walk[m + 1]
        OBVIOUS
    <2>3. Shaped(at) /\ Admits(at)
        BY <1>2, <2>1, WalkShaped
    <2>4. m + 1 \in Path /\ m + 1 - 1 = m
        BY <1>2 DEF Path
    <2>5. to = Visit(at, m + 1)
        BY <2>1, <2>2, <2>4, WalkIs
    <2>6. Admits(to)
        BY <2>3, <2>4, <2>5, VisitAdmits
    <2>. QED BY <2>2, <2>6
<1>3. \A p \in 0 .. Paths : p \in S
    BY <1>1, <1>2, Upwards
<1>. QED BY <1>3

-----------------------------------------------------------------------------
(* Cycles under one policy.                                                 *)

(* An identity stays on the side of the policy where it was minted, and one *)
(* of a path that is not admitted stays at it.                              *)
Sided(ids) ==
    \A i \in DOMAIN ids :
        IF policy[i] = "present" THEN policy[ids[i].path] = "present" ELSE ids[i].path = i

(* The row of i in a walk that has reached p.                               *)
RowMade(at, p, i) ==
    /\ at.files[i].path = at.identity[i].path
    /\ at.files[i].path \in Walked
    /\ at.files[i].path <= p
    /\ IF at.files[i].path \in Present
       THEN /\ at.files[i].presence = "present"
            /\ at.files[i].hash = disk[at.files[i].path]
            /\ FirstAt(at.identity, at.minted, i, at.files[i].path)
       ELSE at.files[i].presence = "excluded"

(* A path with a listed file still finds the identity listed there.         *)
Keeps(at) ==
    \A i \in WasPresent :
        files[i].path \in Present => FirstAt(at.identity, at.minted, i, files[i].path)

Made(at, p) ==
    /\ Sided(at.identity)
    /\ \A i \in DOMAIN at.files : RowMade(at, p, i)
    /\ \A q \in Walked : q <= p => \E i \in DOMAIN at.files : at.files[i].path = q
    /\ Keeps(at)

(* Minting the identity of the next path disturbs nothing.                  *)
LEMMA MintMade ==
    ASSUME NEW at, Shaped(at), NEW m \in Nat, Made(at, m),
           NEW p \in Path, p \notin Range(at.minted), NEW new, new = Mint(at, p)
    PROVE  Made(new, m)
<1>1. /\ Shaped(new)
      /\ new.files = at.files
      /\ new.minted = Append(at.minted, p)
      /\ new.identity[p] = [path |-> p, state |-> "current"]
      /\ \A i \in Range(at.minted) : new.identity[i] = at.identity[i]
    BY Minted
<1>2. /\ DOMAIN at.identity = Range(at.minted)
      /\ DOMAIN at.files \subseteq Range(at.minted)
      /\ DOMAIN new.identity = Range(at.minted) \cup {p}
    BY <1>1, Appended DEF Shaped
<1>3. \A i, q : FirstAt(at.identity, at.minted, i, q) => FirstAt(new.identity, new.minted, i, q)
    BY FirstStays
<1>4. Sided(new.identity)
    BY <1>1, <1>2 DEF Made, Sided
<1>5. ASSUME NEW i \in DOMAIN new.files
      PROVE  RowMade(new, m, i)
    BY <1>1, <1>2, <1>3, <1>5 DEF Made, RowMade
<1>6. Keeps(new)
    BY <1>3 DEF Made, Keeps
<1>. QED BY <1>1, <1>4, <1>5, <1>6 DEF Made

(* It is the first at its path if there was none.                           *)
LEMMA MintedIsFirst ==
    ASSUME NEW at, Shaped(at), NEW p \in Path, p \notin Range(at.minted), KnownAs(at, p) = {},
           NEW new, new = Mint(at, p)
    PROVE  FirstAt(new.identity, new.minted, p, p)
<1>1. /\ new.minted = Append(at.minted, p)
      /\ new.identity[p] = [path |-> p, state |-> "current"]
      /\ \A i \in Range(at.minted) : new.identity[i] = at.identity[i]
    BY Minted
<1>2. at.minted \in Seq(Path) /\ \A n \in DOMAIN at.minted : at.minted[n] \in Range(at.minted)
    BY RangeIs DEF Shaped
<1>3. Range(new.minted) = Range(at.minted) \cup {p}
    BY <1>1, <1>2, Appended
<1>4. PICK n \in DOMAIN new.minted : new.minted[n] = p
    BY <1>3, RangeIs
<1>5. \A k \in DOMAIN at.minted : new.identity[new.minted[k]].path # p
    BY <1>1, <1>2, Appended DEF KnownAs
<1>6. ASSUME NEW k \in DOMAIN new.minted, k \notin DOMAIN at.minted,
             NEW l \in DOMAIN new.minted, l \notin DOMAIN at.minted
      PROVE  k = l
    <2>1. PICK len : len = Len(at.minted)
        OBVIOUS
    <2>2. len \in Nat /\ DOMAIN at.minted = 1 .. len /\ DOMAIN new.minted = 1 .. len + 1
        BY <1>1, <1>2, <2>1
    <2>. QED BY <1>6, <2>2
<1>7. n \notin DOMAIN at.minted /\ n \in Nat
    BY <1>1, <1>2, <1>4, <1>5, Appended
<1>. QED BY <1>1, <1>4, <1>5, <1>6, <1>7 DEF FirstAt

(* Storing a row of the next path, under an identity that is there.         *)
LEMMA UpsertMade ==
    ASSUME NEW at, Shaped(at), NEW m \in Nat, Made(at, m), m + 1 \in Walked,
           NEW i \in Range(at.minted), at.identity[i].path = m + 1,
           NEW presence, NEW hash,
           IF m + 1 \in Present
           THEN /\ presence = "present"
                /\ hash = disk[m + 1]
                /\ FirstAt(at.identity, at.minted, i, m + 1)
           ELSE presence = "excluded",
           NEW up, up = Upsert(at, i, m + 1, presence, hash)
    PROVE  Made(up, m + 1)
<1>1. i \notin DOMAIN at.files
    BY DEF Made, RowMade
<1>2. Stored(at, up, i, m + 1, presence, hash)
    BY Upserted
<1>3. /\ up.identity = at.identity /\ up.minted = at.minted
      /\ DOMAIN up.files = DOMAIN at.files \cup {i}
      /\ \A j \in DOMAIN at.files : up.files[j] = at.files[j]
      /\ up.files[i] = [path |-> m + 1, presence |-> presence, hash |-> hash]
    BY <1>1, <1>2 DEF Stored
<1>4. Sided(up.identity) /\ Keeps(up)
    BY <1>3 DEF Made, Keeps
<1>5. RowMade(up, m + 1, i)
    BY <1>3 DEF RowMade
<1>6. ASSUME NEW j \in DOMAIN at.files
      PROVE  RowMade(up, m + 1, j)
    <2>1. RowMade(at, m, j)
        BY <1>6 DEF Made
    <2>2. at.files[j].path \in Nat
        BY <2>1 DEF RowMade, Walked, Path
    <2>. QED BY <1>3, <2>1, <2>2 DEF RowMade
<1>7. ASSUME NEW q \in Walked, q <= m + 1
      PROVE  \E j \in DOMAIN up.files : up.files[j].path = q
    <2>1. CASE q = m + 1
        BY <1>3, <2>1
    <2>2. CASE q # m + 1
        <3>1. q \in Nat
            BY DEF Walked, Path
        <3>2. q <= m
            BY <1>7, <2>2, <3>1
        <3>. QED BY <1>3, <3>2 DEF Made
    <2>. QED BY <2>1, <2>2
<1>. QED BY <1>3, <1>4, <1>5, <1>6, <1>7 DEF Made

LEMMA VisitMade ==
    ASSUME NEW at, Shaped(at), NEW m \in Nat, Made(at, m), m + 1 \in Path,
           NEW to, to = Visit(at, m + 1), at.ok = TRUE, to.ok = TRUE
    PROVE  Made(to, m + 1)
<1>. DEFINE p == m + 1
<1>1. CASE p \notin Walked
    <2>1. to = at
        BY <1>1 DEF Visit
    <2>2. ASSUME NEW q \in Walked, q <= p
          PROVE  q <= m
        BY <1>1, <2>2 DEF Walked, Path
    <2>3. \A i \in DOMAIN at.files : RowMade(at, p, i)
        BY DEF Made, RowMade, Walked, Path
    <2>. QED BY <2>1, <2>2, <2>3 DEF Made
<1>2. CASE p \in Present
    <2>1. to = StorePresent(at, p) /\ p \in Walked
        BY <1>2 DEF Visit, Present
    <2>2. CASE KnownAs(at, p) # {}
        <3>1. PICK i : i = LookUp(at, p)
            OBVIOUS
        <3>2. /\ i \in Range(at.minted) /\ at.identity[i].path = p
              /\ FirstAt(at.identity, at.minted, i, p)
            BY <2>2, <3>1, LookUpIsFirst
        <3>3. to = Upsert(at, i, p, "present", disk[p])
            BY <2>1, <2>2, <3>1 DEF StorePresent
        <3>. QED BY <1>2, <2>1, <3>2, <3>3, UpsertMade
    <2>3. CASE KnownAs(at, p) = {}
        <3>1. p \notin Range(at.minted)
            BY <2>1, <2>3 DEF StorePresent, Shaped
        <3>2. PICK new : new = Mint(at, p)
            OBVIOUS
        <3>3. /\ Shaped(new) /\ new.minted = Append(at.minted, p)
              /\ new.identity[p] = [path |-> p, state |-> "current"]
            BY <3>1, <3>2, Minted
        <3>4. p \in Range(new.minted)
            BY <3>3, Appended DEF Shaped
        <3>5. Made(new, m)
            BY <3>1, <3>2, MintMade
        <3>6. FirstAt(new.identity, new.minted, p, p)
            BY <2>3, <3>1, <3>2, MintedIsFirst
        <3>7. to = Upsert(new, p, p, "present", disk[p])
            BY <2>1, <2>3, <3>1, <3>2 DEF StorePresent
        <3>8. new.identity[p].path = p
            BY <3>3
        <3>. QED BY <1>2, <2>1, <3>3, <3>4, <3>5, <3>6, <3>7, <3>8, UpsertMade
    <2>. QED BY <2>2, <2>3
<1>3. CASE p \in Walked /\ p \notin Present
    <2>1. to = StoreExcluded(at, p) /\ policy[p] # "present"
        BY <1>3 DEF Visit, Present
    <2>2. CASE p \in Range(at.minted)
        <3>1. at.identity[p].path = p
            BY <2>1, <2>2 DEF Made, Sided, Shaped
        <3>2. to = Upsert(at, p, p, "excluded", NoFile)
            BY <2>1, <2>2 DEF StoreExcluded
        <3>. QED BY <1>3, <2>2, <3>1, <3>2, UpsertMade
    <2>3. CASE p \notin Range(at.minted)
        <3>1. PICK new : new = Mint(at, p)
            OBVIOUS
        <3>2. /\ Shaped(new) /\ new.minted = Append(at.minted, p)
              /\ new.identity[p] = [path |-> p, state |-> "current"]
            BY <2>3, <3>1, Minted
        <3>3. p \in Range(new.minted)
            BY <3>2, Appended DEF Shaped
        <3>4. Made(new, m)
            BY <2>3, <3>1, MintMade
        <3>5. to = Upsert(new, p, p, "excluded", NoFile)
            BY <2>1, <2>3, <3>1 DEF StoreExcluded
        <3>6. new.identity[p].path = p
            BY <3>2
        <3>. QED BY <1>3, <3>2, <3>3, <3>4, <3>5, <3>6, UpsertMade
    <2>. QED BY <2>2, <2>3
<1>. QED BY <1>1, <1>2, <1>3 DEF Present

(* What a cycle may rely on: while the policy has not changed, every listed *)
(* file is listed at the path of its identity, and one listed as present is *)
(* admitted there and is what a lookup of that path finds.                  *)
IdentityInv ==
    /\ TypeOK
    /\ revision = 0 =>
         /\ Sided(identity)
         /\ \A i \in DOMAIN files :
               /\ files[i].path = identity[i].path
               /\ files[i].presence = "present" =>
                     /\ policy[files[i].path] = "present"
                     /\ FirstAt(identity, minted, i, files[i].path)

LEMMA StartMade ==
    ASSUME IdentityInv, revision = 0
    PROVE  Made(Start, 0)
<1>1. /\ Start.identity = AfterRenames /\ Start.minted = minted
      /\ DOMAIN Start.files = {}
    BY DEF Start
<1>2. /\ identity \in [Range(minted) -> IdentityRow]
      /\ DOMAIN files \subseteq Range(minted)
      /\ minted \in Seq(Path)
      /\ Sided(identity)
    BY DEF IdentityInv, TypeOK
<1>3. \A i \in WasPresent :
          /\ i \in DOMAIN files /\ files[i].path = identity[i].path
          /\ policy[files[i].path] = "present"
          /\ FirstAt(identity, minted, i, files[i].path)
    BY DEF IdentityInv, WasPresent
<1>4. \A i \in Renamed : /\ i \in WasPresent /\ files[i].path \notin Walked
                         /\ NewPath(i) \in Present /\ NewPath(i) \notin PreviousPaths
    BY RenamesMove DEF Disappeared, Appeared
<1>5. /\ DOMAIN AfterRenames = DOMAIN identity
      /\ \A i \in DOMAIN identity :
            AfterRenames[i].path = IF i \in Renamed THEN NewPath(i) ELSE identity[i].path
    BY <1>2 DEF AfterRenames, IdentityRow
<1>6. Sided(AfterRenames)
    <2>1. \A i \in Renamed : policy[i] = "present" /\ policy[NewPath(i)] = "present"
        BY <1>2, <1>3, <1>4 DEF Sided, Present
    <2>. QED BY <1>2, <1>5, <2>1 DEF Sided
<1>7. ASSUME NEW i \in WasPresent, files[i].path \in Present
      PROVE  FirstAt(AfterRenames, minted, i, files[i].path)
    <2>1. PICK n \in DOMAIN minted :
              /\ minted[n] = i
              /\ identity[i].path = files[i].path
              /\ \A m \in DOMAIN minted : identity[minted[m]].path = files[i].path => n <= m
        BY <1>3, <1>7 DEF FirstAt
    <2>2. i \notin Renamed /\ i \in DOMAIN identity
        BY <1>2, <1>3, <1>4, <1>7 DEF Present
    <2>3. AfterRenames[i].path = files[i].path
        BY <1>5, <2>1, <2>2
    <2>4. ASSUME NEW m \in DOMAIN minted, AfterRenames[minted[m]].path = files[i].path
          PROVE  n <= m
        <3>1. minted[m] \in DOMAIN identity
            BY <1>2, RangeIs
        <3>2. files[i].path \in PreviousPaths
            BY <1>7 DEF PreviousPaths
        <3>3. minted[m] \notin Renamed
            BY <1>4, <1>5, <2>4, <3>1, <3>2
        <3>. QED BY <1>5, <2>1, <2>4, <3>1, <3>3
    <2>. QED BY <2>1, <2>3, <2>4 DEF FirstAt
<1>8. \A q \in Walked : ~(q <= 0)
    BY DEF Walked, Path
<1>. QED BY <1>1, <1>6, <1>7, <1>8 DEF Made, Keeps

LEMMA WalkMade ==
    ASSUME IdentityInv, revision = 0
    PROVE  \A p \in 0 .. Paths : Walk[p].ok = TRUE => Made(Walk[p], p)
<1>. DEFINE S == {p \in Nat : p <= Paths /\ Walk[p].ok = TRUE => Made(Walk[p], p)}
<1>t. TypeOK
    BY DEF IdentityInv
<1>1. 0 \in S
    BY StartMade, WalkIs
<1>2. ASSUME NEW m \in Nat, m < Paths, m \in S
      PROVE  m + 1 \in S
    <2>1. PICK at : at = Walk[m]
        OBVIOUS
    <2>2. PICK to : to = Walk[m + 1]
        OBVIOUS
    <2>3. Shaped(at) /\ (at.ok = TRUE => Made(at, m))
        BY <1>t, <1>2, <2>1, WalkShaped
    <2>4. m + 1 \in Path /\ m + 1 - 1 = m
        BY <1>2 DEF Path
    <2>5. to = Visit(at, m + 1)
        BY <2>1, <2>2, <2>4, WalkIs
    <2>6. to.ok = TRUE => at.ok = TRUE
        BY <2>3, <2>5 DEF Visit, Shaped
    <2>7. to.ok = TRUE => Made(to, m + 1)
        BY <2>3, <2>4, <2>5, <2>6, VisitMade
    <2>. QED BY <2>2, <2>7
<1>3. \A p \in 0 .. Paths : p \in S
    BY <1>1, <1>2, Upwards
<1>. QED BY <1>3

-----------------------------------------------------------------------------
(* Cycles.                                                                  *)

(* What a committed cycle leaves.                                           *)
LEMMA Committed ==
    ASSUME TypeOK, Reconcile, Commits
    PROVE  \E at :
             /\ Shaped(at) /\ Admits(at)
             /\ IdentityInv /\ revision = 0 => Made(at, Paths)
             /\ minted' = at.minted /\ files' = at.files
             /\ identity' = WithDeletions(at.identity)
             /\ UNCHANGED <<disk, policy, revision>>
<1>1. PICK at : at = Walk[Paths]
    OBVIOUS
<1>2. Paths \in 0 .. Paths
    OBVIOUS
<1>3. Shaped(at) /\ Admits(at) /\ (IdentityInv /\ revision = 0 /\ at.ok = TRUE => Made(at, Paths))
    BY <1>1, <1>2, WalkShaped, WalkAdmits, WalkMade
<1>4. at = Indexed
    BY <1>1 DEF Indexed
<1>5. at.ok = TRUE
    BY <1>3, <1>4 DEF Reconcile, Commits, Shaped
<1>. QED BY <1>3, <1>4, <1>5 DEF Reconcile

LEMMA Recorded ==
    ASSUME NEW at, Shaped(at)
    PROVE  /\ WithDeletions(at.identity) \in [Range(at.minted) -> IdentityRow]
           /\ \A i \in Range(at.minted) : WithDeletions(at.identity)[i].path = at.identity[i].path
BY DEF Shaped, WithDeletions, IdentityRow

LEMMA FirstOfSamePaths ==
    ASSUME NEW ids, NEW new, NEW order \in Seq(Path), NEW i, NEW p, FirstAt(ids, order, i, p),
           \A j \in Range(order) : new[j].path = ids[j].path
    PROVE  FirstAt(new, order, i, p)
BY RangeIs DEF FirstAt

LEMMA InvNext ==
    ASSUME IdentityInv, Next
    PROVE  IdentityInv'
<1>t. TypeOK
    BY DEF IdentityInv
<1>1. ASSUME Reconcile, Commits
      PROVE  IdentityInv'
    <2>1. PICK at :
             /\ Shaped(at) /\ Admits(at)
             /\ IdentityInv /\ revision = 0 => Made(at, Paths)
             /\ minted' = at.minted /\ files' = at.files
             /\ identity' = WithDeletions(at.identity)
             /\ UNCHANGED <<disk, policy, revision>>
        BY <1>t, <1>1, Committed
    <2>2. PICK ids : ids = WithDeletions(at.identity)
        OBVIOUS
    <2>3. /\ ids \in [Range(at.minted) -> IdentityRow]
          /\ \A i \in Range(at.minted) : ids[i].path = at.identity[i].path
        BY <2>1, <2>2, Recorded
    <2>4. TypeOK'
        BY <1>t, <1>1, <2>1, <2>2, <2>3 DEF TypeOK, Shaped, Commits
    <2>5. ASSUME revision = 0
          PROVE  /\ \A i \in DOMAIN ids :
                       IF policy[i] = "present" THEN policy[ids[i].path] = "present"
                       ELSE ids[i].path = i
                 /\ \A i \in DOMAIN at.files :
                       /\ at.files[i].path = ids[i].path
                       /\ at.files[i].presence = "present" =>
                             /\ policy[at.files[i].path] = "present"
                             /\ FirstAt(ids, at.minted, i, at.files[i].path)
        <3>1. Made(at, Paths)
            BY <2>1, <2>5
        <3>2. DOMAIN at.identity = Range(at.minted) /\ DOMAIN at.files \subseteq Range(at.minted)
              /\ at.minted \in Seq(Path)
            BY <2>1 DEF Shaped
        <3>3. \A i \in DOMAIN ids :
                  IF policy[i] = "present" THEN policy[ids[i].path] = "present" ELSE ids[i].path = i
            BY <2>3, <3>1, <3>2 DEF Made, Sided
        <3>4. ASSUME NEW i \in DOMAIN at.files
              PROVE  /\ at.files[i].path = ids[i].path
                     /\ at.files[i].presence = "present" =>
                          /\ policy[at.files[i].path] = "present"
                          /\ FirstAt(ids, at.minted, i, at.files[i].path)
            <4>1. RowMade(at, Paths, i)
                BY <3>1 DEF Made
            <4>2. at.files[i].path = ids[i].path
                BY <2>3, <3>2, <4>1 DEF RowMade
            <4>3. ASSUME at.files[i].presence = "present"
                  PROVE  /\ policy[at.files[i].path] = "present"
                         /\ FirstAt(at.identity, at.minted, i, at.files[i].path)
                BY <4>1, <4>3 DEF RowMade, Present
            <4>. QED BY <2>3, <3>2, <4>2, <4>3, FirstOfSamePaths
        <3>. QED BY <3>3, <3>4
    <2>. QED BY <2>1, <2>2, <2>4, <2>5 DEF IdentityInv, Sided
<1>2. CASE ~ (Reconcile /\ Commits) /\ Reconcile
    <2>1. UNCHANGED <<disk, policy, revision, tables>> /\ outcome' = "error"
        BY <1>2 DEF Reconcile, Commits
    <2>. QED BY <2>1 DEF IdentityInv, TypeOK, tables, Sided
<1>3. CASE EditFile
    <2>1. disk' \in [Path -> Hash \cup {NoFile}]
        BY <1>t, <1>3 DEF EditFile, TypeOK
    <2>. QED BY <1>3, <2>1 DEF EditFile, IdentityInv, TypeOK, tables, Sided
<1>4. CASE ChangePolicy
    <2>1. policy' \in [Path -> Verdict] /\ revision' \in 0 .. MaxRevisions /\ revision' # 0
        BY <1>t, <1>4 DEF ChangePolicy, TypeOK
    <2>. QED BY <1>4, <2>1 DEF ChangePolicy, IdentityInv, TypeOK, tables
<1>. QED BY <1>1, <1>2, <1>3, <1>4 DEF Next

(* However the tree is edited between cycles, a row and its identity agree  *)
(* on the path as long as the policy stays (discovery.rs, reconcile).       *)
THEOREM IdentityHolds == ASSUME FileIdentityAssumption PROVE Spec => []IdentityInv
<1>1. ASSUME Init PROVE IdentityInv
    BY <1>1 DEF Init, IdentityInv, TypeOK, Sided, Range
<1>2. ASSUME IdentityInv, [Next]_vars PROVE IdentityInv'
    <2>1. CASE UNCHANGED vars
        BY <1>2, <2>1 DEF vars, tables, IdentityInv, TypeOK, Sided
    <2>. QED BY <1>2, <2>1, InvNext
<1>. QED BY <1>1, <1>2, PTL DEF Spec

(* The tables keep their types, whatever the tree and the policy become     *)
(* (discovery.rs, reconcile; lifecycle.rs).                                 *)
THEOREM IdentityTyped == ASSUME FileIdentityAssumption PROVE Spec => []TypeOK
<1>1. IdentityInv => TypeOK
    BY DEF IdentityInv
<1>. QED BY <1>1, IdentityHolds, PTL

LEMMA OnlyCyclesCommit ==
    ASSUME Next, Commits
    PROVE  Reconcile
BY DEF Next, Commits, EditFile, ChangePolicy

(* The listed contents are those of admitted files, also when the policy    *)
(* has just changed: what an earlier cycle listed is listed again only      *)
(* where the walk stored it again (discovery.rs:17).                        *)
THEOREM AdmittedOnly == ASSUME FileIdentityAssumption PROVE Spec => OnlyAdmittedContent
<1>1. ASSUME IdentityInv, Next, Commits
      PROVE  \A i \in DOMAIN files' :
                 files'[i].hash # NoFile => \E p \in Present : disk[p] = files'[i].hash
    <2>1. TypeOK /\ Reconcile
        BY <1>1, OnlyCyclesCommit DEF IdentityInv
    <2>2. PICK at : Admits(at) /\ files' = at.files
        BY <1>1, <2>1, Committed
    <2>. QED BY <2>2 DEF Admits
<1>2. ASSUME IdentityInv, [Next]_vars
      PROVE  [Commits =>
                \A i \in DOMAIN files' :
                    files'[i].hash # NoFile => \E p \in Present : disk[p] = files'[i].hash]_vars
    BY <1>1, <1>2
<1>. QED BY <1>2, IdentityHolds, PTL DEF Spec, OnlyAdmittedContent

(* What a cycle under the first policy has at hand.                         *)
LEMMA CycleMade ==
    ASSUME IdentityInv, Next, OnePolicy, Commits
    PROVE  \E at : Shaped(at) /\ Made(at, Paths) /\ files' = at.files
<1>1. TypeOK /\ Reconcile
    BY OnlyCyclesCommit DEF IdentityInv
<1>2. revision = 0
    BY <1>1 DEF Reconcile, OnePolicy
<1>. QED BY <1>1, <1>2, Committed

(* A committed cycle lists every admitted file once, at its path and with   *)
(* its hash, and nothing else as present (discovery.rs:4).                  *)
THEOREM MatchesDisk == ASSUME FileIdentityAssumption PROVE Spec => IndexMatchesDisk
<1>1. ASSUME IdentityInv, Next, OnePolicy, Commits
      PROVE  {<<files'[i].path, files'[i].hash>> : i \in ListedPresent'}
               = {<<p, disk[p]>> : p \in Present}
    <2>1. PICK at : Shaped(at) /\ Made(at, Paths) /\ files' = at.files
        BY <1>1, CycleMade
    <2>2. \A i \in ListedPresent' :
              files'[i].path \in Present /\ files'[i].hash = disk[files'[i].path]
        BY <2>1 DEF ListedPresent, Made, RowMade
    <2>3. ASSUME NEW p \in Present
          PROVE  \E i \in ListedPresent' : files'[i].path = p /\ files'[i].hash = disk[p]
        <3>1. p \in Walked /\ p <= Paths
            BY DEF Present, Walked, Path
        <3>2. PICK i \in DOMAIN at.files : at.files[i].path = p
            BY <2>1, <3>1 DEF Made
        <3>3. RowMade(at, Paths, i)
            BY <2>1 DEF Made
        <3>. QED BY <2>1, <2>3, <3>2, <3>3 DEF ListedPresent, RowMade
    <2>. QED BY <2>2, <2>3
<1>2. ASSUME IdentityInv, [Next]_vars
      PROVE  [OnePolicy /\ Commits =>
                {<<files'[i].path, files'[i].hash>> : i \in ListedPresent'}
                  = {<<p, disk[p]>> : p \in Present}]_vars
    BY <1>1, <1>2
<1>. QED BY <1>2, IdentityHolds, PTL DEF Spec, IndexMatchesDisk

(* A file that stays admitted at its path keeps its id, whatever else is    *)
(* renamed, deleted or restored around it (discovery.rs:746).               *)
THEOREM IdentityStable == ASSUME FileIdentityAssumption PROVE Spec => IdentityIsStable
<1>1. ASSUME IdentityInv, Next, OnePolicy, Commits,
             NEW i \in WasPresent, files[i].path \in Present
      PROVE  i \in DOMAIN files' /\ files'[i].path = files[i].path
    <2>1. PICK at : Shaped(at) /\ Made(at, Paths) /\ files' = at.files
        BY <1>1, CycleMade
    <2>2. FirstAt(at.identity, at.minted, i, files[i].path)
        BY <1>1, <2>1 DEF Made, Keeps
    <2>3. files[i].path \in Walked /\ files[i].path <= Paths
        BY <1>1 DEF Present, Walked, Path
    <2>4. PICK j \in DOMAIN at.files : at.files[j].path = files[i].path
        BY <2>1, <2>3 DEF Made
    <2>5. FirstAt(at.identity, at.minted, j, files[i].path)
        BY <1>1, <2>1, <2>4 DEF Made, RowMade
    <2>6. at.minted \in Seq(Path)
        BY <2>1 DEF Shaped
    <2>7. i = j
        BY <2>2, <2>5, <2>6, FirstIsOne
    <2>. QED BY <2>1, <2>4, <2>7
<1>2. ASSUME IdentityInv, [Next]_vars
      PROVE  [OnePolicy /\ Commits =>
                \A i \in WasPresent :
                    files[i].path \in Present =>
                        i \in DOMAIN files' /\ files'[i].path = files[i].path]_vars
    BY <1>1, <1>2
<1>. QED BY <1>2, IdentityHolds, PTL DEF Spec, IdentityIsStable

(* What is recorded as deleted is gone from disk, and what the walk meets   *)
(* and does not admit is recorded as excluded (discovery.rs:15, 1010).      *)
THEOREM AbsenceRecorded == ASSUME FileIdentityAssumption PROVE Spec => AbsenceIsRecorded
<1>1. ASSUME IdentityInv, Next, OnePolicy, Commits
      PROVE  /\ \A i \in Deleted : disk[files[i].path] = NoFile
             /\ \A p \in Walked \ Present :
                   \E i \in DOMAIN files' :
                       files'[i].path = p /\ files'[i].presence = "excluded"
    <2>1. PICK at : Shaped(at) /\ Made(at, Paths) /\ files' = at.files
        BY <1>1, CycleMade
    <2>2. revision = 0
        BY <1>1, OnlyCyclesCommit DEF Reconcile, OnePolicy
    <2>3. ASSUME NEW i \in Deleted
          PROVE  disk[files[i].path] = NoFile
        <3>1. i \in WasPresent /\ files[i].path \notin Walked
            BY DEF Deleted, Disappeared
        <3>2. files[i].path \in Path
            BY <1>1, <3>1 DEF IdentityInv, TypeOK, WasPresent, FileRow
        <3>3. policy[files[i].path] = "present"
            BY <1>1, <2>2, <3>1 DEF IdentityInv, WasPresent
        <3>. QED BY <3>1, <3>2, <3>3 DEF Walked
    <2>4. ASSUME NEW p \in Walked \ Present
          PROVE  \E i \in DOMAIN files' : files'[i].path = p /\ files'[i].presence = "excluded"
        <3>1. p <= Paths
            BY DEF Walked, Path
        <3>2. PICK i \in DOMAIN at.files : at.files[i].path = p
            BY <2>1, <3>1 DEF Made
        <3>3. RowMade(at, Paths, i)
            BY <2>1 DEF Made
        <3>. QED BY <2>1, <3>2, <3>3 DEF RowMade
    <2>. QED BY <2>3, <2>4
<1>2. ASSUME IdentityInv, [Next]_vars
      PROVE  [OnePolicy /\ Commits =>
                /\ \A i \in Deleted : disk[files[i].path] = NoFile
                /\ \A p \in Walked \ Present :
                      \E i \in DOMAIN files' :
                          files'[i].path = p /\ files'[i].presence = "excluded"]_vars
    BY <1>1, <1>2
<1>. QED BY <1>2, IdentityHolds, PTL DEF Spec, AbsenceIsRecorded

=============================================================================
