---------------------------- MODULE FileIdentity ----------------------------
(* The identity of files across reconcile cycles: tables file_identity and  *)
(* generation_file, and the phases of discovery::reconcile and lifecycle.rs *)
(* that compute the next generation's files from the tree on disk and from  *)
(* the active generation's.  One cycle is one action: its transaction holds *)
(* SQLite's write lock, and a cycle that fails rolls back.                  *)
(*                                                                          *)
(* A file id is a hash of the path the identity was first seen at, so that  *)
(* path is the id.  Paths are numbers because the walk is sorted; a content *)
(* hash is a member of Hash.                                                *)
EXTENDS Naturals, Sequences, FiniteSets, Functions

CONSTANTS
    Paths,          \* how many paths there are: 1 .. Paths
    Hash,           \* content hashes
    NoFile,         \* a path with nothing on disk
    MaxRevisions    \* bound: how often the exclusion policy changes

ASSUME FileIdentityAssumption ==
    /\ Paths \in Nat \ {0}
    /\ NoFile \notin Hash
    /\ MaxRevisions \in Nat

Path == 1 .. Paths

VARIABLES
    disk,           \* path -> the hash of the file there, or NoFile
    policy,         \* path -> what the configuration makes of it
    revision,       \* how often the policy has changed
    identity,       \* file id -> its row, over the ids minted so far
    minted,         \* file ids in the order their rows were inserted
    files,          \* file id -> its row in the active generation
    outcome         \* how the cycle just run ended; "none" after any other step

tables == <<identity, minted, files>>
vars == <<disk, policy, revision, tables, outcome>>

(* "pruned": under a directory the walk does not enter.                     *)
Verdict == {"present", "excluded", "pruned"}

IdentityRow == [path : Path, state : {"current", "deleted"}]

FileRow == [path : Path, presence : {"present", "excluded"}, hash : Hash \cup {NoFile}]

TypeOK ==
    /\ disk \in [Path -> Hash \cup {NoFile}]
    /\ policy \in [Path -> Verdict]
    /\ revision \in 0 .. MaxRevisions
    /\ minted \in Seq(Path)
    /\ identity \in [Range(minted) -> IdentityRow]
    /\ files \in [DOMAIN files -> FileRow]
    /\ DOMAIN files \subseteq Range(minted)
    /\ outcome \in {"none", "committed", "error"}

Init ==
    /\ disk \in [Path -> Hash \cup {NoFile}]
    /\ policy \in [Path -> Verdict]
    /\ revision = 0
    /\ identity = << >>
    /\ minted = << >>
    /\ files = << >>
    /\ outcome = "none"

-----------------------------------------------------------------------------
(* Phase A and the snapshot of the previous generation.                     *)

Walked == {p \in Path : disk[p] # NoFile /\ policy[p] # "pruned"}

Present == {p \in Walked : policy[p] = "present"}

(* snapshot_previous_present: the ids of files present so far, and the      *)
(* paths they were listed at.                                               *)
WasPresent == {i \in DOMAIN files : files[i].presence = "present"}

PreviousPaths == {files[i].path : i \in WasPresent}

(* Mutant: a listed path may still be where a rename goes.                  *)
MutListedAppeared == Present

Disappeared == {i \in WasPresent : files[i].path \notin Walked}

Appeared == Present \ PreviousPaths

(* detect_renames: an id moved to a path if theirs is the only such pair.   *)
Renames ==
    {r \in Disappeared \X Appeared :
        /\ {j \in Disappeared : files[j].hash = files[r[1]].hash} = {r[1]}
        /\ {m \in Appeared : disk[m] = files[r[1]].hash} = {r[2]}}

Renamed == {r[1] : r \in Renames}

NewPath(i) == (CHOOSE r \in Renames : r[1] = i)[2]

(* record_rename, for every rename.                                         *)
AfterRenames ==
    [i \in DOMAIN identity |->
        IF i \in Renamed THEN [identity[i] EXCEPT !.path = NewPath(i)] ELSE identity[i]]

-----------------------------------------------------------------------------
(* Phase C, one walked path after the other in sorted order.  The progress  *)
(* of the loop is a record: the tables so far and whether it is still going. *)

(* SELECT file_id ... WHERE last_known_path = p: of several rows the index  *)
(* gives the one inserted first.                                            *)
KnownAs(at, p) == {n \in DOMAIN at.minted : at.identity[at.minted[n]].path = p}

LookUp(at, p) ==
    at.minted[CHOOSE n \in KnownAs(at, p) : \A m \in KnownAs(at, p) : n <= m]

Mint(at, p) ==
    [at EXCEPT !.minted = Append(@, p),
               !.identity = [i \in DOMAIN @ \cup {p} |->
                   IF i = p THEN [path |-> p, state |-> "current"] ELSE @[i]]]

(* INSERT INTO generation_file ... ON CONFLICT(generation_id, file_id) DO   *)
(* UPDATE: a conflict keeps the path the row already has.                   *)
Upsert(at, i, p, presence, hash) ==
    LET old == at.files
        row ==
            IF i \in DOMAIN old
            THEN [path |-> old[i].path, presence |-> presence,
                  hash |-> IF presence = "present" THEN hash ELSE old[i].hash]
            ELSE [path |-> p, presence |-> presence, hash |-> hash]
    IN  [at EXCEPT !.files = [j \in DOMAIN old \cup {i} |-> IF j = i THEN row ELSE old[j]]]

(* Mutant: the identity is inserted with INSERT OR IGNORE.                  *)
MutIgnoreStorePresent(at, p) ==
    IF KnownAs(at, p) # {} THEN Upsert(at, LookUp(at, p), p, "present", disk[p])
    ELSE IF p \in Range(at.minted) THEN Upsert(at, p, p, "present", disk[p])
    ELSE Upsert(Mint(at, p), p, p, "present", disk[p])

(* ensure_file_id_for_present: the identity last known at p, or a new one   *)
(* whose id is p; an id that is taken breaks the primary key.               *)
StorePresent(at, p) ==
    IF KnownAs(at, p) # {} THEN Upsert(at, LookUp(at, p), p, "present", disk[p])
    ELSE IF p \in Range(at.minted) THEN [at EXCEPT !.ok = FALSE]
    ELSE Upsert(Mint(at, p), p, p, "present", disk[p])

(* Mutant: an excluded file's content is hashed.                            *)
MutHashedStoreExcluded(at, p) ==
    Upsert(IF p \in Range(at.minted) THEN at ELSE Mint(at, p), p, p, "excluded", disk[p])

(* Mutant: a path that has an identity is taken for recorded.               *)
MutOnceStoreExcluded(at, p) ==
    IF p \in Range(at.minted) THEN at
    ELSE Upsert(Mint(at, p), p, p, "excluded", NoFile)

(* The excluded branches: INSERT OR IGNORE of the identity named p.         *)
StoreExcluded(at, p) ==
    Upsert(IF p \in Range(at.minted) THEN at ELSE Mint(at, p), p, p, "excluded", NoFile)

Visit(at, p) ==
    IF ~ at.ok \/ p \notin Walked THEN at
    ELSE IF p \in Present THEN StorePresent(at, p)
    ELSE StoreExcluded(at, p)

Walk[p \in 0 .. Paths] ==
    IF p = 0
    THEN [identity |-> AfterRenames, minted |-> minted, files |-> << >>, ok |-> TRUE]
    ELSE Visit(Walk[p - 1], p)

Indexed == Walk[Paths]

(* Phase D, record_deletions.                                               *)
Deleted == Disappeared \ Renamed

WithDeletions(ids) ==
    [i \in DOMAIN ids |->
        IF i \in Deleted THEN [ids[i] EXCEPT !.state = "deleted"] ELSE ids[i]]

-----------------------------------------------------------------------------

Reconcile ==
    LET result == Indexed IN
    /\ IF result.ok
       THEN /\ identity' = WithDeletions(result.identity)
            /\ minted' = result.minted
            /\ files' = result.files
            /\ outcome' = "committed"
       ELSE /\ outcome' = "error"
            /\ UNCHANGED tables
    /\ UNCHANGED <<disk, policy, revision>>

(* What happens to the tree and to the configuration between cycles; a move *)
(* is the removal and the appearance of a file.                             *)
EditFile ==
    /\ \E p \in Path, h \in Hash \cup {NoFile} : disk' = [disk EXCEPT ![p] = h]
    /\ outcome' = "none"
    /\ UNCHANGED <<policy, revision, tables>>

ChangePolicy ==
    /\ revision < MaxRevisions
    /\ revision' = revision + 1
    /\ \E p \in Path, v \in Verdict : policy' = [policy EXCEPT ![p] = v]
    /\ outcome' = "none"
    /\ UNCHANGED <<disk, tables>>

Next == Reconcile \/ EditFile \/ ChangePolicy

Spec == Init /\ [][Next]_vars

-----------------------------------------------------------------------------
(* Properties.                                                              *)

(* Only a cycle that succeeds sets the outcome so.                          *)
Commits == outcome' = "committed"

(* All cycles so far, this one included, ran under one policy.              *)
OnePolicy == revision' = 0

ListedPresent == {i \in DOMAIN files : files[i].presence = "present"}

(* The index that a cycle commits lists as present exactly the files on     *)
(* disk that the policy admits, at their paths, with their hashes           *)
(* (discovery.rs:4, reconcile), while the policy stays what it is.          *)
IndexMatchesDisk ==
    [][OnePolicy /\ Commits =>
        {<<files'[i].path, files'[i].hash>> : i \in ListedPresent'}
          = {<<p, disk[p]>> : p \in Present}]_vars

(* A file that stays at its path, admitted before and after, keeps its id,  *)
(* whatever renames, deletions and returns surround it.                     *)
IdentityIsStable ==
    [][OnePolicy /\ Commits =>
        \A i \in WasPresent :
            files[i].path \in Present =>
                i \in DOMAIN files' /\ files'[i].path = files[i].path]_vars

(* discovery.rs:17 ("no bytes read"): the only contents a generation points *)
(* to are those of files that the policy admits in this very cycle.         *)
OnlyAdmittedContent ==
    [][Commits =>
        \A i \in DOMAIN files' :
            files'[i].hash # NoFile => \E p \in Present : disk[p] = files'[i].hash]_vars

(* While the policy stays what it is, a path recorded as deleted is gone    *)
(* from disk (discovery.rs:1010), and an excluded path that is walked is    *)
(* recorded as excluded, cycle after cycle (discovery.rs:15).               *)
AbsenceIsRecorded ==
    [][OnePolicy /\ Commits =>
        /\ \A i \in Deleted : disk[files[i].path] = NoFile
        /\ \A p \in Walked \ Present :
              \E i \in DOMAIN files' :
                  files'[i].path = p /\ files'[i].presence = "excluded"]_vars

(* No sequence of legal edits leads to a tree that cannot be reconciled.    *)
CycleNeverErrs == outcome # "error"

=============================================================================
