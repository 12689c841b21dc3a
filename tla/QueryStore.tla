----------------------------- MODULE QueryStore -----------------------------
(* What queries read while reconciles go on: generations with their files,  *)
(* the symbol and relationship rows of file revisions, the active           *)
(* generation, and the tree.  No query opens a transaction: each statement  *)
(* sees the catalogue of its own moment, and current_file lists the active  *)
(* generation only.                                                         *)
EXTENDS Integers, Sequences, FiniteSets, SequencesExt, FiniteSetsExt, Functions

CONSTANTS
    Path, Content,  \* canonical paths and contents (0: no such file), numbers
    Stores,         \* the catalogues a behaviour may be about
    MaxWrites       \* bound: edits of the tree

VARIABLES
    store,      \* every row the reconciles of this behaviour write
    committed,  \* reconcile transactions committed so far, each with its generation
    candidates, \* committed generations that may still be activated
    current,    \* the active one, 0 before the first
    disk,       \* path -> [text, ino, stamp], by the edits that made file and text
    written,    \* edits so far
    held        \* path -> contents it held since the running call began

catalogueVars == <<store, committed, candidates, current>>
worldVars == <<catalogueVars, disk, written, held>>

NoFile == 0

(* symbol_fact rows in the order of their places, and relationship_fact     *)
(* rows: each hung on the revision of a path with a text, and written by    *)
(* the commit-th reconcile.                                                 *)
(* "to" is what the extractor wrote, of a kind; only semantic rows have the *)
(* key their resolution row names (structural: 0), in the generations that  *)
(* resolved them.  A source that is no path is a symbol.                    *)
SymbolRow == [path : Path, text : Content, name : Nat, semantic : BOOLEAN, commit : Nat]
RelationRow ==
    [path : Path, text : Content, from : Nat, to : Nat, target : {"path", "symbol", "external"},
     kind : {"calls", "imports", "references"}, key : Nat, resolvedIn : SUBSET Nat, commit : Nat]

(* files: the file list of each generation, in the order of their commits.  *)
Catalogues ==
    [files : Seq([Path -> Content \cup {NoFile}]), symbols : Seq(SymbolRow), rels : Seq(RelationRow)]

(* A row's revision is the one the generation lists.                        *)
OfGeneration(s, g, r) == s.files[g][r.path] = r.text

(* The resolution pass judges the rows its own generation sees.             *)
ResolvedAtCommit(s) ==
    \A i \in DOMAIN s.rels : \A g \in DOMAIN s.files :
        g \in s.rels[i].resolvedIn => OfGeneration(s, g, s.rels[i]) /\ s.rels[i].commit <= g

ASSUME QueryStoreAssumption ==
    /\ Path \subseteq Nat \ {0} /\ IsFiniteSet(Path)
    /\ Content \subseteq Nat \ {0} /\ IsFiniteSet(Content)
    /\ \A s \in Stores : s \in Catalogues /\ s.files # <<>> /\ ResolvedAtCommit(s)
    /\ MaxWrites \in Nat

(* Rows a statement can see now.                                            *)
Stored(r) == r.commit <= committed

(* Joined with current_file of generation g: nothing once g is superseded.  *)
Current(g, r) == g = current /\ current # 0 /\ Stored(r) /\ OfGeneration(store, g, r)
CurrentPaths(g) == IF g = current /\ current # 0 THEN {p \in Path : store.files[g][p] # NoFile} ELSE {}

IndexTypeOK ==
    /\ committed \in 0 .. Len(store.files)
    /\ candidates \subseteq 1 .. committed
    /\ current \in 0 .. committed
    /\ disk \in [Path -> [text : Content \cup {NoFile}, ino : Nat, stamp : Nat]]
    /\ written \in 0 .. MaxWrites
    /\ held \in [Path -> SUBSET (Content \cup {NoFile})]

IndexInit ==
    /\ store \in Stores
    /\ current \in {0, 1} /\ committed = current /\ candidates = {}
    /\ disk = [p \in Path |-> [text |-> store.files[1][p], ino |-> 0, stamp |-> 0]]
    /\ written = 0
    /\ held = [p \in Path |-> {disk[p].text}]

(* A reconcile commits its generation with the facts it found, also those   *)
(* of revisions that the active generation lists.                           *)
CommitFacts ==
    /\ committed < Len(store.files)
    /\ committed' = committed + 1 /\ candidates' = candidates \cup {committed + 1}
    /\ UNCHANGED <<store, current, disk, written, held>>

(* It activates the generation, once; a failed one stays a candidate.  A    *)
(* reconcile that outlived its lease may come after a later one.            *)
ActivateNext ==
    /\ \E g \in candidates : current' = g /\ candidates' = candidates \ {g}
    /\ UNCHANGED <<store, committed, disk, written, held>>

(* A file is written in place, replaced by another, or removed.             *)
EditTree ==
    /\ written < MaxWrites
    /\ \E p \in Path : \E t \in (Content \cup {NoFile}) \ {disk[p].text} : \E inPlace \in BOOLEAN :
         /\ inPlace => t # NoFile /\ disk[p].text # NoFile
         /\ disk' = [disk EXCEPT ![p] = [text |-> t, stamp |-> written + 1,
                                         ino |-> IF inPlace THEN @.ino ELSE written + 1]]
         /\ held' = [held EXCEPT ![p] = @ \cup {t}]
    /\ written' = written + 1
    /\ UNCHANGED catalogueVars

(* A call begins: the contents held from here on are those of now.          *)
Watch == held' = [p \in Path |-> {disk[p].text}]
=============================================================================
