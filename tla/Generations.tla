---------------------------- MODULE Generations ----------------------------
(* The generations of a workspace (table index_generation) and the pointer  *)
(* workspace.active_generation_id.  A generation id is a hash of its        *)
(* sequence number, so the number is the id; rows are never deleted, so the *)
(* table is a sequence.  Each operator is one SQLite transaction.           *)
(*                                                                          *)
(* What a generation says about files is abstracted to the version of the   *)
(* source tree its rows were computed from; 0 stands for NULL or "no rows". *)
EXTENDS Naturals, Sequences

VARIABLES
    gens,           \* sequence number -> the generation's row
    active          \* the active generation's number, 0 for NULL

genVars == <<gens, active>>

GenerationState == {"candidate", "committed", "failed", "abandoned"}

(* files is the tree version of the persisted generation_file rows, base    *)
(* the active generation their renames and deletions were computed against, *)
(* tree the version whose source_tree_hash was recorded.                    *)
Generation == [state : GenerationState, parent : Nat,
               files : Nat, base : Nat, tree : Nat]

GenTypeOK ==
    /\ gens \in Seq(Generation)
    /\ active \in 0 .. Len(gens)

GenInit ==
    /\ gens = << >>
    /\ active = 0

InState(st) == {g \in DOMAIN gens : gens[g].state = st}

Committed == InState("committed")

-----------------------------------------------------------------------------

(* Mutants: the latest generation in any state; activation before the tree  *)
(* hash is known, or of the wrong number; a close that does not look at the *)
(* state.                                                                   *)
MutAnyIsLatestCommitted(g) == g = Len(gens)

MutNoHashCommitCandidate(g, version) ==
    /\ gens[g].state = "candidate"
    /\ gens' = [gens EXCEPT ![g].state = "committed"]
    /\ active' = g

MutNextCommitCandidate(g, version) ==
    /\ gens[g].state = "candidate"
    /\ gens' = [gens EXCEPT ![g].state = "committed", ![g].tree = version]
    /\ active' = g + 1

MutAnyCloseCandidate(g, st) ==
    /\ gens' = [gens EXCEPT ![g].state = st]
    /\ UNCHANGED active

(* ORDER BY sequence_no DESC LIMIT 1 over the committed generations.        *)
IsLatestCommitted(g) ==
    /\ g \in Committed \cup {0}
    /\ \A h \in Committed : h <= g

(* The INSERT of begin_candidate.  Parent and sequence number were read     *)
(* before, outside the transaction; a number taken meanwhile breaks the     *)
(* table's UNIQUE(workspace_id, sequence_no).                               *)
InsertCandidate(seq, par) ==
    /\ seq = Len(gens) + 1
    /\ gens' = Append(gens, [state |-> "candidate", parent |-> par,
                             files |-> 0, base |-> 0, tree |-> 0])
    /\ UNCHANGED active

(* The transaction of reconcile's phases B to D: the previous files are     *)
(* those of the generation active now, and the candidate's state is not     *)
(* looked at.                                                               *)
PersistFiles(g, version) ==
    /\ gens' = [gens EXCEPT ![g].files = version, ![g].base = active]
    /\ UNCHANGED active

(* activate_candidate, without the sessions it reconciles.                  *)
CommitCandidate(g, version) ==
    /\ gens[g].state = "candidate"
    /\ gens' = [gens EXCEPT ![g].state = "committed", ![g].tree = version]
    /\ active' = g

(* fail_candidate and abandon_candidate.                                    *)
CloseCandidate(g, st) ==
    /\ gens[g].state = "candidate"
    /\ gens' = [gens EXCEPT ![g].state = st]
    /\ UNCHANGED active

=============================================================================
