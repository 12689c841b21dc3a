---------------------------- MODULE MCCatalogue ----------------------------
(* Finite instances of Catalogue for TLC.                                   *)
EXTENDS Catalogue, TLC

(* Sessions of one task, startable from either of the first generations.    *)
CONSTANT Task

TaskSession == [task : Task, start : {1, 2}]

(* Processes that run the same command are interchangeable.                 *)
Interchangeable ==
    Permutations(Reconciler) \cup Permutations(Doctor) \cup Permutations(Client)

=============================================================================
