--------------------------- MODULE MCWorkspaceSetup ---------------------------
EXTENDS WorkspaceSetup, TLC

MCHome(r, n) == [root |-> r, name |-> n]

(* No catalogue; one that version 3 left, complete and without a locator    *)
(* or a registered configuration.                                           *)
MCBefore ==
    { <<>>,
      MCHome("r1", "n1") :> [exists |-> TRUE, version |-> 3, rows |-> 1..3, sums |-> 1..3,
                             spaces |-> {[root |-> "r1", name |-> "n1",
                                          config |-> [name |-> "n1", policy |-> "a"]]}] }
=============================================================================
