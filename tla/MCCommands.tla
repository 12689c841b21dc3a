------------------------------ MODULE MCCommands ------------------------------
(* Three families of commands, checked in one run: a behaviour is about the  *)
(* records of task sessions, the set-up of a workspace, or the runs of the   *)
(* context governor, and the other two models stay in an initial state; they *)
(* share no variable.                                                        *)
EXTENDS MCTaskRecords, WorkspaceSetup, ContextGovernor

VARIABLE focus   \* the model a behaviour is about

-----------------------------------------------------------------------------
(* The set-up of workspaces: no catalogue; one that version 3 left, complete *)
(* and without a locator or a registered configuration.                      *)
LeftBefore ==
    { <<>>,
      [root |-> "r1", name |-> "n1"] :>
          [exists |-> TRUE, version |-> 3, rows |-> 1..3, sums |-> 1..3,
           spaces |-> {[root |-> "r1", name |-> "n1",
                        config |-> [name |-> "n1", policy |-> "a"]]}] }

-----------------------------------------------------------------------------
(* The governor: "plain" has all its evidence, "busy" too many rows, "twin"  *)
(* two owners, "disputed" conflicts. The second generation has what the      *)
(* first lacks, and the other way round.                                     *)
TargetRows(matches, rels, ok, bad, full, part, semantic, covering, text) ==
    [matches |-> matches, rels |-> rels, ok |-> ok, bad |-> bad, full |-> full,
     part |-> part, semantic |-> semantic, covering |-> covering, text |-> text]

TwoGenerations == <<
    ("plain"    :> TargetRows(1, 2, 1, 0, 1, 0, 0, 0, 1)) @@
    ("busy"     :> TargetRows(1, 3, 1, 1, 1, 1, 0, 0, 1)) @@
    ("twin"     :> TargetRows(2, 1, 1, 0, 1, 0, 0, 0, 1)) @@
    ("disputed" :> TargetRows(1, 1, 3, 0, 1, 0, 1, 1, 1)),
    ("plain"    :> TargetRows(0, 0, 0, 0, 0, 0, 0, 0, 2)) @@
    ("busy"     :> TargetRows(1, 1, 1, 0, 1, 0, 0, 0, 2)) @@
    ("twin"     :> TargetRows(1, 1, 1, 0, 1, 0, 0, 0, 1)) @@
    ("disputed" :> TargetRows(1, 1, 1, 0, 1, 0, 0, 0, 1)) >>

Asks == {"identity", "source", "relationships", "impact", "coverage", "closure"}

Wanted(n) == UNION { [cs -> BOOLEAN] : cs \in {s \in SUBSET Asks : Cardinality(s) <= n} }

(* Up to two capabilities over up to two targets without a session, one of  *)
(* each with one.                                                           *)
SmallRequests ==
    LET routes == [floor : 0 .. 2, ceiling : 0 .. 2]
        named == {{}, {"plain"}, {"busy"}, {"twin"}, {"disputed"}, {"plain", "disputed"}, {"busy", "twin"}}
        make(r, intent, cs, seeds, b) ==
            [intent |-> intent, floor |-> r.floor, ceiling |-> r.ceiling, caps |-> cs,
             seeds |-> seeds, bound |-> b]
    IN  { make(r, i, cs, seeds, FALSE) : r \in routes, i \in {"none", "allow", "require"},
                                         cs \in Wanted(2), seeds \in named }
        \union
        { make(r, i, cs, seeds, TRUE) : r \in routes, i \in {"none", "allow", "require"},
                                        cs \in Wanted(1), seeds \in {{}, {"plain"}} }

MCPath == {"plain", "busy"}
MCSymbol == {"twin", "disputed"}

ASSUME GovernorAssumption

-----------------------------------------------------------------------------
CommandsInit ==
    /\ focus \in {"records", "setup", "governor"}
    /\ RecordsInit
    /\ IF focus = "setup" THEN SetupInit
       ELSE SetupInit /\ \A c \in DOMAIN catalogues : ~catalogues[c].exists
    /\ IF focus = "governor" THEN Init
       ELSE /\ request = CHOOSE r \in SmallRequests : TRUE
            /\ active = 0 /\ start = 0 /\ disk = <<>> /\ held = <<>> /\ taskSession = [state |-> "created", start |-> 1]
            /\ pc = "build" /\ route = 0 /\ script = {} /\ found = <<>> /\ attempts = <<>>
            /\ result = [kind |-> "none"]

GovernorRuns == focus = "governor" /\ UNCHANGED <<recordVars, setupVars, focus>> /\ Governor

CommandsNext ==
    \/ focus = "records" /\ UNCHANGED <<setupVars, vars, focus>> /\ RecordsNext
    \/ focus = "setup" /\ UNCHANGED <<recordVars, vars, focus>> /\ SetupNext
    \/ focus = "governor" /\ UNCHANGED <<recordVars, setupVars, focus>> /\ Next

CommandsSpec ==
    /\ CommandsInit /\ [][CommandsNext]_<<recordVars, setupVars, vars, focus>>
    /\ WF_<<recordVars, setupVars, vars, focus>>(GovernorRuns)

-----------------------------------------------------------------------------
(* Stated and explained in the modules they come from.                      *)
GovernorRunEnds == focus = "governor" => RunEnds
=============================================================================
