---------------------------- MODULE EvidenceReads ---------------------------
(* Reconciles, serving builds, readers, temporal queries and completions on *)
(* one catalogue: each step of one leaves the state of the others alone.    *)
EXTENDS ServingPlane, GenerationDelta

CONSTANT Scenarios      \* commands that run together; reconciles and edits beside them

VARIABLE scenario       \* the one this behaviour is about

vars == <<storeVars, servingVars, deltaVars, scenario>>

TypeOK ==
    /\ StoreTypeOK
    /\ recon.step # "idle" <=> "reconcile" \in working
    /\ build.step \in {"begun", "scanned"} <=> "serving" \in working
    /\ query.step # "idle" => "temporal" \in working
    /\ scenario \in Scenarios

Init == StoreInit /\ ServingInit /\ DeltaInit /\ scenario \in Scenarios

Reconciling ==
    /\ \/ CommitBuild \/ Activate \/ Abort
       \/ edits < scenario.edits /\ EditFile
       \/ Len(gens) < scenario.reconciles /\ BeginReconcile
    /\ UNCHANGED <<servingVars, deltaVars>>

Next ==
    /\ \/ Reconciling
       \/ "build" \in scenario.commands /\ Building /\ UNCHANGED deltaVars
       \/ "read" \in scenario.commands /\ Reading /\ UNCHANGED deltaVars
       \/ "page" \in scenario.commands /\ Paging /\ UNCHANGED deltaVars
       \/ "compare" \in scenario.commands /\ Comparing /\ UNCHANGED servingVars
       \/ "complete" \in scenario.commands /\ Completing /\ UNCHANGED servingVars
       \/ "lease" \in scenario.commands /\ Leasing /\ UNCHANGED servingVars
    /\ UNCHANGED scenario

Spec == Init /\ [][Next]_vars
=============================================================================
