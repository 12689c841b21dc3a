------------------------ MODULE MCProviderExecution ------------------------
EXTENDS ProviderExecution

CONSTANTS scip, a

(* A provider planned for two project scopes: the second, which has no file *)
(* of its language, finds the coverage row of the first.                    *)
TwoScopes == << [provider |-> scip, docs |-> {a}], [provider |-> scip, docs |-> {}] >>
=============================================================================
