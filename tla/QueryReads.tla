----------------------------- MODULE QueryReads -----------------------------
(* Queries and packets on one catalogue while reconciles commit facts,      *)
(* activate generations, and the tree is edited.                            *)
EXTENDS Queries, Broker

queriesVars == <<worldVars, queryVars, packet>>

QueriesTypeOK ==
    /\ IndexTypeOK
    /\ call.step \in {"idle", "find", "inspect", "symbols", "outbound", "inbound", "trace", "impact", "source", "opened",
                     "read", "done"}
    /\ walk.state \in {"none", "walking", "ended"}
    /\ packet.step \in {"idle", "symbols", "scan", "expand", "select", "hash", "text", "built"}
    /\ packet.step # "idle" => packet.gen \in 1 .. committed

QueriesInit == IndexInit /\ QueryInit /\ BrokerInit

(* One client: it waits for its answer before it asks again.                *)
QueriesNext ==
    \/ (CommitFacts \/ ActivateNext \/ EditTree) /\ UNCHANGED <<queryVars, packet>>
    \/ packet = NoPacket /\ Querying /\ UNCHANGED packet
    \/ call = NoCall /\ Brokering /\ UNCHANGED queryVars

QueriesSpec == QueriesInit /\ [][QueriesNext]_queriesVars

(* Exact source is the text the captured generation indexed and was in the  *)
(* file during the call; a packet's verified text was in the file, and the  *)
(* text it stands for too.                                                  *)
VerifiedWasThere == VerifiedSourceWasThere /\ PacketTextWasThere
=============================================================================
