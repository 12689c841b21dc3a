---------------------------- MODULE MCTaskRecords ----------------------------
EXTENDS TaskRecords, LegacyCompiler, TLC

Ent(form, artifact, local) == [form |-> form, artifact |-> artifact, local |-> local]

(* open calls shape, is tested by spec and configured by setup.             *)
MCEntity ==
    ("open"  :> Ent("symbol", "other", FALSE)) @@ ("shape" :> Ent("symbol", "other", FALSE)) @@
    ("spec"  :> Ent("symbol", "test", FALSE)) @@ ("temp" :> Ent("symbol", "other", TRUE)) @@
    ("setup" :> Ent("file", "configuration", FALSE)) @@ ("std" :> Ent("external", "other", FALSE))

MCKeyOrder == <<"open", "temp", "shape", "spec">>

Row(e, bytes, tokens) == [at |-> e, bytes |-> bytes, tokens |-> tokens]

MCRows ==
    ("open" :> <<Row("open", 4, 1)>>) @@ ("shape" :> <<Row("shape", 50, 2), Row("shape", 8, 2)>>) @@
    ("std" :> <<Row("std", 1, 1)>>) @@ ("spec" :> <<Row("spec", 4, 1)>>) @@
    ("temp" :> <<Row("temp", 1, 0)>>) @@
    ("twin" :> <<Row("shape", 8, 2), Row("shape", 8, 2)>>) @@ ("gone" :> <<>>)

MCPathKeys == ("lib" :> {"open", "shape", "temp"}) @@ ("tests" :> {"spec"}) @@ ("empty" :> {})

Fact(n, from, to, type, state) ==
    [fact |-> n, from |-> from, to |-> to, type |-> type, state |-> state]

MCFacts == {
    Fact(1, "open", "shape", "calls", "resolved"), Fact(2, "spec", "open", "tests", "resolved"),
    Fact(3, "setup", "shape", "configures", "resolved"), Fact(4, "open", "std", "imports", "external"),
    Fact(5, "shape", "std", "references", "ambiguous"), Fact(6, "open", "shape", "implements", "resolved"),
    Fact(7, "temp", "temp", "calls", "resolved") }

Req(kind, symbols, paths, records, bytes, tokens) ==
    [kind |-> kind, symbols |-> symbols, paths |-> paths, records |-> records, bytes |-> bytes,
     tokens |-> tokens]

(* The first two also meet the rest of the catalogue, the others are only   *)
(* compiled.                                                                *)
MCRequests == <<
    Req("configuration_change", <<"temp">>, <<>>, 2, 10, 10), Req("audit", <<"gone">>, <<>>, 2, 10, 10),
    Req("bug_fix", <<"open">>, <<>>, 9, 40, 40),
    Req("audit", <<"open", "twin">>, <<"lib">>, 9, 40, 40),
    Req("review", <<>>, <<"lib", "empty">>, 2, 40, 40),
    Req("api_change", <<"twin", "gone">>, <<"tests">>, 3, 9, 40),
    Req("configuration_change", <<"shape">>, <<>>, 5, 40, 40),
    Req("explore", <<"std">>, <<>>, 1, 10, 10),
    Req("test_change", <<"spec">>, <<"tests">>, 9, 40, 2) >>

MCRequest == DOMAIN MCRequests

MCCompiled ==
    [r \in MCRequest |-> [serving \in BOOLEAN |-> CompileContext(MCRequests[r], serving)]]

(* One client at a time is between two of its steps, beside the commands    *)
(* that are one transaction; one that has its answer, and a context that is *)
(* only compiled, leave no trace that the other steps could see.            *)
MCRecords ==
    /\ walk.step \notin {"listed", "stale"} /\ review.step # "stale"
    /\ Cardinality({c \in {"command", "walk", "review"} :
          \/ c = "command" /\ command # NoCommand
          \/ c = "walk" /\ walk # NoWalk
          \/ c = "review" /\ review # NoReview}) <= 1
    /\ Cardinality(events) + Cardinality(contexts) <= 2
    /\ session[2].bound = FALSE /\ session[1].bound = (session[1].state # "none")
    /\ served => (command # NoCommand \/ contexts # {})
    /\ command # NoCommand => command.s = 1
    /\ walk # NoWalk => walk.s = 1
    /\ (command # NoCommand /\ command.r > 1) =>
          /\ command.r = 2 \/ command.step = "begun"
          /\ events = {} /\ contexts = {}

(* Whatever a command compiled, its ledger adds up and a context that calls *)
(* itself complete is what the recipe reaches (task_compiler.rs:4973).      *)
ContextsAreHonest ==
    command.step = "compiled" =>
        Reconciles(command.ir) /\ Honest(MCRequests[command.r], command.ir)
=============================================================================
