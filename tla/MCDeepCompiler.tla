--------------------------- MODULE MCDeepCompiler ---------------------------
EXTENDS DeepOutcomes

Ent(form, file, artifact, kind, bytes_, ends, tokens) ==
    [form |-> form, file |-> file, artifact |-> artifact, kind |-> kind,
     bytes |-> bytes_, ends |-> ends, tokens |-> tokens]

(* A library with a function, its caller, its type and its test, the file   *)
(* itself, a configuration, something outside the workspace, and a symbol   *)
(* that a relationship names and the generation does not hold.              *)
MCEntity ==
    ("open"   :> Ent("symbol", "lib", "other", "code", 2, 2, 2)) @@
    ("caller" :> Ent("symbol", "lib", "other", "code", 1, 3, 4)) @@
    ("shape"  :> Ent("symbol", "lib", "other", "type", 1, 1, 1)) @@
    ("util"   :> Ent("symbol", "lib", "other", "code", 1, 3, 1)) @@
    ("port"   :> Ent("symbol", "lib", "other", "code", 1, 2, 1)) @@
    ("spec"   :> Ent("symbol", "tests", "test", "test", 1, 1, 1)) @@
    ("lib.rs" :> Ent("path", "lib", "other", "code", 3, 3, 1)) @@
    ("setup"  :> Ent("path", "tests", "configuration", "code", 0, 0, 1)) @@
    ("std"    :> Ent("external", "lib", "other", "code", 0, 0, 1)) @@
    ("lost"   :> Ent("symbol", "lib", "missing", "code", 0, 0, 1))

Hit(at, quality) == [at |-> at, quality |-> quality]

MCSeeds ==
    ("main" :> [stage |-> "canonical", rows |-> <<Hit("open", "qualified")>>]) @@
    ("lib"  :> [stage |-> "path", rows |-> <<Hit("lib.rs", "qualified")>>]) @@
    ("test" :> [stage |-> "canonical", rows |-> <<Hit("spec", "qualified")>>]) @@
    ("twin" :> [stage |-> "display",
                rows |-> <<Hit("open", "qualified"), Hit("shape", "qualified")>>]) @@
    ("pair" :> [stage |-> "qualified",
                rows |-> <<Hit("caller", "qualified"), Hit("caller", "stale"),
                           Hit("shape", "qualified")>>]) @@
    ("word" :> [stage |-> "fts",
                rows |-> <<Hit("shape", "qualified"), Hit("caller", "qualified")>>]) @@
    ("tool" :> [stage |-> "canonical", rows |-> <<Hit("util", "qualified")>>]) @@
    ("old"  :> [stage |-> "canonical", rows |-> <<Hit("port", "qualified")>>]) @@
    ("gone" :> [stage |-> "none", rows |-> <<>>])

Rel(fact, at, type, inbound, quality) ==
    [fact |-> fact, at |-> at, type |-> type, inbound |-> inbound, quality |-> quality]

MCRelations ==
    ("open"   :> <<Rel("r1", "caller", "calls", TRUE, "qualified"),
                   Rel("r2", "spec", "tests", TRUE, "qualified"),
                   Rel("r3", "setup", "configures", TRUE, "qualified"),
                   Rel("r4", "shape", "implements", FALSE, "qualified"),
                   Rel("r5", "std", "calls", FALSE, "qualified")>>) @@
    ("caller" :> <<Rel("r6", "shape", "references", TRUE, "stale"),
                   Rel("r1", "open", "calls", FALSE, "qualified")>>) @@
    ("util"   :> <<Rel("r7", "spec", "tests", TRUE, "qualified"),
                   Rel("r8", "spec", "tests", TRUE, "stale")>>) @@
    ("port"   :> <<Rel("r9", "lost", "calls", FALSE, "qualified"),
                   Rel("r10", "spec", "tests", TRUE, "qualified")>>) @@
    ("shape"  :> <<Rel("r4", "open", "implements", TRUE, "qualified")>>) @@
    ("spec"   :> <<Rel("r2", "open", "tests", FALSE, "qualified")>>)

Fact(fact, type, quality) == [fact |-> fact, type |-> type, quality |-> quality]

MCEffects ==
    ("open"   :> <<Fact("e1", "writes", "qualified"), Fact("e2", "writes", "stale"),
                   Fact("e3", "spawns", "qualified")>>) @@
    ("caller" :> <<Fact("e4", "writes", "conflicting")>>) @@
    ("shape"  :> <<>>) @@ ("util" :> <<>>) @@ ("port" :> <<>>) @@ ("spec" :> <<>>) @@
    ("lib.rs" :> <<>>) @@ ("setup"  :> <<>>) @@ ("std" :> <<>>)

Change(id, role, tokens) == [id |-> id, role |-> role, tokens |-> tokens]

MCHistories == {
    [parent |-> FALSE, cost |-> 1, records |-> <<>>],
    [parent |-> TRUE, cost |-> 4, records |-> <<Change("h1", "history", 2)>>],
    [parent |-> TRUE, cost |-> 6, records |-> <<Change("h1", "history", 1),
                                                Change("h2", "uncertainty", 1),
                                                Change("h3", "history", 3)>>] }

Bud(records, percent, depth, bytes_, tokens, work) ==
    [records |-> records, percent |-> percent, depth |-> depth, bytes |-> bytes_,
     tokens |-> tokens, work |-> work]

Roomy == Bud(20, 20, 3, 10, 40, 120)

(* Each limit tight in turn.                                                *)
Tight == {
    Bud(20, 20, 3, 10, 40, 40), Bud(20, 20, 3, 10, 40, 16), Bud(20, 20, 3, 10, 40, 7),
    Bud(4, 20, 3, 10, 40, 120), Bud(2, 50, 1, 3, 12, 120), Bud(20, 20, 1, 2, 9, 120),
    Bud(20, 20, 3, 10, 6, 120) }

SeedLists == {
    <<"main">>, <<"tool">>, <<"lib", "main">>, <<"main", "test">>, <<"main", "word">>, <<"twin">>,
    <<"pair", "twin">>, <<"gone">>, <<"old">>, <<"main", "test", "tool">>, <<>> }

Ask(k, s, b, a) == [kind |-> k, seeds |-> s, budget |-> b, allow |-> a]

(* Every kind of task with every list of seeds, and three kinds under each  *)
(* tight budget, where the last list of seeds asks for no bytes.            *)
MCRequests ==
    { Ask(k, s, Roomy, 9) : k \in DOMAIN Recipe, s \in SeedLists }
    \union { Ask(k, <<"main">>, b, 2) : k \in {"bug_fix", "api_change", "refactor"}, b \in Tight }
    \union { Ask(k, <<"lib", "main">>, b, 2) : k \in {"bug_fix", "refactor"}, b \in Tight }
    \union { Ask(k, <<"main", "word">>, b, 0) : k \in {"bug_fix", "refactor"}, b \in Tight }
=============================================================================
