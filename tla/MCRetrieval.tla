----------------------------- MODULE MCRetrieval -----------------------------
(* How evidence gets into the catalogue and what is read from it, checked in *)
(* one run: a behaviour is about one of three models (serving builds, deltas *)
(* and their readers; queries and packets; the ingestion of SCIP indexes),   *)
(* and the other two stay in an initial state.  They abstract the catalogue  *)
(* differently, so they share no variable.                                   *)
EXTENDS EvidenceReads, QueryReads, EvidenceIngest, TLC

VARIABLE focus   \* the model a behaviour is about

-----------------------------------------------------------------------------
(* Serving builds, deltas and their readers.                                *)
(* In its first text each of two files calls the other, in its second       *)
(* itself.                                                                  *)
Callees == [d \in Doc |-> [t \in Text |-> IF t = 1 THEN 3 - d ELSE d]]

(* Ids are hashes: a later generation may sort first.                       *)
HashOrder == [g \in 1 .. MaxGens |-> IF g <= 2 THEN 3 - g ELSE g]

Scenario(commands, reconciles, changes) ==
    [commands |-> commands, reconciles |-> reconciles, edits |-> changes]

Everything ==
    {Scenario({"build", "read"}, 2, 1), Scenario({"build", "page"}, 3, 0),
     Scenario({"compare", "complete"}, 2, 2), Scenario({"lease"}, 2, 2)}

-----------------------------------------------------------------------------
(* Queries and packets.                                                     *)
QuerySym(p, t, n, s, c) == [path |-> p, text |-> t, name |-> n, semantic |-> s, commit |-> c]

(* A structural import, whose target may read like a path, and a semantic   *)
(* reference to a symbol's key, from a file or from a symbol.               *)
QueryImport(p, t, to, c) ==
    [path |-> p, text |-> t, from |-> p, to |-> to, target |-> "external", kind |-> "imports",
     key |-> 0, resolvedIn |-> {}, commit |-> c]
QueryReference(p, t, from, to, resolved, c) ==
    [path |-> p, text |-> t, from |-> from, to |-> to, target |-> "symbol", kind |-> "references",
     key |-> to, resolvedIn |-> resolved, commit |-> c]

(* File 1 overloads a function, 2 mentions it, 3 imports 1.  The second     *)
(* reconcile finds the same files, and a semantic provider's facts for      *)
(* their revisions: 11 is the function's key, 12 one of file 2's.           *)
Growing ==
    [files |-> << <<1, 1, 2>>, <<1, 1, 2>> >>,
     symbols |-> << QuerySym(1, 1, 1, FALSE, 1), QuerySym(1, 1, 1, TRUE, 2), QuerySym(1, 1, 1, FALSE, 1),
                    QuerySym(2, 1, 2, FALSE, 1), QuerySym(3, 2, 1, FALSE, 1), QuerySym(3, 2, 2, TRUE, 2) >>,
     rels |-> << QueryImport(2, 1, 1, 1), QueryImport(3, 2, 9, 1), QueryImport(1, 1, 3, 1),
                 QueryReference(2, 1, 2, 11, {2}, 2), QueryReference(2, 1, 12, 11, {2}, 2),
                 QueryReference(3, 2, 3, 12, {2}, 2), QueryReference(3, 2, 12, 13, {}, 2) >>]

(* The second reconcile finds file 2 edited and file 3 gone.                *)
Moving ==
    [files |-> << <<1, 1, 2>>, <<1, 2, 0>> >>,
     symbols |-> << QuerySym(3, 2, 2, FALSE, 1), QuerySym(1, 1, 1, FALSE, 1), QuerySym(1, 1, 2, FALSE, 1),
                    QuerySym(2, 1, 1, TRUE, 1), QuerySym(2, 2, 2, TRUE, 2), QuerySym(2, 2, 1, FALSE, 2) >>,
     rels |-> << QueryImport(1, 1, 2, 1), QueryImport(2, 1, 3, 1), QueryReference(3, 2, 3, 11, {1}, 1),
                 QueryReference(1, 1, 1, 12, {1, 2}, 1), QueryReference(2, 2, 2, 12, {2}, 2),
                 QueryReference(2, 2, 2, 11, {}, 2) >>]

TwoStores == {Growing, Moving}

SomeRequests ==
    {[paths |-> {1}, symbols |-> {}, words |-> {}, files |-> {}, mode |-> "change", records |-> 10,
      bytes |-> 8, tokens |-> 1],
     [paths |-> {1, 2}, symbols |-> {}, words |-> {}, files |-> {3}, mode |-> "audit", records |-> 3,
      bytes |-> 16, tokens |-> 9],
     [paths |-> {}, symbols |-> {<<1, 1, FALSE>>, <<1, 1, TRUE>>}, words |-> {1, 2}, files |-> {},
      mode |-> "map", records |-> 5, bytes |-> 0, tokens |-> 0],
     [paths |-> {}, symbols |-> {}, words |-> {1, 2}, files |-> {}, mode |-> "change", records |-> 10,
      bytes |-> 40, tokens |-> 9]}

SomeNames == {{1}, {1, 2}}

-----------------------------------------------------------------------------
(* SCIP indexes.                                                            *)
(* a has one-byte characters and a four-byte one that is two UTF-16 units.  *)
Ascii == <<1, 1>>
Emoji == <<4, 2>>
Line(chars, ending) == [chars |-> chars, ending |-> ending]

DocumentTexts ==
    ("a" :> << <<Line(<<Ascii, Emoji, Ascii>>, 1), Line(<<>>, 0)>>, <<Line(<<Ascii>>, 2)>> >>) @@
    ("b" :> << <<Line(<<Ascii, Ascii, Ascii>>, 1)>> >>)

ScipName(local, scheme, name, plain) == [local |-> local, scheme |-> scheme, name |-> name, plain |-> plain]

ScipSymbol ==
    ("open" :> ScipName(FALSE, "ts", "open", FALSE)) @@ ("shape" :> ScipName(FALSE, "ts", "shape", FALSE)) @@
    ("local 1" :> ScipName(TRUE, "local", "1", TRUE)) @@ ("local 2" :> ScipName(TRUE, "local", "1", TRUE)) @@
    ("fetch" :> ScipName(FALSE, "py", "fetch", TRUE))

Occ(symbol, roles, range) == <<"occurrence", <<<<"symbol", symbol>>, <<"roles", roles>>, <<"range", range>>>>>>
Packed(symbol, roles, packed) == <<"occurrence", <<<<"symbol", symbol>>, <<"roles", roles>>, <<"packed", packed>>>>>>
ScipRel(symbol, roles) == <<"relationship", <<<<"symbol", symbol>>, <<"roles", roles>>>>>>
Info(symbol, rels) == <<"symbol", <<<<"symbol", symbol>>>> \o rels>>
ScipDoc(path, fields) == <<"document", <<<<"path", path>>>> \o fields>>

Def == {"definition"}

(* Project a: open is defined after the emoji, implements shape, which      *)
(* project b defines.                                                       *)
Main == << ScipDoc("a", << Packed("open", Def, <<0, 3, 4>>), Occ("shape", {"import"}, <<1, 0, 1, 0>>),
                       Occ("local 1", Def, <<0, 0, 0, 2>>), Occ("local 1", {}, <<0, 1, 0, 3>>),
                       Occ("", {}, <<0, 0, 0, 1>>),
                       Info("open", << ScipRel("shape", {"implements"}), ScipRel("local 1", {"implements"}),
                                       ScipRel("open", {"type_definition", "defined_by"}) >>) >>) >>
Declared == << ScipDoc("a", << <<"encoding", "utf8">>, Occ("open", Def, <<0, 5, 0, 6>>),
                           Occ("shape", Def, <<0, 2, 0, 3>>), Info("shape", <<>>),
                           Occ("local 2", {}, <<0, 0, 0, 1>>) >>),
               ScipDoc("outside", << Occ("shape", Def, <<0, 0, 0, 1>>) >>) >>
Crowded == << ScipDoc("a", << Info("open", <<>>), Info("shape", <<>>), Info("fetch", <<>>) >>) >>
Broken == << <<"unreadable", 0>> >>
Lib == << ScipDoc("b", << Occ("shape", Def, <<0, 0, 0, 1>>), Info("shape", <<>>),
                      Occ("local 1", Def, <<0, 1, 0, 2>>), Occ("shape", Def, <<1, 0, 1, 0>>) >>) >>
Foreign == << ScipDoc("b", << <<"encoding", "utf32">>, Occ("fetch", Def, <<0, 0, 0, 3>>), Info("fetch", <<>>),
                          Occ("fetch", {}, <<0, 9, 0, 9>>) >>),
              ScipDoc("a", << Occ("shape", {}, <<0, 0, 0, 0>>) >>) >>

IngestPlans ==
    << [provider |-> "scip-typescript", priority |-> 2, indexes |-> {Main, Declared, Crowded, Broken}],
       [provider |-> "scip-typescript", priority |-> 2, indexes |-> {Lib}],
       [provider |-> "scip-python", priority |-> 1, indexes |-> {Foreign}] >>

-----------------------------------------------------------------------------
RetrievalInit ==
    /\ Init /\ QueriesInit /\ IngestInit
    /\ focus \in {"reads", "queries", "ingest"}
    /\ focus # "reads" => scenario = CHOOSE s \in Scenarios : TRUE
    /\ focus # "queries" => store = Growing /\ current = 0

RetrievalNext ==
    \/ focus = "reads" /\ UNCHANGED <<queriesVars, ingestVars, focus>> /\ Next
    \/ focus = "queries" /\ UNCHANGED <<vars, ingestVars, focus>> /\ QueriesNext
    \/ focus = "ingest" /\ UNCHANGED <<vars, queriesVars, focus>> /\ IngestNext

RetrievalSpec == RetrievalInit /\ [][RetrievalNext]_<<vars, queriesVars, ingestVars, focus>>

(* find, inspect, trace and impact read no file of the tree: only source and *)
(* context also meet its edits.                                              *)
MCEdits ==
    written > 0 =>
        /\ walk.state = "none"
        /\ call.step \notin {"find", "inspect", "symbols", "outbound", "inbound", "trace", "impact"}
        /\ call.step = "done" => call.answer.kind = "source"

=============================================================================
