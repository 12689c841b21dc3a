--------------------------- MODULE LegacyCompiler ---------------------------
(* The planner-v1.1 compiler (task_compiler.rs): what one request selects   *)
(* from one frozen generation, as a function. A seed takes records, bytes   *)
(* and tokens, a neighbour takes a record, and whatever is not selected is  *)
(* counted under one reason.                                                *)
EXTENDS Integers, FiniteSets, FiniteSetsExt, Sequences, SequencesExt

CONSTANTS
    Entity,     \* entity -> [form, artifact, local]
    KeyOrder,   \* the symbols in the order of their canonical keys
    Rows,       \* seed or key -> the symbols it names: <<[at, bytes, tokens], ...>>
    PathKeys,   \* path -> the symbols of its file
    Facts       \* the relationships: a set of [fact, from, to, type, state]

(* EvidenceRecipe and recipe_for.                                           *)
Recipe(callers, callees, tests, configs, depth) ==
    [callers |-> callers, callees |-> callees, tests |-> tests, configs |-> configs,
     depth |-> depth]

RecipeFor(kind) ==
    CASE kind \in {"bug_fix", "behavior_change", "refactor"} -> Recipe(TRUE, TRUE, TRUE, FALSE, 2)
      [] kind = "api_change" -> Recipe(TRUE, FALSE, TRUE, FALSE, 3)
      [] kind = "configuration_change" -> Recipe(FALSE, FALSE, TRUE, TRUE, 1)
      [] kind = "test_change" -> Recipe(TRUE, FALSE, TRUE, FALSE, 1)
      [] kind = "review" -> Recipe(TRUE, TRUE, TRUE, TRUE, 1)
      [] kind = "audit" -> Recipe(TRUE, TRUE, TRUE, TRUE, 3)
      [] kind = "explore" -> Recipe(TRUE, TRUE, FALSE, FALSE, 1)
      [] OTHER -> Recipe(TRUE, TRUE, TRUE, FALSE, 1)

(* classify_task: the first rule of the table that one of the task's words  *)
(* names; a task is the set of the kinds its words name.                    *)
KindRules == <<"bug_fix", "refactor", "api_change", "configuration_change", "test_change",
               "review", "audit", "explore", "behavior_change">>

Classify(declared, words) ==
    LET named == SelectSeq(KindRules, LAMBDA k : k \in words)
    IN  CASE declared # "none" -> declared
          [] named # <<>> -> Head(named)
          [] OTHER -> "unknown"

(* FoldLeft with each intermediate result evaluated once.                   *)
Each(op(_, _), base, seq) ==
    FoldLeft(LAMBDA acc, x : CHOOSE y \in {op(a, x) : a \in {acc}} : TRUE, base, seq)

(***************************************************************************)
(* Relationships of one symbol, as the serving reader answers them          *)
(***************************************************************************)

Resolved(h) == h.state \in {"resolved", "external"}

(* The filter of both reads, by the direction a row was read in.            *)
Admits(recipe, type, inbound) ==
    CASE type = "calls" -> IF inbound THEN recipe.callers ELSE recipe.callees
      [] type = "tests" -> recipe.tests
      [] type = "configures" -> recipe.configs
      [] type \in {"references", "implements", "imports", "extends"} -> TRUE
      [] OTHER -> FALSE

Inbound(e, h) == h.from # e

Adjacent(e, recipe) ==
    {h \in Facts : (h.from = e /\ Admits(recipe, h.type, FALSE))
                   \/ (h.to = e /\ h.state = "resolved" /\ Admits(recipe, h.type, TRUE))}

ReadBefore(a, b) ==
    \/ Resolved(a) /\ ~Resolved(b)
    \/ Resolved(a) = Resolved(b) /\ a.fact < b.fact

HopsOf(e, recipe) == SetToSortSeq(Adjacent(e, recipe), ReadBefore)

(* recipe_includes: the artifact of the neighbour first, then the type.     *)
Includes(recipe, h, inbound, e) ==
    /\ ~(Entity[e].artifact = "test" /\ ~recipe.tests)
    /\ ~(Entity[e].artifact = "configuration" /\ ~recipe.configs)
    /\ Admits(recipe, h.type, inbound)

(***************************************************************************)
(* The selection                                                            *)
(***************************************************************************)

(* items is the working set, read the relationships seen, omitted the count *)
(* of candidates left out by reason, queue the frontier.                    *)
Nothing ==
    [items |-> <<>>, hops |-> {}, deferred |-> <<>>, entities |-> {}, read |-> {},
     considered |-> 0, omitted |-> [r \in {} |-> 0], bytes |-> 0, tokens |-> 0, queue |-> <<>>]

Consider(st) == [st EXCEPT !.considered = @ + 1]

(* record_omission                                                          *)
Omit(st, reason) ==
    [st EXCEPT !.omitted = [r \in DOMAIN @ \union {reason} |->
        (IF r \in DOMAIN @ THEN @[r] ELSE 0) + (IF r = reason THEN 1 ELSE 0)]]

(* record_omission and defer_relationship.                                  *)
Defer(req, st, fact, reason) ==
    LET omitted == Omit(st, <<"relationship", reason>>)
    IN  IF Len(st.deferred) < req.records
        THEN [omitted EXCEPT !.deferred = Append(@, fact)] ELSE omitted

(* budget_rejection: the first limit the candidate would break.             *)
Rejection(req, st, bytes, tokens) ==
    CASE Len(st.items) >= req.records -> "record"
      [] st.bytes + bytes > req.bytes -> "source"
      [] st.tokens + tokens > req.tokens -> "token"
      [] OTHER -> "none"

Select(st, e, depth) ==
    [st EXCEPT !.items = Append(@, [at |-> e, depth |-> depth]),
               !.entities = @ \union {e},
               !.queue = IF Entity[e].form # "symbol" THEN @
                         ELSE Append(@, [at |-> e, depth |-> depth])]

(* push_seed_symbol and its costs.                                          *)
SelectSeed(st, row) ==
    [Select(st, row.at, 0) EXCEPT !.bytes = @ + row.bytes, !.tokens = @ + row.tokens]

(* One hop of the symbol cur.                                               *)
TakeHop(req, recipe, cur, st, h) ==
    LET inbound == Inbound(cur.at, h)
        other == IF inbound THEN h.from ELSE h.to
        seen == [Consider(st) EXCEPT !.read = @ \union {h.fact}]
    IN  CASE ~Includes(recipe, h, inbound, other) \/ h.fact \in st.read -> st
          [] ~Resolved(h) -> Defer(req, seen, h.fact, h.state)
          [] Entity[other].form = "external" -> Defer(req, seen, h.fact, "external")
          [] other \in st.entities -> Defer(req, seen, h.fact, "duplicate")
          [] \/ Rejection(req, st, 0, 0) # "none"
             \/ Cardinality(st.hops) >= req.records -> Defer(req, seen, h.fact, "record")
          [] OTHER -> Select([seen EXCEPT !.hops = @ \union {h.fact}], other, cur.depth + 1)

(* One turn of expand_relationship_frontier: a read that is cut short is    *)
(* one candidate more, and omitted.                                         *)
ExpandNext(req, recipe, st) ==
    IF st.queue = <<>> THEN st
    ELSE LET cur == Head(st.queue)
             popped == [st EXCEPT !.queue = Tail(@)]
             hops == HopsOf(cur.at, recipe)
             cut == Len(hops) > req.records
         IN  IF cur.depth >= recipe.depth THEN popped
             ELSE Each(LAMBDA s, h : TakeHop(req, recipe, cur, s, h),
                       IF cut THEN Omit(Consider(popped), <<"relationship", "record">>) ELSE popped,
                       IF cut THEN SubSeq(hops, 1, req.records) ELSE hops)

(* The frontier holds a symbol at most once, so there are no more turns     *)
(* than symbols.                                                            *)
Expand(req, recipe, st) ==
    Each(LAMBDA s, turn : ExpandNext(req, recipe, s), st, KeyOrder)

(* Step 1: every explicit symbol before any graph expansion.                *)
TakeExplicit(req, st, row) ==
    LET limit == Rejection(req, st, row.bytes, row.tokens)
        counted == Consider(st)
    IN  CASE limit # "none" -> Omit(counted, <<"explicit", limit>>)
          [] row.at \in st.entities -> Omit(counted, <<"explicit", "duplicate">>)
          [] OTHER -> SelectSeed(counted, row)

ExplicitRows(req) == FlattenSeq([i \in DOMAIN req.symbols |-> Rows[req.symbols[i]]])

AfterExplicit(req) ==
    Expand(req, RecipeFor(req.kind),
        Each(LAMBDA st, row : TakeExplicit(req, st, row), Nothing, ExplicitRows(req)))

(* Step 3: the symbols of the named files that no explicit seed named, the  *)
(* document-local ones last.                                                *)
KeysOfPaths(req) ==
    LET named == UNION {PathKeys[req.paths[i]] : i \in DOMAIN req.paths}
                     \ {ExplicitRows(req)[i].at : i \in DOMAIN ExplicitRows(req)}
    IN  SelectSeq(KeyOrder, LAMBDA k : k \in named /\ ~Entity[k].local)
        \o SelectSeq(KeyOrder, LAMBDA k : k \in named /\ Entity[k].local)

(* Mutant: a path symbol the graph already selected is counted again and    *)
(* not omitted.                                                             *)
MutTakeKey(req, recipe, st, key) ==
    LET counted == Consider(st)
        row == Head(Rows[key])
        limit == Rejection(req, st, row.bytes, row.tokens)
    IN  CASE key \in st.entities -> counted
          [] Rows[key] = <<>> -> Omit(counted, <<"path", "missing">>)
          [] limit # "none" -> Omit(counted, <<"path", limit>>)
          [] OTHER -> Expand(req, recipe, SelectSeed(counted, row))

(* The first row of a key that fits and is new is selected and expanded at  *)
(* once; without one, the first limit met is the reason.                    *)
TakeKey(req, recipe, st, key) ==
    LET counted == Consider(st)
        limit(row) == Rejection(req, st, row.bytes, row.tokens)
        cut == SelectSeq(Rows[key], LAMBDA row : limit(row) # "none")
        fits == SelectSeq(Rows[key], LAMBDA row : limit(row) = "none" /\ row.at \notin st.entities)
    IN  CASE key \in st.entities -> Omit(counted, <<"path", "duplicate">>)
          [] Rejection(req, st, 0, 0) = "record" -> Omit(counted, <<"path", "record">>)
          [] Rows[key] = <<>> -> Omit(counted, <<"path", "missing">>)
          [] fits # <<>> -> Expand(req, recipe, SelectSeed(counted, Head(fits)))
          [] cut # <<>> -> Omit(counted, <<"path", limit(Head(cut))>>)
          [] OTHER -> Omit(counted, <<"path", "duplicate">>)

AfterPaths(req) ==
    LET recipe == RecipeFor(req.kind)
    IN  Each(LAMBDA st, key : TakeKey(req, recipe, st, key), AfterExplicit(req), KeysOfPaths(req))

(* An explicit seed that names nothing.                                     *)
Unresolved(req) ==
    {i \in DOMAIN req.symbols : Rows[req.symbols[i]] = <<>>}
    \union {i \in DOMAIN req.paths : PathKeys[req.paths[i]] = {}}

(* compile_context_ir_attempt: the context of a request, from the serving   *)
(* projection or, where there is none, from the truth tables.  Deferred     *)
(* relationships fill what is left of the record budget, in their order.    *)
ContextOf(req, serving, st) ==
    LET left == st.considered - Len(st.items)
        room == IF req.records > Cardinality(st.hops) THEN req.records - Cardinality(st.hops) ELSE 0
        filling == SubSeq(st.deferred, 1, IF Len(st.deferred) < room THEN Len(st.deferred) ELSE room)
    IN  [items |-> st.items, considered |-> st.considered, omitted |-> st.omitted,
         hops |-> st.hops \union ToSet(filling), serving |-> serving,
         status |-> CASE st.items = <<>> /\ (req.symbols # <<>> \/ req.paths # <<>>) -> "blocked"
                      [] Unresolved(req) # {} \/ left > 0 \/ ~serving -> "partial"
                      [] OTHER -> "complete"]

CompileContext(req, serving) == ContextOf(req, serving, AfterPaths(req))

(***************************************************************************)
(* What a context promises                                                  *)
(***************************************************************************)

Selected(ir) == {ir.items[i].at : i \in DOMAIN ir.items}

(* Every candidate considered is selected or counted under one reason.      *)
Reconciles(ir) ==
    ir.considered = Len(ir.items) + FoldFunctionOnSet(LAMBDA a, b : a + b, 0, ir.omitted, DOMAIN ir.omitted)

(* The entities a recipe reaches from a request in so many hops.            *)
Reach(req) ==
    LET recipe == RecipeFor(req.kind)
        seeds == {ExplicitRows(req)[i].at : i \in DOMAIN ExplicitRows(req)}
                     \union UNION {PathKeys[req.paths[i]] : i \in DOMAIN req.paths}
        step(found) == found \union
            UNION {{IF Inbound(e, h) THEN h.from ELSE h.to :
                      h \in {g \in Adjacent(e, recipe) :
                               Includes(recipe, g, Inbound(e, g),
                                        IF Inbound(e, g) THEN g.from ELSE g.to)}} :
                   e \in {x \in found : Entity[x].form = "symbol"}}
    IN  FoldLeft(LAMBDA found, turn : step(found), seeds, [i \in 1 .. recipe.depth |-> i])

(* A context that calls itself complete left nothing out that its recipe    *)
(* reaches, and one that selects something else selected too much.          *)
Honest(req, ir) ==
    /\ Selected(ir) \subseteq Reach(req)
    /\ ir.status = "complete" => Selected(ir) = Reach(req)
=============================================================================
