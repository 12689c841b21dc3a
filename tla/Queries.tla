------------------------------- MODULE Queries ------------------------------
(* find with its cursor, inspect, trace, impact and exact source: each a    *)
(* sequence of statements and file reads against the generation captured    *)
(* first.                                                                   *)
EXTENDS QueryStore

CONSTANTS
    Names,          \* sets of display names a find asks for
    Limit,          \* its page
    Depths,         \* depths a trace is asked for
    MaxRecords      \* edges it may report

(* A page of no rows has no cursor.                                         *)
ASSUME QueriesAssumption ==
    /\ Names \subseteq SUBSET Nat /\ Depths \subseteq Nat
    /\ Limit \in Nat \ {0} /\ MaxRecords \in Nat

VARIABLES
    call,       \* the query at work
    walk        \* a client following find's cursors; there: the rows that
                \* matched when it began

queryVars == <<call, walk>>

NoCall == [step |-> "idle"]
NoCursor == [gen |-> 0, query |-> {}, after |-> 0]

QueryInit ==
    /\ call = NoCall
    /\ walk = [cursor |-> NoCursor, gen |-> 0, query |-> {}, pages |-> <<>>, there |-> {},
               state |-> "none"]

Finish(answer) == call' = [step |-> "done", answer |-> answer]

EndCall == call.step = "done" /\ call' = NoCall /\ UNCHANGED <<worldVars, walk>>

-----------------------------------------------------------------------------
(* QueryCursor::is_valid_for: same generation, same query.                  *)
ValidFor(cursor, gen, query) == cursor # NoCursor /\ cursor.gen = gen /\ cursor.query = query

(* Mutant: rows in the order of their places only.                          *)
MutRowBefore(i, j) == i < j

(* ORDER BY path, place.                                                    *)
RowBefore(i, j) ==
    LET path(k) == store.symbols[k].path
    IN  path(i) < path(j) \/ (path(i) = path(j) /\ i < j)

(* Rows past the cursor's path.                                             *)
Matches(gen, query, after) ==
    {i \in DOMAIN store.symbols :
        LET r == store.symbols[i] IN Current(gen, r) /\ r.name \in query /\ r.path > after}

(* find_filtered captures the generation; a cursor that does not fit is     *)
(* ignored and the search starts again.                                     *)
BeginFind ==
    /\ call = NoCall /\ current # 0
    /\ \E query \in Names : \E cursor \in {NoCursor, walk.cursor} :
         LET resumes == ValidFor(cursor, current, query)
         IN  /\ call' = [step |-> "find", gen |-> current, query |-> query,
                         after |-> IF resumes THEN cursor.after ELSE 0]
             /\ walk' = [cursor |-> NoCursor, gen |-> current, query |-> query, state |-> "walking",
                         pages |-> IF resumes THEN walk.pages ELSE <<>>,
                         there |-> IF resumes THEN walk.there ELSE Matches(current, query, 0)]
    /\ UNCHANGED worldVars

(* The first Limit of them.                                                 *)
PageOf(rows) == {i \in rows : Cardinality({j \in rows : RowBefore(j, i)}) < Limit}

LastOf(page) == CHOOSE i \in page : \A j \in page \ {i} : RowBefore(j, i)

(* When there are more rows, the cursor names the path of the page's last.  *)
FindRows ==
    /\ call.step = "find"
    /\ LET rows == Matches(call.gen, call.query, call.after)
           page == PageOf(rows)
           more == Cardinality(rows) > Limit
       IN  /\ walk' = [walk EXCEPT
                !.pages = Append(@, page),
                !.state = IF more THEN "walking" ELSE "ended",
                !.cursor = IF more
                           THEN [gen |-> call.gen, query |-> call.query,
                                 after |-> store.symbols[LastOf(page)].path]
                           ELSE NoCursor]
           /\ Finish([kind |-> "find", gen |-> call.gen, rows |-> page])
    /\ UNCHANGED worldVars

-----------------------------------------------------------------------------
(* inspect: the file row, then three statements about its revision and its  *)
(* path; the inbound relationships are those of every generation.           *)
BeginInspect ==
    /\ call = NoCall /\ current # 0
    /\ \E p \in Path : call' = [step |-> "inspect", gen |-> current, path |-> p, since |-> committed]
    /\ UNCHANGED <<worldVars, walk>>

InspectFile ==
    /\ call.step = "inspect"
    /\ IF call.path \in CurrentPaths(call.gen)
       THEN call' = [step |-> "symbols", gen |-> call.gen, path |-> call.path, since |-> call.since,
                     text |-> store.files[call.gen][call.path]]
       ELSE Finish([kind |-> "inspect", found |-> FALSE])
    /\ UNCHANGED <<worldVars, walk>>

(* Rows of a revision.                                                      *)
SymbolsOf(p, t) == {i \in DOMAIN store.symbols : store.symbols[i].path = p /\ store.symbols[i].text = t}
OutboundOf(p, t) ==
    {i \in DOMAIN store.rels :
        store.rels[i].path = p /\ store.rels[i].text = t /\ store.rels[i].from = p}

(* Mutant: the symbols are read through current_file, as find reads them.   *)
MutHeldBy(p, t) == {i \in DOMAIN store.symbols : store.symbols[i].path = p /\ Current(call.gen, store.symbols[i])}

(* symbol_fact WHERE revision_id: also when the generation is superseded.   *)
HeldBy(p, t) == {i \in SymbolsOf(p, t) : Stored(store.symbols[i])}

InspectSymbols ==
    /\ call.step = "symbols"
    /\ call' = [step |-> "outbound", gen |-> call.gen, path |-> call.path, since |-> call.since,
                text |-> call.text, symbols |-> HeldBy(call.path, call.text)]
    /\ UNCHANGED <<worldVars, walk>>

InspectOutbound ==
    /\ call.step = "outbound"
    /\ call' = [step |-> "inbound", gen |-> call.gen, path |-> call.path, since |-> call.since,
                text |-> call.text, symbols |-> call.symbols,
                outbound |-> {i \in OutboundOf(call.path, call.text) : Stored(store.rels[i])}]
    /\ UNCHANGED <<worldVars, walk>>

InspectInbound ==
    /\ call.step = "inbound"
    /\ Finish([kind |-> "inspect", found |-> TRUE, gen |-> call.gen, path |-> call.path,
               since |-> call.since, symbols |-> call.symbols, outbound |-> call.outbound,
               inbound |-> {i \in DOMAIN store.rels :
                               /\ store.rels[i].target = "path" /\ store.rels[i].to = call.path
                               /\ Stored(store.rels[i])}])
    /\ UNCHANGED <<worldVars, walk>>

-----------------------------------------------------------------------------
(* The rows a trace step fetches for a reference: out of current files whose*)
(* path it is, into it as a path target, or, resolved, into it as the key   *)
(* of one of the generation's resolutions, whatever their source.           *)
Resolved(gen, r) == Stored(r) /\ gen \in r.resolvedIn

OutRows(gen, ref, resolved) ==
    {i \in DOMAIN store.rels :
        LET r == store.rels[i]
        IN  ref \in Path /\ r.from = ref /\ Current(gen, r) /\ (resolved => Resolved(gen, r))}

InRows(gen, ref, resolved) ==
    {i \in DOMAIN store.rels :
        LET r == store.rels[i]
        IN  IF resolved THEN Resolved(gen, r) /\ r.key = ref
            ELSE r.target = "path" /\ r.to = ref /\ Current(gen, r)}

Target(r, resolved) == IF resolved THEN r.key ELSE r.to

(* A seed is any name a row has.                                            *)
Seeds == Path \cup {store.rels[i].key : i \in DOMAIN store.rels}

BeginTrace ==
    /\ call = NoCall /\ current # 0
    /\ \E p \in Seeds, deepest \in Depths, way \in {{"out"}, {"in"}, {"out", "in"}}, resolved \in BOOLEAN :
         LET seed == [ref |-> p, depth |-> 0]
         IN  call' = [step |-> "trace", gen |-> current, since |-> committed,
                      deepest |-> deepest, way |-> way, resolved |-> resolved,
                      queue |-> <<seed>>, visited |-> {p}, edges |-> <<>>,
                      at |-> seed, todo |-> {}, along |-> "out", rows |-> {},
                      byDepth |-> FALSE, byRecords |-> FALSE, stable |-> TRUE]
    /\ UNCHANGED <<worldVars, walk>>

(* The next reference of the queue; too deep ones are passed over, and full *)
(* edges end the search.                                                    *)
TraceVisit ==
    /\ call.step = "trace" /\ call.todo = {} /\ call.rows = {} /\ call.queue # <<>>
    /\ IF Head(call.queue).depth >= call.deepest
       THEN call' = [call EXCEPT !.queue = Tail(@)]
       ELSE IF Len(call.edges) >= MaxRecords
            THEN call' = [call EXCEPT !.byRecords = TRUE, !.queue = <<>>]
            ELSE call' = [call EXCEPT !.at = Head(call.queue), !.queue = Tail(@), !.todo = call.way]
    /\ UNCHANGED <<worldVars, walk>>

(* One statement: outbound rows before inbound ones.                        *)
TraceRows ==
    /\ call.step = "trace" /\ call.todo # {} /\ call.rows = {}
    /\ LET way == IF "out" \in call.todo THEN "out" ELSE "in"
       IN  call' = [call EXCEPT
                !.todo = @ \ {way}, !.along = way, !.stable = @ /\ current = call.gen,
                !.rows = IF way = "out" THEN OutRows(call.gen, call.at.ref, call.resolved)
                         ELSE InRows(call.gen, call.at.ref, call.resolved)]
    /\ UNCHANGED <<worldVars, walk>>

(* Mutant: a neighbour found at the last depth is dropped in silence.       *)
MutFollow(edge, next) ==
    LET new == next \notin call.visited
        seen == [call EXCEPT !.edges = Append(@, edge), !.visited = @ \cup {next}]
    IN  IF new /\ edge.depth < call.deepest
        THEN [seen EXCEPT !.queue = Append(@, [ref |-> next, depth |-> edge.depth])] ELSE seen

(* An edge, and its other end once.                                         *)
Follow(edge, next) ==
    LET new == next \notin call.visited
        seen == [call EXCEPT !.edges = Append(@, edge), !.visited = @ \cup {next},
                             !.byDepth = @ \/ (new /\ edge.depth >= call.deepest)]
    IN  IF new /\ edge.depth < call.deepest
        THEN [seen EXCEPT !.queue = Append(@, [ref |-> next, depth |-> edge.depth])] ELSE seen

(* One row of the statement, in no stated order; full edges end the loop.   *)
TraceRow ==
    /\ call.step = "trace"
    /\ \E i \in call.rows :
         LET r == store.rels[i]
             to == Target(r, call.resolved)
             edge(from, into) == [depth |-> call.at.depth + 1, from |-> from, to |-> into]
         IN  call' = IF Len(call.edges) >= MaxRecords
                     THEN [call EXCEPT !.byRecords = TRUE, !.rows = {}]
                     ELSE [IF call.along = "out" THEN Follow(edge(call.at.ref, to), to)
                           ELSE Follow(edge(r.from, call.at.ref), r.from)
                           EXCEPT !.rows = @ \ {i}]
    /\ UNCHANGED <<worldVars, walk>>

TraceEnd ==
    /\ call.step = "trace" /\ call.todo = {} /\ call.rows = {} /\ call.queue = <<>>
    /\ Finish([kind |-> "trace", gen |-> call.gen, since |-> call.since,
               deepest |-> call.deepest, way |-> call.way, resolved |-> call.resolved,
               visited |-> call.visited, edges |-> call.edges, stable |-> call.stable,
               byDepth |-> call.byDepth, byRecords |-> call.byRecords])
    /\ UNCHANGED <<worldVars, walk>>

-----------------------------------------------------------------------------
(* impact: files whose relationships name a seed, then the seed's resolved  *)
(* evidence, one statement each per seed; split_impact_frontier.            *)
BeginImpact ==
    /\ call = NoCall /\ current # 0
    /\ \E seeds \in {s \in SUBSET Path : Cardinality(s) \in {1, 2}} :
         call' = [step |-> "impact", gen |-> current, seeds |-> seeds, left |-> seeds, half |-> FALSE,
                  dependents |-> {}, verified |-> {}, uncertain |-> {}]
    /\ UNCHANGED <<worldVars, walk>>

(* A target that ends in the seed counts as the seed.                       *)
ImpactDependents ==
    /\ call.step = "impact" /\ call.left # {} /\ ~ call.half
    /\ call' = [call EXCEPT !.half = TRUE, !.dependents = @ \cup
                  {r.path : r \in {e \in ToSet(store.rels) :
                                      /\ e.target \in {"path", "external"} /\ e.to = Min(call.left)
                                      /\ Current(call.gen, e)}}]
    /\ UNCHANGED <<worldVars, walk>>

(* The resolution pass of a generation judges its semantic relationships.   *)
Judged(gen, r) == r.key # 0 /\ r.commit <= gen /\ OfGeneration(store, gen, r)

ImpactFrontier ==
    /\ call.step = "impact" /\ call.half
    /\ LET rows == {e \in ToSet(store.rels) :
                       Judged(call.gen, e) /\ e.from \in Path /\ e.to = Min(call.left)}
       IN  call' = [call EXCEPT !.half = FALSE, !.left = @ \ {Min(@)},
                !.verified = @ \cup {r.from : r \in {e \in rows : call.gen \in e.resolvedIn}},
                !.uncertain = @ \cup {r.from : r \in {e \in rows : call.gen \notin e.resolvedIn}}]
    /\ UNCHANGED <<worldVars, walk>>

ImpactEnd ==
    /\ call.step = "impact" /\ call.left = {}
    /\ Finish([kind |-> "impact", dependents |-> call.dependents \ call.seeds,
               verified |-> call.verified, uncertain |-> call.uncertain])
    /\ UNCHANGED <<worldVars, walk>>

-----------------------------------------------------------------------------
(* verify_exact_source_at_generation.  The file is opened once; its bytes   *)
(* are hashed as they are read; then the open file must be unmodified and   *)
(* still the one at the path.                                               *)
BeginSource ==
    /\ call = NoCall /\ current # 0
    /\ \E p \in Path : call' = [step |-> "source", gen |-> current, path |-> p]
    /\ Watch
    /\ UNCHANGED <<catalogueVars, disk, written, walk>>

SourceFails(status) == Finish([kind |-> "source", path |-> call.path, status |-> status])

SourceOpen ==
    /\ call.step = "source"
    /\ IF call.path \notin CurrentPaths(call.gen) THEN SourceFails("not_found")
       ELSE IF disk[call.path].text = NoFile THEN SourceFails("read_failed")
       ELSE call' = [step |-> "opened", gen |-> call.gen, path |-> call.path,
                     indexed |-> store.files[call.gen][call.path], file |-> disk[call.path]]
    /\ UNCHANGED <<worldVars, walk>>

(* The open file, also when its name is gone or taken by another.           *)
OpenFile ==
    IF disk[call.path].ino = call.file.ino /\ disk[call.path].text # NoFile
    THEN disk[call.path] ELSE call.file

(* Written while it is read, the file may yield any mixture.                *)
SourceRead ==
    /\ call.step = "opened"
    /\ \E bytes \in IF OpenFile.stamp = call.file.stamp THEN {OpenFile.text} ELSE Content :
         call' = [step |-> "read", gen |-> call.gen, path |-> call.path, indexed |-> call.indexed,
                  file |-> call.file, bytes |-> bytes]
    /\ UNCHANGED <<worldVars, walk>>

(* Mutant: whatever was read is compared with the index.                    *)
MutUndisturbed == TRUE

Undisturbed ==
    /\ OpenFile.stamp = call.file.stamp
    /\ disk[call.path].ino = call.file.ino /\ disk[call.path].text # NoFile

SourceCheck ==
    /\ call.step = "read"
    /\ IF ~ Undisturbed THEN SourceFails("read_failed")
       ELSE IF call.bytes # call.indexed THEN SourceFails("hash_mismatch")
       ELSE Finish([kind |-> "source", status |-> "verified", gen |-> call.gen, path |-> call.path,
                    excerpt |-> call.bytes])
    /\ UNCHANGED <<worldVars, walk>>

Querying ==
    \/ BeginFind \/ FindRows \/ BeginInspect \/ InspectFile
    \/ InspectSymbols \/ InspectOutbound \/ InspectInbound
    \/ BeginTrace \/ TraceVisit \/ TraceRows \/ TraceRow \/ TraceEnd
    \/ BeginImpact \/ ImpactDependents \/ ImpactFrontier \/ ImpactEnd
    \/ BeginSource \/ SourceOpen \/ SourceRead \/ SourceCheck \/ EndCall

-----------------------------------------------------------------------------
Answered(kind) == call.step = "done" /\ call.answer.kind = kind

(* A client that follows find's cursors to the end while its generation     *)
(* stays active has every path that matched when it began, only rows that   *)
(* match, and no row twice, whatever reconciles commit between its pages.   *)
(* (What they commit behind the cursor it does not see.)                    *)
FindReachesEveryPath ==
    walk.state = "ended" /\ walk.gen = current =>
        LET row == store.symbols
            listed == UNION ToSet(walk.pages)
        IN  /\ \A i \in walk.there : \E j \in listed : row[j].path = row[i].path
            /\ \A j \in listed : Current(walk.gen, row[j]) /\ row[j].name \in walk.query
            /\ \A m, n \in DOMAIN walk.pages : m # n => walk.pages[m] \cap walk.pages[n] = {}

(* The symbols and the outbound relationships of an inspect are of the one  *)
(* revision its generation lists, and none that was stored when it began is *)
(* missing, also when another generation is activated, which lists the path *)
(* with another text or not at all, or facts are committed in between.      *)
InspectIsOneRevision ==
    Answered("inspect") /\ call.answer.found =>
        LET a == call.answer
            text == store.files[a.gen][a.path]
            whole(rows, listed, row) ==
                listed \subseteq rows /\ \A i \in rows : row[i].commit <= a.since => i \in listed
        IN  /\ whole(SymbolsOf(a.path, text), a.symbols, store.symbols)
            /\ whole(OutboundOf(a.path, text), a.outbound, store.rels)

(* The relationships a trace of generation g is about: those of its files,  *)
(* followed from a path, or back to a target stored as a path; resolved,    *)
(* those it resolved, followed back to their key from any source.           *)
Crosses(g, r, way, ref, resolved) ==
    /\ IF resolved THEN g \in r.resolvedIn ELSE OfGeneration(store, g, r)
    /\ IF way = "out" THEN ref \in Path /\ r.from = ref
       ELSE (resolved \/ r.target = "path") /\ Target(r, resolved) = ref

(* A trace of some depth of which neither bound is reported is the whole    *)
(* neighbourhood: each such relationship of a visited reference that was    *)
(* stored when it began is an edge, and its other end is visited, if no     *)
(* activation fell between its statements.                                  *)
TraceFlagsAreHonest ==
    Answered("trace") /\ call.answer.stable /\ ~ call.answer.byDepth /\ ~ call.answer.byRecords =>
        LET a == call.answer
        IN  \A i \in DOMAIN store.rels, way \in a.way, ref \in a.visited :
              LET r == store.rels[i]
              IN  a.deepest # 0 /\ r.commit <= a.since /\ Crosses(a.gen, r, way, ref, a.resolved) =>
                    /\ r.from \in a.visited /\ Target(r, a.resolved) \in a.visited
                    /\ \E k \in DOMAIN a.edges :
                          a.edges[k].from = r.from /\ a.edges[k].to = Target(r, a.resolved)

(* Source is handed out as verified only if the path held exactly that text *)
(* at some moment of the call, and the captured generation lists it:        *)
(* nothing read from a file that changed under the reader gets through.     *)
VerifiedSourceWasThere ==
    Answered("source") /\ call.answer.status = "verified" =>
        /\ call.answer.excerpt = store.files[call.answer.gen][call.answer.path]
        /\ call.answer.excerpt \in held[call.answer.path]

=============================================================================
