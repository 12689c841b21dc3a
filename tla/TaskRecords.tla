----------------------------- MODULE TaskRecords -----------------------------
(* What a task leaves in the catalogue (task_session.rs): the contexts it   *)
(* was given, the events of its timeline, its query metrics; the pages that *)
(* list a timeline, and the privacy compaction that deletes it all once it  *)
(* is old. Commands are separate processes; each transaction is one action. *)
EXTENDS Integers, FiniteSets, FiniteSetsExt, Sequences, SequencesExt

CONSTANTS
    Session,         \* a set of numbers: the ids, in their order
    Request,         \* numbers of what context-ir may be asked for
    Compiled,        \* request -> whether a projection serves it -> its context
    Process,         \* the process ids commands run under
    PageLimit,       \* the limit of a page of a timeline or a preview
    StructuredAge,   \* STRUCTURED_RETENTION_DAYS
    SummaryAge,      \* SUMMARY_RETENTION_DAYS
    MaxTerminal,     \* MAX_COMPLETED_SESSIONS
    MaxExpired,      \* MAX_EXPIRED_SESSIONS_PER_COMPACTION
    LastDay,         \* bound: the clock stays in 0 .. LastDay
    MaxRow,          \* bound: the row numbers of context_use_event
    MaxMetrics       \* bound: rows of query_stage_metric

ASSUME RetentionAssumption ==
    /\ Session \subseteq Nat \ {0} /\ IsFiniteSet(Session)
    /\ Process \subseteq Nat
    /\ {PageLimit, MaxExpired} \subseteq Nat \ {0}
    /\ {MaxTerminal, LastDay, MaxRow, MaxMetrics} \subseteq Nat
    /\ StructuredAge \in Nat /\ SummaryAge \in Nat /\ StructuredAge <= SummaryAge

(* A context is delivered as the positions of its items and the numbers of  *)
(* the relationships it followed, finitely many of each.                    *)
ASSUME CompiledAssumption ==
    /\ Request \subseteq Nat
    /\ \A r \in Request : \A serving \in BOOLEAN :
          LET ir == Compiled[r][serving]
          IN  /\ DOMAIN ir.items \subseteq Nat /\ IsFiniteSet(DOMAIN ir.items)
              /\ ir.hops \subseteq Nat /\ IsFiniteSet(ir.hops)

VARIABLES
    session,    \* task_session: [state, bound, done]
    served,     \* a serving projection of the generation is ready
    contexts,   \* context_ir: a set of [s, r, ir]
    events,     \* context_use_event: a set of [s, id, row, at]
    metrics,    \* query_stage_metric: [s, n, at], s = 0 where it has no session
    day,        \* the clock
    command,    \* the context-ir command between its transactions
    walk,       \* a client paging through a timeline
    review      \* a client previewing and applying a compaction

recordVars == <<session, served, contexts, events, metrics, day, command, walk, review>>

NoSession == [state |-> "none", bound |-> FALSE, done |-> 0]
NoCommand == [step |-> "idle"]
NoWalk == [step |-> "idle"]
NoReview == [step |-> "idle"]

Terminal(s) == session[s].state = "terminal"
Stored(s) == session[s].state # "none"

EventsOf(s) == {e \in events : e.s = s}
ContextsOf(s) == {c \in contexts : c.s = s}
MetricsOf(s) == {m \in metrics : m.s = s}

(***************************************************************************)
(* Events                                                                   *)
(***************************************************************************)

(* event_id_for: by kind, the request it is about, the ordinal and a part.  *)
Id(kind, r, ordinal, part) == [kind |-> kind, r |-> r, ordinal |-> ordinal, part |-> part]

(* Ids are hashes: their order says nothing of time. Here the later ordinal *)
(* comes first.                                                             *)
KindRank == [supplied |-> 1, traversed |-> 2, requested |-> 3, queried |-> 4, outcome |-> 5]
Key(e) == <<e.at, KindRank[e.id.kind], e.id.r, e.id.part, -e.id.ordinal>>

(* ORDER BY occurred_at, event_id                                           *)
Earlier(a, b) ==
    \E i \in 1 .. 5 : Key(a)[i] < Key(b)[i] /\ \A j \in 1 .. i - 1 : Key(a)[j] = Key(b)[j]

(* The members of S in the order of the relation: each after those before   *)
(* it.                                                                      *)
PlaceIn(S, relation, e) == 1 + Cardinality({d \in S : <<d, e>> \in relation})
Ordered(S, relation) ==
    [i \in 1 .. Cardinality(S) |-> CHOOSE e \in S : PlaceIn(S, relation, e) = i]

InTime(S) == Ordered(S, {p \in S \X S : Earlier(p[1], p[2])})

NextRow == Max({e.row : e \in events} \union {0}) + 1

(* record_context_use_event's inserts, one after the other, at one time; no *)
(* capture ends between them, so one number stands for the rows of all. An  *)
(* id that is there is a constraint error of the whole transaction.         *)
Collides(s, ids) == \E e \in EventsOf(s) : e.id \in ids
Inserted(s, ids) == {[s |-> s, id |-> id, row |-> NextRow, at |-> day] : id \in ids}
Fits(ids) == ids = {} \/ NextRow <= MaxRow

(* create_classified_task_session, by task start (bound to a tree) or by    *)
(* context-ir; the same task finds its session again.                       *)
StartTask(s) ==
    /\ ~Stored(s)
    /\ \E bound \in BOOLEAN :
          session' = [session EXCEPT ![s] = [state |-> "open", bound |-> bound, done |-> 0]]
    /\ UNCHANGED <<served, contexts, events, metrics, day, command, walk, review>>

(* A completion or an abandonment ends the session; a completion records    *)
(* its outcome in the same transaction.                                     *)
EndTask(s) ==
    /\ session[s].state = "open"
    /\ \E recorded \in {{}, {Id("outcome", 0, 0, 0)}} :
          /\ Fits(recorded)
          /\ events' = events \union Inserted(s, recorded)
    /\ session' = [session EXCEPT ![s].state = "terminal", ![s].done = day]
    /\ UNCHANGED <<served, contexts, metrics, day, command, walk, review>>

(***************************************************************************)
(* The context-ir command                                                   *)
(***************************************************************************)

(* atlas serving build                                                      *)
BuildProjection ==
    /\ ~served
    /\ served' = TRUE
    /\ UNCHANGED <<session, contexts, events, metrics, day, command, walk, review>>

(* The session is made or found first.                                      *)
BeginContext(s, r) ==
    /\ command = NoCommand
    /\ Stored(s)
    /\ command' = [step |-> "begun", s |-> s, r |-> r]
    /\ UNCHANGED <<session, served, contexts, events, metrics, day, walk, review>>

(* QueryMetricCollector::persist, of a session or, if it is gone, of none.  *)
MetricIds == 1 .. MaxMetrics
Metric(s) ==
    [s |-> IF Stored(s) THEN s ELSE 0,
     n |-> CHOOSE n \in MetricIds : \A m \in metrics : m.n # n, at |-> day]

(* The compilation reads one generation and stores its metric in a          *)
(* statement of its own. A projection that turns out invalid while it is    *)
(* read makes it start again from the truth tables, and past the hard       *)
(* deadline there is no context.                                            *)
CompileTask ==
    /\ command.step = "begun"
    /\ \E serving \in {served, FALSE} :
          command' \in {NoCommand, [step |-> "compiled", s |-> command.s, r |-> command.r,
                                    ir |-> Compiled[command.r][serving]]}
    /\ metrics' = IF Cardinality(metrics) < MaxMetrics THEN metrics \union {Metric(command.s)}
                  ELSE metrics
    /\ UNCHANGED <<session, served, contexts, events, day, walk, review>>

(* validate_legacy_task_session_identity, before the transaction.           *)
ValidateSession ==
    /\ command.step = "compiled"
    /\ command' = IF session[command.s].state = "open" THEN [command EXCEPT !.step = "valid"]
                  ELSE NoCommand
    /\ UNCHANGED <<session, served, contexts, events, metrics, day, walk, review>>

(* persist_context_ir: the first context under an id stays, and another one *)
(* under the same id is an error.                                           *)
SameId == {c \in contexts : c.s = command.s /\ c.r = command.r}
Conflicts == \E c \in SameId : c.ir # command.ir
Persisted == contexts \union {[s |-> command.s, r |-> command.r, ir |-> command.ir]}

(* delivery_ordinal                                                         *)
Ordinal(s, r) ==
    1 + Max({0} \union {e.id.ordinal : e \in {x \in EventsOf(s) :
                            x.id.kind \in {"supplied", "traversed"} /\ x.id.r = r}})

DeliveryIds(s, r, ir) ==
    LET ordinal == Ordinal(s, r)
    IN  {Id("supplied", r, ordinal, i) : i \in DOMAIN ir.items}
        \union {Id("traversed", r, ordinal, h) : h \in ir.hops}

(* record_compiled_context_use: one transaction. An event of a bound        *)
(* session checks again that it is not terminal and activates it.           *)
RecordCompiled ==
    LET s == command.s
        ir == command.ir
        ids == DeliveryIds(s, command.r, ir)
    IN  /\ command.step = "valid"
        /\ command' = NoCommand
        /\ \/ /\ Stored(s) /\ ~Conflicts
              /\ ir.status = "blocked"
              /\ contexts' = Persisted
              /\ UNCHANGED events
           \/ /\ Stored(s) /\ ~Conflicts
              /\ ir.status # "blocked"
              /\ (session[s].bound /\ ids # {}) => ~Terminal(s)
              /\ ~Collides(s, ids)
              /\ Fits(ids)
              /\ contexts' = Persisted
              /\ events' = events \union Inserted(s, ids)
           \/ /\ \/ ~Stored(s)
                 \/ Conflicts
                 \/ ir.status # "blocked" /\ session[s].bound /\ ids # {} /\ Terminal(s)
                 \/ ir.status # "blocked" /\ Collides(s, ids)
              /\ UNCHANGED <<contexts, events>>
        /\ UNCHANGED <<session, served, metrics, day, walk, review>>

(***************************************************************************)
(* Other observations                                                       *)
(***************************************************************************)

(* record_exact_source_observation: the ordinal is the count plus one. A    *)
(* verified answer is refused to a terminal session, the others are not.    *)
RecordSource(s) ==
    LET ids == {Id("requested", 0,
                   Cardinality({e \in EventsOf(s) : e.id.kind = "requested"}) + 1, 0)}
    IN  /\ Stored(s)
        /\ ~Collides(s, ids)
        /\ Fits(ids)
        /\ events' = events \union Inserted(s, ids)
        /\ UNCHANGED <<session, served, contexts, metrics, day, command, walk, review>>

(* record_query_observation: the id has the process's id and its first      *)
(* ordinal, so a later process under the same id collides and fails.        *)
RecordQuery(s, p) ==
    LET ids == {Id("queried", 0, 0, p)}
    IN  /\ session[s].state = "open"
        /\ ~Collides(s, ids)
        /\ Fits(ids)
        /\ events' = events \union Inserted(s, ids)
        /\ UNCHANGED <<session, served, contexts, metrics, day, command, walk, review>>

(* The clock of the machine, which may also be set back.                    *)
ClockMoves ==
    /\ day' \in {day - 1, day + 1} \intersect (0 .. LastDay)
    /\ UNCHANGED <<session, served, contexts, events, metrics, command, walk, review>>

(***************************************************************************)
(* A timeline, page by page                                                 *)
(***************************************************************************)

Captured(s, row) == {e \in EventsOf(s) : e.row <= row}

(* Mutant: the digest covers only how many rows there are.                  *)
MutSnapshotDigest(s, row) == 1 .. Cardinality(Captured(s, row))

(* task_event_snapshot_digest: the rows themselves, of all the capture or   *)
(* through the last one listed.                                             *)
SnapshotDigest(s, row) == Captured(s, row)
PrefixDigest(s, row, last) == {e \in Captured(s, row) : ~Earlier(last, e)}

Smaller(a, b) == IF a < b THEN a ELSE b

(* One page of the events in rest; the capture goes into the cursor.        *)
CutPage(w, rest) ==
    LET page == SubSeq(InTime(rest), 1, Smaller(PageLimit, Cardinality(rest)))
        more == Cardinality(rest) > PageLimit
    IN  IF more
        THEN [w EXCEPT !.step = "walking", !.listed = @ \o page, !.last = page[PageLimit],
                       !.prefix = PrefixDigest(w.s, w.row, page[PageLimit])]
        ELSE [w EXCEPT !.step = "listed", !.listed = @ \o page]

(* show_legacy_task_session_snapshot without a cursor.                      *)
ShowFirst(s) ==
    LET row == Max({e.row : e \in EventsOf(s)} \union {0})
    IN  /\ walk.step \in {"idle", "listed", "stale"}
        /\ Stored(s)
        /\ walk' = CutPage([step |-> "walking", s |-> s, row |-> row, state |-> session[s].state,
                            digest |-> SnapshotDigest(s, row), prefix |-> {}, listed |-> <<>>,
                            captured |-> EventsOf(s), last |-> 0],
                           EventsOf(s))
        /\ UNCHANGED <<session, served, contexts, events, metrics, day, command, review>>

(* With the cursor of the page before.                                      *)
ShowNext ==
    LET s == walk.s
        rest == {e \in Captured(s, walk.row) : Earlier(walk.last, e)}
    IN  /\ walk.step = "walking"
        /\ walk' = IF /\ session[s].state = walk.state
                      /\ SnapshotDigest(s, walk.row) = walk.digest
                      /\ PrefixDigest(s, walk.row, walk.last) = walk.prefix
                   THEN CutPage(walk, rest)
                   ELSE [walk EXCEPT !.step = "stale"]
        /\ UNCHANGED <<session, served, contexts, events, metrics, day, command, review>>

(***************************************************************************)
(* Privacy compaction                                                       *)
(***************************************************************************)

Older(done, asOf, age) == done < asOf - age

(* completed_rank: the latest terminal session is the first.                *)
Rank(s) ==
    1 + Cardinality({t \in Session : Terminal(t)
                        /\ (session[t].done > session[s].done
                            \/ (session[t].done = session[s].done /\ t < s))})

Derived(s) == ContextsOf(s) # {} \/ EventsOf(s) # {} \/ MetricsOf(s) # {}

Expired(s, asOf) ==
    /\ Terminal(s)
    /\ \/ Older(session[s].done, asOf, SummaryAge)
       \/ /\ Older(session[s].done, asOf, StructuredAge) \/ Rank(s) > MaxTerminal
          /\ Derived(s)

(* The first MaxExpired ids, by the day of each and then by themselves.     *)
FirstOf(dayOf) ==
    {i \in DOMAIN dayOf :
        Cardinality({j \in DOMAIN dayOf : \/ dayOf[j] < dayOf[i]
                                          \/ dayOf[j] = dayOf[i] /\ j < i}) < MaxExpired}

SessionEntry(s, asOf) ==
    [action |-> IF Older(session[s].done, asOf, SummaryAge) THEN "session" ELSE "derived",
     id |-> s, contexts |-> Cardinality(ContextsOf(s)), events |-> Cardinality(EventsOf(s)),
     metrics |-> Cardinality(MetricsOf(s))]

MetricEntry(n) == [action |-> "metric", id |-> n, contexts |-> 0, events |-> 0, metrics |-> 1]

ActionRank == [derived |-> 1, session |-> 2, metric |-> 3]
EntryBefore(a, b) ==
    \/ ActionRank[a.action] < ActionRank[b.action]
    \/ a.action = b.action /\ a.id < b.id

(* The metrics of no session are told apart by their number.                *)
Orphans == {m \in metrics : m.s = 0}
DayOfOrphan(n) == (CHOOSE m \in Orphans : m.n = n).at

Entries(asOf) ==
    LET expired == {s \in Session : Expired(s, asOf)}
        orphaned == {m.n : m \in {x \in Orphans : Older(x.at, asOf, StructuredAge)}}
    IN  {SessionEntry(s, asOf) : s \in FirstOf([s \in expired |-> session[s].done])}
        \union {MetricEntry(n) : n \in FirstOf([n \in orphaned |-> DayOfOrphan(n)])}

(* privacy_compaction_manifest; its digest covers every entry.              *)
Manifest(asOf) ==
    LET all == Entries(asOf)
    IN  Ordered(all, {p \in all \X all : EntryBefore(p[1], p[2])})

(* Mutant: the digest covers which records are listed, not what they hold.  *)
MutManifestDigest(manifest) == [i \in DOMAIN manifest |-> <<manifest[i].action, manifest[i].id>>]

ManifestDigest(manifest) == manifest

(* application_privacy_page: the next entries of the manifest.              *)
CutEntries(r, manifest) ==
    LET first == Len(r.listed) + 1
        last == Smaller(Len(r.listed) + PageLimit, Len(manifest))
    IN  [r EXCEPT !.listed = @ \o SubSeq(manifest, first, last),
                  !.step = IF last < Len(manifest) THEN "paging" ELSE "seen"]

Preview ==
    /\ review.step \in {"idle", "seen", "stale"}
    /\ \E manifest \in {Manifest(day)} :
          review' = CutEntries([step |-> "paging", asOf |-> day, digest |-> ManifestDigest(manifest),
                                listed |-> <<>>], manifest)
    /\ UNCHANGED <<session, served, contexts, events, metrics, day, command, walk>>

(* With a cursor the manifest is that of the first page's moment, or the    *)
(* cursor is stale.                                                         *)
PreviewNext ==
    /\ review.step = "paging"
    /\ \E manifest \in {Manifest(review.asOf)} :
          review' = IF ManifestDigest(manifest) = review.digest THEN CutEntries(review, manifest)
                    ELSE [review EXCEPT !.step = "stale"]
    /\ UNCHANGED <<session, served, contexts, events, metrics, day, command, walk>>

Deletions(manifest, action) == {e.id : e \in {x \in ToSet(manifest) : x.action = action}}

(* What deleting by a manifest leaves, in one transaction.                  *)
DeleteBy(manifest) ==
    LET whole == Deletions(manifest, "session")
        old == Deletions(manifest, "derived") \union whole
    IN  /\ metrics' = {m \in metrics : m.s \notin old /\ m.n \notin Deletions(manifest, "metric")}
        /\ events' = {e \in events : e.s \notin old}
        /\ contexts' = {c \in contexts : c.s \notin old}
        /\ session' = [s \in Session |-> IF s \in whole THEN NoSession ELSE session[s]]

(* apply_privacy_compaction_inner with the digest of a preview: when the    *)
(* manifest of now has it, it is deleted.                                   *)
Apply ==
    /\ review.step \in {"paging", "seen"}
    /\ review' = NoReview
    /\ \E manifest \in {Manifest(day)} :
          IF ManifestDigest(manifest) = review.digest THEN DeleteBy(manifest)
          ELSE UNCHANGED <<metrics, events, contexts, session>>
    /\ UNCHANGED <<served, day, command, walk>>

(* The same by another client, right after its preview.                     *)
ApplyElsewhere ==
    /\ \E manifest \in {Manifest(day)} : manifest # <<>> /\ DeleteBy(manifest)
    /\ UNCHANGED <<served, day, command, walk, review>>

RecordsInit ==
    /\ session = [s \in Session |-> NoSession]
    /\ served = FALSE
    /\ contexts = {} /\ events = {} /\ metrics = {}
    /\ day = 0
    /\ command = NoCommand /\ walk = NoWalk /\ review = NoReview

RecordsNext ==
    \/ \E s \in Session : StartTask(s) \/ EndTask(s) \/ RecordSource(s) \/ ShowFirst(s)
    \/ \E s \in Session, r \in Request : BeginContext(s, r)
    \/ \E s \in Session, p \in Process : RecordQuery(s, p)
    \/ BuildProjection \/ CompileTask \/ ValidateSession \/ RecordCompiled
    \/ ClockMoves \/ ShowNext \/ Preview \/ PreviewNext \/ Apply \/ ApplyElsewhere

RecordsSpec == RecordsInit /\ [][RecordsNext]_recordVars

(***************************************************************************)
(* Properties                                                               *)
(***************************************************************************)

(* A client that pages to the end of a timeline or of a preview without     *)
(* being told that its cursor is stale has each captured row exactly once,  *)
(* in order, whatever was recorded, deleted or re-used in between.          *)
PagesAreWhole ==
    /\ walk.step = "listed" =>
          /\ ToSet(walk.listed) = walk.captured
          /\ \A i, j \in DOMAIN walk.listed :
                i < j => Earlier(walk.listed[i], walk.listed[j])
    /\ review.step = "seen" => ManifestDigest(review.listed) = review.digest

(* What a step deletes of the records of s, in number.                      *)
Lost(s) ==
    [contexts |-> Cardinality(ContextsOf(s) \ contexts'),
     events |-> Cardinality(EventsOf(s) \ events'),
     metrics |-> Cardinality(MetricsOf(s) \ metrics')]

Loses(s) == Lost(s) # [contexts |-> 0, events |-> 0, metrics |-> 0] \/ (Stored(s) /\ ~Stored(s)')

(* An entry the client was shown says so, and in number how much.           *)
AsListed(s) ==
    \E i \in DOMAIN review.listed :
       LET e == review.listed[i]
       IN  /\ e.id = s /\ e.action \in {"derived", "session"}
           /\ Lost(s) = [contexts |-> e.contexts, events |-> e.events, metrics |-> e.metrics]
           /\ (e.action = "session") = ~Stored(s)'

(* A compaction deletes what its client was shown, row for row in number,   *)
(* and of terminal sessions only; an open task never loses a record.        *)
CompactionIsConfirmed ==
    [][\A s \in Session :
         Loses(s) => /\ Terminal(s)
                     /\ review.step = "seen" /\ review' = NoReview => AsListed(s)]_recordVars

(* Two compilations of one request against one generation have one hash, so *)
(* the second is recorded as a delivery of its own (context_ir.rs:905).     *)
OneHashPerRequest == command.step = "valid" => ~Conflicts
=============================================================================
