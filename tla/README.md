# Workspace Atlas: verification project

TLA+ modules, TLC runs and TLAPS proofs for Workspace Atlas (`src/`), a local-first
index of a source tree kept in one SQLite catalogue. Paths below are relative to the
repository; `catalogue.rs` means `src/catalogue.rs` of the repository.

## 1. The system

One process runs one `atlas` command (or serves MCP) on one catalogue file; several
processes may run at once. They share nothing but that file, which SQLite guards with
a single write lock (WAL mode, `busy_timeout` 5 s). Above it sits a *writer lease*, one
row per workspace, which most writing commands take for their whole duration. Readers
go by `workspace.active_generation_id`.

| component | state | operations | what makes it correct |
|---|---|---|---|
| writer lease (`catalogue.rs`, `cli.rs`) | `writer_lease` | acquire or take over, release; heartbeat (never called) | exclusion; a dead holder never wedges the workspace |
| generations (`generation.rs`) | `index_generation`, active pointer | begin, activate, fail, abandon | readers see whole, committed, final generations; one lineage |
| reconcile (`discovery.rs`) | locals of the command | walk, hash, build, activate | the committed index is the tree; failures leave the old index |
| file identity (`lifecycle.rs`, `discovery.rs`) | `file_identity`, `generation_file`, events, tombstones | rename, mint, upsert, delete | a file keeps its identity; no path lost or invented |
| task sessions (`task_session.rs`) | `task_session`, events | start, activate, reconcile, complete, abandon | state machine; anchored in committed generations; terminal is final |
| doctor, context-ir, task, governor commands (`cli.rs`, `context_application.rs`) | locals | recovery, compilation, session moves | a command ends; recovery spares the living |
| provider runtime, executions, semantic reconcile (`provider_runtime.rs`, `provider_persistence.rs`, `project_scope.rs`, `semantic_reconcile.rs`) | provider tables, child processes | probe, spawn, time out, decode, reuse, invalidate | a required failure blocks activation; reuse only on equal fingerprints |
| SCIP decoding and mapping, structural providers (`scip_*.rs`, `providers.rs`) | none | pure | limits hold before a fact is created |
| resolution (`resolution.rs`) | resolutions, conflicts | resolve, merge | evidence stays append-only; preference is a projection |
| serving plane (`serving.rs`) | `serving_generation`, projections | build, fall back | a projection is whole or absent; equals the truth tables |
| queries, broker, temporal, delta (`query.rs`, `broker.rs`, `temporal.rs`, `generation_delta.rs`) | evidence leases, deltas | read one captured generation | bounded, deterministic answers; ancestors only |
| task compiler, Context IR, governor (`task_compiler.rs`, `context_ir.rs`, `context_route.rs`, `context_application.rs`) | context uses | route, escalate, select under budgets | budgets never exceeded; one generation per answer |
| metrics and yield (`context_metrics.rs`, `context_yield.rs`, `query_metrics.rs`) | metrics | pure derivation | observed and reported evidence never mixed |
| workspace registry, routing, configuration (`workspace.rs`, `config.rs`, `paths.rs`) | `workspace`, locator file, configuration | register, locate, compact, unregister | a command never writes another workspace's catalogue |
| migrations (`migrations.rs`, `migrations/`) | `schema_migration` | ordered, checksummed steps | old writers fail closed; a crash leaves a prefix |
| MCP adapter (`mcp_adapter.rs`) | protocol state | initialise, call | same behaviour as the CLI |
| benchmarks, scripts, CI | | | not part of the running program |

Interactions: reconcile calls the lease, the generations, the lifecycle phases and the
providers, and its activation moves the task sessions, all through the catalogue; the
doctor closes candidates that reconciles left behind; task and governor commands move
sessions *without the lease* and read the active generation; everything else reads.

What is hard: exclusion rests on a clock and on a row rather than on a lock; a command
may outlive its lease or die at any statement; several operations read in one statement
and write in another; identities are looked up by one key and inserted under another;
the configuration may change between two cycles. The hazards are listed, each at its
line, in `PROJECT.json`.

## 2. The modules

    WriterLease   Generations   PublishedIndex (abstract)     FileIdentity      ProviderRuntime
          \        /    \             ^                          /      \               |
           \  TaskSessions \          | refinement   IdentityProofs  MCFileIdentity  ProviderExecution
            \      |       /          |                                               |
              Catalogue -------------'        EvidenceStore                    ProviderProofs
               |      \                        /        \
        MCCatalogue  CatalogueProofs    ServingPlane GenerationDelta           QueryStore
                                               \        /                      /       \
                                               EvidenceReads                Queries  Broker
                                               |         |                     \      /
                                      EvidenceProofs     |                    QueryReads    EvidenceIngest
                                                         |                     |     |       |     |
                                                         |           QueryProofs     |       |  IngestProofs
                                                         |___________________________|_______|
                                                                  MCRetrieval
                        CommandProofs                           DeepCompiler
                         /         \                                |
    LegacyCompiler  TaskRecords  WorkspaceSetup  ContextGovernor  DeepOutcomes
             \      /                    |             /        \        |
           MCTaskRecords ----------- MCCommands -------'  GovernorProofs MCDeepCompiler

The modules under one MC module share no variable with its other families: `MCRetrieval`
and `MCCommands` choose a *focus* initially, and every behaviour is about one family.

### Generations, leases and sessions

**WriterLease.** `lease` is the row, as the holder and the age of its heartbeat; `owner`
is a history variable. `AcquireLease`, `ReleaseLease` are the statements of
`acquire_writer_lease` and `release_writer_lease`; the upsert keeps the old `holder_id`
on a takeover, as the SQL does. One age stands for `acquired_at`, `heartbeat_at` and
`expires_at`: they are written together and no command calls `heartbeat_writer_lease`.

**Generations.** `gens` is `index_generation` as a sequence (rows are never deleted, the
id is a hash of the sequence number), `active` the pointer. A row's content is the
version of the source tree it was computed from. One operator per transaction.

**TaskSessions.** `session` holds the rows, `client` what a caller of a task or governor
command has read and not yet acted on. A session id is a hash of its task and start
generation, so a member of `Session` is that pair. Validation that reads nothing
mutable (contract versions, text bounds, hash syntax) is left out.

**Catalogue** composes them. `pc` is the step a process is about to take, and a step is
one transaction, one autocommitted statement or the work between two. A process makes one
invocation; its holder id is its own. `dbWriter` is the process whose long build
transaction has SQLite's write lock; the other transactions are atomic steps that need
the lock free (`Unlocked`), and `BusyTimeout` lets any of them give up while it is not,
going where the code's error path goes. `Crash` may stop a working process anywhere.
Reconcile is `ReadParent`, `ReadMaxSeq`, `BeginCandidate`/`SequenceTaken`, `HashFiles`,
`BeginBuild`, `CommitBuild`, `Activate`/`ActivationRefused`, `FailCandidate`, with
`ReconcileError` for the errors that leave by `?`. The doctor is `InvokeDoctor` (which
reads its list before the lease), `AbandonNext`, `AbandonError`. context-ir is
`InvokeCompile`, `CreateSession`, `CheckTransition`, `WriteTransition`.

**PublishedIndex** is what readers are promised: a set of published entries that only
grows, by whole entries that become current in the same step (`Spec`), and, when writers
exclude each other, in one line (`OrderedSpec`). `Catalogue` implements it under
`published <- the committed rows`, `current <- active`.

### Reconcile: the tree and its providers

**FileIdentity** is one reconcile cycle as a function from the tables, the disk and the
policy to the next tables: previous snapshot, rename detection, the per-path upserts in
walk order with their two different keys, and deletions. One cycle is one action, since
its transaction either commits whole or rolls back. `minted` keeps the order of
insertion, which decides which of several identities a lookup by path returns. The loop
over the walked paths is a recursive function (`Walk`), one `Visit` a path.

**ProviderRuntime** is `spawn_and_wait`: `phase` is where it polls, terminates, reaps or
drains, `child` and `kin` are the process and the descendants that may hold its pipes,
`verdict` the outcome. A child may exit, hang, ignore SIGTERM or write too much.

**ProviderExecution** is `run_semantic_reconcile` around it, plan by plan: probe
(`ProbeAvailable`, `ProbeUnavailable`), fingerprint and `Reuse`, `PrepareRun`, `Start`,
`Run`, then `RunSucceeded` and `PersistDocuments`, or `RunFailed`, `RunError`,
`OutputRefused`; `CommitTables`, and `Activate` or `FailCandidate`. `db` is committed,
`work` the build transaction's view of the same tables; a crash drops `work` and leaves
`output` directories behind. The tree and the executables change (`World`) at any time.
A provider that exits with 0 may have listed any of its scope's files, or none
(`ProviderExits`); it is assumed to list no file outside it, whose text no fingerprint
would cover. `whole` is a history variable among the tables: which index was mapped
without a partial document, and for which inputs.

**EvidenceIngest** is what happens to a provider's index: a decoder that walks messages
field by field and stops at its limits (`scip_decoder.rs`), the mapping to symbols and
relationships (`scip_mapping.rs`), positions converted to byte offsets under the
document's encoding (`provider_persistence.rs`), the tables filled with insert-or-ignore,
and the resolution and clustering of the generation's references. An index is a tree of
fields, not bytes; a text is lines of characters, each with its UTF-8 and UTF-16 length.

### Reading the catalogue

**EvidenceStore** holds what readers see: generations that list file revisions, facts
that hang on revisions. A reconcile adds facts to revisions that published generations
share, as the code does. The lease is `Acquire` and `Release`: `working` are the commands
at work, and any of them may be overrun, because a live holder is taken over when its
heartbeat is 30 seconds old (`WriterLease` has the row itself); `MaxOverruns` bounds how
often. One command of a kind works at a time: two reconciles are `Catalogue`'s subject.
**ServingPlane** builds projections (`BeginServingBuild` reads the generation, `ScanFacts`
its facts' fingerprint, `FinishServingBuild` is the transaction; `alone`, `since` are
history), and models the reader that compares projected rows with the truth tables under its examination budget, and the paged status.
An answer in an order is the set of its rows: the first so many of them (`First`), the
slices merged (`MergeSlices`), the rows after a key (`PageRows`). Evidence ids, which
break every tie, are unique (`IdAssumption`).
**GenerationDelta** computes the difference of two generations (`ComputeDelta`), persists
it under an id made of the two (`PersistDelta`), reports it with its risk
(`SummarizeChanges`, `Report`), completes a session with it and keeps evidence leases.
**EvidenceReads** composes the two: a `scenario` names the commands that run together.

**QueryStore**, **Queries**, **Broker**, **QueryReads**: `find` and its cursor,
`inspect`, `trace` (row by row, in whatever order its statements return them), `impact`,
exact source and context packets. No query opens a
transaction, so each SQL statement and each file read is a step, and between any two a
reconcile may commit facts (`CommitFacts`), also onto revisions that the active generation
lists, or activate its generation (`ActivateNext`, in any order, each once), or an edit may
fall. A row says which reconcile writes it and which generations resolve it. `held`
remembers what a file held since the call began, and `since` what a query could have seen.

### Commands on a workspace and its tasks

**LegacyCompiler** is the planner-v1.1 compiler as an operator from a request to a ledger;
**TaskRecords** is what commands leave behind: contexts, events and metrics, timelines
and previews paged under digests (`walk`, `review`), and compaction by age and rank. Of a
compilation it knows what `Compiled` gives for a request with or without a projection. No
capture ends inside a transaction, so the rows one inserts share a row number, and an
`ORDER BY` is a relation (`Earlier`, `EntryBefore`) and the places it gives (`Ordered`).

**WorkspaceSetup** is `atlas init` and the routing of every other command. A process goes
from `Locate` over the locator's lock, the open, the preflight reads and each migration's
transaction, to the checksums, the workspace row and the registered configuration, one
statement or file operation a step; it may be interrupted between any two.

**ContextGovernor** is one governed run: `Decide`, the attempts DIRECT, LIGHT and DEEP,
LIGHT's statements one by one (`script` holds those still to run, which run target by
target and within one in the code's order: `Turn`, `Place`, `Precedes`), the envelope and
its validation, and the two writes that activate a bound session.

**DeepCompiler** compiles a Context IR 2.0.0 document: seeds under a work ledger
(`ResolveSeed`, `PackSeeds`), relationship and effect closures (`VisitNode`,
`VisitSubject`), `Judge`, the temporal part, the verification of each source file and the
seal, whose checks (`Validates`) are the document's own validation. **DeepOutcomes**
derives what the governor's DEEP route reports of it, capability by capability.

### Abstractions worth knowing

- In `Catalogue`, the hashing of a tree is one read of one version: edits during a walk
  are met in `ProviderExecution`, where a cycle reads the tree more than once (`raced`).
  A semantic provider's verdict is a choice in `Catalogue` and computed in
  `ProviderExecution`; what DEEP compiles is a choice in `ContextGovernor` and computed in
  `DeepCompiler`.
- In `FileIdentity`, "excluded" stands for the excluded, secret, unsupported and failed
  branches, which write the same keys. `lifecycle_event`, `tombstone` and `file_revision`
  rows follow from what is modelled and are not kept.
- A hash is the value it is made of: collisions are left out, and two things that hash
  the same fields are equal.
- In `EvidenceStore` one symbol and one call per file stand for its facts; in
  `GenerationDelta` relationship changes are counted by caller and target.
- An order the code leaves to SQLite's rowids or to a `HashMap` is a choice where an
  answer depends on it, and fixed where it does not.
- In `DeepCompiler` items that tie in the document's order stay in the order read.
- Without a session the DEEP compilation runs in one transaction that is rolled back; its
  behaviours are those of `DeepCompiler` in which nothing is activated.

## 3. The runs

| run | instance | shows |
|---|---|---|
| `timely` | 2 reconciles, 1 doctor, 1 context-ir, 2 tree versions, no command outlives `StaleAge`, crashes | `OneWriter`; `PublicationIsOrdered`: each new generation succeeds the active one and was computed against it; `DoctorSparesTheLiving`; `WritersProgress`: commands end and newcomers are admitted again and again |
| `overrun` | 2 reconciles, 1 doctor, unlimited overrun | `TypeOK`, `ActiveComplete` and the refinement `PublicationIsAtomic` hold even without exclusion |
| `sessions` | 3 reconciles, 2 clients, 1 task startable twice, 2 outcomes | `SessionAnchored`, `CommitReconciles`, `TerminalIsFinal` |
| `identity` | 3 paths, 2 contents, any policy and one change of it, unboundedly many edits and cycles | `IndexMatchesDisk`, `IdentityIsStable`, `AbsenceIsRecorded`, `OnlyAdmittedContent` |
| `providers` | a required provider with 2 scopes, 2 contents, 1 change of the tree or an executable, 2 cycles | `CoverageIsHonest`, `FactsMatchTheirRevision`, `RequiredIsPresent`, `CycleEnds` |
| `retrieval` | evidence: 2 files, 3 generations, 2 edits, 1 overrun, pages of one row; queries: 2 catalogues of 3 files, one where the second reconcile adds facts to the same revisions, one where it moves the files, traces of depth 0 to 2; ingestion: 3 plans over 2 documents, 6 indexes, 2 builds | `ProjectionIsWhole`, `AnswersAreTruth`, `DeltasExplain`, `RecordsAreFinal`; `FindReachesEveryPath`, `InspectIsOneRevision`, `TraceFlagsAreHonest`, `VerifiedWasThere`, `PacketsAreHonest`; `EvidenceIsBacked` |
| `commands` | records: 2 sessions, 9 requests; setup: 2 roots, 2 names, 2 processes, 2 commands, 1 interruption; governor: 2 generations, 4 targets, every route interval | `ContextsAreHonest`, `PagesAreWhole`, `CompactionIsConfirmed`; `SetupAgrees`; `LightIsTruthful`, `RefusedOnlyBelowCeiling`, `EscalationIsEarned`, `SessionHasItsContext`, `GovernorRunEnds` |
| `compiler` | every kind of task with 11 lists of seeds; 3 kinds under each of 7 tight budgets; 3 histories; at most 2 sources with bytes; files edited, cut to 2 bytes or deleted | `OnlyKnownRefusals`, `ReportedIsEarned`, `CompileEnds` |

Each property is stated in words above its definition. Every one of them is also run
against a mutated definition of the code it is about, which must violate it; the mutants
stand before the definitions they replace (`Mut...`).

Bounds. Three reconciles are a crashed or overrun holder, the one that takes over and a
newcomer that meets both; where liveness or edits are checked as well, two meet each
other. Two tree versions distinguish older from newer. `StaleAge` 1 and `LeaseDuration` 2
keep "fresh", "stale but unexpired" and "expired" apart, and the age saturates beyond. A
session can start at generation 1 or 2, so that it meets an older, an equal and a newer
commit. Three paths allow a chain or a swap through a third path, two contents unique and
ambiguous renames. Two scopes let one fail while the other succeeds, and one coverage row
be written twice; the second scope has no file, so its index is empty. The second cycle
reuses, re-runs or finds what the first left. Providers that are not required are left to
the theorems. Three generations let a
projection be superseded while a client pages through the status of the others, and put
an ancestor between two compared ones. Pages and fetch limits of one row make every
answer that has two rows a truncated one. The query, compiler and governor instances are
small catalogues in which every branch of the code occurs: two owners, an ambiguous name,
a conflict, a stale row, a missing file, a relationship out of the workspace, a cycle.

Constraints. `MCEdits` (`retrieval`) removes edits of files while a query runs that reads
none. `MCRecords` (`commands`) lets one client at a time be between two of its steps
beside single-transaction commands, and compiles the larger requests against empty
records only. Neither touches the states in which liveness is checked: `GovernorRunEnds` is about
the governor's states, where both hold. `MaxEdits`, `MaxSource`, `MaxCycles`,
`MaxRevisions`, `MaxCommands` and `MaxInterruptions` bound what the world does, never what
the program does; `MaxRow`, `MaxMetrics` and `LastDay` bound recorded rows and the clock.
`CHECK_DEADLOCK FALSE` is set where every process may have finished its one invocation.
One edge of the instance: the risk "low" of a temporal report needs an addition that fits
the caller's limit beside verified sources and is not reached with two edits, so
`LowRiskIsVerified` is about "none" and "unknown" there, and about a bug that lowers a risk.

Fairness. A started command keeps being scheduled (`WF` of its steps in `Catalogue`, of
`Work` in `ProviderExecution`, of `Governor`, of `Compile`) and time passes (`WF` of
`Tick`). Both hold of an operating system's processes; nobody is obliged to start a
command, to crash, to edit or to activate. No stronger fairness is needed because every
wait is bounded: the lease refuses instead of waiting, `busy_timeout` bounds the write
lock, and `spawn_and_wait` has a deadline on every phase, also for a child that never
exits or a descendant that keeps its pipes open.

### Where code and documentation part

Four runs each refute one sentence of the repository (quoted in `PROJECT.json`,
`findings`):

- `v_error`: "Find or create file_identity" (`discovery.rs:785`). After a rename from `a`
  to `b`, a new file at `a` breaks the primary key, and every reconcile fails.
- `v_hash`: "Two compilations against the same generation with the same request produce a
  byte-identical hash" (`context_ir.rs:905`). One before and one after the serving
  projection is built differ, under one id, and the second command ends in an error.
- `v_setup`: "Retry `atlas init` ... to resume safely" (`cli.rs:1240`). An interruption
  after the second migration and before the checksums makes every retry fail.
- `v_answered`: "All required task recipes produce sufficient evidence or exact deficits"
  (`SPEC-bounded-context-compiler.md:107`). Six shapes of requests are refused by the
  compiler's own checks; the run shows the first, and `OnlyKnownRefusals` says there are
  no others in the instance:
  1. a review, bug fix, API change or behaviour change that selects an uncertainty, which
     `apply_temporal_roles_v2` then finds "already populated" (`task_compiler.rs:733`);
  2. two seeds that each push a notice of one code: they are never merged, and the order
     check of the notices is strict (`task_compiler.rs:2546`, `context_ir.rs:1867`);
  3. a seed omitted by a sentinel with reason `RecordBudget` while ordinary records are
     left (`task_compiler.rs:2516`, `context_ir.rs:1836`);
  4. a candidate the token budget omits before a smaller, later one that is selected,
     which leaves a gap in the ranks (`context_ir.rs:1672`);
  5. a primary candidate partly omitted while another selected source drifts: the seal
     becomes `Partial` where validation expects a safe primary (`context_ir.rs:2137`);
  6. a relationship whose far end is a symbol or a file the generation does not hold: its
     role is given the state `Unresolved` with the reason `UnavailableEvidence`
     (`task_compiler.rs:3424`, `2932`), a pair validation refuses (`context_ir.rs:1915`).

  Beside these the compiler refuses for the caller's bounds (seeds, source bytes, and more
  than `MAX_MATERIALIZED_SOURCES` sources, `task_compiler.rs:232`), when the generation
  moved, and when a selected file was edited to end before its selection does: that drift
  ends in "invalid zero-based half-open byte range" (`task_compiler.rs:290`,
  `query.rs:1551`), not in the stale IR that `task_compiler.rs:212` speaks of.

`TerminalIsFinal` holds in `sessions`, where no context-ir runs; its unguarded transition
(`task_session.rs:1167`) does overwrite a session abandoned meanwhile. `AbsenceIsRecorded`
is about a policy that stays: a path whose directory is newly pruned is recorded as
deleted while it is on disk (`discovery.rs:1010`).

### Seen on the way

What the modules show and no property is about, for a reader who wonders whether a
definition is meant as it stands:

- Leases and cycles. A live holder is taken over after 30 seconds (README: "60-second"),
  since heartbeats are never sent and `expires_at` is never read; after a takeover the
  release deletes nothing, the row still naming the earlier holder (`cli.rs:3478`).
  A serving build that a reconcile overruns may store a projection of other facts than its
  fingerprint names (`serving.rs:1294`, `1352`), or an empty one of a generation that was
  superseded meanwhile; nothing removes it, and readers fall back to the truth tables.
  Errors before activation leave the generation a candidate (`discovery.rs:664`). A
  lookup by new path may find an older, deleted identity (`discovery.rs:746`);
  `lifecycle_state` "deleted" is never set back (`lifecycle.rs:189`).
- Providers. Coverage "complete" says that no document of the index was partial, not that
  the index has the files of the scope: an empty one is complete
  (`semantic_reconcile.rs:641`), and of two scopes of a provider the first decides
  (`provider_persistence.rs:254`). `CoverageIsHonest` claims no more than that. A failed
  execution row is never superseded (`:472`), also when a later run is recorded as
  coverage "complete"; `create_dir_all`
  keeps a crashed run's `index.scip` (`provider_runtime.rs:523`); on Unix the tree is not
  killed when its leader exits within the grace period; a reused "partial" execution does
  not mark the cycle degraded; the fingerprint reads the tree once more after it was
  hashed (`semantic_reconcile.rs:281`).
- Evidence. A second SCIP kind of one relationship is dropped by insert-or-ignore
  (`provider_persistence.rs:822` against `:790`); clusters are keyed by the first word of
  the target, a scheme, so a file that refers to two symbols is recorded as a conflict
  (`semantic_reconcile.rs:1080`); external targets keep raw names (`:1039`); relationship
  types are stored in upper case by one path and filtered in lower case by another.
- Reads. `trace --max-depth 0` stops at its seed without a flag, and `find --limit 0` says
  "truncated" without a cursor; overloads share a structural key, whose scores add
  up, so that in a packet they outrank a symbol with a semantic row, against BROKER-001
  (`broker.rs:88`);
  `inspect`'s inbound relationships have no generation filter (`query.rs:772`); a
  stale `find` cursor is ignored where a comment says rejected (`query.rs:2129`);
  a fact that is committed behind a cursor within its generation is never listed,
  although `next_cursor` is `None` "when the result set was exhausted" (`query.rs:356`);
  `inspect`'s symbols and outbound relationships may be of two states of the catalogue;
  no extractor stores a target of kind "path" (`providers.rs:483`,
  `provider_persistence.rs:817`), so an unresolved inbound trace (`query.rs:979`), the
  inbound part of `inspect` and the hops of a packet (`broker.rs`) have no rows, and no
  flag says so;
  a packet hashes a file and then reads it again for the text it calls verified
  (`broker.rs:459-460`), against INV-001 (`query.rs:1625`): text that was written in
  between is handed out beside the hash of the other;
  `impact` may list its own seed; facts added to the revisions of the active generation
  are visible at once (`discovery.rs:1054`), so a serving build of that generation keeps
  failing after its facts grew (`serving.rs:1305`), and a persisted delta conflicts with a
  recomputed one after a live edit (`generation_delta.rs:1292`).
- Records. A query event's id is made of a process id and a local ordinal
  (`query.rs:64`), so a recycled id drops it; a preview's digest holds counts, not rows;
  undecodable event rows are dropped from a timeline in silence.
- Governor. With every capability satisfied by the caller, an initial LIGHT and no seeds,
  the run ends in "completed LIGHT route has no payload" (`context_application.rs:1096`);
  an activation between LIGHT's statements is reported as unsupported; below a DEEP
  ceiling, LIGHT's ambiguous relationships are answered by a terminal reason that
  `validate_terminal_reason` refuses (`context_route.rs:1941`), which
  `RefusedOnlyBelowCeiling` describes; a DEEP without session holds SQLite's write lock
  for the whole compilation (`context_application.rs:1539`).
- Setup. Of two concurrent inits on a fresh catalogue the later first migration sets
  `user_version` back to 1; an init of a root without a locator fails while any other
  default catalogue is open or has a `-wal` left by a kill; a reserved locator outlives a
  failed init, so another display name is refused.

## 4. The proofs

A theorem here holds for every value of the constants that satisfies the named assumption
of its module: any numbers of processes, sessions, providers, documents, generations and
requests, and any limits. TLC evaluates the assumptions on the instances of the runs.

### The catalogue

`CatalogueProofs`, from `LeaseAssumption`, `SessionAssumption` and `CatalogueAssumption`
(disjoint roles, sentinels that are no members, `StaleAge < LeaseDuration`):

- `TypeCorrect`: `Spec => []TypeOK`. Not inductive alone: the active pointer is in range
  only because a reconcile that activates has a candidate that is a row, and context-ir
  writes a session only because it chose one. `TypeInv` adds both.
- `ActiveIsComplete`: `Spec => []ActiveComplete`, with overrun, crashes and the doctor.
  `PublicationInv` says that two reconciles never have the same candidate (its number
  was the highest when inserted), that a candidate under construction is not yet
  published, that a reconcile past hashing knows a version, that past its build the
  files in place are of that version, that every committed row is complete, and that the
  active one is committed.
- `Atomic`: `Spec => PublicationIsAtomic`, the refinement of `PublishedIndex!Spec`. All
  steps but five are *quiet* (they leave generations alone); of the five, only
  `Activate` changes what is published, and `PublicationInv` gives it the abstract
  step's conjuncts.
- `Exclusive`: `Spec => [](~AllowOverrun => OneWriter)`. `ExclusionInv` says that the
  row is whole, that an invocation that has not acquired is not the row's holder, and
  that a working command acquired last and its row is not stale. The middle part is
  needed because the row may name an earlier holder than the one that works.

The next theorems are about timely commands: they assume
`~AllowOverrun`, that no command still works when its heartbeat is stale and another may take its lease over (30
seconds after it acquired, `cli.rs:3489`). Without it two reconciles may build from one
parent, and the one that activates last need not be the newer.

- `Ordered`: the refinement of `PublishedIndex!OrderedSpec`. `OrderInv` says that the
  active generation is the newest committed one, that no published tree is of the future, and
  what a working reconcile may rely on at each of its steps: the parent it read is still
  active, its candidate is newer, the files it compared with are the parent's, and no
  published tree is newer than the one it hashed. It is inductive only beside
  `ExclusionInv`: another writer would break each of these.
- `DoctorSpares`: `DoctorSparesTheLiving`, although the doctor's list is older than its
  lease. Two commands do not work at once, and a candidate has one builder.

The last are about the rows of `task_session` under the same concurrency.

- `Reconciles`: `CommitReconciles`, with overrun: `activate_candidate` moves every
  active session of an older generation, and only those.
- `Anchored`: `SessionAnchored`, for timely commands. `AnchorInv` (sessions start at
  committed generations; a session reconciled or completed has a newer one committed) is
  inductive whatever overruns. Only the end generation of a completion needs `OrderInv`:
  a late activation would make an older generation active again, and a client would then
  complete against it.
- `TerminalFinal`: `TerminalIsFinal`, for `Compiler = {}`, that is, where nobody runs
  context-ir. `TerminalStays` says why: with context-ir running, nothing but its
  unguarded transition (`WriteTransition`, `task_session.rs:1167`) changes a terminal
  session. `BoundInv` ties each activation in progress to a session that was explicitly
  started.

### File identity

`IdentityProofs`, from `FileIdentityAssumption` (there is a path; "no file" is no content),
for any number of paths and contents and any sequence of edits and cycles:

- `IdentityHolds`: `Spec => []IdentityInv`, and with it `IdentityTyped`. While the policy
  has not changed, every row is at the path of its identity; an identity minted for an
  admitted path stays at admitted paths and any other never moves (`Sided`); and a file
  listed as present is what a lookup of its path finds (`FirstAt`). The last part is what
  the two different keys could break: a row is looked up by the last known path and
  inserted under an id made of the path, so an older identity of the same path, or one
  that a rename moved there, would shadow it.
- `MatchesDisk`: `IndexMatchesDisk`; `IdentityStable`: `IdentityIsStable`;
  `AbsenceRecorded`: `AbsenceIsRecorded`; all three from `Made`, which says of a walk that
  has reached a path that it has one row for each path so far, under one id each, and that
  a path with a listed file still finds the identity listed there.
- `AdmittedOnly`: `OnlyAdmittedContent`, for any changes of the policy: the walk starts
  from no rows, and an upsert keeps a hash only of a row of the same walk.

The walk is a recursive function over the paths. `WalkIsDefined` shows that it exists and
`Upwards` is induction over it, stated with a set instead of an operator, so that both
rest on the least element of a set of numbers.

### Providers

`ProviderProofs`, from the assumptions of `ProviderExecution` and `ProviderRuntime`:

- `TypeInvHolds`: `TypeOK`, with `CycleShape`: which plan, run and output belong to
  which step, and that a candidate is open exactly while a cycle runs.
- `RequiredPresent`: `RequiredIsPresent`. As long as nothing was blocked, every required
  plan before the current one has its coverage in the candidate.
- `FactsMatch`: `FactsMatchTheirRevision`. `FactsInv` follows a text from the tree to
  the output directory, whose name is made of the fingerprint, and to the facts, through
  a crash that leaves the directory and a later cycle that finds it.
- `CoverageHonest`: `CoverageIsHonest`, for any plans, also several of one provider.
  `CoverInv` says that an execution recorded as complete has an index behind it
  (`ExecBacked`), whose documents have their facts (`IndexFacts`), in `db` and in `work`,
  so that `Reuse` is sound in any later cycle; and that the row of a provider is there
  from its first scope on and never rewritten (`CandidateBacked`).

Proving about `ProviderExecution` found a slip of the model that no run had: in
`PersistDocuments` a misplaced operator let a partial index map all its documents.

### What is read

`EvidenceProofs`, from `StoreAssumption` (among others, a file holds some text) and
`DeltaAssumption` (limits of records are numbers):

- `EvidenceTyped`: `TypeOK`, with `StoreInv` (the active generation is the last, lineage
  goes back one by one, every listed revision has its structural facts) and `Holding` (who
  works was granted the lease, which does not mean that it still is the only one).
- `RecordsFinal`: `RecordsAreFinal`.
- `AnswersTrue`: `AnswersAreTruth`, from `IdAssumption` and `ServingAssumption` too. The
  order lemmas say that the first rows of a union are among the first of its parts
  (`SlicesSuffice`), so that merging two slices of one row more than a page cuts the page
  the truth tables give. `ReaderOk` is what a reader between its statements holds: the
  rows it read are those of the projection or of the generation it captured, although
  facts are added to shared revisions meanwhile; `PagerOk`, that a status page goes on
  where the one before ended. `Capacity` bounds what a reader has examined.
- `ProjectionsWhole`: `ProjectionIsWhole`. `BuildFresh` is what makes it inductive: a
  running build is of a committed generation, its fingerprint is of facts that generation
  has, and if nothing else worked since it began (`StaysAlone`: nobody begins unnoticed)
  they are all of them and the generation is still active. An overrun build may write
  more facts than it fingerprinted, or none; never one that was not there.
- `DeltasExplained`: `DeltasExplain`. `DeltaInv` says what a query and a completion have
  computed at each step, so that what they persist later, after any number of
  reconciles, is still sound for the pair it is persisted under. The lemmas about the
  operators (files, symbols and relationships of a difference, its truncation and its
  risk) are most of the proof.

### From an index to evidence

`IngestProofs`, from `IngestAssumption` (there is a plan, the places in an index are numbers,
a text is its lines):

- `Backed`: `EvidenceIsBacked`. `SpanOk` holds of a persisted symbol from its insertion on:
  `OffsetIsPlace` says that a position which is given a byte offset is one of the text's
  places, at the end of a character or of the text, and `InsertedAre` that insert-or-ignore
  adds only rows it was given. `PassOk` says that resolutions and clusters of the newest
  generation are absent while it is built and afterwards are exactly those computed from
  what is visible in it. They depend on the candidate's tables and not on the disk
  (`SameResolution`), so an edit leaves them true; that of finitely many priorities one is
  the greatest (`GreatestIs`) makes the preferred fact one that no other outranks. What a
  sum of bytes or a decoded field *is* plays no part: the decoder and the offsets are folds
  and stay closed, so the theorem holds of any index they may deliver.

### Queries

`QueryProofs`, from `QueryStoreAssumption` (catalogues whose rows are of their files, finitely
many paths and contents; a resolution judges what its own generation sees) and
`QueriesAssumption` (a page has at least one row), while facts are committed and generations
activated in any order:

- `QueriesTyped`: `QueriesTypeOK`, with `QueryInv`: a captured generation is a committed
  one, and `held` has what a file holds.
- `InspectedOnce`: `InspectIsOneRevision`. What a statement of `inspect` has read is of the
  captured revision and has all that was stored when it began; committed rows stay, so
  this remains true of the first statement's rows while the second is still to run.
- `VerifiedThere`: `VerifiedWasThere`. A source call keeps the file it opened, and what it
  read was in the file at some moment of the call, so a hash that agrees is of a text that
  was there; `Backed` says as much of every excerpt of a packet and of the text its hash
  names.
- `FindIsWhole`: `FindReachesEveryPath`. A cursor names a path although the rows are
  symbols, so a page may end within a path, whose other rows are then left out: `PageIsFirst`
  says that a page is an initial part of what is left, `NextPage` that what matched when
  the walk began and lies up to the cursor has its path listed (`UpTo`), also when rows
  were committed since, and `FindInv` that pages followed so far are disjoint.
- `TraceIsWhole`: `TraceFlagsAreHonest`. `TraceInv` says that every row that concerns a
  visited reference (`Concerns`) is an edge, or its reference is queued or being read
  (`Ahead`), or a flag is set or another generation was active at a statement. It needs no
  order of rows, so it covers every plan SQLite may choose.

### The setup

`CommandProofs`, its second half, from `SetupAssumption` (finitely many roots and names; what older versions
left is a catalogue with one row per root):

- `SetupTypes`: `TypeInv`, and `SetupIsAgreed`: `SetupAgrees`. `SetupInv` adds what a
  process may rely on at each step (`Good`): it has the lock while it decides (`Locked`); the
  catalogue it decided on is the only choice when it publishes, and the root is routed
  there from then on (`Routed`); the row it loaded stays, and with it a registered
  configuration that agrees (`Settled`). Each step is first shown to leave the others what
  they count on (`World`): locks held stay held, locators are written once and under their
  lock, rows and configurations are never removed. A kill between two statements only
  drops its process, which no clause needs.

### Task records

`CommandProofs`, its first half, from `RetentionAssumption` (finitely many sessions, limits of at least one
row) and `CompiledAssumption` (a context delivers finitely many items and relationships,
each known by a number). The second is all that `TaskRecords` knows of a compilation;
`MCTaskRecords` gives it what `LegacyCompiler` computes.

- `RecordsTyped`: `RecordsSpec => []RecordsTypeOK`. Ids are what has to be kept apart: the
  ordinals in them are computed from the rows that are there, so after a compaction an id
  comes again, but never while the row that had it is stored. That the outcome of a task
  is recorded without a collision needs `EventsOk`: an outcome is only of an ended session.
- `PagesWhole`: `PagesAreWhole`. `Earlier` is a strict total order on the events of a session
  (`EarlierInLine`: their ids differ), so the ranks that `Ordered` counts are 1 to n, each
  once (`OrderedLists`). `WalkOk` is what a client holds between two pages: the captured rows
  up to the last one given, in their order. The digest in the cursor, which is of the rows
  and not of their number, says that the capture still is what it was, so the next page
  goes on in it. `ReviewOk` says the same of a preview and its manifest.
- `Confirmed`: `CompactionIsConfirmed`. `DeletionIsListed` follows a deleted row back to the
  entry that names its session; a metric deleted by its number is of no session, because
  numbers are unique (`MetricsOk`). With `ReviewOk`, what the client was shown is the
  manifest of the moment it was applied.

### The governor

`GovernorProofs`, from `GovernorAssumption` (targets are paths or symbols, a path matches at
most one file; a request's intent, routes and capabilities are of their enumerations, and
its seeds finitely many):

- `Escalated`: `EscalationIsEarned`, and `Refused`: `RefusedOnlyBelowCeiling`.
  `RouteInv` says that every route from the floor up to the current one was tried and
  left deficits that the next may fill (`Climbed`). From it `OneMoreValid` derives that
  `ContextExecution::validate` accepts what the executor builds on top, whichever
  constructor it comes from. The case that stays is `DeficientFits`: the terminal reason
  is wrong only when LIGHT stops below a DEEP ceiling over deficits that are neither
  `unavailable`, `stale` nor `unsupported`, so that none is of a DEEP capability.
- `HasItsContext`: `SessionHasItsContext`. `ContextInv` says that a run past its route
  has acquired context, and that the session it activates started from the run's
  generation.
- `LightTruthful`: `LightIsTruthful`. Of every statement due, `ReadsOk` says that it is
  still to run and has told nothing, or that it has told of its target what the decision's
  generation says, or nothing if another was activated since (`Answered`). So a capability
  that the envelope calls satisfied is backed by that generation's rows for every seed
  (`Backed`), and one it lacks is missed for a reason (`Deserved`) if nothing was activated.
  The order of the statements, which the code fixes, is not needed.

### Only model-checked

- Liveness, which needs fairness, and `ENABLED`: out of TLAPS's reach.
- `PacketsAreHonest`: a packet's ranking is a sorted sequence (`SetToSortSeq`), for which the
  provers have no definition.
- `ContextsAreHonest`, `OnlyKnownRefusals`, `ReportedIsEarned`: both compilers are folds of
  the community modules, whose definitions are recursive operators, and what these
  properties say is about the value a fold computes. What a recursive *function* computes can be proved, as in
  `IdentityProofs`, at the price of rewriting each fold as one.

## 5. Not modelled

- **Unregister** (`workspace.rs`): the preview is read-only, and every apply ends in
  `unregister_unavailable` before it removes anything.
- **Path confinement, parsing of configurations, structural providers' parsers, hashing,
  identifiers, canonical serialization**: pure functions of one input, without state to
  go wrong over several steps.
- **MCP adapter**: it keeps no state, checks argument shapes and calls the application
  functions modelled here; the transport is an SDK.
- **Metrics and yield**: pure derivations over recorded evidence. That a query's metrics
  rows are recorded, aged and compacted is in `TaskRecords`.
- **Benchmarks, scripts, CI, installers**: not part of the running program.
- Within modelled parts: platform calls of the provider runtime and its cancel flag
  (never set), discovery of project scopes, wire bytes of SCIP, aliases and composed call
  edges (never produced), ranking and rendering of answers, effects, conflicts and renames
  in deltas, the history query, the governor's basic-coverage capability
  (`context_application.rs:1373`) and its read-only shows, output formatting.

## 6. Plan

Built: all the modules above; of the 36 properties that need no fairness, all but four are
theorems. What is left is proof, in this order:

1. `LegacyCompiler` with its folds as recursive functions: `ContextsAreHonest`.
2. `DeepCompiler`: `OnlyKnownRefusals`, treating the closures as operators with a range.
