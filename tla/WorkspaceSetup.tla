--------------------------- MODULE WorkspaceSetup ---------------------------
(* How a workspace comes to be: the route from its root to a catalogue      *)
(* (cli.rs), the catalogue's schema (migrations.rs), the workspace row and  *)
(* the registered copy of its configuration (workspace.rs). `atlas init`    *)
(* makes them, in this order and in no common transaction; every other      *)
(* command follows them, and reconcile is the one that also reads the       *)
(* configuration. Processes run at the same time, fail and are killed.      *)
EXTENDS Integers, FiniteSets, FiniteSetsExt

CONSTANTS
    Root, Name, Policy,   \* canonical roots, display names, what else a configuration says
    Runner,               \* the processes that run commands
    Before,               \* the catalogues older versions may have left
    MaxCommands,          \* bound: the commands that are started
    MaxInterruptions      \* bound: those of them that are cut short

VARIABLES
    catalogues,    \* catalogue file -> what SQLite holds in it
    connections,   \* catalogue file -> the processes that have it open
    sidecars,      \* the catalogues a killed process left a -wal and a -shm beside
    configs,       \* catalogue file -> {} or {its registered configuration}
    locators,      \* root -> {} or {the catalogue it is routed to}
    locks,         \* root -> the holder of its publication lock
    process,       \* process -> where it is in its command
    commands, interruptions

setupVars ==
    <<catalogues, connections, sidecars, configs, locators, locks, process,
      commands, interruptions>>

(* The default catalogue of a workspace id, which is its root and its name; *)
(* and one that only --catalogue names, outside the directory of the others.*)
Home == [root : Root, name : Name]
Elsewhere == [root |-> "any", name |-> "elsewhere"]
CatalogueFile == Home \cup {Elsewhere}

Config == [name : Name, policy : Policy]
Version == 1..4

Absent == [exists |-> FALSE, version |-> 0, rows |-> {}, sums |-> {}, spaces |-> {}]

(* What a catalogue may hold; workspace.root is UNIQUE.                     *)
Space == [root : Root, name : Name, config : Config]
Database ==
    [exists : BOOLEAN, version : 0..4, rows : SUBSET Version, sums : SUBSET Version,
     spaces : SUBSET Space]
OnePerRoot(spaces) == \A v, w \in spaces : v.root = w.root => v = w

ASSUME SetupAssumption ==
    /\ IsFiniteSet(Root) /\ IsFiniteSet(Name)
    /\ Elsewhere \notin Home
    /\ \A b \in Before : \A c \in DOMAIN b : b[c] \in Database /\ OnePerRoot(b[c].spaces)

Idle == [step |-> "idle"]

SetupInit ==
    /\ catalogues \in {[c \in CatalogueFile |-> IF c \in DOMAIN b THEN b[c] ELSE Absent] : b \in Before}
    /\ connections = [c \in CatalogueFile |-> {}]
    /\ sidecars = {}
    /\ configs = [c \in CatalogueFile |-> {}]
    /\ locators = [r \in Root |-> {}]
    /\ locks = [r \in Root |-> {}]
    /\ process = [p \in Runner |-> Idle]
    /\ commands = 0
    /\ interruptions = 0

At(p, step) == process[p].step = step
Mine(p) == catalogues[process[p].file]
Goto(p, step) == process' = [process EXCEPT ![p].step = step]

(* The end of a process, which returns or is killed. The last connection    *)
(* that is closed takes the sidecars with it.                               *)
Stop(p, killed) ==
    /\ process' = [process EXCEPT ![p] = Idle]
    /\ connections' = [c \in CatalogueFile |-> connections[c] \ {p}]
    /\ locks' = [r \in Root |-> locks[r] \ {p}]
    /\ sidecars' =
           LET left == {c \in CatalogueFile : p \in connections[c]}
           IN  IF killed THEN sidecars \cup left
               ELSE sidecars \ {c \in left : connections[c] = {p}}
    /\ UNCHANGED <<catalogues, configs, locators, commands>>

FailCommand(p) == Stop(p, FALSE) /\ UNCHANGED interruptions

FinishCommand(p) == At(p, "done") /\ FailCommand(p)

(* A statement or a file operation returns an error, or the process dies.   *)
Interrupt(p) ==
    /\ ~At(p, "idle") /\ ~At(p, "done")
    /\ interruptions < MaxInterruptions
    /\ interruptions' = interruptions + 1
    /\ \E killed \in BOOLEAN : Stop(p, killed)

(***************************************************************************)
(* Commands                                                                 *)
(***************************************************************************)

Begin(p) ==
    /\ At(p, "idle")
    /\ commands < MaxCommands
    /\ commands' = commands + 1
    /\ UNCHANGED <<catalogues, connections, sidecars, configs, locators, locks, interruptions>>

Command(step, op, r, file, config) ==
    [step |-> step, op |-> op, root |-> r, file |-> file, config |-> config,
     seen |-> 0, v |-> 1, after |-> "check"]

BeginInit(p) ==
    /\ Begin(p)
    /\ \E r \in Root, config \in Config, override \in BOOLEAN :
           process' = [process EXCEPT ![p] =
               IF override THEN Command("open", "init", r, Elsewhere, {config})
               ELSE Command("lock", "init", r, [root |-> r, name |-> config.name], {config})]

(* With --config or without.                                                *)
BeginReconcile(p) ==
    /\ Begin(p)
    /\ \E r \in Root, config \in {{}} \cup {{c} : c \in Config}, override \in BOOLEAN :
           process' = [process EXCEPT ![p] =
               Command(IF override THEN "connect" ELSE "locate", "reconcile", r, Elsewhere, config)]

Overridden(p) == process[p].file = Elsewhere

(***************************************************************************)
(* Routing a root                                                           *)
(***************************************************************************)

Unlocked == UNCHANGED <<catalogues, connections, sidecars, configs, locators, commands, interruptions>>

(* resolve_catalogue looks for the locator first.                           *)
Locate(p) ==
    /\ At(p, "locate")
    /\ LET route == locators[process[p].root]
       IN  IF route = {} THEN Goto(p, "lock")
           ELSE \E c \in route : process' = [process EXCEPT ![p].step = "connect", ![p].file = c]
    /\ UNCHANGED locks /\ Unlocked

TakeLock(p) ==
    /\ At(p, "lock")
    /\ locks[process[p].root] = {}
    /\ locks' = [locks EXCEPT ![process[p].root] = {p}]
    /\ Goto(p, "route")
    /\ Unlocked

(* A catalogue cannot be inspected while it has sidecars, which is while it *)
(* is open or after a kill, nor while it has no workspace table.            *)
Uninspectable(c) ==
    /\ catalogues[c].exists
    /\ \/ connections[c] # {} \/ c \in sidecars
       \/ 1 \notin catalogues[c].rows

(* Mutant: only catalogues of the current schema are searched.              *)
MutLegacyMatches(r) ==
    {c \in Home : catalogues[c].version = 4 /\ \E w \in catalogues[c].spaces : w.root = r}

LegacyMatches(r) ==
    {c \in Home : \E w \in catalogues[c].spaces : w.root = r}

(* Under the lock: a locator that is there decides; without one, all        *)
(* default catalogues are searched for the root. init goes on when it is    *)
(* in none or in the one it wants, a resolution when it is in exactly one.  *)
Route(p) ==
    /\ At(p, "route")
    /\ LET me == process[p]
           route == locators[me.root]
           matches == LegacyMatches(me.root)
       IN  IF route # {} THEN
               IF me.op = "init" /\ route # {me.file} THEN FailCommand(p)
               ELSE \E c \in route :
                       /\ process' = [process EXCEPT
                              ![p].step = IF me.op = "init" THEN "open" ELSE "connect", ![p].file = c]
                       /\ locks' = [locks EXCEPT ![me.root] = {}]
                       /\ Unlocked
           ELSE IF \/ \E c \in Home : Uninspectable(c)
                   \/ me.op = "init" /\ ~(matches \subseteq {me.file})
                   \/ me.op = "reconcile" /\ Cardinality(matches) # 1
               THEN FailCommand(p)
           ELSE /\ process' = [process EXCEPT
                       ![p].step = "publish",
                       ![p].file = IF me.op = "init" THEN me.file ELSE CHOOSE c \in matches : TRUE]
                /\ UNCHANGED locks /\ Unlocked

(* write_catalogue_locator: created atomically, never replaced.             *)
PublishLocator(p) ==
    /\ At(p, "publish")
    /\ LET me == process[p]
       IN  IF locators[me.root] \subseteq {me.file} THEN
               /\ locators' = [locators EXCEPT ![me.root] = {me.file}]
               /\ Goto(p, IF me.op = "init" THEN "open" ELSE "connect")
               /\ locks' = [locks EXCEPT ![me.root] = {}]
               /\ UNCHANGED <<catalogues, connections, sidecars, configs, commands, interruptions>>
           ELSE FailCommand(p)

(***************************************************************************)
(* The schema: apply_all                                                    *)
(***************************************************************************)

(* What the database holds and where the process goes on.                   *)
Write(p, step, database) ==
    /\ catalogues' = [catalogues EXCEPT ![process[p].file] = database]
    /\ Goto(p, step)
    /\ UNCHANGED <<connections, sidecars, configs, locators, locks, commands, interruptions>>

Step(p, then) ==
    /\ process' = [process EXCEPT ![p] = then]
    /\ UNCHANGED <<catalogues, connections, sidecars, configs, locators, locks, commands, interruptions>>

(* open_connection creates the file.                                        *)
Open(p) ==
    /\ At(p, "open")
    /\ catalogues' = [catalogues EXCEPT ![process[p].file].exists = TRUE]
    /\ connections' = [connections EXCEPT ![process[p].file] = @ \cup {p}]
    /\ Goto(p, "version")
    /\ UNCHANGED <<sidecars, configs, locators, locks, commands, interruptions>>

(* The preflight, three times in a run: it reads the header, then the       *)
(* migration rows, then the checksums and the index, in no transaction.     *)
ReadVersion(p) ==
    /\ At(p, "version")
    /\ Step(p, [process[p] EXCEPT !.step = "rows", !.seen = Mine(p).version])

RowsAgree(database, version) == database.rows = 1..version

ReadRows(p) ==
    /\ At(p, "rows")
    /\ IF ~RowsAgree(Mine(p), process[p].seen) THEN FailCommand(p)
       ELSE Step(p, [process[p] EXCEPT !.step = IF process[p].seen = 0 THEN process[p].after ELSE "sums"])

(* Migration 2 makes the checksum table, migration 4 the new index.         *)
SumsAgree(database, version) ==
    /\ database.sums = IF version < 2 THEN {} ELSE 1..version
    /\ (2 \in database.rows) <=> (version >= 2)
    /\ (4 \in database.rows) <=> (version >= 4)

ReadSums(p) ==
    /\ At(p, "sums")
    /\ IF ~SumsAgree(Mine(p), process[p].seen) THEN FailCommand(p)
       ELSE Step(p, [process[p] EXCEPT !.step = process[p].after])

(* The next migration that has no row. The checksums are completed before   *)
(* migration 4, and at the end.                                             *)
CheckApplied(p) ==
    /\ At(p, "check")
    /\ LET left == {v \in Version : v >= process[p].v /\ v \notin Mine(p).rows}
       IN  IF left = {} THEN
               Step(p, [process[p] EXCEPT !.step = "backfill", !.after = "register"])
           ELSE IF Min(left) = 4 THEN
               Step(p, [process[p] EXCEPT !.step = "backfill", !.after = "apply", !.v = 4])
           ELSE Step(p, [process[p] EXCEPT !.step = "apply", !.v = Min(left)])

(* One migration in one transaction. The first three tolerate what is       *)
(* there; a checksum that is there, or the fourth's column, aborts it.      *)
ApplyMigration(p) ==
    /\ At(p, "apply")
    /\ LET v == process[p].v
           checksummed == v = 2 \/ 2 \in Mine(p).rows
       IN  IF (checksummed /\ v \in Mine(p).sums) \/ (v = 4 /\ v \in Mine(p).rows) THEN FailCommand(p)
           ELSE /\ catalogues' = [catalogues EXCEPT ![process[p].file] =
                       [Mine(p) EXCEPT !.version = v, !.rows = @ \cup {v},
                                       !.sums = IF checksummed THEN @ \cup {v} ELSE @]]
                /\ process' = [process EXCEPT ![p].step = "check", ![p].v = v + 1]
                /\ UNCHANGED <<connections, sidecars, configs, locators, locks, commands, interruptions>>

(* reconcile_migration_checksums, a read and an insert for each version.    *)
ReadChecksums(p) ==
    /\ At(p, "backfill")
    /\ LET missing == IF 2 \in Mine(p).rows THEN Mine(p).rows \ Mine(p).sums ELSE {}
       IN  IF missing = {} THEN Step(p, [process[p] EXCEPT !.step = "version"])
           ELSE Step(p, [process[p] EXCEPT !.step = "backfill row", !.seen = Min(missing)])

InsertChecksum(p) ==
    /\ At(p, "backfill row")
    /\ IF process[p].seen \in Mine(p).sums THEN FailCommand(p)
       ELSE Write(p, "backfill", [Mine(p) EXCEPT !.sums = @ \cup {process[p].seen}])

(***************************************************************************)
(* The workspace and its configuration                                      *)
(***************************************************************************)

(* register_workspace: INSERT OR IGNORE, then the row of the id is read.    *)
(* The root is unique, so another name's row makes it a no-op.              *)
Register(p) ==
    /\ At(p, "register")
    /\ \E config \in process[p].config :
           LET row == [root |-> process[p].root, name |-> config.name, config |-> config]
               known == \E w \in Mine(p).spaces : w.root = row.root
           IN  Write(p, "load", [Mine(p) EXCEPT !.spaces = IF known THEN @ ELSE @ \cup {row}])

(* A resolution opens the file the locator names, or the one it was given.  *)
Connect(p) ==
    /\ At(p, "connect")
    /\ IF ~Mine(p).exists THEN FailCommand(p)
       ELSE /\ connections' = [connections EXCEPT ![process[p].file] = @ \cup {p}]
            /\ Goto(p, "load")
            /\ UNCHANGED <<catalogues, sidecars, configs, locators, locks, commands, interruptions>>

(* The row must be the one the command means: for init that of its name and *)
(* configuration, for a resolution the one the locator names.               *)
Load(p) ==
    /\ At(p, "load")
    /\ LET me == process[p]
           found == {w \in Mine(p).spaces :
                        /\ w.root = me.root
                        /\ me.op = "init" => {w.config} = me.config
                        /\ (me.op = "reconcile" /\ ~Overridden(p)) => w.name = me.file.name}
       IN  IF found = {} THEN FailCommand(p) ELSE Step(p, [me EXCEPT !.step = "config"])

Registered(p) == (CHOOSE w \in Mine(p).spaces : w.root = process[p].root).config

(* persist_registered_config, and load_registered_config when none is given.*)
Configure(p) ==
    /\ At(p, "config")
    /\ LET given == process[p].config
           kept == configs[process[p].file]
       IN  IF \/ given # {} /\ given # {Registered(p)}
              \/ kept # {} /\ kept # {Registered(p)}
              \/ given = {} /\ kept = {}
           THEN FailCommand(p)
           ELSE Step(p, [process[p] EXCEPT !.step = IF kept = {} THEN "persist" ELSE "done"])

(* Created atomically, never replaced; a copy that appeared is checked.     *)
PersistConfig(p) ==
    /\ At(p, "persist")
    /\ IF configs[process[p].file] \subseteq {Registered(p)} THEN
           /\ configs' = [configs EXCEPT ![process[p].file] = {Registered(p)}]
           /\ Goto(p, "done")
           /\ UNCHANGED <<catalogues, connections, sidecars, locators, locks, commands, interruptions>>
       ELSE FailCommand(p)

SetupNext ==
    \E p \in Runner :
        \/ BeginInit(p) \/ BeginReconcile(p) \/ FinishCommand(p) \/ Interrupt(p)
        \/ Locate(p) \/ TakeLock(p) \/ Route(p) \/ PublishLocator(p)
        \/ Open(p) \/ ReadVersion(p) \/ ReadRows(p) \/ ReadSums(p)
        \/ CheckApplied(p) \/ ApplyMigration(p) \/ ReadChecksums(p) \/ InsertChecksum(p)
        \/ Register(p) \/ Connect(p) \/ Load(p) \/ Configure(p) \/ PersistConfig(p)

SetupSpec == SetupInit /\ [][SetupNext]_setupVars

(***************************************************************************)
(* Properties                                                               *)
(***************************************************************************)

(* A root has one home: whichever of the concurrent, failing and repeated   *)
(* commands got there first, it is never routed to a catalogue while its    *)
(* workspace lives in another default one. And what a command ends with     *)
(* agrees: the row of its catalogue, the registered copy and, for init, the *)
(* configuration it was given.                                              *)
SetupAgrees ==
    /\ \A r \in Root : \A c \in Home :
           (\E w \in catalogues[c].spaces : w.root = r) => locators[r] \subseteq {c}
    /\ \A p \in Runner : At(p, "done") =>
           /\ configs[process[p].file] = {Registered(p)}
           /\ process[p].op = "init" => process[p].config = {Registered(p)}
           /\ ~Overridden(p) => locators[process[p].root] = {process[p].file}

(* "Retry `atlas init` with the same workspace root and display name to     *)
(* resume safely" (cli.rs:1241): once no process is at work, every          *)
(* catalogue is one that the preflight of the next init lets pass.          *)
SetupResumes ==
    (\A p \in Runner : At(p, "idle")) =>
        \A c \in CatalogueFile : catalogues[c].exists =>
            /\ RowsAgree(catalogues[c], catalogues[c].version)
            /\ catalogues[c].version = 0 \/ SumsAgree(catalogues[c], catalogues[c].version)
=============================================================================
