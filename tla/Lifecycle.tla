----------------------------- MODULE Lifecycle -----------------------------
(***************************************************************************)
(* The life of the process (cmd/proxypool/main.go): open the database,     *)
(* migrate it (internal/store/migrate.go), seed the sources of this        *)
(* release (internal/core/seed.go), serve, stop on a signal; or exit on an *)
(* error, or die, between any two statements.  The database outlives it,   *)
(* and the next start may be of another release.                           *)
(*                                                                         *)
(* No statement of the migration or of the seeding is inside a transaction *)
(* with another: each is an action.                                        *)
(***************************************************************************)
EXTENDS Naturals, Sequences, FiniteSets, SequencesExt

CONSTANTS
    Releases,       \* per release, its built-in sources: a sequence of [name, url]
    MavenSource,      \* [name, url] of the source seeded when NODEMAVEN_ENABLED
    OperatorURLs,   \* addresses an operator may give a source
    Intervals,      \* interval_sec of the sources a database may hold
    SeedInterval,   \* interval_sec of a seeded or added source
    MaxStarts       \* bound: starts of the process

ASSUME LifecycleAssumption ==
    /\ Releases \in Seq(Seq([name : STRING, url : STRING])) /\ Releases # <<>>
    /\ MavenSource \in [name : STRING, url : STRING]
    /\ SeedInterval \in Intervals /\ MaxStarts \in Nat

Schema == <<"sources", "nodes", "checks", "ip_facts">>
SchemaVersion == 1
NoSource == [url |-> ""]

SourceNames == {MavenSource.name} \cup {d.name : d \in UNION {ToSet(r) : r \in ToSet(Releases)}}

VARIABLES
    metaTable,  \* whether the table meta is there
    version,    \* schema_version in meta, 0 without one
    tables,     \* the tables of the schema that are there
    sourceRows, \* the sources table
    lpc,        \* where main is
    release,    \* the build that runs
    seeds,      \* sources still to be seeded
    press,      \* a toggle between its read and its write
    starts,     \* starts so far
    chosen      \* history: enabled and interval_sec an operator last gave a source

databaseVars == <<metaTable, version, tables, sourceRows>>
lifecycleVars == <<databaseVars, lpc, release, seeds, press, starts, chosen>>

NoPress == [name |-> ""]
NewSource(u, on, interval) == [url |-> u, enabled |-> on, interval |-> interval]
Settings(r) == [enabled |-> r.enabled, interval |-> r.interval]

\* An empty file, a database of this schema, or one of a later schema.
LifecycleInit ==
    /\ \/ version = 0 /\ metaTable = FALSE /\ tables = {}
       \/ version \in {1, 2} /\ metaTable = TRUE /\ tables = ToSet(Schema)
    /\ sourceRows \in [SourceNames ->
                          {NoSource} \cup (IF version = 0 THEN {}
                                           ELSE {NewSource("old", FALSE, i) : i \in Intervals})]
    /\ lpc = "down"
    /\ release = 1
    /\ seeds = <<>>
    /\ press = NoPress
    /\ starts = 0
    /\ chosen = [s \in SourceNames |-> IF sourceRows[s] = NoSource THEN NoSource
                                       ELSE Settings(sourceRows[s])]

-----------------------------------------------------------------------------
(* Start.                                                                  *)

\* config.Load and OpenWithOptions, of any release.
Start ==
    /\ lpc = "down" /\ starts < MaxStarts
    /\ release' \in DOMAIN Releases
    /\ starts' = starts + 1
    /\ lpc' = "meta"
    /\ UNCHANGED <<databaseVars, seeds, press, chosen>>

\* Migrate: the table meta, if it is not there.
CreateMeta ==
    /\ lpc = "meta"
    /\ metaTable' = TRUE
    /\ lpc' = "version"
    /\ UNCHANGED <<version, tables, sourceRows, release, seeds, press, starts, chosen>>

\* A version of a later schema ends main.
AfterVersion(v) == IF v = SchemaVersion THEN "seed" ELSE IF v = 0 THEN "tables" ELSE "down"

ReadVersion ==
    /\ lpc = "version"
    /\ lpc' = AfterVersion(version)
    /\ UNCHANGED <<databaseVars, release, seeds, press, starts, chosen>>

\* migrateToV1: the next CREATE TABLE IF NOT EXISTS.
CreateTable ==
    /\ lpc = "tables"
    /\ ToSet(Schema) \ tables # {}
    /\ LET next == CHOOSE i \in DOMAIN Schema : /\ Schema[i] \notin tables
                                               /\ \A j \in 1 .. i - 1 : Schema[j] \in tables
       IN tables' = tables \cup {Schema[next]}
    /\ UNCHANGED <<metaTable, version, sourceRows, lpc, release, seeds, press, starts, chosen>>

MayStampEarly == TRUE       \* mutant: the version is written before the tables
MayStamp == ToSet(Schema) \subseteq tables

SetVersion ==
    /\ lpc = "tables" /\ MayStamp
    /\ version' = SchemaVersion
    /\ lpc' = "seed"
    /\ UNCHANGED <<metaTable, tables, sourceRows, release, seeds, press, starts, chosen>>

SeedsOfEmpty(r) ==          \* mutant: a table with sources is not seeded
    IF \E s \in SourceNames : sourceRows[s] # NoSource THEN <<>> ELSE Releases[r]
SeedsOf(r) == Releases[r]

\* SeedDefaultSources: those of service.py or built in, and NodeMaven's.
BeginSeeding ==
    /\ lpc = "seed"
    /\ seeds' \in {SeedsOf(release), Append(SeedsOf(release), MavenSource)}
    /\ lpc' = "seeding"
    /\ UNCHANGED <<databaseVars, release, press, starts, chosen>>

UpsertedEnabled(r, u) ==    \* mutant: the conflict clause sets enabled as well
    IF r = NoSource THEN NewSource(u, TRUE, SeedInterval)
    ELSE [r EXCEPT !.url = u, !.enabled = TRUE]

\* The row UpsertSource leaves: a conflict refreshes only what a release may
\* change.
UpsertedSource(r, u) ==
    IF r = NoSource THEN NewSource(u, TRUE, SeedInterval) ELSE [r EXCEPT !.url = u]

\* A source that is new begins with the settings of its insert.
ChosenBy(s, u) ==
    IF sourceRows[s] = NoSource
    THEN [chosen EXCEPT ![s] = Settings(NewSource(u, TRUE, SeedInterval))]
    ELSE chosen

SeedNext ==
    /\ lpc = "seeding" /\ seeds # <<>>
    /\ LET d == Head(seeds)
       IN /\ sourceRows' = [sourceRows EXCEPT ![d.name] = UpsertedSource(@, d.url)]
          /\ chosen' = ChosenBy(d.name, d.url)
    /\ seeds' = Tail(seeds)
    /\ UNCHANGED <<metaTable, version, tables, lpc, release, press, starts>>

\* ListenAndServe, with the supervisor.
Serve ==
    /\ lpc = "seeding" /\ seeds = <<>>
    /\ lpc' = "serving"
    /\ UNCHANGED <<databaseVars, release, seeds, press, starts, chosen>>

-----------------------------------------------------------------------------
(* Run and stop.                                                           *)

Up == lpc \in {"serving", "draining"}

\* The handlers of the UI: addSource ...
AddSource(s, u) ==
    /\ Up
    /\ sourceRows' = [sourceRows EXCEPT ![s] = UpsertedSource(@, u)]
    /\ chosen' = ChosenBy(s, u)
    /\ UNCHANGED <<metaTable, version, tables, lpc, release, seeds, press, starts>>

\* ... and toggleSource, which reads the row ...
ReadToggle(s) ==
    /\ Up /\ press = NoPress
    /\ sourceRows[s] # NoSource
    /\ press' = [name |-> s, enabled |-> ~sourceRows[s].enabled]
    /\ UNCHANGED <<databaseVars, lpc, release, seeds, starts, chosen>>

\* ... and writes the flag.
WriteToggle ==
    /\ Up /\ press # NoPress
    /\ sourceRows' = [sourceRows EXCEPT ![press.name].enabled = press.enabled]
    /\ chosen' = [chosen EXCEPT ![press.name].enabled = press.enabled]
    /\ press' = NoPress
    /\ UNCHANGED <<metaTable, version, tables, lpc, release, seeds, starts>>

\* SIGTERM: Shutdown begins, ListenAndServe returns, and handlers that are
\* still running go on until main has returned.
Signal ==
    /\ lpc = "serving"
    /\ lpc' = "draining"
    /\ UNCHANGED <<databaseVars, release, seeds, press, starts, chosen>>

\* main returns, a statement fails and main exits, or the process is killed.
Die ==
    /\ lpc # "down"
    /\ lpc' = "down"
    /\ seeds' = <<>> /\ press' = NoPress
    /\ UNCHANGED <<databaseVars, release, starts, chosen>>

LifecycleNext ==
    \/ Start \/ CreateMeta \/ ReadVersion \/ CreateTable \/ SetVersion
    \/ BeginSeeding \/ SeedNext \/ Serve
    \/ \E s \in SourceNames : ReadToggle(s) \/ (\E u \in OperatorURLs : AddSource(s, u))
    \/ WriteToggle \/ Signal \/ Die

LifecycleSpec == LifecycleInit /\ [][LifecycleNext]_lifecycleVars

-----------------------------------------------------------------------------
\* A process that serves has every table of its schema, wherever earlier starts
\* died in their migration.
SchemaComplete == Up => version = SchemaVersion /\ ToSet(Schema) \subseteq tables

\* What an operator chose for a source, on or off and how often, outlives
\* restarts, upgrades, and seeding that dies half way (seed_test.go).
SettingsSurvive ==
    \A s \in SourceNames : sourceRows[s] # NoSource => Settings(sourceRows[s]) = chosen[s]

\* A process that begins to serve has every source of its release, at its
\* address, also when an earlier start died while it seeded them, or an operator
\* had given one of them another address.
DefaultsSeeded ==
    [][lpc = "seeding" /\ lpc' = "serving" =>
          \A d \in ToSet(Releases[release]) : sourceRows[d.name].url = d.url]_lifecycleVars
=============================================================================
