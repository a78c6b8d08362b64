---------------------------- MODULE StoreProofs ----------------------------
(***************************************************************************)
(* Proofs about the database file and what outlives the process in it: the *)
(* guard of its log (WalGuard) for any loops, readers and limits, and its  *)
(* migration, seeding and settings (Lifecycle) for any releases.           *)
(***************************************************************************)
EXTENDS WalGuard, Lifecycle, SequenceTheorems, TLAPS

-----------------------------------------------------------------------------
(* The guard of the log.                                                   *)

Ladder == {"passive", "restart", "restarting", "truncate", "truncating"}

WalTyped ==
    /\ file \in Nat /\ log \in Nat /\ busies \in Nat
    /\ copied \in BOOLEAN
    /\ reading \subseteq Readers
    /\ gpc \in [Guards -> {"top", "lock", "pause", "work"} \cup Ladder]
    /\ walMu \in Guards \cup {Nobody}

WalInv == WalTyped /\ LadderExclusive

\* The limit in force is a size, whatever the environment says.
LEMMA SizeLimitIsNat == WalAssumption => SizeLimit \in Nat
BY DEF WalAssumption, SizeLimit

\* A commit never leaves the log larger than its file.
LEMMA CommitFits ==
    ASSUME WalAssumption, WalInv, Commit \/ UNCHANGED <<file, log, copied>>
    PROVE  file' \in Nat /\ log' \in Nat /\ log' <= file' /\ copied' \in BOOLEAN
<1>1. CASE Commit
  <2>1. SizeLimit \in Nat
    BY SizeLimitIsNat
  <2>2. \A a, b \in Nat : /\ Greatest(a, b) \in Nat /\ b <= Greatest(a, b) /\ a <= Greatest(a, b)
                          /\ Least(a, b) \in Nat
    BY DEF Greatest, Least
  <2>3. CASE copied /\ reading = {}
    <3>1. log' = 1 /\ file' = Greatest(1, Least(file, SizeLimit))
      BY <1>1, <2>3 DEF Commit
    <3>2. Least(file, SizeLimit) \in Nat
      BY <2>1, <2>2 DEF WalInv, WalTyped
    <3> QED
      BY <1>1, <2>2, <3>1, <3>2 DEF Commit
  <2>4. CASE ~(copied /\ reading = {})
    <3>1. log' = log + 1 /\ file' = Greatest(file, log + 1)
      BY <1>1, <2>4 DEF Commit
    <3>2. log + 1 \in Nat /\ file \in Nat
      BY DEF WalInv, WalTyped
    <3> QED
      BY <1>1, <2>2, <3>1, <3>2 DEF Commit
  <2> QED
    BY <2>3, <2>4
<1>2. CASE UNCHANGED <<file, log, copied>>
  BY <1>2 DEF WalInv, WalTyped, LadderExclusive
<1> QED
  BY <1>1, <1>2

\* The holder of walMu climbs the ladder, or leaves it and lets go.
LEMMA ClimbKeepsLadder ==
    ASSUME WalAssumption, WalInv, NEW g \in Guards, gpc[g] \in Ladder,
           NEW pc, gpc' = [gpc EXCEPT ![g] = pc],
           \/ pc \in Ladder /\ walMu' = walMu
           \/ pc = "pause" /\ walMu' = Nobody
    PROVE  /\ gpc' \in [Guards -> {"top", "lock", "pause", "work"} \cup Ladder]
           /\ walMu' \in Guards \cup {Nobody}
           /\ \A h \in Guards : gpc'[h] \in Ladder <=> walMu' = h
<1>1. walMu = g /\ Nobody \notin Guards /\ "pause" \notin Ladder
  BY DEF WalInv, LadderExclusive, Ladder, WalAssumption
<1> QED
  BY <1>1 DEF WalInv, WalTyped, LadderExclusive, Ladder

\* Every step keeps the ladder to the one guard that has the lock.
LEMMA WalStep ==
    ASSUME WalAssumption, WalInv, [WalNext]_walVars
    PROVE  WalInv'
<1> DEFINE Ladders == /\ gpc' \in [Guards -> {"top", "lock", "pause", "work"} \cup Ladder]
                      /\ walMu' \in Guards \cup {Nobody}
                      /\ \A h \in Guards : gpc'[h] \in Ladder <=> walMu' = h
           Sizes == /\ file' \in Nat /\ log' \in Nat /\ log' <= file' /\ busies' \in Nat
                    /\ copied' \in BOOLEAN
           Waits == reading' \subseteq Readers /\ waitsFor' \subseteq reading'
<1>1. ASSUME Ladders, Sizes, Waits
      PROVE  WalInv'
  BY <1>1 DEF WalInv, WalTyped, LadderExclusive, Ladder
<1>2. ASSUME UNCHANGED <<gpc, walMu>>
      PROVE  Ladders
  BY <1>2 DEF WalInv, WalTyped, LadderExclusive, Ladder
<1>3. ASSUME UNCHANGED <<file, log, busies>>, copied' \in BOOLEAN
      PROVE  Sizes
  BY <1>3 DEF WalInv, WalTyped, LadderExclusive
<1>4. ASSUME UNCHANGED reading, waitsFor' \in {waitsFor, reading, {}}
      PROVE  Waits
  BY <1>4 DEF WalInv, WalTyped, LadderExclusive
<1>5. copied \in BOOLEAN /\ busies \in Nat
  BY DEF WalInv, WalTyped
<1>6. ASSUME NEW g \in Guards, NEW pc \in {"top", "lock", "pause", "work"}, gpc[g] \notin Ladder,
             gpc' = [gpc EXCEPT ![g] = pc], walMu' = walMu
      PROVE  Ladders
  BY <1>6 DEF WalInv, WalTyped, LadderExclusive, Ladder
<1>7. CASE UNCHANGED walVars
  BY <1>1, <1>2, <1>3, <1>4, <1>5, <1>7 DEF walVars
<1>8. ASSUME NEW g \in Guards, LookAtLog(g) \/ EndOfPause(g)
      PROVE  WalInv'
  <2>1. gpc[g] \notin Ladder
    BY <1>8 DEF LookAtLog, EndOfPause, Ladder
  <2>2. PICK pc \in {"top", "lock", "work"} : gpc' = [gpc EXCEPT ![g] = pc]
    BY <1>8 DEF LookAtLog, EndOfPause, GoesTo
  <2>3. UNCHANGED <<file, log, copied, reading, waitsFor, walMu, busies>>
    BY <1>8 DEF LookAtLog, EndOfPause
  <2> QED
    BY <1>1, <1>3, <1>4, <1>5, <1>6, <2>1, <2>2, <2>3
<1>9. ASSUME NEW g \in Guards, Enforce(g)
      PROVE  WalInv'
  <2>1. /\ gpc[g] = "lock" /\ walMu = Nobody
        /\ UNCHANGED <<file, log, copied, reading, waitsFor, busies>>
        /\ \/ gpc' = [gpc EXCEPT ![g] = "pause"] /\ walMu' = walMu
           \/ gpc' = [gpc EXCEPT ![g] = "passive"] /\ walMu' = g
    BY <1>9 DEF Enforce, LockFree, GoesTo
  <2>2. Ladders
    BY <2>1 DEF WalInv, WalTyped, LadderExclusive, Ladder, WalAssumption
  <2> QED
    BY <1>1, <1>3, <1>4, <1>5, <2>1, <2>2
<1>10. ASSUME NEW g \in Guards, Passive(g) \/ Restarted(g)
       PROVE  WalInv'
  <2>1. gpc[g] \in Ladder /\ UNCHANGED <<file, log, reading, waitsFor, busies>>
        /\ copied' \in BOOLEAN
    BY <1>5, <1>10 DEF Passive, Restarted, Ladder
  <2>2. PICK pc \in {"pause", "restart", "truncate"} :
           /\ gpc' = [gpc EXCEPT ![g] = pc]
           /\ walMu' = IF pc = "pause" THEN Nobody ELSE walMu
    BY <1>10 DEF Passive, Restarted, AfterCheckpoint, GoesTo
  <2>3. Ladders
    BY <2>1, <2>2, ClimbKeepsLadder DEF Ladder
  <2> QED
    BY <1>1, <1>3, <1>4, <2>1, <2>3
<1>11. ASSUME NEW g \in Guards, BeginBlocking(g)
       PROVE  WalInv'
  <2>1. /\ gpc[g] \in Ladder /\ waitsFor' = reading
        /\ UNCHANGED <<file, log, copied, reading, walMu, busies>>
    BY <1>11 DEF BeginBlocking, Ladder
  <2>2. PICK pc \in {"restarting", "truncating"} : gpc' = [gpc EXCEPT ![g] = pc]
    BY <1>11 DEF BeginBlocking, GoesTo
  <2>3. Ladders
    BY <2>1, <2>2, ClimbKeepsLadder DEF Ladder
  <2> QED
    BY <1>1, <1>3, <1>4, <1>5, <2>1, <2>3
<1>12. ASSUME NEW g \in Guards, Truncated(g)
       PROVE  WalInv'
  <2>1. /\ gpc[g] \in Ladder /\ gpc' = [gpc EXCEPT ![g] = "pause"] /\ walMu' = Nobody
        /\ file' = 0 /\ log' = 0 /\ copied' = TRUE /\ UNCHANGED <<reading, waitsFor, busies>>
    BY <1>12 DEF Truncated, Truncates, GoesTo, Ladder
  <2>2. Ladders
    BY <2>1, ClimbKeepsLadder
  <2>3. Sizes
    BY <1>5, <2>1
  <2> QED
    BY <1>1, <1>4, <2>1, <2>2, <2>3
<1>13. ASSUME NEW g \in Guards, Busy(g)
       PROVE  WalInv'
  <2>1. /\ gpc[g] \in Ladder /\ busies' = busies + 1 /\ waitsFor' = {}
        /\ UNCHANGED <<file, log, copied, reading>>
    BY <1>13 DEF Busy, Ladder
  <2>2. PICK pc \in {"pause", "truncate"} : /\ gpc' = [gpc EXCEPT ![g] = pc]
                                           /\ walMu' = IF pc = "pause" THEN Nobody ELSE walMu
    BY <1>13 DEF Busy, AfterCheckpoint, GoesTo
  <2>3. Ladders
    BY <2>1, <2>2, ClimbKeepsLadder DEF Ladder
  <2>4. Sizes
    BY <2>1 DEF WalInv, WalTyped, LadderExclusive
  <2> QED
    BY <1>1, <1>4, <2>1, <2>3, <2>4
<1>14. ASSUME NEW g \in Guards, Work(g)
       PROVE  WalInv'
  <2>1. Sizes
    BY <1>5, <1>14, CommitFits DEF Work
  <2>2. gpc[g] \notin Ladder /\ gpc' = [gpc EXCEPT ![g] = "top"]
        /\ UNCHANGED <<reading, waitsFor, walMu>>
    BY <1>14 DEF Work, GoesTo, Ladder
  <2> QED
    BY <1>1, <1>4, <1>6, <2>1, <2>2
<1>15. CASE UnguardedCommit
  <2>1. Sizes
    BY <1>5, <1>15, CommitFits DEF UnguardedCommit
  <2> QED
    BY <1>1, <1>2, <1>4, <1>15, <2>1 DEF UnguardedCommit
<1>16. ASSUME NEW r \in Readers, BeginRead(r) \/ EndRead(r)
       PROVE  WalInv'
  <2>1. UNCHANGED <<file, log, copied, gpc, walMu, busies>>
    BY <1>16 DEF BeginRead, EndRead
  <2>2. Waits
    BY <1>16 DEF BeginRead, EndRead, WalInv, WalTyped, LadderExclusive
  <2> QED
    BY <1>1, <1>2, <1>3, <1>5, <2>1, <2>2
<1> QED
  BY <1>7, <1>8, <1>9, <1>10, <1>11, <1>12, <1>13, <1>14, <1>15, <1>16 DEF WalNext, GuardStep

\* One checkpoint at a time, by the holder of walMu, which is let go on every way
\* out of EnforceWALSizeLimit; and the log fits its file.
THEOREM CheckpointsExclude == WalSpec => []LadderExclusive
<1>1. WalInit => WalInv
  BY WalAssumption DEF WalInit, WalInv, WalTyped, LadderExclusive, Ladder, WalAssumption
<1>2. WalInv /\ [WalNext]_walVars => WalInv'
  BY WalAssumption, WalStep
<1>3. WalInv => LadderExclusive
  BY DEF WalInv
<1> QED
  BY <1>1, <1>2, <1>3, PTL DEF WalSpec

-----------------------------------------------------------------------------
(* Migration, seeding and settings.                                        *)

Serves == {"seed", "seeding", "serving", "draining"}

\* The version is stamped after the tables, and serving comes after the version.
Migrated ==
    /\ version \in Nat
    /\ version # 0 => ToSet(Schema) \subseteq tables
    /\ lpc \in Serves => version = SchemaVersion

\* Every step keeps the tables that the version in the database stands for.
LEMMA MigrationStep ==
    ASSUME Migrated, [LifecycleNext]_lifecycleVars
    PROVE  Migrated'
<1>1. CASE ReadVersion
  <2>1. lpc' \in Serves => version = SchemaVersion
    BY <1>1 DEF ReadVersion, AfterVersion, Serves, SchemaVersion
  <2> QED
    BY <1>1, <2>1 DEF ReadVersion, databaseVars, Migrated, Serves
<1>2. CASE CreateTable
  <2>1. tables \subseteq tables' /\ UNCHANGED <<version, lpc>>
    BY <1>2 DEF CreateTable
  <2> QED
    BY <2>1 DEF Migrated
<1>3. CASE SetVersion
  BY <1>3 DEF SetVersion, MayStamp, Migrated, SchemaVersion
<1>4. CASE Start \/ CreateMeta \/ Die
  BY <1>4 DEF Start, CreateMeta, Die, databaseVars, Migrated, Serves
<1>5. CASE BeginSeeding \/ Serve \/ Signal
  BY <1>5 DEF BeginSeeding, Serve, Signal, databaseVars, Migrated, Serves
<1>6. CASE UNCHANGED <<version, tables, lpc>>
  BY <1>6 DEF Migrated
<1> QED
  BY <1>1, <1>2, <1>3, <1>4, <1>5, <1>6
     DEF LifecycleNext, SeedNext, ReadToggle, AddSource, WriteToggle, lifecycleVars, databaseVars

\* A process that serves has every table of its schema, wherever earlier starts
\* died: Migrate writes schema_version last.
THEOREM SchemaIsComplete == LifecycleSpec => []SchemaComplete
<1>1. LifecycleInit => Migrated
  BY DEF LifecycleInit, Migrated, Serves, SchemaVersion
<1>2. Migrated /\ [LifecycleNext]_lifecycleVars => Migrated'
  BY MigrationStep
<1>3. Migrated => SchemaComplete
  BY DEF Migrated, SchemaComplete, Up, Serves, SchemaVersion
<1> QED
  BY <1>1, <1>2, <1>3, PTL DEF LifecycleSpec

\* Of this release, of an operator, or of an earlier release.
Addresses == STRING \cup OperatorURLs \cup {"old"}
SourceRecords == [url : Addresses, enabled : BOOLEAN, interval : Intervals]
Builtin == [name : STRING, url : STRING]

\* A row that is there is told from none by its settings.
LEMMA RecordIsSource == \A r \in SourceRecords : r # NoSource
<1> SUFFICES ASSUME NEW r \in SourceRecords, r = NoSource
             PROVE  FALSE
  OBVIOUS
<1>1. DOMAIN r = {"url", "enabled", "interval"} /\ DOMAIN r = {"url"}
  BY DEF SourceRecords, NoSource
<1> QED
  BY <1>1

\* The sources that a release seeds are its own and NodeMaven's.
LEMMA BuiltinsTyped ==
    ASSUME LifecycleAssumption, NEW i \in DOMAIN Releases
    PROVE  /\ SeedsOf(i) \in Seq(Builtin)
           /\ Append(SeedsOf(i), MavenSource) \in Seq(Builtin)
           /\ \A d \in ToSet(Append(SeedsOf(i), MavenSource)) :
                 d \in ToSet(Releases[i]) \cup {MavenSource}
           /\ \A d \in ToSet(Releases[i]) \cup {MavenSource} : d.name \in SourceNames
<1>1. Releases[i] \in Seq(Builtin) /\ MavenSource \in Builtin
  BY DEF LifecycleAssumption, Builtin
<1>2. Append(Releases[i], MavenSource) \in Seq(Builtin)
  BY <1>1, AppendProperties
<1>3. \A d \in ToSet(Append(Releases[i], MavenSource)) : d \in ToSet(Releases[i]) \cup {MavenSource}
  BY <1>1, AppendProperties DEF ToSet
<1>4. Releases[i] \in ToSet(Releases)
  BY DEF ToSet
<1>5. \A d \in ToSet(Releases[i]) \cup {MavenSource} : d.name \in SourceNames
  BY <1>4 DEF SourceNames
<1> QED
  BY <1>1, <1>2, <1>3, <1>5 DEF SeedsOf

LifecycleTyped ==
    /\ sourceRows \in [SourceNames -> SourceRecords \cup {NoSource}]
    /\ release \in DOMAIN Releases
    /\ seeds \in Seq(Builtin)
    /\ \A d \in ToSet(seeds) : d.name \in SourceNames
    /\ chosen \in [SourceNames -> [enabled : BOOLEAN, interval : Intervals] \cup {NoSource}]
    /\ press # NoPress => /\ press \in [name : SourceNames, enabled : BOOLEAN]
                          /\ sourceRows[press.name] # NoSource

SettingsInv == LifecycleTyped /\ SettingsSurvive

\* An insert or a conflict of UpsertSource keeps a source's settings.
LEMMA UpsertKeepsSettings ==
    ASSUME LifecycleAssumption, SettingsInv, NEW s \in SourceNames, NEW u \in Addresses,
           sourceRows' = [sourceRows EXCEPT ![s] = UpsertedSource(sourceRows[s], u)],
           chosen' = ChosenBy(s, u), UNCHANGED <<release, press>>,
           seeds' \in Seq(Builtin), \A d \in ToSet(seeds') : d.name \in SourceNames
    PROVE  SettingsInv' /\ sourceRows'[s].url = u
<1> DEFINE new == NewSource(u, TRUE, SeedInterval)
<1>1. new \in SourceRecords /\ Settings(new) \in [enabled : BOOLEAN, interval : Intervals]
      /\ new.url = u
  BY DEF LifecycleAssumption, NewSource, SourceRecords, Settings
<1>2. CASE sourceRows[s] = NoSource
  <2>1. sourceRows'[s] = new /\ chosen'[s] = Settings(new)
    BY <1>2 DEF SettingsInv, LifecycleTyped, UpsertedSource, ChosenBy
  <2>2. \A t \in SourceNames : t # s => sourceRows'[t] = sourceRows[t] /\ chosen'[t] = chosen[t]
    BY <1>2 DEF SettingsInv, LifecycleTyped, ChosenBy
  <2>3. sourceRows' \in [SourceNames -> SourceRecords \cup {NoSource}]
        /\ chosen' \in [SourceNames -> [enabled : BOOLEAN, interval : Intervals] \cup {NoSource}]
    BY <1>1, <1>2 DEF SettingsInv, LifecycleTyped, UpsertedSource, ChosenBy
  <2>4. SettingsSurvive'
    BY <2>1, <2>2 DEF SettingsInv, SettingsSurvive
  <2>5. press # NoPress => press.name # s
    BY <1>2 DEF SettingsInv, LifecycleTyped
  <2>6. LifecycleTyped'
    BY <2>2, <2>3, <2>5 DEF SettingsInv, LifecycleTyped
  <2> QED
    BY <1>1, <2>1, <2>4, <2>6 DEF SettingsInv
<1>3. CASE sourceRows[s] # NoSource
  <2>1. sourceRows[s] \in SourceRecords
    BY <1>3 DEF SettingsInv, LifecycleTyped
  <2>2. sourceRows'[s] = [sourceRows[s] EXCEPT !.url = u]
    BY <1>3 DEF SettingsInv, LifecycleTyped, UpsertedSource
  <2>3. /\ sourceRows'[s] \in SourceRecords /\ sourceRows'[s].url = u
        /\ Settings(sourceRows'[s]) = Settings(sourceRows[s])
    BY <2>1, <2>2 DEF SourceRecords, Settings
  <2>4. sourceRows'[s] # NoSource
    BY <2>3, RecordIsSource
  <2>5. \A t \in SourceNames : t # s => sourceRows'[t] = sourceRows[t]
    BY DEF SettingsInv, LifecycleTyped
  <2>6. chosen' = chosen
    BY <1>3 DEF ChosenBy
  <2>7. SettingsSurvive'
    BY <1>3, <2>3, <2>5, <2>6 DEF SettingsInv, SettingsSurvive
  <2>8. sourceRows' \in [SourceNames -> SourceRecords \cup {NoSource}]
    BY <1>3, <2>2, <2>3 DEF SettingsInv, LifecycleTyped, UpsertedSource
  <2>9. LifecycleTyped'
    BY <2>4, <2>5, <2>6, <2>8 DEF SettingsInv, LifecycleTyped
  <2> QED
    BY <2>3, <2>7, <2>9 DEF SettingsInv
<1> QED
  BY <1>2, <1>3

\* What remains to be seeded when one source has been.
LEMMA SeedsShrink ==
    ASSUME LifecycleTyped, seeds # <<>>
    PROVE  /\ Head(seeds) \in ToSet(seeds) /\ Head(seeds) \in Builtin
           /\ Tail(seeds) \in Seq(Builtin)
           /\ ToSet(Tail(seeds)) \subseteq ToSet(seeds)
           /\ ToSet(seeds) \subseteq ToSet(Tail(seeds)) \cup {Head(seeds)}
<1>1. /\ seeds \in Seq(Builtin) /\ Head(seeds) \in Builtin /\ Tail(seeds) \in Seq(Builtin)
      /\ Len(Tail(seeds)) = Len(seeds) - 1
      /\ \A i \in 1 .. Len(Tail(seeds)) : Tail(seeds)[i] = seeds[i + 1]
      /\ Len(seeds) \in Nat /\ Len(seeds) # 0 /\ Head(seeds) = seeds[1]
  BY HeadTailProperties, EmptySeq DEF LifecycleTyped
<1>2. DOMAIN seeds = 1 .. Len(seeds) /\ DOMAIN Tail(seeds) = 1 .. Len(Tail(seeds))
  BY <1>1
<1>3. Head(seeds) \in ToSet(seeds)
  BY <1>1, <1>2 DEF ToSet
<1>4. ToSet(Tail(seeds)) \subseteq ToSet(seeds)
  <2> SUFFICES ASSUME NEW i \in DOMAIN Tail(seeds)
               PROVE  Tail(seeds)[i] \in ToSet(seeds)
    BY DEF ToSet
  <2>1. i + 1 \in DOMAIN seeds /\ Tail(seeds)[i] = seeds[i + 1]
    BY <1>1, <1>2
  <2> QED
    BY <2>1 DEF ToSet
<1>5. ToSet(seeds) \subseteq ToSet(Tail(seeds)) \cup {Head(seeds)}
  <2> SUFFICES ASSUME NEW i \in DOMAIN seeds, i # 1
               PROVE  seeds[i] \in ToSet(Tail(seeds))
    BY <1>1 DEF ToSet
  <2>1. i - 1 \in DOMAIN Tail(seeds) /\ Tail(seeds)[i - 1] = seeds[i]
    BY <1>1, <1>2
  <2> QED
    BY <2>1 DEF ToSet
<1> QED
  BY <1>1, <1>3, <1>4, <1>5

\* Every step keeps what the operator chose.
LEMMA SettingsStep ==
    ASSUME LifecycleAssumption, SettingsInv, [LifecycleNext]_lifecycleVars
    PROVE  SettingsInv'
<1>1. ASSUME UNCHANGED <<sourceRows, press, chosen>>, release' \in DOMAIN Releases,
             seeds' \in Seq(Builtin), \A d \in ToSet(seeds') : d.name \in SourceNames
      PROVE  SettingsInv'
  BY <1>1 DEF SettingsInv, LifecycleTyped, SettingsSurvive
<1>2. CASE Start
  BY <1>1, <1>2 DEF Start, databaseVars, SettingsInv, LifecycleTyped
<1>3. CASE BeginSeeding
  <2>1. release \in DOMAIN Releases /\ release' = release
    BY <1>3 DEF BeginSeeding, SettingsInv, LifecycleTyped
  <2>2. seeds' \in {SeedsOf(release), Append(SeedsOf(release), MavenSource)}
    BY <1>3 DEF BeginSeeding
  <2>3. seeds' \in Seq(Builtin)
    BY <2>1, <2>2, BuiltinsTyped
  <2>4. \A d \in ToSet(seeds') : d.name \in SourceNames
    BY <2>1, <2>2, BuiltinsTyped DEF SeedsOf
  <2> QED
    BY <1>1, <1>3, <2>1, <2>3, <2>4 DEF BeginSeeding, databaseVars
<1>4. CASE SeedNext
  <2>1. /\ Head(seeds).name \in SourceNames /\ Head(seeds).url \in Addresses
        /\ Tail(seeds) \in Seq(Builtin)
        /\ \A d \in ToSet(Tail(seeds)) : d.name \in SourceNames
    BY <1>4, SeedsShrink DEF SeedNext, SettingsInv, LifecycleTyped, Builtin, Addresses
  <2> QED
    BY <1>4, <2>1, UpsertKeepsSettings DEF SeedNext
<1>5. ASSUME NEW s \in SourceNames, NEW u \in OperatorURLs, AddSource(s, u)
      PROVE  SettingsInv'
  <2>1. u \in Addresses
    BY DEF Addresses
  <2> QED
    BY <1>5, <2>1, UpsertKeepsSettings DEF AddSource, SettingsInv, LifecycleTyped
<1>6. ASSUME NEW s \in SourceNames, ReadToggle(s)
      PROVE  SettingsInv'
  <2>1. sourceRows[s] \in SourceRecords
    BY <1>6 DEF ReadToggle, SettingsInv, LifecycleTyped
  <2>2. press' \in [name : SourceNames, enabled : BOOLEAN] /\ sourceRows[press'.name] # NoSource
    BY <1>6, <2>1 DEF ReadToggle, SourceRecords
  <2> QED
    BY <1>6, <2>2 DEF ReadToggle, databaseVars, SettingsInv, LifecycleTyped, SettingsSurvive
<1>7. CASE WriteToggle
  <2> DEFINE p == press.name
             e == press.enabled
  <2>1. /\ p \in SourceNames /\ e \in BOOLEAN /\ sourceRows[p] \in SourceRecords
        /\ chosen[p] = Settings(sourceRows[p])
    BY <1>7 DEF WriteToggle, SettingsInv, LifecycleTyped, SettingsSurvive
  <2>2. /\ sourceRows' = [sourceRows EXCEPT ![p] = [sourceRows[p] EXCEPT !.enabled = e]]
        /\ chosen' = [chosen EXCEPT ![p] = [chosen[p] EXCEPT !.enabled = e]]
        /\ press' = NoPress /\ UNCHANGED <<release, seeds>>
    BY <1>7 DEF WriteToggle
  <2> HIDE DEF p, e
  <2>3. chosen[p] \in [enabled : BOOLEAN, interval : Intervals]
    BY <2>1 DEF Settings, SourceRecords
  <2>4. /\ [sourceRows[p] EXCEPT !.enabled = e] \in SourceRecords
        /\ [chosen[p] EXCEPT !.enabled = e] \in [enabled : BOOLEAN, interval : Intervals]
        /\ Settings([sourceRows[p] EXCEPT !.enabled = e]) = [chosen[p] EXCEPT !.enabled = e]
    <3>1. [sourceRows[p] EXCEPT !.enabled = e] \in SourceRecords
      BY <2>1 DEF SourceRecords
    <3>2. [chosen[p] EXCEPT !.enabled = e] \in [enabled : BOOLEAN, interval : Intervals]
      BY <2>1, <2>3
    <3>3. Settings([sourceRows[p] EXCEPT !.enabled = e])
             = [enabled |-> e, interval |-> sourceRows[p].interval]
      BY <2>1 DEF SourceRecords, Settings
    <3>4. [chosen[p] EXCEPT !.enabled = e] = [enabled |-> e, interval |-> chosen[p].interval]
      BY <2>3
    <3>5. chosen[p].interval = sourceRows[p].interval
      BY <2>1 DEF Settings
    <3> QED
      BY <3>1, <3>2, <3>3, <3>4, <3>5
  <2>5. LifecycleTyped'
    BY <2>1, <2>2, <2>4 DEF SettingsInv, LifecycleTyped
  <2>6. SettingsSurvive'
    BY <2>1, <2>2, <2>4 DEF SettingsInv, LifecycleTyped, SettingsSurvive
  <2> QED
    BY <2>5, <2>6 DEF SettingsInv
<1>8. CASE Die
  <2>1. seeds' = <<>> /\ press' = NoPress /\ UNCHANGED <<sourceRows, chosen, release>>
    BY <1>8 DEF Die, databaseVars
  <2>2. seeds' \in Seq(Builtin) /\ ToSet(seeds') = {}
    BY <2>1 DEF ToSet
  <2> QED
    BY <2>1, <2>2 DEF SettingsInv, LifecycleTyped, SettingsSurvive
<1>9. CASE UNCHANGED <<sourceRows, press, chosen, release, seeds>>
  BY <1>1, <1>9 DEF SettingsInv, LifecycleTyped
<1> QED
  BY <1>2, <1>3, <1>4, <1>5, <1>6, <1>7, <1>8, <1>9
     DEF LifecycleNext, CreateMeta, ReadVersion, CreateTable, SetVersion, Serve, Signal,
         lifecycleVars, databaseVars

\* The operator has chosen nothing at first.
LEMMA SettingsInitially == LifecycleAssumption /\ LifecycleInit => SettingsInv
<1> SUFFICES ASSUME LifecycleAssumption, LifecycleInit
             PROVE  SettingsInv
  OBVIOUS
<1>1. \A i \in Intervals : NewSource("old", FALSE, i) \in SourceRecords
  <2>1. "old" \in Addresses
    BY DEF Addresses
  <2> QED
    BY <2>1 DEF NewSource, SourceRecords
<1>2. sourceRows \in [SourceNames -> SourceRecords \cup {NoSource}]
  <2>1. {NewSource("old", FALSE, i) : i \in Intervals} \subseteq SourceRecords
    BY <1>1
  <2> QED
    BY <2>1 DEF LifecycleInit
<1>3. \A r \in SourceRecords : Settings(r) \in [enabled : BOOLEAN, interval : Intervals]
  BY DEF SourceRecords, Settings
<1>4. chosen \in [SourceNames -> [enabled : BOOLEAN, interval : Intervals] \cup {NoSource}]
  BY <1>2, <1>3 DEF LifecycleInit
<1>5. 1 \in DOMAIN Releases
  BY EmptySeq DEF LifecycleAssumption
<1>6. <<>> \in Seq(Builtin) /\ ToSet(<<>>) = {}
  BY DEF ToSet
<1>7. LifecycleTyped
  BY <1>2, <1>4, <1>5, <1>6 DEF LifecycleInit, LifecycleTyped
<1>8. SettingsSurvive
  BY DEF LifecycleInit, SettingsSurvive
<1> QED
  BY <1>7, <1>8 DEF SettingsInv

\* The rows of sources are typed, and hold what the operator chose.
THEOREM SettingsInvariant == LifecycleSpec => []SettingsInv
<1>1. LifecycleInit => SettingsInv
  BY LifecycleAssumption, SettingsInitially
<1>2. SettingsInv /\ [LifecycleNext]_lifecycleVars => SettingsInv'
  BY LifecycleAssumption, SettingsStep
<1> QED
  BY <1>1, <1>2, PTL DEF LifecycleSpec

\* What an operator chose for a source outlives restarts, upgrades and seeding
\* that dies half way, for any releases: a conflict of UpsertSource refreshes
\* neither enabled nor interval_sec.
THEOREM SettingsOutliveRestarts == LifecycleSpec => []SettingsSurvive
<1>1. SettingsInv => SettingsSurvive
  BY DEF SettingsInv
<1> QED
  BY <1>1, SettingsInvariant, PTL

\* Within a release, a name stands for one address: the condition on its lists
\* under which seeding one source does not undo the seeding of another.
OneAddressPerName ==
    \A i \in DOMAIN Releases : \A d, e \in ToSet(Releases[i]) \cup {MavenSource} :
        d.name = e.name => d.url = e.url

\* What is not to be seeded any more is at its address.
SeededSoFar ==
    lpc = "seeding" =>
        /\ ToSet(seeds) \subseteq ToSet(Releases[release]) \cup {MavenSource}
        /\ \A d \in ToSet(Releases[release]) :
              d \in ToSet(seeds) \/ sourceRows[d.name].url = d.url

\* Every step of the seeding leaves the sources it has passed as the release has them.
LEMMA SeedingStep ==
    ASSUME LifecycleAssumption, OneAddressPerName, SettingsInv, SeededSoFar,
           [LifecycleNext]_lifecycleVars
    PROVE  SeededSoFar'
<1>1. ASSUME lpc' # "seeding"
      PROVE  SeededSoFar'
  BY <1>1 DEF SeededSoFar
<1>2. CASE BeginSeeding
  <2>1. release \in DOMAIN Releases /\ release' = release
    BY <1>2 DEF BeginSeeding, SettingsInv, LifecycleTyped
  <2>2. seeds' \in {SeedsOf(release), Append(SeedsOf(release), MavenSource)}
    BY <1>2 DEF BeginSeeding
  <2>3. Releases[release] \in Seq(Builtin) /\ MavenSource \in Builtin
    BY <2>1 DEF LifecycleAssumption, Builtin
  <2>4. ToSet(seeds') \subseteq ToSet(Releases[release]) \cup {MavenSource}
    BY <2>1, <2>2, BuiltinsTyped DEF SeedsOf
  <2>5. ToSet(Releases[release]) \subseteq ToSet(Append(Releases[release], MavenSource))
    <3> SUFFICES ASSUME NEW j \in DOMAIN Releases[release]
                 PROVE  Releases[release][j] \in ToSet(Append(Releases[release], MavenSource))
      BY DEF ToSet
    <3>1. /\ j \in DOMAIN Append(Releases[release], MavenSource)
          /\ Append(Releases[release], MavenSource)[j] = Releases[release][j]
      BY <2>3
    <3> QED
      BY <3>1 DEF ToSet
  <2>6. ToSet(Releases[release]) \subseteq ToSet(seeds')
    BY <2>2, <2>5 DEF SeedsOf
  <2> QED
    BY <2>1, <2>4, <2>6 DEF SeededSoFar
<1>3. CASE SeedNext
  <2> DEFINE d == Head(seeds)
             All == ToSet(Releases[release]) \cup {MavenSource}
  <2>1. /\ lpc = "seeding" /\ seeds # <<>> /\ seeds' = Tail(seeds) /\ release' = release
        /\ sourceRows' = [sourceRows EXCEPT ![d.name] = UpsertedSource(sourceRows[d.name], d.url)]
        /\ chosen' = ChosenBy(d.name, d.url) /\ press' = press
    BY <1>3 DEF SeedNext
  <2>2. /\ d \in ToSet(seeds) /\ d \in Builtin /\ Tail(seeds) \in Seq(Builtin)
        /\ ToSet(Tail(seeds)) \subseteq ToSet(seeds)
        /\ ToSet(seeds) \subseteq ToSet(Tail(seeds)) \cup {d}
    BY <2>1, SeedsShrink DEF SettingsInv
  <2>3. d \in All /\ release \in DOMAIN Releases /\ d.name \in SourceNames
    BY <2>1, <2>2 DEF SeededSoFar, SettingsInv, LifecycleTyped
  <2>4. sourceRows'[d.name].url = d.url
    <3>1. d.url \in Addresses
      BY <2>2 DEF Builtin, Addresses
    <3>2. seeds' \in Seq(Builtin) /\ \A e \in ToSet(seeds') : e.name \in SourceNames
      BY <2>1, <2>2 DEF SettingsInv, LifecycleTyped
    <3> QED
      BY <2>1, <2>3, <3>1, <3>2, UpsertKeepsSettings
  <2>5. ASSUME NEW e \in ToSet(Releases[release]), e \notin ToSet(Tail(seeds))
        PROVE  sourceRows'[e.name].url = e.url
    <3>1. CASE e.name = d.name
      BY <2>3, <2>4, <3>1 DEF OneAddressPerName
    <3>2. CASE e.name # d.name
      <4>1. e \notin ToSet(seeds)
        BY <2>2, <2>5, <3>2
      <4>2. e.name \in SourceNames
        BY <2>3, BuiltinsTyped
      <4> QED
        BY <2>1, <3>2, <4>1, <4>2 DEF SeededSoFar, SettingsInv, LifecycleTyped
    <3> QED
      BY <3>1, <3>2
  <2> QED
    BY <2>1, <2>2, <2>5 DEF SeededSoFar
<1>4. CASE UNCHANGED <<lpc, release, seeds, sourceRows>>
  BY <1>4 DEF SeededSoFar
<1> QED
  BY <1>1, <1>2, <1>3, <1>4
     DEF LifecycleNext, Start, CreateMeta, ReadVersion, AfterVersion, CreateTable, SetVersion,
         Serve, ReadToggle, AddSource, WriteToggle, Up, Signal, Die, lifecycleVars, databaseVars

\* A process that begins to serve has every source of its release at its
\* address, wherever an earlier start died while it seeded them and whatever an
\* operator had entered: each start upserts its whole list.
THEOREM DefaultsAreSeeded ==
    ASSUME OneAddressPerName
    PROVE  LifecycleSpec => DefaultsSeeded
<1>1. LifecycleInit => SeededSoFar
  BY DEF LifecycleInit, SeededSoFar
<1>2. SettingsInv /\ SeededSoFar /\ [LifecycleNext]_lifecycleVars => SeededSoFar'
  BY LifecycleAssumption, SeedingStep
<1>3. SeededSoFar /\ [LifecycleNext]_lifecycleVars =>
         [lpc = "seeding" /\ lpc' = "serving" =>
             \A d \in ToSet(Releases[release]) : sourceRows[d.name].url = d.url]_lifecycleVars
  <2> SUFFICES ASSUME SeededSoFar, LifecycleNext, lpc = "seeding", lpc' = "serving",
                      NEW d \in ToSet(Releases[release])
               PROVE  sourceRows[d.name].url = d.url
    OBVIOUS
  <2>1. seeds = <<>>
    BY DEF LifecycleNext, Start, CreateMeta, ReadVersion, AfterVersion, CreateTable, SetVersion,
           BeginSeeding, SeedNext, Serve, ReadToggle, AddSource, WriteToggle, Up, Signal, Die
  <2>2. ToSet(seeds) = {}
    BY <2>1 DEF ToSet
  <2> QED
    BY <2>2 DEF SeededSoFar
<1> QED
  BY <1>1, <1>2, <1>3, SettingsInvariant, PTL DEF LifecycleSpec, DefaultsSeeded

=============================================================================
