# nmsbonker in TLA+

nmsbonker merges the scripts of many No Man's Sky mods into one mod folder, gates every file on
MBINCompiler, and installs the result into the game with an archive to undo it. This directory
holds TLA+ models of the parts of it that keep state, the TLC configurations that check them, and
proofs that TLAPS checks. Paths are relative to the repository's `internal/`.

## The system

| Component | State it keeps | Operations | Hard behaviour | What makes it correct |
|---|---|---|---|---|
| Deploy and archive (`core/deploy.go`, `core/archive.go`, `core/gamerun*.go`) | `GAMEDATA/MODS/<name>`, the staging folder, `archive/<name>-<stamp>/`, `GCMODSETTINGS.MXML` | deploy, rollback, undeploy, mods-on/off, retention | a stop between any two file system steps; moves across file systems; one-second names; a guessed order of interrupted entries; the game as a second writer | no installed build is lost but by retention; a rollback can be rolled back; entries are never merged |
| Build run (`build/run.go`, `mbin/compiler.go`) | `<ModName>`, `<ModName>.prev`, `<ModName>.work` | run, cancel, restore, publish | worker interleavings on shared paths; cancellation at every point; crash and next run; a hanging compiler | nothing rejected ships; a cancelled run leaves no trace; the output does not depend on the schedule; a cancelled run returns |
| Plan, merge and verdicts (`build/plan.go`, `build/run.go`, `build/tally.go`, `modscript/`) | the plan, the merged lines kept for the audit, the report | load, group, merge, retry without structural edits, tally | spellings of one path; order of edits; a retry that drops some of them; settings that change between builds | every edit ships once and in order; a verdict is what happened |
| Merge engine (`mxml/apply.go`, `mxml/mxml.go`, `mxml/event.go`) | none | apply one edit block to a file's lines | nested blocks found by indentation; numbers at the edge of their field | a multiplier reaches every amount once |
| Amount audit (`build/audit/`, `build/amounts.go`, `core/auditfix.go`) | the kept merges, the settings it lowers | audit, recommend, fix | attribution through several mods; floors, caps, rounding | the fix brings below the limit what it says it does |
| MXML cache and pak index (`build/cache/cache.go`, `hgpak/index.go`, `core/cacheops.go`) | raw files, MXML, `manifest.json`, `pak-index.json` | list, ensure, clear, rebuild | archives that Steam replaces while they are read; a kill between a file and the manifest; a changed compiler | a current index resolves as the archives do; a reused MXML is of the current archive |
| Compiler installs and process limit (`mbin/install.go`, `mbin/releases.go`, `mbin/compiler.go`, `core/tools.go`, `core/toolcheck.go`) | `tools/<version>/`, the pin, a semaphore | ensure, pin, remove, locate, check; acquire, release, resize | failed downloads and verifications, fallback over releases, cancellation; a semaphore replaced while slots are held | what an ensure leaves runs; a working compiler is not lost; every user of a slot is counted |
| Configuration and mod library (`config/`, `core/mods.go`, `core/modedit.go`, `core/tweaks.go`, `core/params.go`) | `config.json`, the library directory | list, add, remove, enable, move, edit, set, reset | load-change-save by the window and a command at once; file and entry changed in two steps | list and directory agree; no operation changes what it was not asked to |
| Saves (`core/saves.go`, `core/saveedit.go`) | the game's save pairs, `save-backups/<stamp>/` | back up, edit, import, prune | the game writes too; stale reads; data and manifest replaced separately | what is overwritten is in a complete backup |
| Window (`gui/`) | loaded flags and facts of its sections, one operation, one build, the save editor's form | load, operate, navigate, refresh, build, cancel | results that land after a change, or out of order; operations that fail part-way | what is shown is what is on disk; a text goes where it was typed |
| Save format, HGPAK format, Lua interpreter, Steam discovery, command line, widgets | none that outlives an operation | | sequential | |

The components meet on disk. The build run writes `<workspace>/<ModName>`, deploy copies it from
there into the game. Deploy calls the save backup before it touches the game. The build reads the
MXML that the cache produced from the files the index found, with the compiler that the
installer selected. The GUI calls the same operations of `core` as the command line, each call
opening its own session, so nothing but the disk and a few process-wide variables (the semaphore,
the set of builds already backed up) is shared between operations.

`PROJECT.json` lists every component with its status, and every hazard at its line.

## Modules

| Module | What it models |
|---|---|
| `ModArchive` | deploy, rollback, undeploy, mods-on/off and the archive, one action per file system step |
| `BuildRun` | `build.Run` with its workers, cancellation, crashes, and the deploy that reads its output |
| `Publication` | what a run promises to a reader of the mod folder: the abstract specification `BuildRun` implements |
| `Engine` | `mxml.Apply`: one edit block over the lines of a file, as operators |
| `Audit` | the amount audit and `Recommend`, as operators over `Engine`'s lines |
| `Merge` | the build's work on the files, the verdicts, the audit's fix; extends `Audit` |
| `Cache` | the pak index and the cache of extracted and decompiled files |
| `Toolchain` | installing, choosing, checking and running MBINCompiler, with the process limit |
| `Library` | the configuration and the mod library under two programs |
| `Selection` | the elements of a sequence that are in a set, as a recursive function that can be reasoned about; `Library` and `Merge` extend it |
| `SaveFiles` | one save, its backups, and the processes and the game that write them |
| `WindowOps` | the window's loaders and operations as data: what they read, write, clear and end with |
| `Window` | their behaviour: loads in flight, one operation, a build, navigation; extends `WindowOps` |
| `SaveTab` | the save editor inside the window, composed with `Window` into the specification that is checked |
| `MC...` | the instance of each |
| `...Proofs` | the theorems of `ModArchive`, `BuildRun`, `Merge`, `SaveFiles`, `Toolchain`, `Cache`, `Library` and the window |

### ModArchive

One operation runs at a time; `pc` is its next file system step and `op` what it holds in memory
(kind, mod name, the entry a rollback picked, and what that entry held *when it was read*). A mod
folder is a function from its files to the build each file came from, so half a copy, and two
builds mixed in one folder, are distinct from a whole build. An archive entry is its `mod/` folder,
its copy of the settings, whether `archive.json` exists, and the folder an early version of the
tool put directly into the entry.

| Code | Model |
|---|---|
| `deploy` up to the staging copy | `BeginDeploy`, `Stage` |
| `archiveDeploy`: `freeArchiveDir`, `moveTree`, settings copy, `archive.json` | `MakeEntry`, `TakeMod` and `RemoveTaken`, `KeepSettings`, `WriteMeta` |
| `fsutil.Rename(staging, dest)`, `writeModSettings`, `retireLegacyMod`, `pruneArchive` | `Install`, `Enable`, `Retire`, `Prune` |
| `Rollback` | `BeginRollback`, the steps of `archiveDeploy`, `Restore`, `RemoveRestored`, `TruncateSettings`, `RewriteSettings`, `DropEntry` |
| `Undeploy` | `BeginUndeploy`, the steps of `archiveDeploy`, `Prune` |
| `readArchiveEntry`, `readArchive`, `pickArchive` | `Stamp`, `NameStamp`, `ListedBefore`, `Pickable`, `Newest` |
| an error return or a crash, at any step and inside a copy or a `RemoveAll` | `StopBetweenSteps`, `StopInTake`, `StopInRestore`, `StopInKeep`, `StopInRemoval` |
| `NMS.exe` (not in the repository) | `GameOpensOrQuits`, `GameWritesSettings` |

An error return and a crash are one step: no error path of these functions undoes what an earlier
step did; the staging folder an error path removes is forgotten by the model at the same point.

`Stamp` follows `readArchiveEntry` closely because so much depends on it: an entry without
`archive.json` gets its timestamp from the directory name, split at the last `-2`. For an ordinary
name that is the date. For a name that ends in the counter `-2` it is the counter. For an hour of
20 to 23 it is the time of day alone, which sorts after every date of this century when it is later
than 20:27 and before them otherwise. `Evening` is the set of clock readings of the third kind.

### BuildRun

`pc` is the step of `Run`; every worker has a place of its own and the document it merged.
A document is the run and target it was merged for and the kinds of edit in it, which is
what tells a stale, foreign or degraded file from the right one. The MXML and temporary directory
are keyed by the output path, as in `compile`, so two targets with one path do share them.
`accepts`, the set of merges MBINCompiler takes, is chosen once and never changes.

| Code | Model |
|---|---|
| `prepare` | `ClearPrev`, `SetAside`, `MakeDirs` |
| the feeding loop and `wg.Wait` | `TakeJob`, `CloseJobs`, `Leave`, `Collect` |
| `compile`, `Compiler.convert` | `WriteMXML`, `ClearTemp`, `CompilerAccepts`, `CompilerRejects`, `FindOutput`, `NoOutput`, `FileError` |
| the degraded retry of `target` | `CompileFailed` |
| cancellation of `acquire` and of a running compiler | `CancelCompile` |
| `moveFile` | `Place` |
| `restorePrevious` | `Discard`, `PutBack` |
| `mirrorGlobals` and the end of `.prev` | `MirrorGlobals`, `DropPrev` |
| a crash, or `Run` returning a file system error | `Interrupt` |
| a deploy between runs | `Deploy` |

`Publication` has three variables: the output, the stage of the run, and whether it was revoked.
A run decides once: it replaces the output, or, when it was revoked, leaves it. The refinement
mapping shows a reader of the model the folder under `.prev` while a run is working, which is what
a cancelled run restores, and the finished folder as soon as the run decided to publish.

### Engine, Audit and Merge

What `BuildRun` takes as a document, `Merge` computes. A file is a sequence of lines, each an
opener, a closer or a property with its indentation, and a value that is a word or a number; a
number is a fraction with the two things formatting keeps of it, whether it had a decimal point and
how it is written back. `Engine` is `mxml.Apply` as operators: the two multiplier edits
(`CURRENCY_MULT`, `WRAPPER_MULT`), the search for sections and preceding keywords, groups, value
changes with their arithmetic, additions and removals. Width matters and is kept: a multiplied integer
is rounded and held inside the range of an int32, `MaxInt32` in the instance.

`Merge` has the user's settings (`cfg`), the build under way (`run`) with the plan it was begun
with, the file being merged (`work`), the merges kept in `<ModName>.work`, the output and the
report. Files share nothing while they are merged, so they are merged one at a time in any order;
the workers are `BuildRun`'s subject. MBINCompiler refuses a document whose tags do not nest and
may refuse any other.

Three things are taken off the numbers. The code prints a fraction with six decimals; the model keeps it
exact. Names break the ties between flags that are equally bad; the model keeps them in the order of the tables.
`within`, the billionth by which an amount may exceed its limit against rounding, is not needed with exact fractions.

| Code | Model |
|---|---|
| `modscript`: parameters of a script and their overrides | `Assignment`, `CanOverride`, `Overridden`, `Global`, `Decoded` |
| `build.Plan` | `ItemsOf`, `EditsOf`, `AddItem`, `TargetsOf`, `NewPlan` |
| `runner.target`: merge, audit, compile, the retry, the drop | `NoSource`, `StartTarget`, `ApplyItem`, `AuditMerge`, `Compile`, `Retry`, `Drop` |
| `tally`, `verdict` | `EventsOf`, `Degraded`, `Dropped`, `Verdict`, `FinishBuild` |
| cancellation of a build | `CancelBuild` |
| `audit`: parse, pair, judge, attribute | the operators of `Audit`, `AuditTable` |
| `audit.Recommend`, `core.AuditFix` | `Recommend`, `LowerAll`, `Fixed`, `Scaling`, `NewParams`, `SaveFix`, `AuditFix` |
| settings between builds | `SetParam`, `SetModEnabled`, `MoveMod` |

`AuditFix` reads the settings, plans and saves in sessions of its own in the code. Here it is one step, so that a
fix and the builds around it can be compared; what happens between its sessions is in `Library`'s `PlanFix` and `ApplyFix`.
A block of `Engine` is what `decodeBlock` makes of it: `HasSKW` and `HasVCT` of the guard in `Apply` are set
there, from the length of the two lists (`modscript/model.go:307`, `:340`), and nowhere else.

### Cache

An archive is a stamp (size and mtime) and the files it holds; what a file contains is named by the
archive and the stamp it was read at, and what the compiler made of it by that and the compiler's
version. So data of an older archive, or of another compiler, is told from the right one without its
bytes, by the model that is: the code compares an entry, not the file it names, and the two can disagree
(see Divergences). A run of `Ensure` is `listing` (the index), `planning`, `producing` (its jobs) or idle.
Two history variables say where they may. A key *strays* (`strays`) once a run has placed an MXML at the path of
its entry and stored no entry for that key with it; `held` is the same for the entries a run has read and will
write back, of which its own keys do not stray. No action reads them.

| Code | Model |
|---|---|
| `LoadIndex`, `BuildIndex`, `IndexFreshness` | `Statted`, `Stale`, `Begin`, `ListPak`, `SaveIndex`, `GiveUp` |
| `Index.Resolve` | `Resolve` |
| `Cache.Ensure`, `reusable` | `Plan`, `Reusable`, `SaveManifest` |
| `Cache.produce`, `Cache.one` and its error returns | `Extract`, `WriteRaw`, `Decompile`, `Place`; `Miss`, from any of them |
| `ClearCache`, `RebuildIndex` | `ClearCache`, `RebuildIndex` |
| Steam (not in the repository) | `SteamReplaces`: any archive, with or without a new build id |
| a killed process, an index or manifest that cannot be written | `Stop` |

### Toolchain

A release has two flavors (with and without its own runtime), and a flavor on disk is nothing, a
part of it, files that are all there, or files that also run. `op` is the one operation on the
installs, `job` what runs beside it: a build and a compatibility check that locate the
compiler and need a slot to run it (`slots`). A semaphore is identified by the session that made it, because
that is what outlives the resize.

| Code | Model |
|---|---|
| `SetMaxProcesses`, `semaphore`, `acquire`, `Compiler.run` | `Open`, `Ask`, `Acquire`, `Release`, `Leave`, `Ended` |
| `Client.Releases`, `Select`, `Installed`, `Locate` | `List`, `Select`, `Present`, `Locate` |
| `EnsureTools`, `Install` | `BeginEnsure`, `VersionRead`, `Choose`, `Verify`, `Verified`, `TryFlavor`, `DownloadBinary`, `DownloadLibrary`, `Tried`, `DownloadFails`, `Discard`, `FetchMapping` |
| a cancelled context | `Cancel` |
| `ListReleases`, `PinTool`, `RemoveTool` | `BeginListReleases`; `Pin`, `EnsureUnpinned` (unpinning opens a second session, which may fail); `BeginRemove`, `Remove` |
| the conversions of a build and of the compatibility check | `Locates`, `Convert`, `Converted` |
| a killed program; GitHub (not in the repository) | `Stop`; `Publish` |

### Library

Two programs (`Threads`) run operations on one `config.json` and one library directory. An
operation opens the document, works on its copy and saves it, with each file it touches in a
separate step; it may fail at any file and be killed between any two steps. `asked` and `raced` are
ghosts: who asked for a mod to be on, and which operations another one's save overtook.

| Code | Model |
|---|---|
| `config.Load`, `config.Save` | `Loaded`, `Open`, `Save` |
| `reconcile` | `Reconciled`, in `List`, `SetTweakParam`, `ResetTweak`, `Prepare` |
| `AddMod`, `RemoveMod`, `SetModEnabled`, `MoveMod`, `Set` | `Truncate`, `CopyIn`, `AddAll`; `RemoveMod`; `SetModEnabled`; `MoveMod`; `ConfigSet` |
| `SetTweakParam`, `ResetTweak` | the same names |
| `WriteModScript` | `ReadCurrent`, `KeepPrevious`, `ReplaceScript` |
| `Build` as far as the parameters go, `AuditFix` | `Prepare`, `Build`, `WriteReport`; `PlanFix`, `ApplyFix` |
| `builtParams`, `paramsDiffer` | `Unbuilt` |
| the user in the library directory | `UserFile` |

### WindowOps, Window and SaveTab

The window toolkit is another repository; the code here relies on three things of it: callbacks
run on the UI thread one at a time, `Perform` runs one operation at a time, and the section on
screen is drawn again when work starts, when it stops and when `Invalidate` is called. `WindowOps`
lists each loader with what it reads and each operation with what its calls into the core write, the
flags it clears and how it ends. `Window` gives that a behaviour: a load reads somewhere between its start and
its landing, so a write in between makes it *crossed*, it may bring either version; an operation's
calls are separate steps of which a later one may fail; a build runs beside it all.

| Code | Model |
|---|---|
| the loaders (`gui/state.go`, `gui/views_*.go`) | `Reads`, `StartLoads`, `Land`, `LoadFails`, `Brings` |
| section builders, `onInvalidate`, F5, navigation | `Builders`, `Arrivals`, `Redraw`, `OnInvalidate`, `Refresh`, `Navigate`, `Measure` |
| a button and what its operation does | `Buttons`, `LaidOut`, `Needs`, `RowsOf`, `Press`; `Core`, `CoreFails`, `AfterOp`, `LandOp`, `EndOp` |
| `startBuild`, the step list, `finishBuild`, cancel | `StartBuild`, `Reset`, `BuildEvents`, `Advance`, `CoreBuilds`, `CoreStops`, `FinishBuild`, `CancelBuild` |
| the save editor: form, ship picker, raw JSON, dialogs | `TypeField`, `PickType`, `PickShip`, `RawEditor`, `SelectSlot`, `LoadRawNode`, `ExportDialog`, `ImportDialog` |
| its calls and their landings | `CoreSaves`, `LandInspect`, `Opened`, `LandNode`, `LandWrite` |

`SaveTab` adds the form: the drafts by label, the ship picked, the save shown, the raw JSON node with
its text, and what the last inspection brought. `WindowOps` marks some loads as *misses* of an
operation: sections the code does not read again after it. These known gaps (listed under
Divergences) are data that may be stale, and `ReadsCurrent` excepts exactly them.

### SaveFiles

A save is a pair of files, data and manifest; each file holds a *version*, the number of a save ever
written. The game writes both, whenever it likes. Each process of the tool (a window and command
lines may be open at once) runs one operation at a time, one file system step after the other; any
step may fail, which leaves things where they are, and a process may be killed. A backup is named
for the second it was begun in, so a backup folder is a second of the clock.

| Code | Model |
|---|---|
| `EditSave`, `ImportSave`, `SetSaveNode` up to the write | `BeginEdit` |
| `writeSave`'s game check | `CheckGame`: the game may start right after it, so the answer is open |
| `BackupSaves`, `autoBackupSaves` | `BeginBackup`, `BeginDeploy` |
| `backupSaves`: the wait for a free second, `MkdirAll`, `copyTree` | `Choose`, `Make`, `CopyMeta`, `CopyData`, `Skip` |
| `pruneSaveBackups` | `List`, `Prune`, `BackedUp` |
| the two `replaceFile` of `writeSave` | `ReplaceData`, `ReplaceMeta` |
| an error return, a killed process | `Stop` |

`OriginalsStay` says what the backup is for, and names the two cases it leaves out. A save that the
game or another process wrote after the copy is in no backup: the comment of `writeSave` ("the
file being replaced is on disk somewhere else before anything is renamed") holds only for
the only writer, which is what `alone` records. And two operations that look for a free second
before either has made its folder share that folder; `collided` records the second.

## Runs

| Run | Question | Result |
|---|---|---|
| `ModArchive_recovery` | Can a build that was installed vanish, can two operations write into one entry, whatever stops wherever? Operations within one second, two-file folders, moves across file systems. | no |
| `ModArchive_undo` | After a rollback, is what it displaced in the entry that the next rollback picks? The game opens, quits and rewrites its settings; Windows' check is on. | yes |
| `ModArchive_legacy` | Two names, the legacy folder, a symlinked `GAMEDATA/MODS`: does every finished deploy leave its complete undo entry, does retention spare the newest, is the link's target left alone? | yes |
| `BuildRun_safety` | Two targets on one path, file errors, cancels, crashes, deploys between builds: does anything ship that the compiler did not take, is the last output lost, does a cancel leave a trace? | no |
| `BuildRun_publish` | Is what is published determined by plan and compiler alone, does the run implement `Publication`, does a cancelled run return? | yes |
| `Merge_build` | Two builds of four mods, files in any order, the compiler refusing what it likes, settings changed and the audit's fix applied in between: does every edit ship once and in order, is every multiplier applied once, is every verdict what happened, does the fix do what it said? | yes |
| `Cache_reuse` | Two runs of `Ensure` with two workers while Steam replaces an archive, the user clears the cache and the program is killed: does a current index resolve as the archives do, is a reused MXML of the present archive and, but for strays, of the compiler in use, does every run end? | yes |
| `Toolchain_ensure` | Installs, pins and removals, killed or cancelled anywhere, beside a build and a compatibility check that share one slot: is every semaphore's count right, does a finished install run, is a working release kept, does every operation end? | yes |
| `Library_config` | Three requests of two programs, interleaved, failing and killed between steps, with the user changing files: is a mod listed twice or switched on unasked, does a save change more than its request, is a tweak shown as built that was not, is the text an edit replaces kept? | no, no, no, yes |
| `SaveFiles_guarded` | Two processes edit and back up one save while the game writes it, failing or killed anywhere: does the save an edit replaced stay in its backup, does a manifest ever run ahead of its data? | it stays; never |
| `Window_current` | The window in eighteen sittings, every operation in one of them: is what it counts as loaded ever older than its own last write (but for the known gaps), does a build's step ever go back, can a text meant for one save reach another? | no |
| `Window_saves` | `gui/app.go:74`: does the form keep what was typed, and write that alone? | refuted: two rows under one label share a draft |

Every property of a passing run has a mutant of the code, listed in `PROJECT.json`, that violates
it in that run.

### Bounds

- `MaxTime`, `MaxSuffix`: readings of the one-second clock and entries one second may hold (the
  code's counter stops at 999). `ModArchive_recovery` puts everything into one second with three
  entries, so that every name collides; the other runs allow one entry a second, because two
  entries of one second with the same guessed stamp are ordered by their names and
  not by time (see Divergences). No clock reading of these runs is in `Evening`, for the same reason.
- `Retention` is 2 or 3 for the code's 5: with two, the third entry is pruned, which is all that
  the number decides.
- Two builds and two files distinguish a whole, a partial and a mixed folder. Two names: the
  default and the legacy one.
- `BuildRun`: two workers, two builds, plans of three or four targets that cover every kind (both
  kinds of edit, value edits, structural edits, no source; a root-level globals file; two
  on one path). Two builds are what a crash followed by a cancel needs.
- `Merge`: four mods, two built-in with a parameter each and two library scripts, over two files: a
  reward table with two kinds of amount under one ID, and a table whose blocks nest. Between them
  they use every kind of edit, two spellings of one source, and a source that is in no archive. Two
  builds and two changes are what a fix followed by the build that has to honour it needs. `MaxInt32` is
  100 so that a product can reach it, `Lookback` 2 so that a keyword can be out of reach.
- `Cache`: two archives, one file in the first and the same base name in the second, a key that
  spells the path and one that spells only the name, two compilers, one update, two runs of one
  process. One update is enough: a run meets it before, between or after any two of its steps, and the
  second run meets what the first stored. Two processes at once are outside this run: there
  `ReusedDataIsCurrent` does not hold (see Divergences).
- `Toolchain`: two releases for two game versions, one slot, three sessions. One slot makes every
  user wait; three sessions put two semaphores in use while a third is made.
- `Library`: one built-in and one script, two programs, three requests, one change of a file by the
  user and one kill. Two requests race, and the third observes what they left.
- `SaveFiles`: two processes, three saves, three seconds of which the first holds a backup of an
  earlier day, retention two for the code's ten. Three backups make the pruning happen, and none made
  in the instance is ever displaced, so `OriginalsStay` is checked there at its strictest; that
  displacing is right for any number is proved.
- `Window`: a sitting gives the operations that may be asked for, the sections visited, what is
  there at the start, and how many operations, moves, refreshes and failures it has. The eighteen
  sittings of `MCWindow` cover every operation; one to four operations each is what a load started
  before one and landing after the next needs. The form has two rows under one label and a drop-down.
- Instances that run out of clock, builds, requests or budget stop there, so their
  configurations turn the deadlock check off; `Cache_reuse` keeps it.

### Fairness

- `BuildRun_publish` (`CancelReturns`): weak fairness of the run's own steps and of each worker's
  (the Go scheduler), and of `CancelCompile`: a select on `ctx.Done()` while waiting for a slot,
  `exec.CommandContext`'s kill and the two seconds of `WaitDelay` when the compiler runs.
  MBINCompiler's own verdicts are not fair: it may hang.
- `Cache_reuse` (`EnsureEnds`): weak fairness of `Proceed`, what a running build does by itself. Its
  workers are goroutines, and every MBINCompiler ends or is killed with its context.
- `Toolchain_ensure` (`OperationsEnd`): weak fairness of the operation's own steps and of the end of
  the other users' processes, and strong fairness of `Acquire`: a slot is a send on a buffered
  channel, and Go queues the goroutines that wait on one first come, first served, so a waiter gets
  its turn when slots keep being freed, although it is not continuously free.

## Proofs

`ModArchiveProofs` proves, for any names, files, builds, clock, retention and number of entries:

| Theorem | Statement |
|---|---|
| `Bookkept` | `Spec => [](TypeOK /\ Bookkeeping)` |
| `NothingLost` | `Spec => []Recoverable` |
| `EntriesStaySealed` | `Spec => SealedEntries` |
| `LinkTargetSpared` | `Spec => DeploySparesLinkTarget` |
| `UndoAtHand` | `Spec => []Undoable` |
| `RetentionSparesNewest` | `Spec /\ []Legible => PruneSparesNewest` |
| `UndoOutranksOlder` | after an undisturbed rollback nothing older is listed before its undo entry, but an entry interrupted in an evening |
| `RollbackIsUndoable` | `Spec /\ [](Idle => Legible /\ Spaced) => RollbackUndoable` |
| `DeployIsUndoable` | `Spec /\ [](Legible /\ Uncrowded) => DeployKeepsUndo` |

`Recoverable` is not inductive. That a build is in two places during a copy, or in memory only by
name, is harmless because of where the operation stands: the entry being written is new and
unsealed, the destination of a restore is vacated, the source of a removal was copied whole, and
the entry a rollback will delete no longer holds a folder. `Bookkeeping` is the conjunction of those
facts (`OpenEntry`, `Roles`, `Staged`, `Vacated`, `CopyComplete`, `Consumed`); it is proved over
`TypeOK`, and `TypeOK /\ Bookkeeping /\ Recoverable` is inductive. One lemma per invariant has one
step per action; the two action properties follow from the same invariant. The only
assumptions are those on the constants (`ConstAssumption`, `NoneAssumption`).

`Undoable` follows an operation to the moment at which its entry must answer for it: the entry has the time of
the operation (`Timely`), the folder the operation found is in the game until it is in the entry (`AsFound`,
`Filled`, `Held`), and `archive.json` is there by the time the destination is written (`DirSealed`). What is
then picked is a question of the order of the listing, and three hypotheses name what that order takes
for granted. `Legible`: no entry but the one being written has its date guessed as the end of a day
(`core/archive.go:159`; see Divergences). `Spaced`: no two entries of one second, which are listed by name.
`Uncrowded`: one second holds fewer entries than retention keeps. Without the last the theorem is false, and TLC has the
execution (`Retention = 2`, three entries in a second, the deploy's own among them and listed last): retention
removes what the deploy set aside. The code keeps five entries, and a deploy makes two at most. The
hypotheses are on every state of the behaviour, not on the constants, and
`ModArchive_legacy` and `ModArchive_undo` are behaviours with them. `UndoOutranksOlder` needs none of them.

`BuildRunProofs` proves, for any plan (targets may share paths), compiler verdicts, number of workers
and of builds:

| Theorem | Statement |
|---|---|
| `Bookkept` | `Spec => [](TypeOK /\ Bookkeeping)` |
| `OutputSurvives` | `Spec => []FoundSurvives` |
| `CancelledRunUndone` | `Spec => CancelUndoes` |
| `ShipsCompiled` | `Spec => []OnlyCompiledShips` |
| `RunDecidesOnce` | `~MayStop => (Spec => AllOrNothing)` |
| `PlanPublished` | `~FilesMayFail /\ OwnPaths => (Spec => PublishedMatchesPlan)` |

`Bookkeeping` ties the run's position to its surroundings: a worker is at work only while the
run processes, at a target that has a path (`AtWork`); the output folder stands at every step that
writes into it (`Standing`); and the folder the run found is under `.prev`, unless there was none,
from the moment it is set aside to the decision (`Aside`). The first is what `Run` waits for its
workers for: a worker that outlived the wait could write into a folder already published or put
back. `OnlyCompiledShips` needs one more conjunct, `TmpCompiled`: the compiler's output waiting in the
temporary directory is compiled, whichever worker of a shared path moves it. `RunDecidesOnce` is the
refinement, step by step: `Cancel` revokes, the step that leaves `process` decides, and every other
step stutters. It is proved for runs that do not crash (`MayStop = FALSE`); a crash is where the
code does not keep the promise (see Divergences).

`PlanPublished` says that nothing of the schedule shows: which worker took which target, what a former run
left, what was cancelled or killed before. Its invariant, `Planned`, is of the target rather than the worker:
a target not yet taken has left nothing (`Unstarted`), one in hand has in its files what its stage says
(`Shared`, `Faithful`), one that was left is reported as it came out (`Reported`), and a run past its workers has left every target
(`Finished`). `OwnPaths` is the condition that no two targets have one output path, `FilesMayFail`
stands for a disk that fails, the pristine file that cannot be read included: with either, which of two outcomes is published is up to the schedule.

`SaveFilesProofs` proves, for any number of processes, saves, seconds and backups and any retention:

| Theorem | Statement |
|---|---|
| `Bookkept` | `Spec => [](TypeOK /\ Bookkeeping)` |
| `OriginalsKept` | `Spec => []OriginalsStay` |
| `ManifestNeverAhead` | `Spec => []ManifestFollows` |

One invariant, `TypeOK /\ Bookkeeping /\ OriginalsStay /\ ManifestFollows`, is inductive. Two ideas carry
it. Displaced seconds stay displaced (`DisplacedStays`): what `Prune` removes had enough newer backups
itself, so whoever counted it as newer can count those instead, even when two processes prune from
stale listings. And a folder has one writer (`OwnFolder`): a second that is free when it is chosen is
the current one, which is never displaced, so no original can have been there.

`ToolchainProofs` proves, for any releases, any limit and any number of sessions:

| Theorem | Statement |
|---|---|
| `ToolchainTypes` | `Spec => []TypeOK` |
| `ToolchainAccounts` | `Spec => []SlotsAccounted` |
| `ToolchainEnsures` | `Spec => []EnsuredRuns` |
| `ToolchainKeeps` | `Spec => WorkingInstallStays` |

The limit and the installs are independent arguments over one typed state (`Bookkept`: the record of
the operation has the fields its step reads, and a user has a slot only in a step that runs a
process). `SlotsAccounted` is inductive with it: `Acquire` and `Release` touch one semaphore, the one
the user asked, and a new one starts with nobody in it. For the installs, `Checked` says what each step
of an ensure knows: before a verification the release is complete; while one that is not cancelled
goes through its flavors, any working flavor is still among those to try; once a download
starts no flavor works; and at the mapping one does. `Harmless`, the step-wise form of `WorkingInstallStays`, then says that no other
step changes a release that works.

`CacheProofs` proves, for any archives, files, spellings, compilers, workers and any number of
programs building at once:

| Theorem | Statement |
|---|---|
| `CacheTypes` | `Spec => []TypeOK` |
| `IndexResolves` | `Spec => []FreshIndexResolves` |
| `ReuseIsCurrent` | `OneProgram /\ OneHome => (Spec => []ReusedDataIsCurrent)` |

A stamp that matches proves nothing unless stamps are not reused: `IndexTrue` says that no stamp, of
an archive, in the index file or in a listing under way, is ahead of the clock, and that a
record under its archive's present stamp lists what the archive holds. A listing under way is exempt for
the archives it has yet to read. An archive replaced between the stat and the
reading leaves new names under the old stamp, which then matches nothing; that is why the
stat comes first.

`ReusedDataIsCurrent` needs two conditions, and the attempt to prove it found the second. `OneProgram`: with two, the
slower one's MXML can land after the faster one's entry. `OneHome`: the game ships a path in one archive, whose stamp
is therefore the one an entry means (see Divergences for what happens otherwise). `Cache_reuse` has both. The invariant (`ReuseTrue`, with `RunTrue` for the run in hand)
ties an entry to the file it vouches for by the stamp of the archive both were taken under.

The compiler is a separate argument, and needs neither condition. `CompilersTrue` says that an entry whose key does not
stray names the compiler of the MXML it vouches for: in the manifest by `strays`, in the entries a run holds by `held`. An
MXML placed by any run (`PlaceCompilers`) makes stray, in the manifest and in every run of that tree, the entries that
name its path, but those the placing run has made itself, which name its own compiler. When a run's entries replace the
manifest, its history replaces that of the manifest with them.

`LibraryProofs` proves, for any mods, texts, values, requests and any number of programs:

| Theorem | Statement |
|---|---|
| `BuiltAsShown` | `Spec => []BuiltMeansBuilt` |
| `EditsCanBeUndone` | `Spec => EditKeepsPrevious` |
| `TypesHold` | `Spec => []TypeOK` |
| `NothingSwitchesItselfOn` | `Spec => []Consent` |
| `SavesWhatWasAsked` | `Spec => SavesOnlyWhatWasAsked` |

`BuiltMeansBuilt` compares the report with the settings, which any program may have saved since. It
follows from `Honest`: the values a build holds while it merges, and those of the report, are the values of
the parameters it opened with, and the report carries these parameters beside them. `EditKeepsPrevious`
follows from `Undoable`: an edit past its reading brings another text than it read, and past its keeping has
what it read in the `.bak`, unless another edit kept its own there meanwhile.

The other three rest on what `Library`'s operators (`Dropped`, `Reconciled`, `Moved`, `Switched`) do to a build order: they take out of it, add at its end, or move
within it, and never list a mod twice, switch one on or touch another's entry unless the request says so. The order is a sequence of
any length, and what a fold over it yields needs an induction. The library's induction theorems take an operator, which
no installed prover instantiates; each induction is therefore stated over a set, the lengths at which the claim fails, which
has no least element (`WFMin` of the well-founded order of the naturals). `Settings` is the
invariant: the files and every document in hand are typed and list no mod twice (`Doc`), and the change an
operation holds is what its request makes of what it read (`Meant`). `RequestsAssumption` says that
the requests are of the kinds the programs have.

`MergeProofs` proves, for any mods, scripts, files, keys, settings, compiler and order of the merges:

| Theorem | Statement |
|---|---|
| `ShipsEveryEdit` | `OneKey => (Spec => []EveryEditShips)` |
| `HonestVerdicts` | `Spec => []VerdictsHonest` |
| `TypesAndRanges` | `Spec => []TypeOK` |
| `EveryAmountScaledOnce` | `Spec => ScaledOnce` |
| `FixOnlyLowers` | whatever the audit's fix saves of a parameter was saved before, or lies between the knob's minimum and, strictly below, the value in force |

`OneKey` says that no two spellings of one file have different cache keys; where they do, the file is merged twice and the later
merge ships alone (see Divergences). `Merge_build`'s instance has it, and a source under two spellings.

All rest on lemmas about what the model computes with recursive functions, each an induction in the form described for
`Library`. A recursive function is a `CHOOSE`, so that each takes two: that some function satisfies the
definition, and what its values are. `TargetsOfEdits`: the plan's targets have distinct keys, and each has the edits of its key, all of
them, in build order. `MergeSteps`: a merge is one `Apply` after the other. `ApplyHonest`: whatever a block does, lines that
changed come with an "ok" event of its mod, by way of each path through `Apply`. `Flattened`: what the report's stream
of events has in it.

The invariant common to them, `MergeOK`, has three parts: `SettingsOK`, the order is of mods and every parameter
saved is a whole number; `BuildOK`, the plan and the file in hand; `LinesOK`, the lines in hand, kept and
shipped are `Sound`. None is inductive alone: a multiplier is written by `AuditFix` from numbers read out of kept lines,
and kept lines come of a merge of blocks that a parameter scaled.

`TypesAndRanges` is about numbers. An integer field (`IntegerFields`: the game and the scripts spell it
whole and in range wherever they name it, and no script forces it to a float) stays so after any
number of edits. `ApplySound` says it for one block, by way of every operation of the engine: each writes a value with
`Put`, and `NewValueSuits` and `ScaledBySuits` bring every value back to `FormatIs`, what `FormatNum` keeps of a product.
Sections and groups need their bounds too (`AllSectionsSound`, `GroupsSound`): the engine keeps the end of a scope
from before a REMOVE, and reads no line past it because only a REMOVE leaves fewer. A fraction must be in
lowest terms for "no point" to mean whole (`ReducedIs`).

`EveryAmountScaledOnce` compares the walk over the lines with the tree that the indentation draws. `Depths`: between
an opener and a line, the number of blocks open is the difference of their indentations. So `CloseIndex`
finds the line where the indentation is back (`BlockIs`), the blocks the walk visits are the outermost ones of its scope, and
`WalkGoesOn` carries along the walk that the lines before the cursor are scaled where an outermost block
holds them, and the rest untouched. It assumes what `ScaledOnce` does: lines indented as MBINCompiler writes them
and an entry whose stamp is on one opener. Without these the walk and the tree differ.

`FixOnlyLowers` follows the flags through parsing, comparing, attribution and sorting (`ParseSequence`, `CompareFlags`, `AttributeFlags`,
`SortedFlags`: a flag comes out with the sequence of its contributors), for
`Recommend` to be a narrowing of values that stay between minimum and current (`RecommendBetween`), whatever the amounts are and however many passes it
takes. `NewParamsLower` adds that of two knobs of one parameter the saved value is the lowered one's. No run states it: it is
what the fix may not do even where its prediction fails, and that case is `FixKeepsPromise`'s exception.

`ShipsEveryEdit` and `HonestVerdicts` add `ShipsOK`. While a file is merged its lines are those of the edits before the next one
(`WorkOK`); a mod that moved a line of it has told so, and the retry, which begins again from pristine lines, carries the events
over but not what moved (`TellsOf`). That is why NOT BUILT can be trusted and an "ok" alone cannot. What is shipped of a built
target stays until the build ends because no other target has its file (`FilesApart`, from `OneKey`). `ScriptsAssumption` says
what decoding a script yields: changes, sources and blocks in an order, a key for every source, and numbers where it
declares some. `StockAssumption` says that the game's files are lines, `MergeConstants` that the bounds are naturals.

`WindowProofs` proves, for any sittings, saves, fields, labels and texts:

| Theorem | Statement |
|---|---|
| `ListOnlyForward` | `Spec => StepsOnlyForward` |
| `TextsStayHome` | `Spec => WritesGoToTheirSave` |
| `LoadedIsCurrent` | `Spec => []ReadsCurrent` |
| `TypesHold` | `Spec => []TypeOK` |

While a build runs no step of its list has failed or been cancelled (`StepsOK`), so that closing the list
at its end takes nothing back. `WritesGoToTheirSave` relates a write to what was typed several steps
before. `FormOK` carries it there: a draft, the text of a node and a row that differs from the save were
entered since the save in the form was read (`DraftsEntered`, `NodeEntered`, `RowsEntered`), and a write under way
is of that save with such texts (`WriteEntered`). The last holds because only the landing of another
inspection, or the slots' Refresh, replaces the save in the form, and neither happens while the write is
the one operation.

`ReadsCurrent` speaks of the moments at which nothing is at work. `Fresh` says what holds between: a load
is counted over older data only while it is owed an answer (`Owed`), by the operation whose
calls so far wrote what it reads, or by the build whose core has finished. That an operation pays what it owes when it lands is a fact
about each of the thirty-nine operations, and is proved for each from its row of `WindowOps` (`Shape`). The first
attempt failed on the model: a flight that was crossed by a write nothing answers and then by one that is answered could
come out as either. `Aged` now says which, `GivenUp` states what an overtaken load leaves, and
`NothingAssumption` keeps the record of an operation (`UnderWay`) apart from no operation.

Model-checked only:

- `Merge`'s `FixKeepsPromise`. It compares a prediction with a second build. The prediction multiplies the factors of the
  mods that moved an amount, and a second build does the same only where scripts scale by whole numbers, as those of the
  instance scale its rewards. What adds to an amount, or rounds it, is outside `Recommend`'s arithmetic
  ("exact when nothing before it moved", `build/audit/fix.go:72`). `FixOnlyLowers` is proved of every script;
- liveness (`CancelReturns`, `EnsureEnds`, `OperationsEnd`), which TLAPS does not do.

## Divergences

The run `Window_saves` shows one: `fieldRow` keeps a draft by the label of its row (`gui/views_saves.go:461`),
and several rows share a label. A number typed into one of them stands in the others after the next
redraw, and Apply writes all of them.

These were found while modelling. The properties state what does hold and except them, or the models carry
what the code does without a property about it.

Deploy and archive:

- A deploy interrupted between the archiving and the rename leaves the game without a mod folder
  (`core/deploy.go:147`), though the comment at `:78` says the previous mod is intact. The archive has it.
- An entry interrupted between 20:28 and midnight is dated after every complete one (`core/archive.go:159`), so a
  rollback picks it and retention keeps it while newer ones go; earlier in the evening it is dated before all.
- A deploy that retires the legacy folder makes two entries with one timestamp, the identifier of `:73`.
- Rolling back to an entry of the old layout deletes it (`core/archive.go:373`), though `:142` calls it the only
  copy the user has.

Build, merge and audit:

- A cancelled build after a crashed one puts the crash's partial folder back (`build/run.go:195` says never).
- Two sources of different spelling that resolve to one archive path are two targets, and overwrite each
  other's file (`build/plan.go:8` says one document). `EveryEditShips` is for plans without such a pair of keys.
- A file that no archive holds warns in the name of the first mod that edits it (`build/run.go:352`); the others
  can be WORKING, which `build/report.go:28` defines as every edit landed. `VerdictsHonest` excepts it.
- A value spelled with a point is written without it once it is whole (`mxml/mxml.go:188`), which the next edit takes for an
  integer; while it has its point nothing holds it inside 32 bits. `TypeOK` is about fields spelled whole throughout.
- A multiplier that matches no block counts as an edit made; a mod whose only lost file would not have
  shipped is PARTIAL.
- The tracker attributes a change to a mod that moved nothing when a re-read after an edit comes out as
  before (`build/audit/audit.go:599`, `:656`).
- `Recommend` underestimates an amount that a `CAP` or the field's limit held back, and a fractional `CAP` is
  exceeded by rounding; `AuditFix` weighs kept merges against the mods enabled now, and the window applies a
  plan it computed earlier, which can raise a multiplier lowered since. `FixKeepsPromise` states these
  conditions. A cancelled build leaves kept merges of two plans.

Cache and compiler:

- With two programs building across an update, the MXML of the slower one can land after the manifest
  entry of the faster: an entry then vouches for an older file. `Cache_reuse` has one process.
- When an update adds a path to a second archive, a run killed between placing that archive's MXML and saving the
  manifest leaves the first one's entry beside it, and the entry vouches for that MXML if the second archive drops the
  path again (`cache.go` keeps no archive in an entry). `ReuseIsCurrent` is for paths with one home.
- An entry can vouch for the MXML of another compiler, though `cache.go:60` says it "is not reusable across versions"
  and `:9` that a compiler upgrade invalidates everything. `move` (`:423`) replaces the MXML a while before `save` (`:289`) replaces
  the entries. So a run under a second version that is killed between the two leaves the first version's entries over its
  files; so does one that ends well, when two spellings lead to one path and it was asked for only one of them or missed the
  other, or when another program saves entries it read before. Back under the first version (a pin is enough),
  `reusable` (`:304`) hands the file out. `ReusedDataIsCurrent` excepts exactly these keys (`strays`); without the exception
  TLC refutes it in the same run, by the kill and, with `MayStop = FALSE`, by the two spellings.
- `tools ensure --no-network` downloads what is not installed (`core/tools.go:102`).
- A cancelled ensure takes its killed verification for a broken install, and its cancelled download then
  removes a release that works (`mbin/install.go:231`, `:257`). `WorkingInstallStays` excepts it.
- Every session makes a new semaphore, so the processes of two sessions together exceed the limit
  (`mbin/compiler.go:43`); `SlotsAccounted` is per semaphore.

Settings and library:

- Of two programs that change the settings at once, one loses its change; `SavesOnlyWhatWasAsked` excepts
  the one overtaken.
- An override of a parameter its script no longer declares makes the mod NOT BUILT, and resetting that one
  parameter is refused.
- Adding a script whose entry exists leaves the entry disabled, though the window says enabled
  (`gui/views_mods.go:419`); `add --replace` overwrites without a `.bak`; `RemoveMod` deletes the script
  before it saves the settings.

Window, the gaps `WindowOps` lists as misses and others beside them:

- After a build, Mods, Tweaks and the cache card keep what they loaded before it; after a change of the
  compiler, the compatibility card does; after a parameter set from a row, Mods and Report do.
- A load started earlier may land after one started later, and then shows the older data; a failed load
  keeps the facts it was to replace (`gui/state.go:65` says they are empty).
- A build cancelled after the core had finished counts as cancelled, and its report is not loaded.
- The rollback dialog takes the row number it was opened with (`gui/views_game.go:326`); a listing that lands
  meanwhile moves the rows. `resetAllTweaks` reads the list a load may replace (`gui/views_tweaks.go:356`).
- A drop-down's choice has no draft, so the redraw of a preview drops it.
- A raw node is applied over whatever the save holds by then.

## Not modelled

Within the modelled parts: the write of one file is one step (a torn file appears where a copy or
`RemoveAll` of a folder is interrupted, for the settings file, which rollback truncates in
place, and for a script being copied in); two workers whose writes to one MXML overlap inside a single
write; the copy that `move` of the cache falls back to across file systems, which its scratch directory inside the tree
never needs; a deploy from a second process while a build runs; the Windows retry loop of `fsutil.Rename`; two
operations of the archive at once. No compiler installed is `accepts = {}`.

A backup in `SaveFiles` copies one save of one profile, temporary files that a killed `replaceFile` leaves
beside a save are not modelled, and the clock is never set back. Stamps in `Cache` are not reused: an
archive replaced by another of the same size and time is taken for the old one, by the code as well.

`Engine` writes numbers as fractions and cuts them to six decimals; it leaves out the recovery from a panic
and the notes an edit leaves for the report. `Merge` leaves out overlap signatures, which only annotate. A
script in `Library` declares one parameter at most. In `Window`, what a section shows is one of five
states of freshness rather than its rows; the script editor and the log are not there.

Left out altogether, because they keep no state and are sequential functions of one input: the save format,
the HGPAK format, the Lua interpreter (a script is what it declares), Steam discovery, flag parsing and
tables of the command line, widgets and themes; and the text-level edits of the game's settings file, whose
result is in `ModArchive`.
