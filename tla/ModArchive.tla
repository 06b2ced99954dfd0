------------------------------ MODULE ModArchive ------------------------------
(***************************************************************************)
(* Deploy, rollback and undeploy: what core.deploy, core.Rollback and      *)
(* core.Undeploy do to GAMEDATA/MODS, to the game's GCMODSETTINGS.MXML and *)
(* to the archive of displaced mod folders (internal/core/deploy.go,       *)
(* internal/core/archive.go).                                              *)
(*                                                                         *)
(* One operation runs at a time. It is a sequence of file system steps     *)
(* (pc), and it may stop between any two of them: a crash and an error     *)
(* return are the same step here, because no error path of these           *)
(* functions undoes what the steps before it did. The game is the second   *)
(* actor: it opens, quits, and rewrites its settings file whenever it is   *)
(* open.                                                                   *)
(*                                                                         *)
(* A mod folder is a function from its files to the build each came from,  *)
(* so a half-copied folder and two builds merged into one folder are       *)
(* values of the model. Clock readings stand for the one-second timestamps *)
(* in the names of archive entries.                                        *)
(***************************************************************************)
EXTENDS Integers, FiniteSets

CONSTANTS
  Names,          \* folder names under GAMEDATA/MODS this tool deploys under
  DefaultName,    \* config.DefaultModName
  LegacyName,     \* config.LegacyModName, the default up to 0.8.1
  NameRank,       \* the byte order of Names, as os.ReadDir sorts them
  Trees,          \* the builds the workspace may hold
  Files,          \* the files of a built mod folder
  None,           \* "there is no such file or directory"
  Torn,           \* a settings file that was truncated and not rewritten
  MaxTime,        \* bound: the clock readings are 1..MaxTime
  MaxSuffix,      \* bound: entries one second can hold (the code's is 999)
  Evening,        \* the readings whose hour is after 20:27, see NameStamp
  Retention,      \* ArchiveRetention
  RenameMayFail,  \* the archive may be on another file system
  Windows,        \* modChangesNeedGameClosed
  Linked,         \* GAMEDATA/MODS starts out as a symlink
  Others,         \* bound: the game and mods-on/mods-off act in this instance
  Inherited       \* bound: the archive may hold an entry of an early version

ASSUME ConstAssumption ==
  /\ LegacyName \in Names /\ DefaultName \in Names
  /\ NameRank \in [Names -> Nat]
  /\ Files # {}
  /\ MaxTime \in Nat \ {0} /\ MaxSuffix \in 1..9
  /\ Evening \subseteq 1..MaxTime
  /\ Retention \in Nat \ {0}
  /\ RenameMayFail \in BOOLEAN /\ Windows \in BOOLEAN /\ Linked \in BOOLEAN
  /\ Others \in BOOLEAN /\ Inherited \in BOOLEAN

(* The directory GAMEDATA/MODS is, and the one it may be a symlink to.     *)
Places == {"real", "target"}
Clock == 1..MaxTime

(* A directory of the archive: `<mod name>-<stamp>`, n > 1 a counter       *)
(* suffix.                                                                 *)
Dirs == [name : Names, t : Clock, n : 1..MaxSuffix]

Folder == [Files -> Trees \union {None}]
Whole(t) == [f \in Files |-> t]

(* The settings file as far as deploy is concerned: DisableAllMods, and    *)
(* the mods whose entry is enabled.                                        *)
Switches == [off : BOOLEAN, on : SUBSET Names]
Settings == Switches \union {None, Torn}

(* One archive entry: its mod/ folder, its copy of the settings, whether   *)
(* archive.json has been written, and the mod folder an early version of   *)
(* the tool put directly into the entry directory.                         *)
Entry == [mod : Folder \union {None}, settings : Settings, meta : BOOLEAN,
          bare : Folder \union {None}]
EmptyEntry == [mod |-> None, settings |-> None, meta |-> FALSE, bare |-> None]
OldEntry(t) == [EmptyEntry EXCEPT !.bare = Whole(t)]

ASSUME NoneAssumption ==
  /\ None \notin Trees /\ None \notin Folder /\ None \notin Entry
  /\ None \notin Dirs /\ None # Torn
  /\ None \notin Switches /\ Torn \notin Switches

VARIABLES
  mods,      \* [Places -> [Names -> folder or None]]
  seen,      \* the place GAMEDATA/MODS currently is
  archive,   \* [Dirs -> entry or None]
  settings,  \* GCMODSETTINGS.MXML
  clock,     \* the wall clock, in seconds
  gameOpen,  \* NMS.exe is running
  pc,        \* the next step of the operation; "ended" or "stopped" between two
  op,        \* the operation: its kind, mod name, picked entry and flags
  staging,   \* the folder staged as <name>.tmp-<pid>
  dir,       \* the archive entry being written
  (* history *)
  before,    \* what the operation found: the mod folder and the settings
  raced,     \* the game rewrote its settings while the operation ran
  everIn,    \* every build that was ever installed whole
  discarded  \* every build that retention threw away

world == <<mods, seen, archive, settings>>
history == <<before, raced, everIn, discarded>>
process == <<pc, op, staging, dir>>
vars == <<mods, seen, archive, settings, clock, gameOpen, pc, op, staging, dir,
          before, raced, everIn, discarded>>

Steps == {"stage", "mkdir", "take", "takeRemove", "keep", "meta", "install", "enable",
          "retire", "prune", "restore", "restoreRemove", "truncate", "rewrite",
          "drop"}
Idle == pc \in {"ended", "stopped"}
Kinds == {"deploy", "rollback", "undeploy"}
Operation == [kind : Kinds, name : Names, arch : Names, from : Dirs \union {None},
              hasMod : BOOLEAN, hasSettings : BOOLEAN, retiring : BOOLEAN]
NoOperation == [kind |-> "deploy", name |-> DefaultName, arch |-> DefaultName,
                from |-> None, hasMod |-> FALSE, hasSettings |-> FALSE,
                retiring |-> FALSE]
Nothing == [mod |-> None, settings |-> None]

Game(n) == mods[seen][n]

WholeIn(folder) == {t \in Trees : folder = Whole(t)}
Live == {t \in Trees : \E p \in Places, n \in Names : mods[p][n] = Whole(t)}
HeldBy(e) == IF e = None THEN {} ELSE WholeIn(e.mod)
Archived == UNION {HeldBy(archive[d]) : d \in Dirs}

(***************************************************************************)
(* The listing of the archive.                                             *)
(***************************************************************************)
Entries == {d \in Dirs : archive[d] # None}

(* readArchiveEntry's timestamp for an entry with no archive.json: what    *)
(* follows the last "-2" of the directory name. That is the date of an     *)
(* ordinary name; the counter, when the name ends in "-2"; and the time of *)
(* day alone, when the hour starts with 2, because the stamp has a dash of *)
(* its own ("20260911-204500Z"). As strings, "2" sorts before every full   *)
(* stamp of this century, and a time of day from 20:27 on sorts after it.  *)
NameStamp(d) ==
  IF d.n = 2 THEN <<0, 0, 2>>
  ELSE IF d.t \in Evening THEN <<2, d.t, d.n>>
  ELSE <<1, d.t, d.n>>

Stamp(d) == IF archive[d].meta THEN <<1, d.t, d.n>> ELSE NameStamp(d)

(* Mutant: the listing oldest first.                                       *)
EarlierStamp(a, b) ==
  a[1] < b[1] \/ (a[1] = b[1] /\ (a[2] < b[2] \/ (a[2] = b[2] /\ a[3] < b[3])))

LaterStamp(a, b) ==
  \/ a[1] > b[1]
  \/ a[1] = b[1] /\ a[2] > b[2]
  \/ a[1] = b[1] /\ a[2] = b[2] /\ a[3] > b[3]

(* The order of readArchive: newest stamp first, and directory order       *)
(* between equal stamps (below twelve entries sort.Slice is an insertion   *)
(* sort, so it keeps os.ReadDir's order).                                  *)
ListedBefore(d, e) ==
  \/ LaterStamp(Stamp(d), Stamp(e))
  \/ Stamp(d) = Stamp(e) /\ NameRank[d.name] < NameRank[e.name]
  \/ Stamp(d) = Stamp(e) /\ d.name = e.name /\ d.t < e.t

(* pickArchive: the first entry, or the first with the stamp asked for.    *)
Pickable == {d \in Entries :
               \A e \in Entries : Stamp(e) = Stamp(d) => ~ListedBefore(e, d)}
Newest == {d \in Entries : \A e \in Entries : ~ListedBefore(e, d)}

(* Mutant: the Retention oldest entries are kept.                          *)
DoomedNewest == {d \in Entries :
                   Cardinality({e \in Entries : ListedBefore(d, e)}) = Retention}

(* What pruneArchive deletes next: the first entry past the newest         *)
(* Retention.                                                              *)
Doomed == {d \in Entries :
             Cardinality({e \in Entries : ListedBefore(e, d)}) = Retention}

(* Mutants: no look at what is there already; a counter that starts at 0.  *)
AnyDirs(name) == {d \in Dirs : d.name = name /\ d.t = clock /\ d.n = 1}
CountedFromZero(name) == {[name |-> name, t |-> clock, n |-> 0]}

(* freeArchiveDir: the bare timestamp, or the first counter that is free.  *)
FreeDirs(name) == {d \in Dirs :
  /\ d.name = name /\ d.t = clock /\ archive[d] = None
  /\ \A i \in 1..(d.n - 1) : archive[[d EXCEPT !.n = i]] # None}

(***************************************************************************)
(* Copying and removing directories.                                       *)
(***************************************************************************)
(* walkCopy after it has copied the files in S over what dst holds.        *)
Copied(src, dst, S) ==
  [f \in Files |-> IF f \in S /\ src[f] # None THEN src[f]
                   ELSE IF dst = None THEN None ELSE dst[f]]
(* A folder after os.RemoveAll has removed the files in S.                 *)
Remaining(folder, S) == [f \in Files |-> IF f \in S THEN None ELSE folder[f]]

SetGame(n, folder) == mods' = [mods EXCEPT ![seen][n] = folder]
SetEntry(d, e) == archive' = [archive EXCEPT ![d] = e]

Goto(step) == pc' = step

(* The process is gone, and with it everything it had in memory.           *)
Finish(how) ==
  /\ pc' = how
  /\ op' = NoOperation /\ staging' = None /\ dir' = None
  /\ before' = Nothing /\ raced' = FALSE

Remember(n) ==
  /\ before' = [mod |-> Game(n), settings |-> settings]
  /\ raced' = FALSE
  /\ UNCHANGED <<everIn, discarded>>

-------------------------------------------------------------------------------
Init ==
  /\ seen = IF Linked THEN "target" ELSE "real"
  /\ \E found \in {None} \union {Whole(t) : t \in Trees}, n \in {DefaultName, LegacyName} :
       mods = [p \in Places |-> [m \in Names |-> IF p = seen /\ m = n THEN found ELSE None]]
  /\ archive \in {[d \in Dirs |-> None]} \union
                 {[d \in Dirs |-> IF d = old THEN OldEntry(t) ELSE None] :
                    old \in {d \in Dirs : Inherited /\ d.t = 1 /\ d.n = 1}, t \in Trees}
  /\ settings \in {None, [off |-> FALSE, on |-> {}]}
  /\ clock = 1
  /\ gameOpen = FALSE
  /\ pc = "ended" /\ op = NoOperation /\ staging = None /\ dir = None
  /\ before = Nothing /\ raced = FALSE
  /\ everIn = Live /\ discarded = {}

(* refuseModChangeWhileRunning. *)
MayChangeMods == Idle /\ ~(Windows /\ gameOpen)

Begin(kind, n, step) ==
  /\ MayChangeMods
  /\ op' = [NoOperation EXCEPT !.kind = kind, !.name = n, !.arch = n]
  /\ Goto(step)

(* Mutant: the symlink is followed instead of replaced.                    *)
FollowSymlink(n) ==
  /\ Begin("deploy", n, "stage")
  /\ UNCHANGED <<world, clock, gameOpen, staging, dir, before, raced, everIn, discarded>>

(* deploy up to the staging copy: a symlinked GAMEDATA/MODS is replaced by *)
(* a new directory (with --replace-symlink; without it deploy refuses and  *)
(* changes nothing), its target is left alone.                             *)
BeginDeploy(n) ==
  /\ Begin("deploy", n, "stage")
  /\ seen' = "real"
  /\ UNCHANGED <<mods, archive, settings, clock, gameOpen, staging, dir,
                 before, raced, everIn, discarded>>

(* copyTree of the workspace build into <name>.tmp-<pid>.                  *)
Stage ==
  /\ pc = "stage"
  /\ \E t \in Trees : staging' = Whole(t)
  /\ Remember(op.name)
  /\ Goto("mkdir")
  /\ UNCHANGED <<world, clock, gameOpen, op, dir>>

(* Mutant: a rollback that does not archive the live state first.          *)
OverwritingRollback(n) ==
  /\ MayChangeMods
  /\ \E d \in Pickable :
       op' = [NoOperation EXCEPT !.kind = "rollback", !.name = n, !.arch = n, !.from = d,
                !.hasMod = archive[d].mod # None, !.hasSettings = archive[d].settings # None]
  /\ Remember(n)
  /\ mods' = [mods EXCEPT ![seen][n] = None]
  /\ Goto("restore")
  /\ UNCHANGED <<seen, archive, settings, clock, gameOpen, staging, dir>>

BeginRollback(n) ==
  /\ MayChangeMods
  /\ \E d \in Pickable :
       op' = [NoOperation EXCEPT !.kind = "rollback", !.name = n, !.arch = n, !.from = d,
                !.hasMod = archive[d].mod # None, !.hasSettings = archive[d].settings # None]
  /\ Remember(n)
  /\ Goto("mkdir")
  /\ UNCHANGED <<world, clock, gameOpen, staging, dir>>

(* Undeploy falls back to the folder an older version deployed.            *)
Undeployed(n) ==
  IF n = DefaultName /\ Game(n) = None /\ Game(LegacyName) # None THEN LegacyName ELSE n

BeginUndeploy(n) ==
  /\ Game(Undeployed(n)) # None
  /\ Begin("undeploy", Undeployed(n), "mkdir")
  /\ Remember(Undeployed(n))
  /\ UNCHANGED <<world, clock, gameOpen, staging, dir>>

(***************************************************************************)
(* archiveDeploy, the part all three operations share.                     *)
(***************************************************************************)
MakeEntry ==
  /\ pc = "mkdir"
  /\ \E d \in FreeDirs(op.arch) : dir' = d /\ SetEntry(d, EmptyEntry)
  /\ Goto("take")
  /\ UNCHANGED <<mods, seen, settings, clock, gameOpen, op, staging,
                 before, raced, everIn, discarded>>

(* moveTree: a rename, or a copy when the rename fails.                    *)
TakeMod ==
  /\ pc = "take"
  /\ \/ Game(op.arch) = None /\ Goto("keep") /\ UNCHANGED <<mods, archive>>
     \/ /\ Game(op.arch) # None
        /\ SetEntry(dir, [archive[dir] EXCEPT !.mod = Game(op.arch)])
        /\ SetGame(op.arch, None)
        /\ Goto("keep")
     \/ /\ Game(op.arch) # None /\ RenameMayFail
        /\ SetEntry(dir, [archive[dir] EXCEPT !.mod = Copied(Game(op.arch), None, Files)])
        /\ Goto("takeRemove")
        /\ UNCHANGED mods
  /\ UNCHANGED <<seen, settings, clock, gameOpen, op, staging, dir,
                 before, raced, everIn, discarded>>

RemoveTaken ==
  /\ pc = "takeRemove"
  /\ SetGame(op.arch, None)
  /\ Goto("keep")
  /\ UNCHANGED <<seen, archive, settings, clock, gameOpen, op, staging, dir,
                 before, raced, everIn, discarded>>

(* The settings go into the entry as they are; retireLegacyMod passes no   *)
(* settings path.                                                          *)
KeepSettings ==
  /\ pc = "keep"
  /\ IF op.retiring THEN UNCHANGED archive
     ELSE SetEntry(dir, [archive[dir] EXCEPT !.settings = settings])
  /\ Goto("meta")
  /\ UNCHANGED <<mods, seen, settings, clock, gameOpen, op, staging, dir,
                 before, raced, everIn, discarded>>

WriteMeta ==
  /\ pc = "meta"
  /\ SetEntry(dir, [archive[dir] EXCEPT !.meta = TRUE])
  /\ Goto(IF op.kind = "deploy" /\ ~op.retiring THEN "install"
          ELSE IF op.kind = "rollback" THEN "restore" ELSE "prune")
  /\ UNCHANGED <<mods, seen, settings, clock, gameOpen, op, staging, dir,
                 before, raced, everIn, discarded>>

(***************************************************************************)
(* The rest of deploy.                                                     *)
(***************************************************************************)
Install ==
  /\ pc = "install"
  /\ Game(op.name) = None
  /\ SetGame(op.name, staging)
  /\ everIn' = everIn \union WholeIn(staging)
  /\ staging' = None
  /\ Goto("enable")
  /\ UNCHANGED <<seen, archive, settings, clock, gameOpen, op, dir,
                 before, raced, discarded>>

(* writeModSettings: nothing to do when the game has not written the file, *)
(* and nothing that can be done when the file has no mod list.             *)
Enable ==
  /\ pc = "enable"
  /\ settings' = IF settings \in Switches
                 THEN [off |-> FALSE, on |-> settings.on \union {op.name}] ELSE settings
  /\ Goto("retire")
  /\ UNCHANGED <<mods, seen, archive, clock, gameOpen, op, staging, dir,
                 before, raced, everIn, discarded>>

(* Mutant: the legacy folder is moved into the entry of the deploy.        *)
RetireIntoSameEntry ==
  /\ pc = "retire"
  /\ IF op.name # LegacyName /\ Game(LegacyName) # None
     THEN op' = [op EXCEPT !.arch = LegacyName, !.retiring = TRUE] /\ Goto("take")
     ELSE Goto("prune") /\ UNCHANGED op
  /\ UNCHANGED <<world, clock, gameOpen, staging, dir, before, raced, everIn, discarded>>

(* retireLegacyMod archives the folder of the old default name.            *)
Retire ==
  /\ pc = "retire"
  /\ IF op.name # LegacyName /\ Game(LegacyName) # None
     THEN op' = [op EXCEPT !.arch = LegacyName, !.retiring = TRUE] /\ Goto("mkdir")
     ELSE Goto("prune") /\ UNCHANGED op
  /\ UNCHANGED <<world, clock, gameOpen, staging, dir, before, raced, everIn, discarded>>

Prune ==
  /\ pc = "prune"
  /\ \/ \E d \in Doomed :
          /\ SetEntry(d, None)
          /\ discarded' = discarded \union HeldBy(archive[d])
          /\ UNCHANGED <<process, before, raced>>
     \/ Doomed = {} /\ Finish("ended") /\ UNCHANGED <<archive, discarded>>
  /\ UNCHANGED <<mods, seen, settings, clock, gameOpen, everIn>>

(***************************************************************************)
(* The rest of Rollback.                                                   *)
(***************************************************************************)
Restored == IF op.hasSettings THEN "truncate" ELSE "drop"

Restore ==
  /\ pc = "restore"
  /\ \/ ~op.hasMod /\ Goto(Restored) /\ UNCHANGED <<mods, archive>>
     \/ /\ op.hasMod
        /\ Game(op.name) = None
        /\ SetGame(op.name, archive[op.from].mod)
        /\ SetEntry(op.from, [archive[op.from] EXCEPT !.mod = None])
        /\ Goto(Restored)
     \/ /\ op.hasMod /\ RenameMayFail
        /\ SetGame(op.name, Copied(archive[op.from].mod, Game(op.name), Files))
        /\ Goto("restoreRemove")
        /\ UNCHANGED archive
  /\ UNCHANGED <<seen, settings, clock, gameOpen, op, staging, dir,
                 before, raced, everIn, discarded>>

RemoveRestored ==
  /\ pc = "restoreRemove"
  /\ SetEntry(op.from, [archive[op.from] EXCEPT !.mod = None])
  /\ Goto(Restored)
  /\ UNCHANGED <<mods, seen, settings, clock, gameOpen, op, staging, dir,
                 before, raced, everIn, discarded>>

(* copyFile truncates the game's settings file, then writes it.            *)
TruncateSettings ==
  /\ pc = "truncate"
  /\ settings' = Torn
  /\ Goto("rewrite")
  /\ UNCHANGED <<mods, seen, archive, clock, gameOpen, op, staging, dir,
                 before, raced, everIn, discarded>>

RewriteSettings ==
  /\ pc = "rewrite"
  /\ settings' = archive[op.from].settings
  /\ Goto("drop")
  /\ UNCHANGED <<mods, seen, archive, clock, gameOpen, op, staging, dir,
                 before, raced, everIn, discarded>>

DropEntry ==
  /\ pc = "drop"
  /\ SetEntry(op.from, None)
  /\ Finish("ended")
  /\ UNCHANGED <<mods, seen, settings, clock, gameOpen, everIn, discarded>>

(***************************************************************************)
(* A crash, or an error return.                                            *)
(***************************************************************************)
Stopped ==
  /\ ~Idle
  /\ Finish("stopped")
  /\ UNCHANGED <<seen, clock, gameOpen, everIn>>

StopBetweenSteps == Stopped /\ UNCHANGED <<mods, archive, settings, discarded>>

StopInTake ==
  /\ Stopped /\ RenameMayFail
  /\ \E S \in SUBSET Files :
       \/ /\ pc = "take" /\ Game(op.arch) # None
          /\ SetEntry(dir, [archive[dir] EXCEPT !.mod = Copied(Game(op.arch), None, S)])
          /\ UNCHANGED mods
       \/ /\ pc = "takeRemove"
          /\ SetGame(op.arch, Remaining(Game(op.arch), S))
          /\ UNCHANGED archive
  /\ UNCHANGED <<settings, discarded>>

StopInRestore ==
  /\ Stopped /\ RenameMayFail
  /\ \E S \in SUBSET Files :
       \/ /\ pc = "restore" /\ op.hasMod
          /\ SetGame(op.name, Copied(archive[op.from].mod, Game(op.name), S))
          /\ UNCHANGED archive
       \/ /\ pc = "restoreRemove"
          /\ SetEntry(op.from, [archive[op.from] EXCEPT !.mod = Remaining(archive[op.from].mod, S)])
          /\ UNCHANGED mods
  /\ UNCHANGED <<settings, discarded>>

StopInKeep ==
  /\ Stopped /\ pc = "keep" /\ ~op.retiring /\ settings # None
  /\ SetEntry(dir, [archive[dir] EXCEPT !.settings = Torn])
  /\ UNCHANGED <<mods, settings, discarded>>

(* An interrupted os.RemoveAll leaves some of an entry's parts.            *)
Pieces(folder) == IF folder = None THEN {None}
                  ELSE {None} \union {Remaining(folder, S) : S \in SUBSET Files}
Remains(e) == {r \in [mod : Pieces(e.mod), settings : {e.settings, None},
                      meta : {e.meta, FALSE}, bare : Pieces(e.bare)] : r # e}

StopInRemoval ==
  /\ Stopped
  /\ \E d \in Dirs :
       /\ \/ pc = "prune" /\ d \in Doomed
          \/ pc = "drop" /\ d = op.from
       /\ \E e \in Remains(archive[d]) : SetEntry(d, e)
       /\ discarded' = discarded \union HeldBy(archive[d])
  /\ UNCHANGED <<mods, settings>>

(***************************************************************************)
(* Everything else that touches this state: mods-on/mods-off, the clock    *)
(* and the game.                                                           *)
(***************************************************************************)
ModsToggle ==
  /\ Others /\ Idle /\ settings \in Switches
  /\ settings' = [settings EXCEPT !.off = ~settings.off]
  /\ UNCHANGED <<mods, seen, archive, clock, gameOpen, process, history>>

Tick ==
  /\ clock < MaxTime
  /\ clock' = clock + 1
  /\ UNCHANGED <<world, gameOpen, process, history>>

GameOpensOrQuits ==
  /\ Others
  /\ gameOpen' = ~gameOpen
  /\ UNCHANGED <<world, clock, process, history>>

(* The game writes the file on first sight of a mod folder, over one it    *)
(* cannot parse, and with every mod off after a crash.                     *)
GameWritesSettings ==
  /\ gameOpen
  /\ settings' = IF settings \in Switches THEN [settings EXCEPT !.off = TRUE]
                 ELSE [off |-> FALSE, on |-> {}]
  /\ raced' = ~Idle
  /\ UNCHANGED <<mods, seen, archive, clock, gameOpen, process, before,
                 everIn, discarded>>

Next ==
  \/ \E n \in Names : BeginDeploy(n) \/ BeginRollback(n) \/ BeginUndeploy(n)
  \/ Stage \/ MakeEntry \/ TakeMod \/ RemoveTaken \/ KeepSettings \/ WriteMeta
  \/ Install \/ Enable \/ Retire \/ Prune
  \/ Restore \/ RemoveRestored \/ TruncateSettings \/ RewriteSettings \/ DropEntry
  \/ StopBetweenSteps \/ StopInTake \/ StopInRestore \/ StopInKeep \/ StopInRemoval
  \/ ModsToggle \/ Tick \/ GameOpensOrQuits \/ GameWritesSettings

Spec == Init /\ [][Next]_vars

-------------------------------------------------------------------------------
TypeOK ==
  /\ mods \in [Places -> [Names -> Folder \union {None}]]
  /\ seen \in Places
  /\ archive \in [Dirs -> Entry \union {None}]
  /\ settings \in Settings
  /\ clock \in Clock /\ gameOpen \in BOOLEAN
  /\ pc \in Steps \union {"ended", "stopped"}
  /\ op \in Operation
  /\ staging \in Folder \union {None}
  /\ dir \in Dirs \union {None}
  /\ before \in [mod : Folder \union {None}, settings : Settings]
  /\ raced \in BOOLEAN
  /\ everIn \subseteq Trees /\ discarded \subseteq Trees

(* No operation destroys a build: whatever was once installed whole is     *)
(* still whole in GAMEDATA/MODS or in the archive, however many operations *)
(* were interrupted since, unless retention deleted its entry.             *)
Recoverable == everIn \subseteq Live \union Archived \union discarded

(* What makes it so. The entry being written is open and starts out empty; *)
(* a deploy keeps its staged folder until it is installed; a copy is       *)
(* complete before its source is removed; nothing is moved onto an         *)
(* installed folder; and the entry a rollback consumes is not the one it   *)
(* writes, and has given up its mod folder before it is deleted.           *)
OpenEntry ==
  pc \in {"take", "takeRemove", "keep", "meta"} =>
    /\ dir # None /\ dir # op.from
    /\ archive[dir] # None /\ ~archive[dir].meta
    /\ pc = "take" => archive[dir].mod = None
Roles ==
  /\ ~op.retiring => op.arch = op.name
  /\ op.retiring => op.kind = "deploy" /\ pc # "install"
  /\ op.kind # "rollback" => op.from = None
  /\ op.kind = "deploy" /\ ~Idle => seen = "real"
  /\ pc \in {"install", "enable", "retire"} => op.kind = "deploy"
  /\ pc = "prune" => op.kind # "rollback"
  /\ pc \in {"restore", "restoreRemove", "truncate", "rewrite", "drop"} => op.kind = "rollback"
Staged ==
  /\ op.kind = "deploy" /\ ~op.retiring
  /\ pc \in {"mkdir", "take", "takeRemove", "keep", "meta", "install"}
  => staging # None
Vacated == pc \in {"keep", "meta", "install", "restore"} => mods[seen][op.arch] = None
CopyComplete ==
  /\ pc = "takeRemove" => Game(op.arch) # None /\ archive[dir].mod = Game(op.arch)
  /\ pc = "restoreRemove" => Game(op.name) # None /\ archive[op.from].mod = Game(op.name)
Consumed ==
  op.kind = "rollback" =>
    /\ op.from # None /\ archive[op.from] # None
    /\ pc \notin {"restoreRemove", "truncate", "rewrite", "drop"} =>
         (op.hasMod <=> archive[op.from].mod # None)
    /\ pc \in {"truncate", "rewrite", "drop"} => archive[op.from].mod = None
Bookkeeping == OpenEntry /\ Roles /\ Staged /\ Vacated /\ CopyComplete /\ Consumed

(* A deploy that finishes leaves a complete entry, under its own name,     *)
(* with the mod folder and the settings it found; neither retiring the     *)
(* legacy folder nor its own pruning takes that entry away.                *)
Ends(kind) == ~Idle /\ op.kind = kind /\ pc' = "ended" /\ ~raced
Undo == [mod |-> before.mod, settings |-> before.settings, meta |-> TRUE,
         bare |-> None]
DeployKeepsUndo ==
  [][Ends("deploy") => \E d \in Dirs : d.name = op.name /\ archive'[d] = Undo]_vars

(* A rollback is itself reversible: when it ends, the first entry of the   *)
(* listing, which a rollback with no timestamp picks, holds what was       *)
(* installed and the settings as they were.                                *)
RollbackUndoable ==
  [][Ends("rollback") => \E d \in Newest' : archive'[d] = Undo]_vars

(* A sealed entry, one with its archive.json, changes only by being rolled *)
(* back to or by being deleted: no later operation writes into it.         *)
SealedEntries ==
  [][archive' # archive =>
       \A d \in Entries : archive[d].meta /\ archive'[d] # archive[d] =>
         pc = "prune" \/ (op.kind = "rollback" /\ d = op.from)]_vars

(* Retention deletes only entries older than the ones it keeps.            *)
Kept == {d \in Entries : Cardinality({e \in Entries : ListedBefore(e, d)}) < Retention}
PruneSparesNewest ==
  [][pc = "prune" => \A d \in Entries, e \in Kept : archive'[d] = None => d.t <= e.t]_vars

(* A mod folder goes into the directory behind a symlinked GAMEDATA/MODS   *)
(* only while GAMEDATA/MODS is that symlink: a deploy leaves the target    *)
(* alone.                                                                  *)
DeploySparesLinkTarget ==
  [][op.kind = "deploy" /\ ~Idle => mods'["target"] = mods["target"]]_vars
===============================================================================
