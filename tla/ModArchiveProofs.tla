--------------------------- MODULE ModArchiveProofs ---------------------------
(* Proofs about deploy, rollback and undeploy, for every set of names,       *)
(* builds and files, every retention and every bound.                        *)
EXTENDS ModArchive, FiniteSetTheorems, TLAPS

(***************************************************************************)
(* Folders and entries.                                                    *)
(***************************************************************************)

(* A complete copy into a directory that did not exist is the original:    *)
(* walkCopy leaves nothing out.                                            *)
LEMMA CompleteCopy ==
  ASSUME NEW folder \in Folder
  PROVE  Copied(folder, None, Files) = folder
  BY DEF Copied, Folder

(* Copying and removing keep folders folders.                              *)
LEMMA FolderTypes ==
  ASSUME NEW src \in Folder, NEW dst \in Folder \union {None}, NEW S \in SUBSET Files
  PROVE  /\ Copied(src, dst, S) \in Folder
         /\ Remaining(src, S) \in Folder
  BY NoneAssumption DEF Copied, Remaining, Folder

(* A folder is never mistaken for no folder.                               *)
LEMMA WholeIsFolder ==
  ASSUME NEW t \in Trees
  PROVE  Whole(t) \in Folder /\ Whole(t) # None
  BY NoneAssumption DEF Whole, Folder

(* The blank values the actions assign are of their types.                 *)
LEMMA EmptyEntryType == EmptyEntry \in Entry
  BY DEF EmptyEntry, Entry, Settings

(* The blank values the actions assign are of their types.                 *)
LEMMA NoOperationType == NoOperation \in Operation
  BY ConstAssumption DEF NoOperation, Operation, Kinds

(* The blank values the actions assign are of their types.                 *)
LEMMA NothingType == Nothing \in [mod : Folder \union {None}, settings : Settings]
  BY DEF Nothing, Settings

(* What a process leaves behind has the right type.                        *)
LEMMA FinishTypes ==
  ASSUME NEW how \in {"ended", "stopped"}, Finish(how)
  PROVE  /\ pc' \in Steps \union {"ended", "stopped"}
         /\ op' \in Operation
         /\ staging' \in Folder \union {None}
         /\ dir' \in Dirs \union {None}
         /\ before' \in [mod : Folder \union {None}, settings : Settings]
         /\ raced' \in BOOLEAN
  BY NoOperationType, NothingType DEF Finish

(* What an installation step keeps of the types.                           *)
LEMMA SetGameType ==
  ASSUME TypeOK, NEW n \in Names, NEW folder \in Folder \union {None}, SetGame(n, folder)
  PROVE  mods' \in [Places -> [Names -> Folder \union {None}]]
  BY DEF TypeOK, SetGame

(* What a step on one entry keeps of the types.                            *)
LEMMA SetEntryType ==
  ASSUME TypeOK, NEW d \in Dirs, NEW e \in Entry \union {None}, SetEntry(d, e)
  PROVE  archive' \in [Dirs -> Entry \union {None}]
  BY DEF TypeOK, SetEntry

(* What is installed under a name is a folder or nothing.                  *)
LEMMA GameType ==
  ASSUME TypeOK, NEW n \in Names
  PROVE  Game(n) \in Folder \union {None}
  BY DEF TypeOK, Game

(***************************************************************************)
(* Type correctness. It needs Bookkeeping: a step that reads a folder      *)
(* reads one that is there.                                                *)
(***************************************************************************)
LEMMA InitTypeOK == Init => TypeOK
<1> SUFFICES ASSUME Init PROVE TypeOK
  OBVIOUS
<1>1. mods \in [Places -> [Names -> Folder \union {None}]]
  <2>1. PICK found \in {None} \union {Whole(t) : t \in Trees}, n \in {DefaultName, LegacyName} :
          mods = [p \in Places |-> [m \in Names |-> IF p = seen /\ m = n THEN found ELSE None]]
    BY DEF Init
  <2>2. found \in Folder \union {None}
    BY WholeIsFolder
  <2> QED BY <2>1, <2>2
<1>2. seen \in Places
  BY ConstAssumption DEF Init, Places
<1>3. archive \in [Dirs -> Entry \union {None}] /\ settings \in Settings
  <2>1. [off |-> FALSE, on |-> {}] \in Switches
    BY DEF Switches
  <2>2. settings \in Settings
    <3>1. settings \in {None, [off |-> FALSE, on |-> {}]}
      BY DEF Init
    <3> QED BY <2>1, <3>1 DEF Settings
  <2>3. CASE archive = [d \in Dirs |-> None]
    BY <2>2, <2>3
  <2>4. ASSUME NEW old \in Dirs, NEW t \in Trees,
               archive = [d \in Dirs |-> IF d = old THEN OldEntry(t) ELSE None]
        PROVE  archive \in [Dirs -> Entry \union {None}]
    <3>1. OldEntry(t) \in Entry
      BY WholeIsFolder DEF OldEntry, EmptyEntry, Entry, Settings
    <3> QED BY <3>1, <2>4
  <2> QED BY <2>2, <2>3, <2>4 DEF Init
<1>4. clock \in Clock /\ gameOpen \in BOOLEAN
  <2>1. clock = 1
    BY DEF Init
  <2>2. clock \in Clock
    BY <2>1, ConstAssumption DEF Clock
  <2>3. gameOpen \in BOOLEAN
    BY Zenon DEF Init
  <2> QED BY <2>2, <2>3
<1>5. everIn \subseteq Trees
  BY DEF Init, Live
<1> QED
  BY <1>1, <1>2, <1>3, <1>4, <1>5, NoOperationType, NothingType DEF Init, TypeOK

(* Every step keeps the types.                                             *)
LEMMA StepTypeOK ==
  ASSUME TypeOK, Bookkeeping, [Next]_vars
  PROVE  TypeOK'
<1> USE DEF Goto
<1>1. ASSUME NEW n \in Names, BeginDeploy(n) PROVE TypeOK'
  <2>1. op' \in Operation
    BY <1>1, NoOperationType DEF BeginDeploy, Begin, Operation, Kinds
  <2> QED BY <1>1, <2>1 DEF BeginDeploy, Begin, TypeOK, Steps, Places
<1>2. ASSUME NEW n \in Names, BeginRollback(n) PROVE TypeOK'
  <2>1. op' \in Operation
    BY <1>2, NoOperationType DEF BeginRollback, Operation, Kinds, Pickable, Entries
  <2>2. before' \in [mod : Folder \union {None}, settings : Settings]
    BY <1>2, GameType DEF BeginRollback, Remember, TypeOK
  <2> QED BY <1>2, <2>1, <2>2 DEF BeginRollback, Remember, world, TypeOK, Steps
<1>3. ASSUME NEW n \in Names, BeginUndeploy(n) PROVE TypeOK'
  <2>1. Undeployed(n) \in Names
    BY ConstAssumption DEF Undeployed
  <2>2. op' \in Operation
    BY <1>3, <2>1, NoOperationType DEF BeginUndeploy, Begin, Operation, Kinds
  <2>3. before' \in [mod : Folder \union {None}, settings : Settings]
    BY <1>3, <2>1, GameType DEF BeginUndeploy, Remember, TypeOK
  <2> QED BY <1>3, <2>2, <2>3 DEF BeginUndeploy, Begin, Remember, world, TypeOK, Steps
<1>4. CASE Stage
  <2>1. staging' \in Folder
    BY <1>4, WholeIsFolder DEF Stage
  <2>2. before' \in [mod : Folder \union {None}, settings : Settings]
    BY <1>4, GameType DEF Stage, Remember, TypeOK, Operation
  <2> QED BY <1>4, <2>1, <2>2 DEF Stage, Remember, world, TypeOK, Steps
<1>5. CASE MakeEntry
  <2>1. archive' \in [Dirs -> Entry \union {None}] /\ dir' \in Dirs
    BY <1>5, SetEntryType, EmptyEntryType DEF MakeEntry, FreeDirs
  <2> QED BY <1>5, <2>1 DEF MakeEntry, TypeOK, Steps
<1>6. CASE TakeMod
  <2>1. /\ op.arch \in Names /\ dir \in Dirs
        /\ archive[dir] \in Entry
        /\ Game(op.arch) \in Folder \union {None}
    BY <1>6, GameType DEF TakeMod, TypeOK, Operation, Bookkeeping, OpenEntry
  <2>2. ASSUME NEW folder \in Folder PROVE [archive[dir] EXCEPT !.mod = folder] \in Entry
    BY <2>1 DEF Entry
  <2>3. mods' \in [Places -> [Names -> Folder \union {None}]]
    BY <1>6, <2>1, SetGameType DEF TakeMod, TypeOK
  <2>4. archive' \in [Dirs -> Entry \union {None}]
    BY <1>6, <2>1, <2>2, CompleteCopy, SetEntryType DEF TakeMod, TypeOK
  <2> QED BY <1>6, <2>3, <2>4 DEF TakeMod, TypeOK, Steps
<1>7. CASE RemoveTaken
  <2>1. mods' \in [Places -> [Names -> Folder \union {None}]]
    BY <1>7, SetGameType DEF RemoveTaken, TypeOK, Operation
  <2> QED BY <1>7, <2>1 DEF RemoveTaken, TypeOK, Steps
<1>8. CASE KeepSettings
  <2>1. dir \in Dirs /\ archive[dir] \in Entry /\ settings \in Settings
    BY <1>8 DEF KeepSettings, TypeOK, Bookkeeping, OpenEntry
  <2>2. [archive[dir] EXCEPT !.settings = settings] \in Entry
    BY <2>1 DEF Entry
  <2>3. archive' \in [Dirs -> Entry \union {None}]
    BY <1>8, <2>1, <2>2, SetEntryType DEF KeepSettings, TypeOK
  <2> QED BY <1>8, <2>3 DEF KeepSettings, TypeOK, Steps
<1>9. CASE WriteMeta
  <2>1. dir \in Dirs /\ archive[dir] \in Entry
    BY <1>9 DEF WriteMeta, TypeOK, Bookkeeping, OpenEntry
  <2>2. [archive[dir] EXCEPT !.meta = TRUE] \in Entry
    BY <2>1 DEF Entry
  <2>3. archive' \in [Dirs -> Entry \union {None}]
    BY <1>9, <2>1, <2>2, SetEntryType DEF WriteMeta, TypeOK
  <2> QED BY <1>9, <2>3 DEF WriteMeta, TypeOK, Steps
<1>10. CASE Install
  <2>1. mods' \in [Places -> [Names -> Folder \union {None}]]
    BY <1>10, SetGameType DEF Install, TypeOK, Operation
  <2> QED BY <1>10, <2>1 DEF Install, TypeOK, Steps, WholeIn
<1>11. CASE Enable
  <2>1. settings' \in Settings
    <3>1. op.name \in Names
      BY DEF TypeOK, Operation
    <3>2. CASE settings \in Switches
      BY <1>11, <3>1, <3>2 DEF Enable, Settings, Switches
    <3>3. CASE settings \notin Switches
      BY <1>11, <3>3 DEF Enable, TypeOK
    <3> QED BY <3>2, <3>3
  <2> QED BY <1>11, <2>1 DEF Enable, TypeOK, Steps
<1>12. CASE Retire
  <2>1. op' \in Operation
    BY <1>12, ConstAssumption DEF Retire, TypeOK, Operation
  <2> QED BY <1>12, <2>1 DEF Retire, world, TypeOK, Steps
<1>13. CASE Prune
  <2>1. archive' \in [Dirs -> Entry \union {None}] /\ discarded' \subseteq Trees
    BY <1>13, SetEntryType DEF Prune, TypeOK, HeldBy, WholeIn, Doomed, Entries
  <2>2. CASE pc' = pc /\ UNCHANGED <<process, before, raced>>
    BY <1>13, <2>1, <2>2 DEF Prune, process, TypeOK
  <2>3. CASE Finish("ended")
    BY <1>13, <2>1, <2>3, FinishTypes DEF Prune, TypeOK
  <2> QED BY <1>13, <2>2, <2>3 DEF Prune, process
<1>14. CASE Restore
  <2>1. op.name \in Names /\ Game(op.name) \in Folder \union {None}
    BY GameType DEF TypeOK, Operation
  <2>2. pc' \in Steps
    BY <1>14 DEF Restore, Restored, Steps
  <2>3. CASE ~op.hasMod
    BY <1>14, <2>2, <2>3 DEF Restore, TypeOK
  <2>4. CASE op.hasMod
    <3>1. /\ op.from \in Dirs
          /\ archive[op.from] \in Entry
          /\ archive[op.from].mod \in Folder
      BY <1>14, <2>4 DEF Restore, TypeOK, Operation, Entry, Bookkeeping, Consumed, Roles
    <3>2. [archive[op.from] EXCEPT !.mod = None] \in Entry
      BY <3>1 DEF Entry
    <3>3. Copied(archive[op.from].mod, Game(op.name), Files) \in Folder
      BY <2>1, <3>1, FolderTypes
    <3>4. mods' \in [Places -> [Names -> Folder \union {None}]]
      BY <1>14, <2>1, <2>4, <3>1, <3>3, SetGameType DEF Restore
    <3>5. archive' \in [Dirs -> Entry \union {None}]
      BY <1>14, <2>4, <3>1, <3>2, SetEntryType DEF Restore, TypeOK
    <3> QED BY <1>14, <2>2, <3>4, <3>5 DEF Restore, TypeOK
  <2> QED BY <2>3, <2>4
<1>15. CASE RemoveRestored
  <2>1. /\ op.from \in Dirs
        /\ archive[op.from] \in Entry
    BY <1>15 DEF RemoveRestored, TypeOK, Operation, Bookkeeping, Consumed, Roles
  <2>2. [archive[op.from] EXCEPT !.mod = None] \in Entry
    BY <2>1 DEF Entry
  <2>3. archive' \in [Dirs -> Entry \union {None}]
    BY <1>15, <2>1, <2>2, SetEntryType DEF RemoveRestored
  <2> QED BY <1>15, <2>3 DEF RemoveRestored, Restored, TypeOK, Steps
<1>16. CASE TruncateSettings
  BY <1>16 DEF TruncateSettings, TypeOK, Steps, Settings
<1>17. CASE RewriteSettings
  <2>1. archive[op.from] \in Entry
    BY <1>17 DEF RewriteSettings, TypeOK, Operation, Bookkeeping, Consumed, Roles
  <2> QED BY <1>17, <2>1 DEF RewriteSettings, TypeOK, Steps, Entry
<1>18. CASE DropEntry
  <2>1. op.from \in Dirs
    BY <1>18 DEF DropEntry, TypeOK, Operation, Bookkeeping, Consumed, Roles
  <2>2. archive' \in [Dirs -> Entry \union {None}]
    BY <1>18, <2>1, SetEntryType DEF DropEntry
  <2> QED BY <1>18, <2>2, FinishTypes DEF DropEntry, TypeOK
<1>19. CASE StopBetweenSteps
  BY <1>19, FinishTypes DEF StopBetweenSteps, Stopped, TypeOK
<1>20. CASE StopInTake
  <2>1. PICK S \in SUBSET Files :
          \/ /\ pc = "take" /\ Game(op.arch) # None
             /\ SetEntry(dir, [archive[dir] EXCEPT !.mod = Copied(Game(op.arch), None, S)])
             /\ UNCHANGED mods
          \/ /\ pc = "takeRemove"
             /\ SetGame(op.arch, Remaining(Game(op.arch), S))
             /\ UNCHANGED archive
    BY <1>20 DEF StopInTake
  <2>2. /\ op.arch \in Names /\ dir \in Dirs
        /\ archive[dir] \in Entry
        /\ Game(op.arch) \in Folder
    BY <2>1, GameType DEF TypeOK, Operation, Bookkeeping, OpenEntry, CopyComplete
  <2>3. /\ Copied(Game(op.arch), None, S) \in Folder
        /\ Remaining(Game(op.arch), S) \in Folder
    BY <2>2, FolderTypes
  <2>4. [archive[dir] EXCEPT !.mod = Copied(Game(op.arch), None, S)] \in Entry
    BY <2>2, <2>3 DEF Entry
  <2>5. mods' \in [Places -> [Names -> Folder \union {None}]]
    BY <2>1, <2>2, <2>3, SetGameType DEF TypeOK
  <2>6. archive' \in [Dirs -> Entry \union {None}]
    BY <2>1, <2>2, <2>4, SetEntryType DEF TypeOK
  <2> QED BY <1>20, <2>5, <2>6, FinishTypes DEF StopInTake, Stopped, TypeOK
<1>21. CASE StopInRestore
  <2>1. PICK S \in SUBSET Files :
          \/ /\ pc = "restore" /\ op.hasMod
             /\ SetGame(op.name, Copied(archive[op.from].mod, Game(op.name), S))
             /\ UNCHANGED archive
          \/ /\ pc = "restoreRemove"
             /\ SetEntry(op.from, [archive[op.from] EXCEPT !.mod = Remaining(archive[op.from].mod, S)])
             /\ UNCHANGED mods
    BY <1>21 DEF StopInRestore
  <2>2. op.kind = "rollback"
    BY <2>1 DEF Bookkeeping, Roles
  <2>3. op.name \in Names /\ Game(op.name) \in Folder \union {None}
    BY GameType DEF TypeOK, Operation
  <2>4. op.from \in Dirs /\ archive[op.from] \in Entry
    BY <2>2 DEF TypeOK, Operation, Bookkeeping, Consumed
  <2>5. archive[op.from].mod \in Folder
    BY <2>1, <2>2, <2>4 DEF Entry, Bookkeeping, Consumed, CopyComplete
  <2>6. /\ Copied(archive[op.from].mod, Game(op.name), S) \in Folder
        /\ Remaining(archive[op.from].mod, S) \in Folder
    BY <2>3, <2>5, FolderTypes
  <2>7. [archive[op.from] EXCEPT !.mod = Remaining(archive[op.from].mod, S)] \in Entry
    BY <2>4, <2>6 DEF Entry
  <2>8. mods' \in [Places -> [Names -> Folder \union {None}]]
    BY <2>1, <2>3, <2>6, SetGameType DEF TypeOK
  <2>9. archive' \in [Dirs -> Entry \union {None}]
    BY <2>1, <2>4, <2>7, SetEntryType DEF TypeOK
  <2> QED BY <1>21, <2>8, <2>9, FinishTypes DEF StopInRestore, Stopped, TypeOK
<1>22. CASE StopInKeep
  <2>1. dir \in Dirs /\ archive[dir] \in Entry
    BY <1>22 DEF StopInKeep, TypeOK, Bookkeeping, OpenEntry
  <2>2. [archive[dir] EXCEPT !.settings = Torn] \in Entry
    BY <2>1 DEF Entry, Settings
  <2>3. archive' \in [Dirs -> Entry \union {None}]
    BY <1>22, <2>1, <2>2, SetEntryType DEF StopInKeep
  <2> QED BY <1>22, <2>3, FinishTypes DEF StopInKeep, Stopped, TypeOK
<1>23. CASE StopInRemoval
  <2>1. PICK d \in Dirs :
          /\ \/ pc = "prune" /\ d \in Doomed
             \/ pc = "drop" /\ d = op.from
          /\ \E e \in Remains(archive[d]) : SetEntry(d, e)
          /\ discarded' = discarded \union HeldBy(archive[d])
    BY <1>23 DEF StopInRemoval
  <2>2. archive[d] \in Entry
    BY <2>1 DEF TypeOK, Doomed, Entries, Bookkeeping, Consumed, Roles
  <2>3. ASSUME NEW folder \in Folder \union {None}
        PROVE  Pieces(folder) \subseteq Folder \union {None}
    BY FolderTypes DEF Pieces
  <2>4. Remains(archive[d]) \subseteq Entry
    BY <2>2, <2>3 DEF Remains, Entry, Settings
  <2>5. archive' \in [Dirs -> Entry \union {None}]
    BY <2>1, <2>4, SetEntryType
  <2>6. discarded' \subseteq Trees
    BY <2>1 DEF TypeOK, HeldBy, WholeIn
  <2> QED BY <1>23, <2>5, <2>6, FinishTypes DEF StopInRemoval, Stopped, TypeOK
<1>24. CASE ModsToggle
  <2>1. settings' \in Switches
    BY <1>24 DEF ModsToggle, Switches
  <2> QED BY <1>24, <2>1 DEF ModsToggle, process, history, TypeOK, Settings
<1>25. CASE Tick
  BY <1>25, ConstAssumption DEF Tick, world, process, history, TypeOK, Clock
<1>26. CASE GameOpensOrQuits
  BY <1>26 DEF GameOpensOrQuits, world, process, history, TypeOK
<1>27. CASE GameWritesSettings
  <2>1. settings' \in Switches
    BY <1>27 DEF GameWritesSettings, Switches
  <2> QED BY <1>27, <2>1 DEF GameWritesSettings, process, TypeOK, Settings
<1>28. CASE UNCHANGED vars
  BY <1>28 DEF vars, TypeOK
<1> QED
  BY <1>1, <1>2, <1>3, <1>4, <1>5, <1>6, <1>7, <1>8, <1>9, <1>10, <1>11, <1>12, <1>13,
     <1>14, <1>15, <1>16, <1>17, <1>18, <1>19, <1>20, <1>21, <1>22, <1>23, <1>24, <1>25,
     <1>26, <1>27, <1>28 DEF Next

(***************************************************************************)
(* The bookkeeping invariant.                                              *)
(***************************************************************************)
LEMMA InitBookkeeping == Init => Bookkeeping
  BY DEF Init, Bookkeeping, OpenEntry, Roles, Idle, Staged, Vacated, CopyComplete, Consumed, NoOperation

(* Between two operations there is nothing to keep.                        *)
LEMMA FinishBookkeeping ==
  ASSUME NEW how \in {"ended", "stopped"}, Finish(how)
  PROVE  Bookkeeping'
  BY DEF Finish, Bookkeeping, OpenEntry, Roles, Idle, Staged, Vacated, CopyComplete, Consumed, NoOperation

(* Bookkeeping reads only these.                                           *)
LEMMA BookkeepingUnchanged ==
  ASSUME Bookkeeping, UNCHANGED <<mods, seen, archive, process>>
  PROVE  Bookkeeping'
  BY DEF Bookkeeping, OpenEntry, Roles, Idle, Staged, Vacated, CopyComplete, Consumed, process, Game

(* Every step keeps the bookkeeping.                                       *)
LEMMA StepBookkeeping ==
  ASSUME TypeOK, Bookkeeping, [Next]_vars
  PROVE  Bookkeeping'
<1> USE DEF Goto
<1>1. ASSUME NEW n \in Names, BeginDeploy(n) PROVE Bookkeeping'
  BY <1>1 DEF BeginDeploy, Begin, NoOperation, Bookkeeping, OpenEntry, Roles, Idle, Staged, Vacated,
              CopyComplete, Consumed
<1>2. ASSUME NEW n \in Names, BeginRollback(n) PROVE Bookkeeping'
  <2>1. PICK d \in Pickable :
          op' = [NoOperation EXCEPT !.kind = "rollback", !.name = n, !.arch = n, !.from = d,
                   !.hasMod = archive[d].mod # None, !.hasSettings = archive[d].settings # None]
    BY <1>2 DEF BeginRollback
  <2>2. d # None /\ archive[d] # None
    BY NoneAssumption DEF Pickable, Entries
  <2>3. /\ op'.kind = "rollback" /\ op'.name = n /\ op'.arch = n /\ op'.from = d
        /\ op'.retiring = FALSE /\ op'.hasMod = (archive[d].mod # None)
    BY <2>1 DEF NoOperation
  <2>4. pc' = "mkdir" /\ UNCHANGED <<mods, seen, archive, dir>>
    BY <1>2 DEF BeginRollback, world
  <2> QED BY <2>2, <2>3, <2>4 DEF Bookkeeping, OpenEntry, Roles, Idle, Staged, Vacated, CopyComplete, Consumed
<1>3. ASSUME NEW n \in Names, BeginUndeploy(n) PROVE Bookkeeping'
  BY <1>3 DEF BeginUndeploy, Begin, NoOperation, Bookkeeping, OpenEntry, Roles, Idle, Staged, Vacated,
              CopyComplete, Consumed
<1>4. CASE Stage
  BY <1>4, WholeIsFolder DEF Stage, world, Bookkeeping, OpenEntry, Roles, Idle, Staged, Vacated, CopyComplete, Consumed
<1>5. CASE MakeEntry
  <2>1. PICK d \in FreeDirs(op.arch) : dir' = d /\ SetEntry(d, EmptyEntry)
    BY <1>5 DEF MakeEntry
  <2>2. d \in Dirs /\ archive[d] = None /\ d # None
    BY <2>1, NoneAssumption DEF FreeDirs
  <2>3. archive'[d] = EmptyEntry /\ \A e \in Dirs : e # d => archive'[e] = archive[e]
    BY <2>1, <2>2 DEF SetEntry, TypeOK
  <2>4. EmptyEntry # None
    BY EmptyEntryType, NoneAssumption
  <2>5. op.kind = "rollback" => op.from \in Dirs /\ op.from # d
    BY <2>2 DEF TypeOK, Operation, Bookkeeping, Consumed
  <2>6. d # op.from
    BY <2>2, <2>5 DEF Bookkeeping, Roles, TypeOK, Operation
  <2> QED BY <1>5, <2>1, <2>2, <2>3, <2>4, <2>5, <2>6 DEF MakeEntry, Bookkeeping, OpenEntry,
             Roles, Idle, Staged, Vacated, CopyComplete, Consumed, EmptyEntry
<1>6. CASE TakeMod
  <2>1. dir \in Dirs /\ op.arch \in Names /\ seen \in Places
        /\ archive[dir] \in Entry /\ archive[dir].mod = None /\ dir # None
        /\ dir # op.from /\ ~archive[dir].meta
    BY <1>6 DEF TakeMod, TypeOK, Operation, Bookkeeping, OpenEntry
  <2>2. Game(op.arch) \in Folder \union {None}
    BY <2>1, GameType
  <2>3. UNCHANGED <<seen, op, dir, staging>> /\ pc = "take"
    BY <1>6 DEF TakeMod
  <2>4. CASE Game(op.arch) = None /\ pc' = "keep" /\ UNCHANGED <<mods, archive>>
    BY <2>1, <2>3, <2>4 DEF Game, Bookkeeping, OpenEntry, Roles, Idle, Staged, Vacated, CopyComplete, Consumed
  <2>5. CASE /\ SetEntry(dir, [archive[dir] EXCEPT !.mod = Game(op.arch)])
             /\ SetGame(op.arch, None) /\ pc' = "keep"
    <3>1. /\ archive'[dir] = [archive[dir] EXCEPT !.mod = Game(op.arch)]
          /\ \A e \in Dirs : e # dir => archive'[e] = archive[e]
      BY <2>1, <2>5 DEF SetEntry, TypeOK
    <3>2. archive'[dir] \in Entry /\ archive'[dir].meta = archive[dir].meta
      BY <2>1, <2>2, <3>1 DEF Entry
    <3>3. mods'[seen][op.arch] = None
      BY <2>1, <2>5 DEF SetGame, TypeOK
    <3> QED BY <2>1, <2>3, <2>5, <3>1, <3>2, <3>3, NoneAssumption
            DEF Bookkeeping, OpenEntry, Roles, Idle, Staged, Vacated, CopyComplete, Consumed, TypeOK, Operation
  <2>6. CASE /\ Game(op.arch) # None
             /\ SetEntry(dir, [archive[dir] EXCEPT !.mod = Copied(Game(op.arch), None, Files)])
             /\ UNCHANGED mods /\ pc' = "takeRemove"
    <3>1. /\ archive'[dir] = [archive[dir] EXCEPT !.mod = Game(op.arch)]
          /\ \A e \in Dirs : e # dir => archive'[e] = archive[e]
      BY <2>1, <2>2, <2>6, CompleteCopy DEF SetEntry, TypeOK
    <3>2. archive'[dir] \in Entry /\ archive'[dir].meta = archive[dir].meta
          /\ archive'[dir].mod = Game(op.arch)
      BY <2>1, <2>2, <3>1 DEF Entry
    <3>3. Game(op.arch)' = Game(op.arch)
      BY <2>3, <2>6 DEF Game
    <3> QED BY <2>1, <2>3, <2>6, <3>1, <3>2, <3>3, NoneAssumption
            DEF Bookkeeping, OpenEntry, Roles, Idle, Staged, Vacated, CopyComplete, Consumed, TypeOK, Operation
  <2> QED BY <1>6, <2>4, <2>5, <2>6 DEF TakeMod
<1>7. CASE RemoveTaken
  <2>1. mods'[seen][op.arch] = None
    BY <1>7 DEF RemoveTaken, SetGame, TypeOK, Operation
  <2> QED BY <1>7, <2>1 DEF RemoveTaken, Bookkeeping, OpenEntry, Roles, Idle, Staged, Vacated, CopyComplete,
             Consumed
<1>8. CASE KeepSettings
  <2>1. dir \in Dirs /\ archive[dir] \in Entry /\ ~archive[dir].meta /\ dir # op.from
    BY <1>8 DEF KeepSettings, TypeOK, Bookkeeping, OpenEntry
  <2>2. /\ \A e \in Dirs : e # dir => archive'[e] = archive[e]
        /\ archive'[dir] \in Entry /\ ~archive'[dir].meta
    BY <1>8, <2>1 DEF KeepSettings, SetEntry, TypeOK, Entry
  <2> QED BY <1>8, <2>1, <2>2, NoneAssumption DEF KeepSettings, Bookkeeping, OpenEntry, Roles, Idle,
             Staged, Vacated, CopyComplete, Consumed, TypeOK, Operation
<1>9. CASE WriteMeta
  <2>1. dir \in Dirs /\ archive[dir] \in Entry /\ dir # op.from
    BY <1>9 DEF WriteMeta, TypeOK, Bookkeeping, OpenEntry
  <2>2. \A e \in Dirs : e # dir => archive'[e] = archive[e]
    BY <1>9, <2>1 DEF WriteMeta, SetEntry, TypeOK
  <2>3. pc' = "install" => op.kind = "deploy" /\ ~op.retiring
    BY <1>9 DEF WriteMeta
  <2> QED BY <1>9, <2>1, <2>2, <2>3 DEF WriteMeta, Bookkeeping, OpenEntry, Roles, Idle,
             Staged, Vacated, CopyComplete, Consumed, TypeOK, Operation
<1>10. CASE Install
  BY <1>10 DEF Install, Bookkeeping, OpenEntry, Roles, Idle, Staged, Vacated, CopyComplete, Consumed
<1>11. CASE Enable
  BY <1>11 DEF Enable, Bookkeeping, OpenEntry, Roles, Idle, Staged, Vacated, CopyComplete, Consumed
<1>12. CASE Retire
  <2>1. /\ pc = "retire" /\ UNCHANGED <<mods, seen, archive, staging, dir>>
        /\ \/ op' = [op EXCEPT !.arch = LegacyName, !.retiring = TRUE] /\ pc' = "mkdir"
           \/ op' = op /\ pc' = "prune"
    BY <1>12 DEF Retire, world
  <2>2. CASE op' = op /\ pc' = "prune"
    BY <2>1, <2>2 DEF Bookkeeping, OpenEntry, Roles, Idle, Staged, Vacated, CopyComplete, Consumed
  <2>3. CASE op' = [op EXCEPT !.arch = LegacyName, !.retiring = TRUE] /\ pc' = "mkdir"
    <3>1. /\ op'.kind = op.kind /\ op'.from = op.from /\ op'.retiring = TRUE
          /\ op'.hasMod = op.hasMod
      BY <2>3 DEF TypeOK, Operation
    <3>2. op.kind = "deploy"
      BY <1>12 DEF Retire, Bookkeeping, Roles
    <3> QED BY <2>1, <2>3, <3>1, <3>2 DEF Bookkeeping, OpenEntry, Roles, Idle, Staged, Vacated,
               CopyComplete, Consumed
  <2> QED BY <2>1, <2>2, <2>3
<1>13. CASE Prune
  <2>1. CASE UNCHANGED process
    <3>1. op.kind # "rollback"
      BY <1>13 DEF Prune, Bookkeeping, Roles
    <3> QED BY <1>13, <2>1, <3>1 DEF Prune, process, Bookkeeping, OpenEntry, Roles, Idle, Staged,
               Vacated, CopyComplete, Consumed
  <2>2. CASE Finish("ended")
    BY <2>2, FinishBookkeeping
  <2> QED BY <1>13, <2>1, <2>2 DEF Prune
<1>14. CASE Restore
  <2>1. /\ pc = "restore" /\ op.kind = "rollback" /\ UNCHANGED <<seen, op, dir, staging>>
        /\ op.from \in Dirs /\ archive[op.from] \in Entry /\ op.name \in Names
        /\ seen \in Places
    BY <1>14 DEF Restore, TypeOK, Operation, Bookkeeping, Roles, Consumed
  <2>2. op.arch = op.name /\ Game(op.name) = None /\ ~op.retiring
    BY <2>1 DEF Bookkeeping, Roles, Vacated, Game
  <2>3. CASE ~op.hasMod
    BY <1>14, <2>1, <2>3 DEF Restore, Restored, Bookkeeping, OpenEntry, Roles, Idle, Staged, Vacated,
       CopyComplete, Consumed
  <2>4. CASE op.hasMod /\ SetEntry(op.from, [archive[op.from] EXCEPT !.mod = None]) /\ pc' = Restored
    <3>1. archive'[op.from] \in Entry /\ archive'[op.from].mod = None
      BY <2>1, <2>4 DEF SetEntry, TypeOK, Entry
    <3> QED BY <2>1, <2>2, <2>4, <3>1, NoneAssumption DEF Restored, Bookkeeping, OpenEntry, Roles, Idle,
               Staged, Vacated, CopyComplete, Consumed
  <2>5. CASE /\ op.hasMod
             /\ SetGame(op.name, Copied(archive[op.from].mod, Game(op.name), Files))
             /\ pc' = "restoreRemove" /\ UNCHANGED archive
    <3>1. archive[op.from].mod \in Folder
      BY <2>1, <2>5 DEF Bookkeeping, Consumed, Entry
    <3>2. Game(op.name)' = archive[op.from].mod
      BY <2>1, <2>2, <2>5, <3>1, CompleteCopy DEF SetGame, TypeOK, Game
    <3> QED BY <2>1, <2>2, <2>5, <3>1, <3>2, NoneAssumption DEF Bookkeeping, OpenEntry, Roles, Idle,
               Staged, Vacated, CopyComplete, Consumed
  <2> QED BY <1>14, <2>3, <2>4, <2>5 DEF Restore
<1>15. CASE RemoveRestored
  <2>1. /\ pc = "restoreRemove" /\ op.kind = "rollback" /\ UNCHANGED <<seen, op, dir, staging>>
        /\ op.from \in Dirs /\ archive[op.from] \in Entry
    BY <1>15 DEF RemoveRestored, TypeOK, Operation, Bookkeeping, Roles, Consumed
  <2>2. archive'[op.from] \in Entry /\ archive'[op.from].mod = None
    BY <1>15, <2>1 DEF RemoveRestored, SetEntry, TypeOK, Entry
  <2> QED BY <1>15, <2>1, <2>2, NoneAssumption DEF RemoveRestored, Restored, Bookkeeping, OpenEntry,
             Roles, Idle, Staged, Vacated, CopyComplete, Consumed
<1>16. CASE TruncateSettings
  BY <1>16 DEF TruncateSettings, Bookkeeping, OpenEntry, Roles, Idle, Staged, Vacated, CopyComplete, Consumed
<1>17. CASE RewriteSettings
  BY <1>17 DEF RewriteSettings, Bookkeeping, OpenEntry, Roles, Idle, Staged, Vacated, CopyComplete, Consumed
<1>18. CASE DropEntry
  BY <1>18, FinishBookkeeping DEF DropEntry
<1>19. CASE StopBetweenSteps \/ StopInTake \/ StopInRestore \/ StopInKeep \/ StopInRemoval
  BY <1>19, FinishBookkeeping
  DEF StopBetweenSteps, StopInTake, StopInRestore, StopInKeep, StopInRemoval, Stopped
<1>20. CASE ModsToggle \/ Tick \/ GameOpensOrQuits \/ GameWritesSettings
  BY <1>20, BookkeepingUnchanged
  DEF ModsToggle, Tick, GameOpensOrQuits, GameWritesSettings, world, process
<1>21. CASE UNCHANGED vars
  BY <1>21, BookkeepingUnchanged DEF vars, process
<1> QED
  BY <1>1, <1>2, <1>3, <1>4, <1>5, <1>6, <1>7, <1>8, <1>9, <1>10, <1>11, <1>12, <1>13, <1>14,
     <1>15, <1>16, <1>17, <1>18, <1>19, <1>20, <1>21 DEF Next

(* Every state the operations, their crashes and the game can reach is     *)
(* well typed, and the steps of an operation agree about what it has       *)
(* already moved.                                                          *)
THEOREM Bookkept == Spec => [](TypeOK /\ Bookkeeping)
<1>1. Init => TypeOK /\ Bookkeeping
  BY InitTypeOK, InitBookkeeping
<1>2. TypeOK /\ Bookkeeping /\ [Next]_vars => (TypeOK /\ Bookkeeping)'
  BY StepTypeOK, StepBookkeeping
<1> QED
  BY <1>1, <1>2, PTL DEF Spec

(***************************************************************************)
(* Nothing that was installed whole is lost.                               *)
(***************************************************************************)
LEMMA LiveMeans ==
  ASSUME NEW t
  PROVE  t \in Live <=> t \in Trees /\ \E p \in Places, n \in Names : mods[p][n] = Whole(t)
  BY DEF Live

(* Being archived, without the quantified entry.                           *)
LEMMA ArchivedMeans ==
  ASSUME NEW t
  PROVE  t \in Archived <=>
           t \in Trees /\ \E d \in Dirs : archive[d] # None /\ archive[d].mod = Whole(t)
  BY DEF Archived, HeldBy, WholeIn

(* Being installed after a step, without the choice of name.               *)
LEMMA LiveMeansNext ==
  ASSUME NEW t
  PROVE  t \in Live' <=> t \in Trees /\ \E p \in Places, n \in Names : mods'[p][n] = Whole(t)
  BY DEF Live

(* Being archived after a step, without the quantified entry.              *)
LEMMA ArchivedMeansNext ==
  ASSUME NEW t
  PROVE  t \in Archived' <=>
           t \in Trees /\ \E d \in Dirs : archive'[d] # None /\ archive'[d].mod = Whole(t)
  BY DEF Archived, HeldBy, WholeIn

(* Replacing one installed folder loses at most the build it held.         *)
LEMMA SetGameKeeps ==
  ASSUME TypeOK, NEW n \in Names, NEW folder, SetGame(n, folder), NEW t \in Live
  PROVE  t \in Live' \/ Game(n) = Whole(t)
<1>1. t \in Trees
  BY LiveMeans
<1>2. PICK p \in Places, m \in Names : mods[p][m] = Whole(t)
  BY LiveMeans
<1>3. CASE p = seen /\ m = n
  BY <1>2, <1>3 DEF Game
<1>4. CASE ~(p = seen /\ m = n)
  <2>1. mods'[p][m] = Whole(t)
    BY <1>2, <1>4 DEF SetGame, TypeOK
  <2> QED BY <1>1, <2>1, LiveMeansNext
<1> QED BY <1>3, <1>4

(* Replacing one entry loses at most the build it held.                    *)
LEMMA SetEntryKeeps ==
  ASSUME TypeOK, NEW d \in Dirs, NEW e, SetEntry(d, e), NEW t \in Archived
  PROVE  t \in Archived' \/ t \in HeldBy(archive[d])
<1>1. t \in Trees
  BY ArchivedMeans
<1>2. PICK c \in Dirs : archive[c] # None /\ archive[c].mod = Whole(t)
  BY ArchivedMeans
<1>3. CASE c = d
  BY <1>1, <1>2, <1>3 DEF HeldBy, WholeIn
<1>4. CASE c # d
  <2>1. archive'[c] = archive[c]
    BY <1>4 DEF SetEntry, TypeOK
  <2> QED BY <1>1, <1>2, <2>1, ArchivedMeansNext
<1> QED BY <1>3, <1>4

(* Whoever writes an entry and keeps its mod folder loses nothing.         *)
LEMMA SameModKeeps ==
  ASSUME TypeOK, NEW d \in Dirs, archive[d] \in Entry, NEW e \in Entry, SetEntry(d, e),
         archive[d].mod = None \/ e.mod = archive[d].mod
  PROVE  Archived \subseteq Archived'
<1> SUFFICES ASSUME NEW t \in Archived PROVE t \in Archived'
  OBVIOUS
<1>1. CASE t \notin HeldBy(archive[d])
  BY <1>1, SetEntryKeeps
<1>2. CASE t \in HeldBy(archive[d])
  <2>1. t \in Trees /\ archive[d].mod = Whole(t)
    BY <1>2 DEF HeldBy, WholeIn
  <2>2. e.mod = Whole(t) /\ e # None
    BY <2>1, WholeIsFolder, NoneAssumption
  <2>3. archive'[d] = e
    BY DEF SetEntry, TypeOK
  <2> QED BY <2>1, <2>2, <2>3, ArchivedMeansNext
<1> QED BY <1>1, <1>2

(* A step that moves no folder loses nothing.                              *)
LEMMA NothingMovedKeeps ==
  ASSUME UNCHANGED <<mods, archive>>
  PROVE  Live' = Live /\ Archived' = Archived
  BY DEF Live, Archived

(* What a step that does not install anything has to show.                 *)
LEMMA EnoughForRecoverable ==
  ASSUME Recoverable, everIn' = everIn, discarded \subseteq discarded',
         \A t \in Live \union Archived : t \in (Live \union Archived \union discarded)'
  PROVE  Recoverable'
  BY DEF Recoverable

(* Every step keeps each build that was whole installed or archived.       *)
LEMMA StepRecoverable ==
  ASSUME TypeOK, Bookkeeping, Recoverable, [Next]_vars
  PROVE  Recoverable'
<1>1. CASE UNCHANGED <<mods, archive, everIn, discarded>>
  BY <1>1, NothingMovedKeeps, EnoughForRecoverable
<1>2. CASE MakeEntry
  <2>1. PICK d \in Dirs : archive[d] = None /\ SetEntry(d, EmptyEntry)
    BY <1>2 DEF MakeEntry, FreeDirs
  <2>2. UNCHANGED <<mods, everIn, discarded>>
    BY <1>2 DEF MakeEntry
  <2>3. Live' = Live
    BY <2>2 DEF Live
  <2>4. ASSUME NEW t \in Archived PROVE t \in Archived'
    BY <2>1, <2>4, SetEntryKeeps DEF HeldBy
  <2> QED BY <2>2, <2>3, <2>4, EnoughForRecoverable
<1>3. CASE TakeMod
  <2>1. /\ dir \in Dirs /\ op.arch \in Names /\ archive[dir] \in Entry
        /\ archive[dir].mod = None /\ Game(op.arch) \in Folder \union {None}
    BY <1>3, GameType DEF TakeMod, TypeOK, Operation, Bookkeeping, OpenEntry
  <2>2. UNCHANGED <<everIn, discarded>>
    BY <1>3 DEF TakeMod
  <2>3. CASE UNCHANGED <<mods, archive>>
    BY <2>2, <2>3, <1>1
  <2>4. CASE SetEntry(dir, [archive[dir] EXCEPT !.mod = Game(op.arch)]) /\ SetGame(op.arch, None)
    <3>1. [archive[dir] EXCEPT !.mod = Game(op.arch)] \in Entry
      BY <2>1 DEF Entry
    <3>2. Archived \subseteq Archived'
      BY <2>1, <2>4, <3>1, SameModKeeps
    <3>3. ASSUME NEW t \in Live PROVE t \in Live' \union Archived'
      <4>1. CASE Game(op.arch) = Whole(t)
        <5>1. archive'[dir] = [archive[dir] EXCEPT !.mod = Whole(t)]
          BY <2>1, <2>4, <4>1 DEF SetEntry, TypeOK
        <5>2. archive'[dir] \in Entry /\ archive'[dir].mod = Whole(t)
          BY <2>1, <2>4, <3>1, <4>1, <5>1 DEF Entry
        <5>3. archive'[dir] # None
          BY <5>2, NoneAssumption
        <5> QED BY <2>1, <5>2, <5>3, LiveMeans, ArchivedMeansNext
      <4> QED BY <2>1, <2>4, <4>1, SetGameKeeps
    <3> QED BY <2>2, <3>2, <3>3, EnoughForRecoverable
  <2>5. CASE SetEntry(dir, [archive[dir] EXCEPT !.mod = Copied(Game(op.arch), None, Files)])
             /\ UNCHANGED mods /\ Game(op.arch) # None
    <3>1. [archive[dir] EXCEPT !.mod = Game(op.arch)] \in Entry
      BY <2>1 DEF Entry
    <3>2. Archived \subseteq Archived'
      BY <2>1, <2>5, <3>1, CompleteCopy, SameModKeeps
    <3>3. Live' = Live
      BY <2>5 DEF Live
    <3> QED BY <2>2, <3>2, <3>3, EnoughForRecoverable
  <2> QED BY <1>3, <2>3, <2>4, <2>5 DEF TakeMod
<1>4. CASE RemoveTaken
  <2>1. /\ dir \in Dirs /\ op.arch \in Names /\ archive[dir] # None
        /\ archive[dir].mod = Game(op.arch) /\ SetGame(op.arch, None)
        /\ UNCHANGED <<archive, everIn, discarded>>
    BY <1>4 DEF RemoveTaken, TypeOK, Operation, Bookkeeping, OpenEntry, CopyComplete
  <2>2. ASSUME NEW t \in Live PROVE t \in Live' \union Archived'
    BY <2>1, SetGameKeeps, LiveMeans, ArchivedMeansNext
  <2>3. Archived' = Archived
    BY <2>1 DEF Archived
  <2> QED BY <2>1, <2>2, <2>3, EnoughForRecoverable
<1>5. CASE KeepSettings \/ WriteMeta \/ StopInKeep
  <2>1. dir \in Dirs /\ archive[dir] \in Entry /\ settings \in Settings
    BY <1>5 DEF KeepSettings, WriteMeta, StopInKeep, TypeOK, Bookkeeping, OpenEntry
  <2>2. \/ archive' = archive
        \/ \E e \in Entry : e.mod = archive[dir].mod /\ SetEntry(dir, e)
    <3> DEFINE Written == {[archive[dir] EXCEPT !.settings = settings],
                           [archive[dir] EXCEPT !.meta = TRUE],
                           [archive[dir] EXCEPT !.settings = Torn]}
    <3>1. \A e \in Written : e \in Entry /\ e.mod = archive[dir].mod
      BY <2>1 DEF Entry, Settings
    <3>2. archive' = archive \/ \E e \in Written : SetEntry(dir, e)
      BY <1>5 DEF KeepSettings, WriteMeta, StopInKeep
    <3> QED BY <3>1, <3>2
  <2>3. Archived \subseteq Archived'
    BY <2>1, <2>2, SameModKeeps DEF Archived
  <2>4. UNCHANGED <<mods, everIn, discarded>>
    BY <1>5 DEF KeepSettings, WriteMeta, StopInKeep, Stopped
  <2>5. Live' = Live
    BY <2>4 DEF Live
  <2> QED BY <2>3, <2>4, <2>5, EnoughForRecoverable
<1>6. CASE Install
  <2>1. op.name \in Names /\ Game(op.name) = None /\ SetGame(op.name, staging)
        /\ everIn' = everIn \union WholeIn(staging) /\ UNCHANGED <<archive, discarded>>
    BY <1>6 DEF Install, TypeOK, Operation
  <2>2. ASSUME NEW t \in Live PROVE t \in Live'
    BY <2>1, SetGameKeeps, LiveMeans, WholeIsFolder
  <2>3. ASSUME NEW t \in WholeIn(staging) PROVE t \in Live'
    <3>1. t \in Trees /\ staging = Whole(t)
      BY DEF WholeIn
    <3>2. seen \in Places /\ mods'[seen][op.name] = Whole(t)
      BY <2>1, <3>1 DEF SetGame, TypeOK
    <3> QED BY <2>1, <3>1, <3>2, LiveMeansNext
  <2>4. Archived' = Archived
    BY <2>1 DEF Archived
  <2> QED BY <2>1, <2>2, <2>3, <2>4 DEF Recoverable
<1>7. CASE Prune \/ StopInRemoval
  <2>1. CASE archive' = archive
    <3>1. UNCHANGED <<mods, everIn>> /\ discarded \subseteq discarded'
      BY <1>7 DEF Prune, StopInRemoval, Stopped
    <3> QED BY <2>1, <3>1, NothingMovedKeeps, EnoughForRecoverable
  <2>2. CASE \E d \in Dirs : \E e : SetEntry(d, e) /\ discarded' = discarded \union HeldBy(archive[d])
    <3>1. UNCHANGED <<mods, everIn>>
      BY <1>7 DEF Prune, StopInRemoval, Stopped
    <3>2. Live' = Live
      BY <3>1 DEF Live
    <3>3. ASSUME NEW t \in Archived PROVE t \in Archived' \union discarded'
      BY <2>2, SetEntryKeeps
    <3> QED BY <2>2, <3>1, <3>2, <3>3, EnoughForRecoverable
  <2>3. archive' = archive \/ \E d \in Dirs : \E e : SetEntry(d, e) /\ discarded' = discarded \union HeldBy(archive[d])
    BY <1>7 DEF Prune, StopInRemoval, Doomed, Entries
  <2> QED BY <2>1, <2>2, <2>3
<1>8. CASE Restore
  <2>1. /\ op.from \in Dirs /\ archive[op.from] \in Entry /\ op.name \in Names
        /\ seen \in Places /\ op.arch = op.name /\ Game(op.name) = None
    BY <1>8 DEF Restore, TypeOK, Operation, Bookkeeping, Roles, Consumed, Vacated, Game
  <2>2. UNCHANGED <<everIn, discarded>>
    BY <1>8 DEF Restore
  <2>3. ASSUME NEW folder, SetGame(op.name, folder) PROVE Live \subseteq Live'
    BY <2>1, <2>3, SetGameKeeps, LiveMeans, WholeIsFolder
  <2>4. CASE UNCHANGED <<mods, archive>>
    BY <2>2, <2>4, <1>1
  <2>5. CASE /\ SetGame(op.name, archive[op.from].mod)
             /\ SetEntry(op.from, [archive[op.from] EXCEPT !.mod = None])
    <3>1. ASSUME NEW t \in Archived PROVE t \in Archived' \union Live'
      <4>1. CASE t \in HeldBy(archive[op.from])
        <5>1. t \in Trees /\ archive[op.from].mod = Whole(t)
          BY <4>1 DEF HeldBy, WholeIn
        <5>2. mods'[seen][op.name] = Whole(t)
          BY <2>1, <2>5, <5>1 DEF SetGame, TypeOK
        <5> QED BY <2>1, <5>1, <5>2, LiveMeansNext
      <4> QED BY <2>1, <2>5, <4>1, SetEntryKeeps
    <3> QED BY <2>2, <2>3, <2>5, <3>1, EnoughForRecoverable
  <2>6. CASE /\ SetGame(op.name, Copied(archive[op.from].mod, Game(op.name), Files))
             /\ UNCHANGED archive
    <3>1. Archived' = Archived
      BY <2>6 DEF Archived
    <3> QED BY <2>2, <2>3, <2>6, <3>1, EnoughForRecoverable
  <2> QED BY <1>8, <2>4, <2>5, <2>6 DEF Restore
<1>9. CASE RemoveRestored
  <2>1. /\ op.from \in Dirs /\ archive[op.from].mod = Game(op.name) /\ op.name \in Names
        /\ seen \in Places /\ SetEntry(op.from, [archive[op.from] EXCEPT !.mod = None])
        /\ UNCHANGED <<mods, everIn, discarded>>
    BY <1>9 DEF RemoveRestored, TypeOK, Operation, Bookkeeping, Roles, Consumed, CopyComplete
  <2>2. Live' = Live
    BY <2>1 DEF Live
  <2>3. ASSUME NEW t \in Archived PROVE t \in Archived' \union Live
    <3>1. CASE t \in HeldBy(archive[op.from])
      <4>1. t \in Trees /\ mods[seen][op.name] = Whole(t)
        BY <2>1, <3>1 DEF HeldBy, WholeIn, Game
      <4> QED BY <2>1, <4>1, LiveMeans
    <3> QED BY <2>1, <3>1, SetEntryKeeps
  <2> QED BY <2>1, <2>2, <2>3, EnoughForRecoverable
<1>10. CASE DropEntry
  <2>1. /\ op.from \in Dirs /\ archive[op.from].mod = None /\ SetEntry(op.from, None)
        /\ UNCHANGED <<mods, everIn, discarded>>
    BY <1>10 DEF DropEntry, TypeOK, Operation, Bookkeeping, Roles, Consumed
  <2>2. HeldBy(archive[op.from]) = {}
    BY <2>1, WholeIsFolder DEF HeldBy, WholeIn
  <2>3. ASSUME NEW t \in Archived PROVE t \in Archived'
    BY <2>1, <2>2, SetEntryKeeps
  <2>4. Live' = Live
    BY <2>1 DEF Live
  <2> QED BY <2>1, <2>3, <2>4, EnoughForRecoverable
<1>11. CASE StopInTake
  <2>1. /\ dir \in Dirs /\ op.arch \in Names /\ archive[dir] \in Entry
        /\ UNCHANGED <<everIn, discarded>>
    BY <1>11 DEF StopInTake, Stopped, TypeOK, Operation, Bookkeeping, OpenEntry
  <2>2. CASE \E S \in SUBSET Files :
               /\ pc = "take"
               /\ SetEntry(dir, [archive[dir] EXCEPT !.mod = Copied(Game(op.arch), None, S)])
               /\ UNCHANGED mods
    <3>1. archive[dir].mod = None
      BY <2>2 DEF Bookkeeping, OpenEntry
    <3>2. HeldBy(archive[dir]) = {}
      BY <3>1, WholeIsFolder DEF HeldBy, WholeIn
    <3>3. ASSUME NEW t \in Archived PROVE t \in Archived'
      BY <2>1, <2>2, <3>2, SetEntryKeeps
    <3>4. Live' = Live
      BY <2>2 DEF Live
    <3> QED BY <2>1, <3>3, <3>4, EnoughForRecoverable
  <2>3. CASE \E S \in SUBSET Files :
               /\ pc = "takeRemove" /\ SetGame(op.arch, Remaining(Game(op.arch), S))
               /\ UNCHANGED archive
    <3>1. archive[dir] # None /\ archive[dir].mod = Game(op.arch)
      BY <2>3 DEF Bookkeeping, OpenEntry, CopyComplete
    <3>2. Archived' = Archived
      BY <2>3 DEF Archived
    <3>3. ASSUME NEW t \in Live PROVE t \in Live' \union Archived
      BY <2>1, <2>3, <3>1, SetGameKeeps, LiveMeans, ArchivedMeans
    <3> QED BY <2>1, <3>2, <3>3, EnoughForRecoverable
  <2> QED BY <1>11, <2>2, <2>3 DEF StopInTake
<1>12. CASE StopInRestore
  <2>1. /\ op.from \in Dirs /\ op.name \in Names /\ seen \in Places
        /\ UNCHANGED <<everIn, discarded>>
    BY <1>12 DEF StopInRestore, Stopped, TypeOK, Operation, Bookkeeping, Roles, Consumed
  <2>2. CASE \E S \in SUBSET Files :
               /\ pc = "restore"
               /\ SetGame(op.name, Copied(archive[op.from].mod, Game(op.name), S))
               /\ UNCHANGED archive
    <3>1. Game(op.name) = None
      BY <2>2 DEF Bookkeeping, Roles, Vacated, Game
    <3>2. ASSUME NEW t \in Live PROVE t \in Live'
      BY <2>1, <2>2, <3>1, SetGameKeeps, LiveMeans, WholeIsFolder
    <3>3. Archived' = Archived
      BY <2>2 DEF Archived
    <3> QED BY <2>1, <3>2, <3>3, EnoughForRecoverable
  <2>3. CASE \E S \in SUBSET Files :
               /\ pc = "restoreRemove"
               /\ SetEntry(op.from, [archive[op.from] EXCEPT !.mod = Remaining(archive[op.from].mod, S)])
               /\ UNCHANGED mods
    <3>1. archive[op.from].mod = mods[seen][op.name]
      BY <2>3 DEF Bookkeeping, CopyComplete, Game
    <3>2. Live' = Live
      BY <2>3 DEF Live
    <3>3. ASSUME NEW t \in Archived PROVE t \in Archived' \union Live
      <4>1. CASE t \in HeldBy(archive[op.from])
        <5>1. t \in Trees /\ mods[seen][op.name] = Whole(t)
          BY <3>1, <4>1 DEF HeldBy, WholeIn
        <5> QED BY <2>1, <5>1, LiveMeans
      <4> QED BY <2>1, <2>3, <4>1, SetEntryKeeps
    <3> QED BY <2>1, <3>2, <3>3, EnoughForRecoverable
  <2> QED BY <1>12, <2>2, <2>3 DEF StopInRestore
<1> QED
  <2>1. ASSUME NEW n \in Names, BeginDeploy(n) \/ BeginRollback(n) \/ BeginUndeploy(n)
        PROVE  UNCHANGED <<mods, archive, everIn, discarded>>
    BY <2>1 DEF BeginDeploy, BeginRollback, BeginUndeploy, Remember, world
  <2>2. ASSUME Stage \/ Enable \/ Retire \/ TruncateSettings \/ RewriteSettings \/ StopBetweenSteps
        PROVE  UNCHANGED <<mods, archive, everIn, discarded>>
    BY <2>2 DEF Stage, Enable, Retire, TruncateSettings, RewriteSettings, StopBetweenSteps,
                Stopped, Remember, world
  <2>3. ASSUME ModsToggle \/ Tick \/ GameOpensOrQuits \/ GameWritesSettings \/ UNCHANGED vars
        PROVE  UNCHANGED <<mods, archive, everIn, discarded>>
    BY <2>3 DEF ModsToggle, Tick, GameOpensOrQuits, GameWritesSettings, world, history, vars
  <2> QED BY <1>1, <1>2, <1>3, <1>4, <1>5, <1>6, <1>7, <1>8, <1>9, <1>10, <1>11, <1>12,
             <2>1, <2>2, <2>3 DEF Next

(* However many deploys, rollbacks and undeploys are interrupted at any    *)
(* step, across file systems or not, a build that was once installed whole *)
(* is still whole in the game or in the archive, unless retention deleted  *)
(* it.                                                                     *)
THEOREM NothingLost == Spec => []Recoverable
<1>1. Init => Recoverable
  BY DEF Init, Recoverable
<1>2. TypeOK /\ Bookkeeping /\ Recoverable /\ [Next]_vars => Recoverable'
  BY StepRecoverable
<1> QED
  BY <1>1, <1>2, Bookkept, PTL DEF Spec

(* An entry is immutable once its archive.json is in place: until retention *)
(* or a rollback to it removes it, no operation writes into it again.       *)
THEOREM EntriesStaySealed == Spec => SealedEntries
<1>1. ASSUME TypeOK, Bookkeeping, Next, archive' # archive,
             NEW d \in Entries, archive[d].meta, archive'[d] # archive[d]
      PROVE  pc = "prune" \/ (op.kind = "rollback" /\ d = op.from)
  <2>1. d \in Dirs /\ archive[d] # None
    BY <1>1 DEF Entries
  <2>2. ASSUME NEW c \in Dirs, NEW e, SetEntry(c, e) PROVE c = d
    BY <1>1, <2>1, <2>2 DEF SetEntry, TypeOK
  <2>3. ASSUME pc \in {"take", "keep", "meta"}, NEW e, SetEntry(dir, e) PROVE FALSE
    <3>1. dir \in Dirs /\ ~archive[dir].meta
      BY <1>1, <2>3 DEF TypeOK, Bookkeeping, OpenEntry
    <3> QED BY <1>1, <2>2, <2>3, <3>1
  <2>4. ASSUME op.kind = "rollback", NEW e, SetEntry(op.from, e) PROVE d = op.from
    BY <1>1, <2>2, <2>4 DEF TypeOK, Operation, Bookkeeping, Consumed
  <2>5. CASE MakeEntry
    BY <1>1, <2>1, <2>2, <2>5 DEF MakeEntry, FreeDirs
  <2>6. CASE TakeMod \/ KeepSettings \/ WriteMeta \/ StopInTake \/ StopInKeep
    BY <1>1, <2>3, <2>6 DEF TakeMod, KeepSettings, WriteMeta, StopInTake, StopInKeep
  <2>7. CASE Restore \/ RemoveRestored \/ DropEntry \/ StopInRestore
    BY <1>1, <2>4, <2>7 DEF Restore, RemoveRestored, DropEntry, StopInRestore, Bookkeeping, Roles
  <2>8. CASE Prune \/ StopInRemoval
    BY <1>1, <2>4, <2>8 DEF Prune, StopInRemoval, Bookkeeping, Roles
  <2>9. ASSUME NEW n \in Names PROVE ~(BeginDeploy(n) \/ BeginRollback(n) \/ BeginUndeploy(n))
    BY <1>1 DEF BeginDeploy, BeginRollback, BeginUndeploy, world
  <2>10. ~(Stage \/ RemoveTaken \/ Install \/ Enable \/ Retire \/ TruncateSettings
           \/ RewriteSettings \/ StopBetweenSteps)
    BY <1>1 DEF Stage, RemoveTaken, Install, Enable, Retire, TruncateSettings, RewriteSettings,
                StopBetweenSteps, world
  <2>11. ~(ModsToggle \/ Tick \/ GameOpensOrQuits \/ GameWritesSettings)
    BY <1>1 DEF ModsToggle, Tick, GameOpensOrQuits, GameWritesSettings, world
  <2> QED BY <1>1, <2>5, <2>6, <2>7, <2>8, <2>9, <2>10, <2>11 DEF Next
<1>2. TypeOK /\ Bookkeeping /\ [Next]_vars =>
        [archive' # archive =>
           \A d \in Entries : archive[d].meta /\ archive'[d] # archive[d] =>
             pc = "prune" \/ (op.kind = "rollback" /\ d = op.from)]_vars
  BY <1>1
<1> QED
  BY <1>2, Bookkept, PTL DEF Spec, SealedEntries

(* A deploy that replaced the symlink at GAMEDATA/MODS writes nothing       *)
(* behind it, not even on an error path.                                    *)
THEOREM LinkTargetSpared == Spec => DeploySparesLinkTarget
<1>1. ASSUME TypeOK, Bookkeeping, Next, op.kind = "deploy", ~Idle
      PROVE  mods'["target"] = mods["target"]
  <2>1. seen = "real"
    BY <1>1 DEF Bookkeeping, Roles
  <2>2. ASSUME NEW n, NEW folder, SetGame(n, folder) PROVE mods'["target"] = mods["target"]
    BY <1>1, <2>1, <2>2 DEF SetGame, TypeOK, Places
  <2>3. mods' = mods \/ \E n, folder : SetGame(n, folder)
    BY <1>1 DEF Next, BeginDeploy, BeginRollback, BeginUndeploy, Begin, MayChangeMods, Stage, MakeEntry,
       TakeMod, RemoveTaken, KeepSettings, WriteMeta, Install, Enable, Retire, Prune, Restore,
       RemoveRestored, TruncateSettings, RewriteSettings, DropEntry, StopBetweenSteps, StopInTake,
       StopInRestore, StopInKeep, StopInRemoval, ModsToggle, Tick, GameOpensOrQuits,
       GameWritesSettings, world
  <2> QED BY <2>2, <2>3
<1>2. TypeOK /\ Bookkeeping /\ [Next]_vars =>
        [op.kind = "deploy" /\ ~Idle => mods'["target"] = mods["target"]]_vars
  BY <1>1
<1> QED
  BY <1>2, Bookkept, PTL DEF Spec, DeploySparesLinkTarget

(***************************************************************************)
(* The listing of the archive.                                             *)
(***************************************************************************)

(* The stamp the listing shows for an entry is its time: archive.json says *)
(* so, or the directory name can be read.                                  *)
Dated(e) == archive[e].meta \/ (e.n # 2 /\ e.t \notin Evening)

(* What the listing compares are numbers.                                  *)
LEMMA StampNumbers ==
  ASSUME TypeOK, NEW e \in Entries
  PROVE  /\ e \in Dirs /\ archive[e] \in Entry
         /\ e.name \in Names /\ e.t \in Nat /\ e.n \in Nat
         /\ Stamp(e)[1] \in Nat /\ Stamp(e)[2] \in Nat /\ Stamp(e)[3] \in Nat
         /\ NameRank[e.name] \in Nat
<1>1. e \in Dirs /\ archive[e] \in Entry
  BY DEF Entries, TypeOK
<1>2. e.name \in Names /\ e.t \in Nat /\ e.n \in Nat
  BY <1>1, ConstAssumption DEF Dirs, Clock
<1>3. Stamp(e)[1] \in Nat /\ Stamp(e)[2] \in Nat /\ Stamp(e)[3] \in Nat
  BY <1>2 DEF Stamp, NameStamp
<1>4. NameRank[e.name] \in Nat
  BY <1>2, ConstAssumption
<1> QED BY <1>1, <1>2, <1>3, <1>4

(* No entry comes before itself.                                           *)
LEMMA ListedIrreflexive ==
  ASSUME TypeOK, NEW e \in Entries
  PROVE  ~ListedBefore(e, e)
  BY StampNumbers DEF ListedBefore, LaterStamp

(* Equal stamps are equal number by number.                                *)
LEMMA StampParts ==
  ASSUME TypeOK, NEW d \in Entries, NEW e \in Entries
  PROVE  Stamp(d) = Stamp(e) <=> /\ Stamp(d)[1] = Stamp(e)[1]
                                 /\ Stamp(d)[2] = Stamp(e)[2]
                                 /\ Stamp(d)[3] = Stamp(e)[3]
  BY DEF Stamp, NameStamp

(* The listing is an order, guessed dates and all.                         *)
LEMMA ListedTransitive ==
  ASSUME TypeOK, NEW c \in Entries, NEW d \in Entries, NEW e \in Entries,
         ListedBefore(c, d), ListedBefore(d, e)
  PROVE  ListedBefore(c, e)
  BY StampNumbers, StampParts DEF ListedBefore, LaterStamp

(* The later of two dated entries is listed first.                         *)
LEMMA LaterListedFirst ==
  ASSUME TypeOK, NEW d \in Entries, NEW e \in Entries, Dated(d), Dated(e), d.t > e.t
  PROVE  ListedBefore(d, e)
<1>1. Stamp(d) = <<1, d.t, d.n>> /\ Stamp(e) = <<1, e.t, e.n>>
  BY DEF Dated, Stamp, NameStamp
<1> QED BY <1>1, StampNumbers DEF ListedBefore, LaterStamp

(* Only entries no older than a sealed one are listed before it, and those *)
(* that were interrupted in the evening.                                   *)
LEMMA ListedBeforeSealed ==
  ASSUME TypeOK, NEW d \in Entries, NEW e \in Entries, archive[d].meta, ListedBefore(e, d)
  PROVE  e.t >= d.t \/ (~archive[e].meta /\ e.t \in Evening)
<1>1. Stamp(d) = <<1, d.t, d.n>>
  BY DEF Stamp
<1>2. CASE archive[e].meta \/ (e.n # 2 /\ e.t \notin Evening)
  <2>1. Stamp(e) = <<1, e.t, e.n>>
    BY <1>2 DEF Stamp, NameStamp
  <2> QED BY <1>1, <2>1, StampNumbers DEF ListedBefore, LaterStamp
<1>3. CASE ~archive[e].meta /\ e.n = 2
  <2>1. Stamp(e) = <<0, 0, 2>>
    BY <1>3 DEF Stamp, NameStamp
  <2> QED BY <1>1, <2>1, StampNumbers DEF ListedBefore, LaterStamp
<1> QED BY <1>2, <1>3

(***************************************************************************)
(* There are never more entries than operations made, so their number is a *)
(* number.                                                                 *)
(***************************************************************************)

(* No step of any operation touches two entries.                           *)
LEMMA OneEntryAStep ==
  ASSUME Next
  PROVE  archive' = archive \/ \E d, e : SetEntry(d, e)
  BY DEF Next, BeginDeploy, BeginRollback, BeginUndeploy, Begin, MayChangeMods, Stage, MakeEntry,
     TakeMod, RemoveTaken, KeepSettings, WriteMeta, Install, Enable, Retire, Prune, Restore,
     RemoveRestored, TruncateSettings, RewriteSettings, DropEntry, StopBetweenSteps, StopInTake,
     StopInRestore, StopInKeep, StopInRemoval, ModsToggle, Tick, GameOpensOrQuits,
     GameWritesSettings, world, history

(* The archive starts with one entry at most and gains one at a time.      *)
LEMMA EntriesFinite == Spec => []IsFiniteSet(Entries)
<1>1. ASSUME Init PROVE IsFiniteSet(Entries)
  <2>1. \E old : Entries \subseteq {old}
    <3>1. CASE archive = [d \in Dirs |-> None]
      BY <3>1 DEF Entries
    <3>2. ASSUME NEW old \in Dirs, NEW t \in Trees,
                 archive = [d \in Dirs |-> IF d = old THEN OldEntry(t) ELSE None]
          PROVE  Entries \subseteq {old}
      BY <3>2 DEF Entries
    <3> QED BY <1>1, <3>1, <3>2 DEF Init
  <2> QED BY <2>1, FS_Singleton, FS_Subset
<1>2. ASSUME TypeOK, IsFiniteSet(Entries), [Next]_vars PROVE IsFiniteSet(Entries')
  <2>1. CASE archive' = archive
    BY <1>2, <2>1 DEF Entries
  <2>2. ASSUME NEW d, NEW e, SetEntry(d, e) PROVE IsFiniteSet(Entries')
    <3>1. Entries' \subseteq Entries \union {d}
      BY <1>2, <2>2 DEF Entries, SetEntry, TypeOK
    <3>2. IsFiniteSet(Entries \union {d})
      BY <1>2, FS_AddElement
    <3> QED BY <3>1, <3>2, FS_Subset
  <2> QED BY <1>2, <2>1, <2>2, OneEntryAStep DEF vars
<1>3. TypeOK /\ IsFiniteSet(Entries) /\ [Next]_vars => IsFiniteSet(Entries)'
  BY <1>2
<1> QED BY <1>1, <1>3, Bookkept, PTL DEF Spec

(* The entries listed above e.                                            *)
Above(e) == {c \in Entries : ListedBefore(c, e)}

(* The further down the listing, the more entries are above.               *)
LEMMA FurtherDown ==
  ASSUME TypeOK, IsFiniteSet(Entries), NEW d \in Entries, NEW e \in Entries, ListedBefore(d, e)
  PROVE  Cardinality(Above(d)) < Cardinality(Above(e))
<1>1. IsFiniteSet(Above(d)) /\ IsFiniteSet(Above(e))
  BY FS_Subset DEF Above
<1>2. Above(d) \subseteq Above(e)
  BY ListedTransitive DEF Above
<1>3. d \in Above(e) /\ d \notin Above(d)
  BY ListedIrreflexive DEF Above
<1>4. Cardinality(Above(d)) \in Nat /\ Cardinality(Above(e)) \in Nat
  BY <1>1, FS_CardinalityType
<1>5. Cardinality(Above(d)) <= Cardinality(Above(e))
  BY <1>1, <1>2, FS_Subset
<1>6. Cardinality(Above(d)) # Cardinality(Above(e))
  BY <1>1, <1>2, <1>3, FS_Subset
<1> QED BY <1>4, <1>5, <1>6

(* The dates of the listing can be trusted: only the entry being written   *)
(* may lack its archive.json where the name cannot be read.                *)
Legible == \A e \in Entries : e = dir \/ Dated(e)


(***************************************************************************)
(* The entry that undoes an operation, from the directory it starts as to  *)
(* the end of the operation.                                               *)
(***************************************************************************)
InEntry == {"take", "takeRemove", "keep", "meta"}
AfterEntry == {"install", "enable", "retire", "restore", "restoreRemove", "truncate", "rewrite",
               "drop"}

(* No entry is younger than d but the one the legacy folder moves to.      *)
NoneYounger(d) == \A e \in Entries : e.t <= d.t \/ (op.retiring /\ pc # "mkdir" /\ e = dir)

(* Entry d undoes the operation, and no step of it will write into d.      *)
Undoes(d) ==
  /\ d.name = op.name /\ d # op.from /\ archive[d] = Undo /\ NoneYounger(d)
  /\ op.retiring /\ pc \in InEntry => d # dir

(* Until its entry is made the world is as the operation found it; the     *)
(* entry takes over the mod folder and then the settings; from then on it  *)
(* is there. The clock does not run backwards, and archive.json is written *)
(* before anything else happens. Only the legacy folder is retired.        *)
Timely == \A e \in Entries : e.t <= clock
AsFound ==
  ~raced /\ ~op.retiring =>
    /\ pc \in {"mkdir", "take", "takeRemove", "keep"} => settings = before.settings
    /\ pc \in {"mkdir", "take"} => Game(op.name) = before.mod
Filled ==
  ~raced /\ ~op.retiring /\ pc \in InEntry =>
    /\ dir.name = op.name /\ archive[dir].bare = None /\ NoneYounger(dir)
    /\ pc # "take" => archive[dir].mod = before.mod
    /\ pc = "meta" => archive[dir].settings = before.settings
Held ==
  ~raced /\ (op.retiring \/ pc \in AfterEntry) /\ pc # "prune" => \E d \in Dirs : Undoes(d)
DirSealed ==
  pc \in {"install", "enable", "retire", "prune"} =>
    dir \in Dirs /\ (archive[dir] # None => archive[dir].meta)
Retiring == op.retiring => pc \in InEntry \union {"mkdir", "prune"}
Undoable == Timely /\ AsFound /\ Filled /\ Held /\ DirSealed /\ Retiring

(* The undo entry is an entry.                                             *)
LEMMA UndoType ==
  ASSUME TypeOK
  PROVE  Undo \in Entry /\ Undo # None
<1>1. Undo \in Entry
  BY DEF Undo, TypeOK, Entry
<1> QED BY <1>1, NoneAssumption

(* Writing into an entry neither makes nor removes one.                    *)
LEMMA SameEntries ==
  ASSUME TypeOK, NEW d \in Dirs, archive[d] # None, NEW e, e # None, SetEntry(d, e)
  PROVE  Entries' = Entries
  BY DEF Entries, SetEntry, TypeOK

(* Undo does not change while an operation that began goes on.             *)
LEMMA UndoSame ==
  ASSUME before' = before
  PROVE  Undo' = Undo
  BY DEF Undo

(* The entry stays what it is through a step that leaves it alone.         *)
LEMMA StillUndoes ==
  ASSUME NEW d \in Dirs, Undoes(d), archive'[d] = archive[d], before' = before,
         Entries' \subseteq Entries, op' = op, dir' = dir,
         pc # "mkdir", pc' # "mkdir", pc' \in InEntry => pc \in InEntry
  PROVE  Undoes(d)'
<1>1. NoneYounger(d)'
  BY DEF Undoes, NoneYounger
<1>2. archive'[d] = Undo'
  BY UndoSame DEF Undoes
<1> QED BY <1>1, <1>2 DEF Undoes

(* Before the first operation there is nothing to undo.                    *)
LEMMA InitUndoable == Init => Undoable
<1> SUFFICES ASSUME Init PROVE Undoable
  OBVIOUS
<1>1. pc = "ended" /\ op.retiring = FALSE /\ clock = 1
  BY DEF Init, NoOperation
<1>2. Timely
  <2>1. CASE archive = [d \in Dirs |-> None]
    BY <2>1 DEF Timely, Entries
  <2>2. ASSUME NEW old \in Dirs, old.t = 1, NEW t \in Trees,
               archive = [d \in Dirs |-> IF d = old THEN OldEntry(t) ELSE None]
        PROVE  Timely
    BY <1>1, <2>2 DEF Timely, Entries
  <2> QED BY <2>1, <2>2 DEF Init
<1> QED BY <1>1, <1>2 DEF Undoable, AsFound, Filled, Held, DirSealed, Retiring, InEntry, AfterEntry

(* Between operations there is nothing to keep but the dates.              *)
LEMMA IdleUndoable ==
  ASSUME Timely', Idle', op'.retiring = FALSE
  PROVE  Undoable'
  BY DEF Undoable, AsFound, Filled, Held, DirSealed, Retiring, InEntry, AfterEntry, Idle

(* Only making an entry adds one to the listing.                           *)
LEMMA EntriesStep ==
  ASSUME TypeOK, Bookkeeping, [Next]_vars
  PROVE  MakeEntry \/ Entries' \subseteq Entries
<1>1. ASSUME NEW d, archive[d] # None, NEW e, SetEntry(d, e) PROVE Entries' \subseteq Entries
  BY <1>1 DEF Entries, SetEntry, TypeOK
<1>2. CASE archive' = archive
  BY <1>2 DEF Entries
<1>3. CASE TakeMod \/ KeepSettings \/ WriteMeta \/ StopInTake \/ StopInKeep
  <2>1. archive[dir] # None
    BY <1>3 DEF TakeMod, KeepSettings, WriteMeta, StopInTake, StopInKeep, Bookkeeping, OpenEntry, CopyComplete
  <2>2. archive' = archive \/ \E e : SetEntry(dir, e)
    BY <1>3 DEF TakeMod, KeepSettings, WriteMeta, StopInTake, StopInKeep
  <2> QED BY <1>1, <1>2, <2>1, <2>2
<1>4. CASE Restore \/ RemoveRestored \/ DropEntry \/ StopInRestore
  <2>1. archive[op.from] # None
    BY <1>4 DEF Restore, RemoveRestored, DropEntry, StopInRestore, Bookkeeping, Roles, Consumed
  <2>2. archive' = archive \/ \E e : SetEntry(op.from, e)
    BY <1>4 DEF Restore, RemoveRestored, DropEntry, StopInRestore
  <2> QED BY <1>1, <1>2, <2>1, <2>2
<1>5. CASE Prune \/ StopInRemoval
  <2>1. archive' = archive \/ \E d \in Dirs : archive[d] # None /\ \E e : SetEntry(d, e)
    BY <1>5 DEF Prune, StopInRemoval, Doomed, Entries, Bookkeeping, Roles, Consumed
  <2> QED BY <1>1, <1>2, <2>1
<1>6. ASSUME NEW n \in Names, BeginDeploy(n) \/ BeginRollback(n) \/ BeginUndeploy(n)
      PROVE  archive' = archive
  BY <1>6 DEF BeginDeploy, BeginRollback, BeginUndeploy, world
<1>7. CASE \/ Stage \/ RemoveTaken \/ Install \/ Enable \/ Retire \/ TruncateSettings
           \/ RewriteSettings \/ StopBetweenSteps
  BY <1>2, <1>7 DEF Stage, RemoveTaken, Install, Enable, Retire, TruncateSettings, RewriteSettings,
     StopBetweenSteps, world
<1>8. CASE ModsToggle \/ Tick \/ GameOpensOrQuits \/ GameWritesSettings \/ UNCHANGED vars
  BY <1>2, <1>8 DEF ModsToggle, Tick, GameOpensOrQuits, GameWritesSettings, world, vars
<1> QED BY <1>2, <1>3, <1>4, <1>5, <1>6, <1>7, <1>8 DEF Next

(* No entry is dated in the future.                                        *)
LEMMA StepTimely ==
  ASSUME TypeOK, Bookkeeping, Timely, [Next]_vars
  PROVE  Timely'
<1>1. clock \in Nat /\ \A e \in Entries : e.t \in Nat
  BY StampNumbers DEF TypeOK, Clock
<1>2. clock' = clock \/ clock' = clock + 1
  BY DEF Next, BeginDeploy, BeginRollback, BeginUndeploy, Begin, MayChangeMods, Stage, MakeEntry,
     TakeMod, RemoveTaken, KeepSettings, WriteMeta, Install, Enable, Retire, Prune, Restore,
     RemoveRestored, TruncateSettings, RewriteSettings, DropEntry, StopBetweenSteps, StopInTake,
     StopInRestore, StopInKeep, StopInRemoval, Stopped, ModsToggle, Tick, GameOpensOrQuits,
     GameWritesSettings, vars
<1>3. CASE MakeEntry
  <2>1. PICK d \in Dirs : d.t = clock /\ SetEntry(d, EmptyEntry)
    BY <1>3 DEF MakeEntry, FreeDirs
  <2>2. Entries' \subseteq Entries \union {d}
    BY <2>1 DEF Entries, SetEntry, TypeOK
  <2>3. clock' = clock
    BY <1>3 DEF MakeEntry
  <2> QED BY <1>1, <2>1, <2>2, <2>3 DEF Timely
<1>4. CASE Entries' \subseteq Entries
  BY <1>1, <1>2, <1>4 DEF Timely
<1> QED BY <1>3, <1>4, EntriesStep

(* What retention takes is the first entry past the ones it keeps.         *)
LEMMA DeletedByRetention ==
  ASSUME TypeOK, Bookkeeping, Next, pc = "prune", NEW d \in Entries, archive'[d] = None
  PROVE  d \in Doomed
<1>1. d \in Dirs /\ archive[d] # None
  BY DEF Entries
<1>2. archive' # archive
  BY <1>1
<1>3. CASE Prune
  BY <1>1, <1>2, <1>3 DEF Prune, SetEntry, TypeOK
<1>4. CASE StopInRemoval
  <2>1. PICK c \in Dirs : \E e \in Remains(archive[c]) : SetEntry(c, e)
    BY <1>4 DEF StopInRemoval
  <2>2. PICK e \in Remains(archive[c]) : SetEntry(c, e)
    BY <2>1
  <2>3. c = d /\ e = None
    BY <1>1, <2>1, <2>2 DEF SetEntry, TypeOK
  <2>4. archive[d] \in Entry
    BY <1>1 DEF TypeOK
  <2>5. Pieces(archive[d].mod) \subseteq Folder \union {None}
        /\ Pieces(archive[d].bare) \subseteq Folder \union {None}
    BY <2>4, FolderTypes DEF Pieces, Entry
  <2>6. e \in Entry
    BY <2>2, <2>3, <2>4, <2>5 DEF Remains, Entry, Settings
  <2> QED BY <2>3, <2>6, NoneAssumption
<1>5. ASSUME NEW n \in Names PROVE ~(BeginDeploy(n) \/ BeginRollback(n) \/ BeginUndeploy(n))
  BY <1>2 DEF BeginDeploy, BeginRollback, BeginUndeploy, world
<1>6. ~(\/ Stage \/ RemoveTaken \/ Install \/ Enable \/ Retire \/ TruncateSettings
        \/ RewriteSettings \/ StopBetweenSteps \/ MakeEntry \/ TakeMod \/ KeepSettings
        \/ WriteMeta \/ Restore \/ RemoveRestored \/ DropEntry \/ StopInTake \/ StopInRestore
        \/ StopInKeep)
  BY <1>2 DEF Stage, RemoveTaken, Install, Enable, Retire, TruncateSettings, RewriteSettings,
     StopBetweenSteps, world, MakeEntry, TakeMod, KeepSettings, WriteMeta, Restore, RemoveRestored,
     DropEntry, StopInTake, StopInRestore, StopInKeep
<1>7. ~(ModsToggle \/ Tick \/ GameOpensOrQuits \/ GameWritesSettings)
  BY <1>2 DEF ModsToggle, Tick, GameOpensOrQuits, GameWritesSettings, world
<1> QED BY <1>3, <1>4, <1>5, <1>6, <1>7 DEF Next

(* Every step of every operation, of its crash and of the game.            *)
LEMMA StepUndoable ==
  ASSUME TypeOK, Bookkeeping, Undoable, [Next]_vars
  PROVE  Undoable'
<1> USE DEF Goto
<1>0. Timely'
  BY StepTimely DEF Undoable
<1>1. ASSUME NEW n \in Names, BeginDeploy(n) PROVE Undoable'
  <2>1. op' = [NoOperation EXCEPT !.kind = "deploy", !.name = n, !.arch = n] /\ pc' = "stage"
    BY <1>1 DEF BeginDeploy, Begin
  <2>2. op'.retiring = FALSE
    BY <2>1 DEF NoOperation
  <2> QED BY <1>0, <2>1, <2>2 DEF Undoable, AsFound, Filled, Held, DirSealed, Retiring, InEntry, AfterEntry
<1>2. ASSUME NEW n \in Names, pc' = "mkdir", op'.retiring = FALSE, op'.name = n,
             Remember(n), UNCHANGED <<mods, seen, settings>>
      PROVE  Undoable'
  <2>1. settings' = before'.settings /\ Game(op.name)' = before'.mod
    BY <1>2 DEF Remember, Game
  <2> QED BY <1>0, <1>2, <2>1 DEF Undoable, AsFound, Filled, Held, DirSealed, Retiring, InEntry, AfterEntry
<1>3. ASSUME NEW n \in Names, BeginRollback(n) \/ BeginUndeploy(n) PROVE Undoable'
  <2>1. CASE BeginRollback(n)
    <3>1. op'.retiring = FALSE /\ op'.name = n
      BY <2>1 DEF BeginRollback, NoOperation
    <3> QED BY <1>2, <2>1, <3>1 DEF BeginRollback, world
  <2>2. CASE BeginUndeploy(n)
    <3>1. op'.retiring = FALSE /\ op'.name = Undeployed(n)
      BY <2>2 DEF BeginUndeploy, Begin, NoOperation
    <3>2. Undeployed(n) \in Names
      BY ConstAssumption DEF Undeployed
    <3> QED BY <1>2, <2>2, <3>1, <3>2 DEF BeginUndeploy, Begin, world
  <2> QED BY <1>3, <2>1, <2>2
<1>4. CASE Stage
  <2>1. op.retiring = FALSE /\ op.name \in Names
    BY <1>4 DEF Stage, TypeOK, Operation, Undoable, Retiring, InEntry
  <2> QED BY <1>2, <1>4, <2>1 DEF Stage, world
<1>5. CASE MakeEntry
  <2>1. PICK d \in Dirs : /\ d.name = op.arch /\ d.t = clock /\ archive[d] = None
                         /\ dir' = d /\ SetEntry(d, EmptyEntry)
    BY <1>5 DEF MakeEntry, FreeDirs
  <2>2. /\ pc = "mkdir" /\ pc' = "take" /\ UNCHANGED <<settings, mods, seen, op, before, raced>>
        /\ archive'[d] = EmptyEntry /\ \A c \in Dirs : c # d => archive'[c] = archive[c]
    BY <1>5, <2>1 DEF MakeEntry, SetEntry, TypeOK
  <2>3. Entries' \subseteq Entries \union {d}
    BY <2>1, <2>2 DEF Entries
  <2>4. \A e \in Entries' : e.t \in Nat /\ e.t <= clock
    <3>1. \A e \in Entries : e.t \in Nat
      BY StampNumbers
    <3> QED BY <2>1, <2>3, <3>1 DEF Undoable, Timely, TypeOK, Clock
  <2>5. AsFound' /\ DirSealed' /\ Retiring'
    BY <2>2 DEF Undoable, AsFound, DirSealed, Retiring, InEntry, Game
  <2>6. Filled'
    <3>1. NoneYounger(dir)'
      BY <2>1, <2>4 DEF NoneYounger
    <3>2. ~op.retiring => d.name = op.name
      BY <2>1 DEF Bookkeeping, Roles
    <3> QED BY <2>1, <2>2, <3>1, <3>2 DEF Filled, EmptyEntry
  <2>7. Held'
    <3>1. SUFFICES ASSUME ~raced, op.retiring PROVE \E c \in Dirs : Undoes(c)'
      BY <2>2 DEF Held, AfterEntry
    <3>2. PICK c \in Dirs : Undoes(c)
      BY <2>2, <3>1 DEF Undoable, Held
    <3>3. c # d /\ archive'[c] = archive[c]
      BY <2>1, <2>2, <3>2, UndoType DEF Undoes
    <3>4. NoneYounger(c)'
      <4>1. \A e \in Entries : e.t <= c.t
        BY <2>2, <3>2 DEF Undoes, NoneYounger
      <4> QED BY <2>1, <2>2, <2>3, <3>1, <4>1 DEF NoneYounger
    <3>5. Undo' = Undo
      BY <2>2, UndoSame
    <3> QED BY <2>1, <2>2, <3>2, <3>3, <3>4, <3>5 DEF Undoes
  <2> QED BY <1>0, <2>5, <2>6, <2>7 DEF Undoable
<1> DEFINE Entering == /\ op' = op /\ dir' = dir /\ before' = before /\ raced' = raced
                       /\ clock' = clock /\ settings' = settings /\ seen' = seen
(* Steps of the entry being written leave the entry of the deploy alone.   *)
<1>6. ASSUME pc \in InEntry, pc' \in InEntry \union {"prune"}, Entering,
             \A c \in Dirs : c # dir => archive'[c] = archive[c]
      PROVE  Held'
  <2>1. SUFFICES ASSUME ~raced, op.retiring, pc' # "prune" PROVE \E c \in Dirs : Undoes(c)'
    BY <1>6 DEF Held, InEntry, AfterEntry
  <2>2. PICK c \in Dirs : Undoes(c)
    BY <1>6, <2>1 DEF Undoable, Held, InEntry
  <2>3. c # dir
    BY <1>6, <2>1, <2>2 DEF Undoes
  <2>4. Entries' \subseteq Entries
    BY <1>6, EntriesStep DEF MakeEntry, InEntry
  <2> QED BY <1>6, <2>1, <2>2, <2>3, <2>4, StillUndoes DEF InEntry
(* and the entry of this operation the youngest.                           *)
<1>7. ASSUME pc \in InEntry, pc' \in InEntry, Entering, ~op.retiring, NoneYounger(dir)
      PROVE  NoneYounger(dir)'
  <2>1. Entries' \subseteq Entries
    BY <1>7, EntriesStep DEF MakeEntry, InEntry
  <2> QED BY <1>7, <2>1 DEF NoneYounger
<1>8. CASE TakeMod
  <2>1. /\ pc = "take" /\ pc' \in {"keep", "takeRemove"} /\ Entering
        /\ dir \in Dirs /\ archive[dir] \in Entry /\ archive[dir].mod = None
        /\ op.arch \in Names /\ Game(op.arch) \in Folder \union {None}
    BY <1>8, GameType DEF TakeMod, TypeOK, Operation, Bookkeeping, OpenEntry
  <2>2. /\ \A c \in Dirs : c # dir => archive'[c] = archive[c]
        /\ archive'[dir].bare = archive[dir].bare /\ archive'[dir].mod = Game(op.arch)
    <3>1. CASE archive' = archive /\ Game(op.arch) = None
      BY <2>1, <3>1
    <3>2. CASE SetEntry(dir, [archive[dir] EXCEPT !.mod = Game(op.arch)])
      BY <2>1, <3>2 DEF SetEntry, TypeOK, Entry
    <3> QED BY <1>8, <2>1, <3>1, <3>2, CompleteCopy DEF TakeMod
  <2>3. Held'
    BY <1>6, <2>1, <2>2 DEF InEntry
  <2>4. AsFound' /\ DirSealed' /\ Retiring'
    BY <2>1 DEF Undoable, AsFound, DirSealed, Retiring, InEntry
  <2>5. Filled'
    <3>1. ~op.retiring => op.arch = op.name
      BY DEF Bookkeeping, Roles
    <3> QED BY <1>7, <2>1, <2>2, <3>1 DEF Undoable, AsFound, Filled, InEntry
  <2> QED BY <1>0, <2>3, <2>4, <2>5 DEF Undoable
<1>9. CASE RemoveTaken
  <2>1. pc = "takeRemove" /\ pc' = "keep" /\ Entering /\ archive' = archive
    BY <1>9 DEF RemoveTaken
  <2>2. Held' /\ (~op.retiring /\ NoneYounger(dir) => NoneYounger(dir)')
    BY <1>6, <1>7, <2>1 DEF InEntry
  <2>3. AsFound' /\ DirSealed' /\ Retiring' /\ Filled'
    BY <2>1, <2>2 DEF Undoable, AsFound, DirSealed, Retiring, Filled, InEntry
  <2> QED BY <1>0, <2>2, <2>3 DEF Undoable
<1>10. CASE KeepSettings
  <2>1. /\ pc = "keep" /\ pc' = "meta" /\ Entering
        /\ dir \in Dirs /\ archive[dir] \in Entry
    BY <1>10 DEF KeepSettings, TypeOK, Bookkeeping, OpenEntry
  <2>2. /\ \A c \in Dirs : c # dir => archive'[c] = archive[c]
        /\ ~op.retiring => /\ archive'[dir].bare = archive[dir].bare
                           /\ archive'[dir].mod = archive[dir].mod
                           /\ archive'[dir].settings = settings
    BY <1>10, <2>1 DEF KeepSettings, SetEntry, TypeOK, Entry
  <2>3. Held' /\ (~op.retiring /\ NoneYounger(dir) => NoneYounger(dir)')
    BY <1>6, <1>7, <2>1, <2>2 DEF InEntry
  <2>4. AsFound' /\ DirSealed' /\ Retiring'
    BY <2>1 DEF Undoable, AsFound, DirSealed, Retiring, InEntry
  <2>5. Filled'
    BY <2>1, <2>2, <2>3 DEF Undoable, AsFound, Filled, InEntry
  <2> QED BY <1>0, <2>3, <2>4, <2>5 DEF Undoable
<1>11. CASE WriteMeta
  <2>1. /\ pc = "meta" /\ pc' \in {"install", "restore", "prune"} /\ Entering
        /\ dir \in Dirs /\ archive[dir] \in Entry /\ dir # op.from
        /\ op.retiring => pc' = "prune"
    BY <1>11 DEF WriteMeta, TypeOK, Bookkeeping, OpenEntry, Roles
  <2>2. /\ archive'[dir] = [archive[dir] EXCEPT !.meta = TRUE]
        /\ \A c \in Dirs : c # dir => archive'[c] = archive[c]
    BY <1>11, <2>1 DEF WriteMeta, SetEntry, TypeOK
  <2>3. AsFound' /\ DirSealed' /\ Retiring' /\ Filled'
    <3>1. archive'[dir].meta
      BY <2>1, <2>2 DEF Entry
    <3> QED BY <2>1, <3>1 DEF Undoable, AsFound, DirSealed, Retiring, Filled, InEntry
  <2>4. Held'
    <3>1. SUFFICES ASSUME ~raced, ~op.retiring, pc' # "prune" PROVE Undoes(dir)'
      BY <2>1 DEF Held, InEntry, AfterEntry
    <3>2. /\ dir.name = op.name /\ archive[dir].bare = None /\ NoneYounger(dir)
          /\ archive[dir].mod = before.mod /\ archive[dir].settings = before.settings
      BY <2>1, <3>1 DEF Undoable, Filled, InEntry
    <3>3. archive'[dir] = Undo
      <4>1. /\ archive'[dir] \in Entry /\ archive'[dir].meta = TRUE
            /\ archive'[dir].mod = before.mod /\ archive'[dir].bare = None
            /\ archive'[dir].settings = before.settings
        BY <2>1, <2>2, <3>2 DEF Entry
      <4> QED BY <4>1 DEF Entry, Undo
    <3>4. Undo' = Undo
      BY <2>1, UndoSame
    <3>5. Entries' \subseteq Entries
      BY <1>11, <2>1, EntriesStep DEF MakeEntry
    <3>6. NoneYounger(dir)'
      BY <2>1, <3>1, <3>2, <3>5 DEF NoneYounger
    <3> QED BY <2>1, <3>1, <3>2, <3>3, <3>4, <3>6 DEF Undoes
  <2> QED BY <1>0, <2>3, <2>4 DEF Undoable
(* From then on no step but retention writes into it.                      *)
<1>12. ASSUME pc \in AfterEntry, pc' \in AfterEntry, ~op.retiring, op' = op, dir' = dir, before' = before,
              raced' = raced, \A c \in Dirs : c # op.from => archive'[c] = archive[c],
              op.kind # "rollback" => archive' = archive
       PROVE  Held' /\ AsFound' /\ Filled' /\ Retiring'
  <2>1. AsFound' /\ Filled' /\ Retiring'
    BY <1>12 DEF AsFound, Filled, Retiring, InEntry, AfterEntry
  <2>2. SUFFICES ASSUME ~raced PROVE \E c \in Dirs : Undoes(c)'
    BY <1>12, <2>1 DEF Held
  <2>3. PICK c \in Dirs : Undoes(c)
    BY <1>12, <2>2 DEF Undoable, Held, AfterEntry
  <2>4. archive'[c] = archive[c]
    BY <1>12, <2>3 DEF Undoes
  <2>5. Entries' \subseteq Entries
    BY <1>12, EntriesStep DEF MakeEntry, AfterEntry
  <2> QED BY <1>12, <2>3, <2>4, <2>5, StillUndoes DEF AfterEntry, InEntry
<1>13. CASE Install \/ Enable
  <2>1. /\ pc \in {"install", "enable"} /\ pc' \in {"enable", "retire"}
        /\ UNCHANGED <<archive, op, dir, before, raced>> /\ ~op.retiring
    BY <1>13 DEF Install, Enable, Undoable, Retiring, InEntry
  <2>2. DirSealed'
    BY <2>1 DEF Undoable, DirSealed
  <2> QED BY <1>0, <1>12, <2>1, <2>2 DEF AfterEntry, Undoable
<1>14. CASE Restore \/ RemoveRestored \/ TruncateSettings \/ RewriteSettings
  <2>1. /\ pc \in {"restore", "restoreRemove", "truncate", "rewrite"}
        /\ pc' \in {"restoreRemove", "truncate", "rewrite", "drop"}
        /\ UNCHANGED <<op, dir, before, raced>> /\ ~op.retiring /\ op.kind = "rollback"
    BY <1>14 DEF Restore, Restored, RemoveRestored, TruncateSettings, RewriteSettings, Undoable, Retiring,
       InEntry, Bookkeeping, Roles
  <2>2. \A c \in Dirs : c # op.from => archive'[c] = archive[c]
    BY <1>14 DEF Restore, RemoveRestored, TruncateSettings, RewriteSettings, SetEntry, TypeOK
  <2>3. DirSealed'
    BY <2>1 DEF DirSealed
  <2> QED BY <1>0, <1>12, <2>1, <2>2, <2>3 DEF AfterEntry, Undoable
<1>15. CASE Retire
  <2>1. /\ pc = "retire" /\ ~op.retiring /\ UNCHANGED <<archive, dir, before, raced>>
    BY <1>15 DEF Retire, world, Undoable, Retiring, InEntry
  <2>2. \/ op' = op /\ pc' = "prune"
        \/ op' = [op EXCEPT !.arch = LegacyName, !.retiring = TRUE] /\ pc' = "mkdir"
    BY <1>15 DEF Retire
  <2>3. CASE op' = op /\ pc' = "prune"
    <3>1. AsFound' /\ Filled' /\ Held' /\ DirSealed' /\ Retiring'
      BY <2>1, <2>3 DEF Undoable, AsFound, Filled, Held, DirSealed, Retiring, InEntry
    <3> QED BY <1>0, <3>1 DEF Undoable
  <2>4. CASE op' = [op EXCEPT !.arch = LegacyName, !.retiring = TRUE] /\ pc' = "mkdir"
    <3>1. op'.retiring = TRUE /\ op'.name = op.name /\ op'.from = op.from
      BY <2>4 DEF TypeOK, Operation
    <3>2. Held'
      <4>1. SUFFICES ASSUME ~raced PROVE \E c \in Dirs : Undoes(c)'
        BY <2>1 DEF Held
      <4>2. PICK c \in Dirs : Undoes(c)
        BY <2>1, <4>1 DEF Undoable, Held, AfterEntry
      <4>3. NoneYounger(c)'
        BY <2>1, <4>2 DEF Undoes, NoneYounger, Entries
      <4>4. Undo' = Undo
        BY <2>1, UndoSame
      <4> QED BY <2>1, <2>4, <3>1, <4>2, <4>3, <4>4 DEF Undoes, InEntry
    <3>3. AsFound' /\ Filled' /\ DirSealed' /\ Retiring'
      BY <2>1, <2>4, <3>1 DEF AsFound, Filled, DirSealed, Retiring
    <3> QED BY <1>0, <3>2, <3>3 DEF Undoable
  <2> QED BY <2>2, <2>3, <2>4
<1>16. CASE \E how \in {"ended", "stopped"} : Finish(how)
  <2>1. op'.retiring = FALSE /\ Idle'
    BY <1>16 DEF Finish, NoOperation, Idle
  <2> QED BY <1>0, <2>1, IdleUndoable
<1>17. CASE Prune
  <2>1. CASE UNCHANGED <<process, before, raced>>
    <3>1. pc = "prune" /\ pc' = "prune" /\ dir' = dir /\ op' = op
      BY <1>17, <2>1 DEF Prune, process
    <3>2. \A c \in Dirs : archive'[c] = archive[c] \/ archive'[c] = None
      BY <1>17 DEF Prune, SetEntry, TypeOK
    <3>3. AsFound' /\ Filled' /\ Held' /\ DirSealed' /\ Retiring'
      BY <3>1, <3>2 DEF Undoable, AsFound, Filled, Held, DirSealed, Retiring, InEntry
    <3> QED BY <1>0, <3>3 DEF Undoable
  <2> QED BY <1>16, <1>17, <2>1 DEF Prune
<1>18. CASE StopBetweenSteps \/ StopInTake \/ StopInRestore \/ StopInKeep \/ StopInRemoval \/ DropEntry
  BY <1>16, <1>18 DEF StopBetweenSteps, StopInTake, StopInRestore, StopInKeep, StopInRemoval, DropEntry,
     Stopped
<1>19. ASSUME UNCHANGED <<archive, dir, op, pc, before, mods, seen>>,
              (raced' /\ ~Idle) \/ Idle \/ UNCHANGED <<settings, raced>>
       PROVE  Undoable'
  <2>1. CASE Idle
    <3>1. op'.retiring = FALSE /\ Idle'
      BY <1>19, <2>1 DEF Undoable, Retiring, InEntry, Idle, TypeOK, Operation
    <3> QED BY <1>0, <3>1, IdleUndoable
  <2>2. CASE raced'
    BY <1>0, <1>19, <2>2 DEF Undoable, AsFound, Filled, Held, DirSealed, Retiring
  <2>3. CASE UNCHANGED <<settings, raced>>
    <3>1. Entries' = Entries /\ Undo' = Undo /\ Game(op.name)' = Game(op.name)
      BY <1>19 DEF Entries, Undo, Game
    <3>2. NoneYounger(dir)' = NoneYounger(dir) /\ \A c \in Dirs : Undoes(c)' = Undoes(c)
      BY <1>19, <3>1 DEF Undoes, NoneYounger
    <3> QED BY <1>0, <1>19, <2>3, <3>1, <3>2 DEF Undoable, AsFound, Filled, Held, DirSealed, Retiring
  <2> QED BY <1>19, <2>1, <2>2, <2>3
<1>20. CASE ModsToggle \/ Tick \/ GameOpensOrQuits \/ GameWritesSettings \/ UNCHANGED vars
  BY <1>19, <1>20 DEF ModsToggle, Tick, GameOpensOrQuits, GameWritesSettings, world, process, history, vars
<1> QED
  BY <1>1, <1>3, <1>4, <1>5, <1>8, <1>9, <1>10, <1>11, <1>13, <1>14, <1>15, <1>17, <1>18, <1>20 DEF Next

(* Whatever stops wherever: while an operation goes on, the entry that     *)
(* would undo it is being filled, or is there.                             *)
THEOREM UndoAtHand == Spec => []Undoable
<1>1. Init => Undoable
  BY InitUndoable
<1>2. TypeOK /\ Bookkeeping /\ Undoable /\ [Next]_vars => Undoable'
  BY StepUndoable
<1> QED
  BY <1>1, <1>2, Bookkept, PTL DEF Spec

(* Of two entries whose date the listing knows, retention deletes the      *)
(* older one and keeps the newer, never the other way round.               *)
THEOREM RetentionSparesNewest == Spec /\ []Legible => PruneSparesNewest
<1>1. ASSUME TypeOK, Bookkeeping, Undoable, Legible, IsFiniteSet(Entries), Next, pc = "prune",
             NEW d \in Entries, NEW e \in Kept, archive'[d] = None
      PROVE  d.t <= e.t
  <2>1. e \in Entries /\ Cardinality(Above(e)) < Retention
    BY DEF Kept, Above
  <2>2. Cardinality(Above(d)) = Retention
    BY <1>1, DeletedByRetention DEF Doomed, Above
  <2>3. \A c \in Entries : Dated(c)
    <3>1. dir \in Entries => archive[dir].meta
      BY <1>1 DEF Undoable, DirSealed, Entries
    <3> QED BY <1>1, <3>1 DEF Legible, Dated
  <2>4. ~ListedBefore(d, e)
    <3>1. Cardinality(Above(d)) \in Nat /\ Cardinality(Above(e)) \in Nat
      BY <1>1, FS_Subset, FS_CardinalityType DEF Above
    <3>2. ListedBefore(d, e) => Cardinality(Above(d)) < Cardinality(Above(e))
      BY <1>1, <2>1, FurtherDown
    <3> HIDE DEF Above
    <3> QED BY <2>1, <2>2, <3>1, <3>2, ConstAssumption
  <2>5. ~(d.t > e.t)
    BY <1>1, <2>1, <2>3, <2>4, LaterListedFirst
  <2> QED BY <1>1, <2>1, <2>5, StampNumbers
<1>2. TypeOK /\ Bookkeeping /\ Undoable /\ Legible /\ IsFiniteSet(Entries) /\ [Next]_vars =>
        [pc = "prune" => \A d \in Entries, e \in Kept : archive'[d] = None => d.t <= e.t]_vars
  BY <1>1
<1> QED
  BY <1>2, Bookkept, UndoAtHand, EntriesFinite, PTL DEF Spec, PruneSparesNewest

(* A rollback ends by dropping the entry it went back to.                  *)
LEMMA OnlyDropEnds ==
  ASSUME Bookkeeping, Next, Ends("rollback")
  PROVE  DropEntry
<1>1. pc # "prune"
  BY DEF Ends, Bookkeeping, Roles
<1>2. pc' = "ended" /\ pc \notin {"ended", "stopped"}
  BY DEF Ends, Idle
<1>3. ASSUME NEW n \in Names PROVE ~(BeginDeploy(n) \/ BeginRollback(n) \/ BeginUndeploy(n))
  BY <1>2 DEF BeginDeploy, BeginRollback, BeginUndeploy, Begin, Goto
<1>4. ~(Stage \/ MakeEntry \/ TakeMod \/ RemoveTaken \/ KeepSettings \/ WriteMeta \/ Install
        \/ Enable \/ Retire \/ Prune \/ Restore \/ RemoveRestored \/ TruncateSettings
        \/ RewriteSettings)
  BY <1>1, <1>2 DEF Stage, MakeEntry, TakeMod, RemoveTaken, KeepSettings, WriteMeta, Install, Enable,
     Retire, Prune, Restore, Restored, RemoveRestored, TruncateSettings, RewriteSettings, Goto
<1>5. ~(StopBetweenSteps \/ StopInTake \/ StopInRestore \/ StopInKeep \/ StopInRemoval)
  BY <1>2 DEF StopBetweenSteps, StopInTake, StopInRestore, StopInKeep, StopInRemoval, Stopped, Finish
<1>6. ~(ModsToggle \/ Tick \/ GameOpensOrQuits \/ GameWritesSettings)
  BY <1>2 DEF ModsToggle, Tick, GameOpensOrQuits, GameWritesSettings, process
<1> QED BY <1>3, <1>4, <1>5, <1>6 DEF Next

(* What a rollback leaves when it ends: an entry that undoes it, with      *)
(* nothing listed before it but what was made in the same second and what  *)
(* was interrupted in an evening.                                          *)
LEMMA RollbackEnds ==
  ASSUME TypeOK, Bookkeeping, Undoable, Next, Ends("rollback")
  PROVE  \E d \in Entries' : /\ d.name = op.name /\ archive'[d] = Undo
                             /\ \A e \in Entries' : ListedBefore(e, d)' =>
                                  e # d /\ (e.t = d.t \/ (~archive'[e].meta /\ e.t \in Evening))
<1>1. DropEntry
  BY OnlyDropEnds
<1>2. pc = "drop" /\ ~raced /\ ~op.retiring /\ op.from \in Dirs
  BY <1>1 DEF DropEntry, Ends, Undoable, Retiring, InEntry, Bookkeeping, Consumed, TypeOK, Operation
<1>3. PICK d \in Dirs : Undoes(d)
  BY <1>2 DEF Undoable, Held, AfterEntry
<1>4. \A c \in Dirs : c # op.from => archive'[c] = archive[c]
  BY <1>1, <1>2 DEF DropEntry, SetEntry, TypeOK
<1>5. archive'[op.from] = None
  BY <1>1, <1>2 DEF DropEntry, SetEntry, TypeOK
<1>6. d \in Entries' /\ d \in Entries /\ archive'[d] = Undo /\ archive[d].meta
  BY <1>3, <1>4, UndoType DEF Undoes, Entries, Undo
<1>7. ASSUME NEW e \in Entries', ListedBefore(e, d)'
      PROVE  e # d /\ (e.t = d.t \/ (~archive'[e].meta /\ e.t \in Evening))
  <2>1. e \in Entries /\ archive'[e] = archive[e]
    BY <1>4, <1>5, <1>7 DEF Entries
  <2>2. ListedBefore(e, d)
    BY <1>3, <1>4, <1>7, <2>1 DEF ListedBefore, Stamp, Undoes
  <2>3. e.t >= d.t \/ (~archive[e].meta /\ e.t \in Evening)
    BY <1>6, <2>1, <2>2, ListedBeforeSealed
  <2>4. e.t <= d.t
    BY <1>2, <1>3, <2>1 DEF Undoes, NoneYounger
  <2>5. e # d
    BY <2>1, <2>2, ListedIrreflexive
  <2> QED BY <1>6, <2>1, <2>3, <2>4, <2>5, StampNumbers
<1> QED BY <1>3, <1>6, <1>7 DEF Undoes

(* Every rollback that ends undisturbed can be undone: nothing older is    *)
(* listed before the entry that undoes it.                                 *)
THEOREM UndoOutranksOlder ==
  Spec => [][Ends("rollback") =>
               \E d \in Entries' : /\ d.name = op.name /\ archive'[d] = Undo
                                   /\ \A e \in Entries' : ListedBefore(e, d)' =>
                                        e # d /\ (e.t = d.t \/ (~archive'[e].meta /\ e.t \in Evening))]_vars
<1>1. TypeOK /\ Bookkeeping /\ Undoable /\ [Next]_vars =>
        [Ends("rollback") =>
           \E d \in Entries' : /\ d.name = op.name /\ archive'[d] = Undo
                               /\ \A e \in Entries' : ListedBefore(e, d)' =>
                                    e # d /\ (e.t = d.t \/ (~archive'[e].meta /\ e.t \in Evening))]_vars
  BY RollbackEnds
<1> QED
  BY <1>1, Bookkept, UndoAtHand, PTL DEF Spec

(* No two entries were made in one second.                                 *)
Spaced == \A d, e \in Entries : d.t = e.t => d = e

(* As long as the archive, between operations, holds no two entries of one *)
(* second and none whose date is guessed, the rollback after a rollback    *)
(* picks the entry that undoes it.                                         *)
THEOREM RollbackIsUndoable == Spec /\ [](Idle => Legible /\ Spaced) => RollbackUndoable
<1>1. ASSUME TypeOK, Bookkeeping, Undoable, Next, (Idle => Legible /\ Spaced)', Ends("rollback")
      PROVE  \E d \in Newest' : archive'[d] = Undo
  <2>1. PICK d \in Entries' : /\ d.name = op.name /\ archive'[d] = Undo
                              /\ \A e \in Entries' : ListedBefore(e, d)' =>
                                   e # d /\ (e.t = d.t \/ (~archive'[e].meta /\ e.t \in Evening))
    BY <1>1, RollbackEnds
  <2>2. Legible' /\ Spaced' /\ dir' = None
    BY <1>1, OnlyDropEnds DEF Ends, Idle, DropEntry, Finish
  <2>3. ASSUME NEW e \in Entries' PROVE archive'[e].meta \/ e.t \notin Evening
    <3>1. e # dir'
      BY <2>2, NoneAssumption DEF Entries
    <3> QED BY <2>2, <3>1 DEF Legible, Dated
  <2>4. ASSUME NEW e \in Entries', ListedBefore(e, d)' PROVE FALSE
    <3>1. e.t = d.t /\ e # d
      BY <2>1, <2>3, <2>4
    <3> QED BY <2>2, <3>1 DEF Spaced
  <2> QED BY <2>1, <2>4 DEF Newest
<1>2. TypeOK /\ Bookkeeping /\ Undoable /\ (Idle => Legible /\ Spaced)' /\ [Next]_vars =>
        [Ends("rollback") => \E d \in Newest' : archive'[d] = Undo]_vars
  BY <1>1
<1> QED
  BY <1>2, Bookkept, UndoAtHand, PTL DEF Spec, RollbackUndoable

(* Retention keeps more entries than any one second holds.                 *)
Uncrowded == \A t \in Clock : Cardinality({e \in Entries : e.t = t}) < Retention

(* While a deploy prunes, the entry that undoes it is there.               *)
HeldInPrune == ~raced /\ pc = "prune" /\ op.kind = "deploy" => \E d \in Dirs : Undoes(d)

(* Retention, which deletes whatever has Retention entries above it, does  *)
(* not reach the entry of the deploy: above it are only those of its own   *)
(* second and the one the legacy folder went to.                           *)
LEMMA UndoNotDoomed ==
  ASSUME TypeOK, Legible, Uncrowded, IsFiniteSet(Entries), NEW d \in Dirs, Undoes(d)
  PROVE  d \notin Doomed
<1> DEFINE Second == {e \in Entries : e.t = d.t}
<1>1. d \in Entries /\ archive[d].meta /\ d.t \in Clock
  BY UndoType DEF Undoes, Entries, Undo, Dirs
<1>2. Above(d) \subseteq (Second \ {d}) \union {dir}
  <2>1. SUFFICES ASSUME NEW e \in Entries, ListedBefore(e, d), e # dir PROVE e \in Second \ {d}
    BY DEF Above
  <2>2. e # d
    BY <2>1, ListedIrreflexive
  <2>3. e.t >= d.t
    BY <1>1, <2>1, ListedBeforeSealed DEF Legible, Dated
  <2>4. e.t <= d.t
    BY <2>1 DEF Undoes, NoneYounger
  <2> QED BY <1>1, <2>1, <2>2, <2>3, <2>4, StampNumbers
<1>3. /\ IsFiniteSet(Second) /\ d \in Second
      /\ Cardinality(Second) \in Nat /\ Cardinality(Second) < Retention
  BY <1>1, FS_Subset, FS_CardinalityType DEF Uncrowded
<1> HIDE DEF Second
<1>4. IsFiniteSet(Second \ {d}) /\ Cardinality(Second \ {d}) = Cardinality(Second) - 1
  BY <1>3, FS_RemoveElement
<1>5. /\ IsFiniteSet((Second \ {d}) \union {dir})
      /\ Cardinality((Second \ {d}) \union {dir}) <= Cardinality(Second)
  BY <1>3, <1>4, FS_AddElement
<1>6. IsFiniteSet(Above(d)) /\ Cardinality(Above(d)) <= Cardinality((Second \ {d}) \union {dir})
  BY <1>2, <1>5, FS_Subset
<1>7. Cardinality(Above(d)) \in Nat /\ Cardinality((Second \ {d}) \union {dir}) \in Nat
  BY <1>5, <1>6, FS_CardinalityType
<1>8. Cardinality(Above(d)) < Retention
  BY <1>3, <1>5, <1>6, <1>7, ConstAssumption
<1> QED BY <1>7, <1>8, ConstAssumption DEF Doomed, Above

(* Only retiring the legacy folder, and having none, leads a deploy to     *)
(* retention.                                                              *)
LEMMA StepHeldInPrune ==
  ASSUME TypeOK, Bookkeeping, Undoable, HeldInPrune, Legible, Uncrowded, IsFiniteSet(Entries),
         [Next]_vars
  PROVE  HeldInPrune'
<1> SUFFICES ASSUME ~raced', pc' = "prune", op'.kind = "deploy" PROVE \E d \in Dirs : Undoes(d)'
  BY DEF HeldInPrune
<1> USE DEF Goto
<1>1. CASE WriteMeta
  <2>1. /\ pc = "meta" /\ op.retiring /\ UNCHANGED <<op, dir, before, raced>>
        /\ dir \in Dirs /\ archive[dir] # None
    BY <1>1 DEF WriteMeta, TypeOK, Bookkeeping, OpenEntry
  <2>2. PICK d \in Dirs : Undoes(d)
    BY <2>1 DEF Undoable, Held
  <2>3. d # dir /\ archive'[d] = archive[d]
    BY <1>1, <2>1, <2>2 DEF Undoes, InEntry, WriteMeta, SetEntry, TypeOK
  <2>4. Entries' \subseteq Entries
    BY <2>1, EntriesStep DEF MakeEntry
  <2> QED BY <2>1, <2>2, <2>3, <2>4, StillUndoes DEF InEntry
<1>2. CASE Retire
  <2>1. /\ pc = "retire" /\ UNCHANGED <<archive, op, dir, before, raced>>
    BY <1>2 DEF Retire, world
  <2>2. PICK d \in Dirs : Undoes(d)
    BY <2>1 DEF Undoable, Held, AfterEntry
  <2>3. Entries' = Entries
    BY <2>1 DEF Entries
  <2> QED BY <2>1, <2>2, <2>3, StillUndoes DEF InEntry
<1>3. CASE Prune
  <2>1. PICK c \in Doomed : SetEntry(c, None) /\ UNCHANGED <<process, before, raced>>
    BY <1>3 DEF Prune, Finish
  <2>2. pc = "prune" /\ UNCHANGED <<op, dir, before, raced>>
    BY <1>3, <2>1 DEF Prune, process
  <2>3. PICK d \in Dirs : Undoes(d)
    BY <2>2 DEF HeldInPrune
  <2>4. c # d
    BY <2>1, <2>3, UndoNotDoomed
  <2>5. archive'[d] = archive[d] /\ Entries' \subseteq Entries
    BY <1>3, <2>1, <2>2, <2>4, EntriesStep DEF SetEntry, TypeOK, MakeEntry
  <2> QED BY <2>2, <2>3, <2>5, StillUndoes DEF InEntry
<1>4. CASE pc = "prune" /\ UNCHANGED <<archive, pc, op, dir, before>> /\ (raced' = raced \/ raced')
  <2>1. PICK d \in Dirs : Undoes(d)
    BY <1>4 DEF HeldInPrune
  <2>2. Entries' = Entries
    BY <1>4 DEF Entries
  <2> QED BY <1>4, <2>1, <2>2, StillUndoes DEF InEntry
<1>5. CASE ModsToggle \/ Tick \/ GameOpensOrQuits \/ GameWritesSettings \/ UNCHANGED vars
  BY <1>4, <1>5 DEF ModsToggle, Tick, GameOpensOrQuits, GameWritesSettings, world, process, history,
     vars, Idle
<1>6. ASSUME NEW n \in Names PROVE ~(BeginDeploy(n) \/ BeginRollback(n) \/ BeginUndeploy(n))
  BY DEF BeginDeploy, BeginRollback, BeginUndeploy, Begin
<1>7. ~(Stage \/ MakeEntry \/ TakeMod \/ RemoveTaken \/ KeepSettings \/ Install \/ Enable
        \/ Restore \/ RemoveRestored \/ TruncateSettings \/ RewriteSettings \/ DropEntry)
  BY DEF Stage, MakeEntry, TakeMod, RemoveTaken, KeepSettings, Install, Enable, Restore, Restored,
     RemoveRestored, TruncateSettings, RewriteSettings, DropEntry, Finish
<1>8. ~(StopBetweenSteps \/ StopInTake \/ StopInRestore \/ StopInKeep \/ StopInRemoval)
  BY DEF StopBetweenSteps, StopInTake, StopInRestore, StopInKeep, StopInRemoval, Stopped, Finish
<1> QED BY <1>1, <1>2, <1>3, <1>5, <1>6, <1>7, <1>8 DEF Next

(* A deploy that ends undisturbed leaves the entry that undoes it, under   *)
(* its own name, as long as retention keeps more entries than one second   *)
(* holds and no entry's date is guessed.                                   *)
THEOREM DeployIsUndoable == Spec /\ [](Legible /\ Uncrowded) => DeployKeepsUndo
<1>1. Init => HeldInPrune
  BY DEF Init, HeldInPrune
<1>2. TypeOK /\ Bookkeeping /\ Undoable /\ HeldInPrune /\ Legible /\ Uncrowded
        /\ IsFiniteSet(Entries) /\ [Next]_vars => HeldInPrune'
  BY StepHeldInPrune
<1>3. ASSUME Bookkeeping, HeldInPrune, Next, Ends("deploy")
      PROVE  \E d \in Dirs : d.name = op.name /\ archive'[d] = Undo
  <2> USE DEF Goto
  <2>1. pc' = "ended" /\ pc \notin {"ended", "stopped"} /\ op.kind = "deploy" /\ ~raced
    BY <1>3 DEF Ends, Idle
  <2>2. Prune
    <3>1. ASSUME NEW n \in Names PROVE ~(BeginDeploy(n) \/ BeginRollback(n) \/ BeginUndeploy(n))
      BY <2>1 DEF BeginDeploy, BeginRollback, BeginUndeploy, Begin
    <3>2. ~(Stage \/ MakeEntry \/ TakeMod \/ RemoveTaken \/ KeepSettings \/ WriteMeta \/ Install
            \/ Enable \/ Retire \/ Restore \/ RemoveRestored \/ TruncateSettings
            \/ RewriteSettings \/ DropEntry)
      BY <1>3, <2>1 DEF Stage, MakeEntry, TakeMod, RemoveTaken, KeepSettings, WriteMeta, Install, Enable,
         Retire, Restore, Restored, RemoveRestored, TruncateSettings, RewriteSettings, DropEntry,
         Bookkeeping, Roles
    <3>3. ~(StopBetweenSteps \/ StopInTake \/ StopInRestore \/ StopInKeep \/ StopInRemoval)
      BY <2>1 DEF StopBetweenSteps, StopInTake, StopInRestore, StopInKeep, StopInRemoval, Stopped, Finish
    <3>4. ~(ModsToggle \/ Tick \/ GameOpensOrQuits \/ GameWritesSettings)
      BY <2>1 DEF ModsToggle, Tick, GameOpensOrQuits, GameWritesSettings, process
    <3> QED BY <1>3, <3>1, <3>2, <3>3, <3>4 DEF Next
  <2>3. pc = "prune" /\ archive' = archive
    BY <2>1, <2>2 DEF Prune, process
  <2> QED BY <1>3, <2>1, <2>3 DEF HeldInPrune, Undoes
<1>4. Bookkeeping /\ HeldInPrune /\ [Next]_vars =>
        [Ends("deploy") => \E d \in Dirs : d.name = op.name /\ archive'[d] = Undo]_vars
  BY <1>3
<1> QED
  BY <1>1, <1>2, <1>4, Bookkept, UndoAtHand, EntriesFinite, PTL DEF Spec, DeployKeepsUndo
===============================================================================
