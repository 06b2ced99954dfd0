------------------------------ MODULE SaveFiles -------------------------------
(***************************************************************************)
(* One save of the game, its backups, and the operations on both: the      *)
(* guarded write of the save editor (core.EditSave, ImportSave and         *)
(* SetSaveNode through writeSave, internal/core/saveedit.go), the save     *)
(* backup on request and before a deploy (internal/core/saves.go).         *)
(*                                                                         *)
(* Several processes (the GUI, a command line) run one operation each, one *)
(* file system step at a time. The game is another writer of the save. A   *)
(* save is two files: the data, and the manifest that describes it. A      *)
(* version is the number of a save ever written; a file holds a version.   *)
(***************************************************************************)
EXTENDS Integers, FiniteSets

CONSTANTS
  Processes,    \* the processes of the tool
  Missing,      \* "there is no such file"
  None,         \* "there is no such directory", or no value yet
  MaxTime,      \* bound: the clock readings, in seconds, are 1..MaxTime
  MaxVersions,  \* bound: the saves ever written
  Inherited,    \* backups of earlier days, in the seconds 1..Inherited
  Retention     \* SaveRetention

ASSUME ConstAssumption ==
  /\ Missing \notin Nat /\ None \notin Nat \union Processes /\ Missing # None
  /\ None \notin [data : Nat \union {Missing}, meta : Nat \union {Missing}]
  /\ MaxTime \in Nat /\ MaxVersions \in Nat
  /\ Inherited \in Nat /\ Inherited < MaxTime
  /\ Retention \in Nat \ {0}

VARIABLES
  profile,   \* the save in the game's folder: its data and its manifest
  backups,   \* SaveBackup: [Clock -> a copy of the profile, or None]
  now,       \* the clock, as saveStamp reads it
  count,     \* the saves written so far, which numbers them
  op,        \* [Processes -> the operation it runs]
  done,      \* the processes whose backedUp.builds has the build installed
  (* history *)
  written,   \* the versions the data file has had
  alone,     \* the operations whose save nobody else has written since they
             \* began their backup
  collided,  \* the seconds two operations chose before either made the folder
  owed       \* the saves replaced by an operation that was alone, and where it
             \* had backed them up

history == <<written, alone, collided, owed>>
vars == <<profile, backups, now, count, op, done, written, alone, collided, owed>>

Clock == 1..MaxTime
Versions == 0..MaxVersions
Save == [data : Versions \union {Missing}, meta : Versions \union {Missing}]
Stages == {"idle", "check", "choose", "make", "copyMeta", "copyData", "list", "prune",
           "replaceData", "replaceMeta"}

Idle == [at |-> "idle", edit |-> FALSE, new |-> None, stamp |-> None, doomed |-> {}]
NoSave == [data |-> Missing, meta |-> Missing]

At(p, stage) == op[p].at = stage
Go(p, stage) == op' = [op EXCEPT ![p].at = stage]
End(p) == op' = [op EXCEPT ![p] = Idle]

(* What a write of the profile by p, or by the game (None), does to the    *)
(* other operations: they are no longer its only writer.                   *)
Disturb(writer) == alone' = alone \intersect {writer}

Kept == {s \in Clock : backups[s] # None}
Newer(s) == {t \in Kept : t > s}

(* The seconds whose backups are beyond the newest Retention.              *)
Displaced == {s \in Clock : Cardinality(Newer(s)) >= Retention}

-------------------------------------------------------------------------------
(* The game may never have been started; otherwise it has left a save.     *)
Init ==
  /\ profile \in {NoSave, [data |-> 0, meta |-> 0]}
  /\ backups = [s \in Clock |-> IF s <= Inherited THEN [data |-> 0, meta |-> 0] ELSE None]
  /\ now = Inherited + 1
  /\ count = 0
  /\ op = [p \in Processes |-> Idle]
  /\ done = {}
  /\ written = {0, profile.data} /\ alone = {} /\ collided = {} /\ owed = {}

(***************************************************************************)
(* The operations.                                                         *)
(***************************************************************************)
(* EditSave, ImportSave, SetSaveNode: loadSave and the change. A save that *)
(* is not there ends the operation.                                        *)
BeginEdit(p) ==
  /\ At(p, "idle") /\ profile.data # Missing /\ profile.meta # Missing
  /\ op' = [op EXCEPT ![p] = [Idle EXCEPT !.at = "check", !.edit = TRUE]]
  /\ UNCHANGED <<profile, backups, now, count, done, history>>

(* writeSave asks gameRunning once and refuses while the game runs, unless *)
(* the write is forced. The game starts and quits whenever its user        *)
(* pleases, so the answer may be either, and says nothing of later steps.  *)
CheckGame(p) ==
  /\ At(p, "check")
  /\ \E running, force \in BOOLEAN :
       IF running /\ ~force
       THEN End(p) /\ UNCHANGED alone
       ELSE Go(p, "choose") /\ alone' = alone \union {p}
  /\ UNCHANGED <<profile, backups, now, count, done, written, collided, owed>>

(* BackupSaves.                                                            *)
BeginBackup(p) ==
  /\ At(p, "idle")
  /\ op' = [op EXCEPT ![p].at = "choose"]
  /\ UNCHANGED <<profile, backups, now, count, done, history>>

(* autoBackupSaves of a deploy. The build is remembered before the backup  *)
(* is tried.                                                               *)
BeginDeploy(p) ==
  /\ At(p, "idle") /\ p \notin done
  /\ done' = done \union {p}
  /\ op' = [op EXCEPT ![p].at = "choose"]
  /\ UNCHANGED <<profile, backups, now, count, history>>

(***************************************************************************)
(* backupSaves.                                                            *)
(***************************************************************************)
(* Mutant: the folder of this second is taken whether or not it is there.  *)
ChooseTaken(p) ==
  /\ At(p, "choose") /\ profile.data # Missing
  /\ collided' = IF \E q \in Processes \ {p} : At(q, "make") /\ op[q].stamp = now
                 THEN collided \union {now} ELSE collided
  /\ op' = [op EXCEPT ![p] = [@ EXCEPT !.at = "make", !.stamp = now]]
  /\ UNCHANGED <<profile, backups, now, count, done, written, alone, owed>>

(* Mutant: the stamp is the second the wait ends in.                       *)
ChooseAhead(p) ==
  /\ At(p, "choose") /\ profile.data # Missing
  /\ backups[now] = None
  /\ op' = [op EXCEPT ![p] = [@ EXCEPT !.at = "make", !.stamp = now + 1]]
  /\ UNCHANGED <<profile, backups, now, count, done, history>>

(* The loop waits for a second whose folder is not there. Between its stat *)
(* and the MkdirAll, another operation may see the same.                   *)
Choose(p) ==
  /\ At(p, "choose") /\ profile.data # Missing
  /\ backups[now] = None
  /\ collided' = IF \E q \in Processes \ {p} : At(q, "make") /\ op[q].stamp = now
                 THEN collided \union {now} ELSE collided
  /\ op' = [op EXCEPT ![p] = [@ EXCEPT !.at = "make", !.stamp = now]]
  /\ UNCHANGED <<profile, backups, now, count, done, written, alone, owed>>

(* No profile to copy: skipped, which an edit takes for an error.          *)
Skip(p) ==
  /\ At(p, "choose") /\ profile.data = Missing
  /\ End(p)
  /\ UNCHANGED <<profile, backups, now, count, done, history>>

(* config.MkdirAll, which does not mind a folder that is there.            *)
Make(p) ==
  /\ At(p, "make")
  /\ Go(p, "copyMeta")
  /\ backups' = [backups EXCEPT ![op[p].stamp] = IF @ = None THEN NoSave ELSE @]
  /\ UNCHANGED <<profile, now, count, done, history>>

(* copyTree, in the order of WalkDir: mf_save.hg before save.hg. A folder  *)
(* that another operation has pruned meanwhile makes WriteFile fail.       *)
CopyMeta(p) ==
  /\ At(p, "copyMeta") /\ backups[op[p].stamp] # None
  /\ Go(p, "copyData")
  /\ backups' = [backups EXCEPT ![op[p].stamp].meta = profile.meta]
  /\ UNCHANGED <<profile, now, count, done, history>>

CopyData(p) ==
  /\ At(p, "copyData") /\ backups[op[p].stamp] # None
  /\ Go(p, "list")
  /\ backups' = [backups EXCEPT ![op[p].stamp].data = profile.data]
  /\ UNCHANGED <<profile, now, count, done, history>>

(* pruneSaveBackups reads the folder once, complete copies or not, and     *)
(* removes what is older than the newest Retention.                        *)
List(p) ==
  /\ At(p, "list")
  /\ op' = [op EXCEPT ![p] = [@ EXCEPT
       !.at = "prune",
       !.doomed = Kept \intersect Displaced]]
  /\ UNCHANGED <<profile, backups, now, count, done, history>>

(* RemoveAll of one backup.                                                *)
Prune(p) ==
  /\ At(p, "prune")
  /\ \E s \in op[p].doomed :
       /\ backups' = [backups EXCEPT ![s] = None]
       /\ op' = [op EXCEPT ![p].doomed = @ \ {s}]
  /\ UNCHANGED <<profile, now, count, done, history>>

BackedUp(p) ==
  /\ At(p, "prune") /\ op[p].doomed = {}
  /\ IF op[p].edit THEN Go(p, "replaceData") ELSE End(p)
  /\ UNCHANGED <<profile, backups, now, count, done, history>>

(***************************************************************************)
(* writeSave: data, then manifest.                                         *)
(***************************************************************************)
(* Mutant: the error of the first replaceFile is dropped.                  *)
ReplaceUnchecked(p) ==
  /\ At(p, "replaceData") /\ count < MaxVersions
  /\ count' = count + 1
  /\ op' = [op EXCEPT ![p] = [@ EXCEPT !.at = "replaceMeta", !.new = count + 1]]
  /\ profile' \in {profile, [profile EXCEPT !.data = count + 1]}
  /\ written' = written \union {profile'.data}
  /\ owed' = owed \union {[at |-> op[p].stamp, save |-> profile] : q \in alone \intersect {p}}
  /\ Disturb(p)
  /\ UNCHANGED <<backups, now, done, collided>>

(* The payload is encoded and renamed into place by replaceFile.           *)
ReplaceData(p) ==
  /\ At(p, "replaceData") /\ count < MaxVersions
  /\ count' = count + 1
  /\ op' = [op EXCEPT ![p] = [@ EXCEPT !.at = "replaceMeta", !.new = count + 1]]
  /\ profile' = [profile EXCEPT !.data = count + 1]
  /\ written' = written \union {count + 1}
  /\ owed' = owed \union {[at |-> op[p].stamp, save |-> profile] : q \in alone \intersect {p}}
  /\ Disturb(p)
  /\ UNCHANGED <<backups, now, done, collided>>

ReplaceMeta(p) ==
  /\ At(p, "replaceMeta")
  /\ End(p)
  /\ profile' = [profile EXCEPT !.meta = op[p].new]
  /\ Disturb(None)
  /\ UNCHANGED <<backups, now, count, done, written, collided, owed>>

(* Any step fails, which ends the operation where it is, or the process is *)
(* killed, which also forgets what it had backed up.                       *)
Stop(p) ==
  /\ ~At(p, "idle")
  /\ End(p)
  /\ done' \in {done, done \ {p}}
  /\ alone' = alone \ {p}
  /\ UNCHANGED <<profile, backups, now, count, written, collided, owed>>

(***************************************************************************)
(* The game, Steam and the clock.                                          *)
(***************************************************************************)
GameSaves ==
  /\ count < MaxVersions
  /\ count' = count + 1
  /\ profile' = [data |-> count + 1, meta |-> count + 1]
  /\ written' = written \union {count + 1}
  /\ Disturb(None)
  /\ UNCHANGED <<backups, now, op, done, collided, owed>>

(* A build no process has seen.                                            *)
GameUpdated ==
  /\ done # {}
  /\ done' = {}
  /\ UNCHANGED <<profile, backups, now, count, op, history>>

Tick ==
  /\ now < MaxTime
  /\ now' = now + 1
  /\ UNCHANGED <<profile, backups, count, op, done, history>>

OpStep(p) ==
  \/ BeginEdit(p) \/ CheckGame(p) \/ BeginBackup(p) \/ BeginDeploy(p)
  \/ Choose(p) \/ Skip(p) \/ Make(p) \/ CopyMeta(p) \/ CopyData(p)
  \/ List(p) \/ Prune(p) \/ BackedUp(p) \/ ReplaceData(p) \/ ReplaceMeta(p)
  \/ Stop(p)

Next ==
  \/ \E p \in Processes : OpStep(p)
  \/ GameSaves \/ GameUpdated \/ Tick

Spec == Init /\ [][Next]_vars

-------------------------------------------------------------------------------
(* The types of the variables.                                             *)
TypeOK ==
  /\ profile \in Save
  /\ backups \in [Clock -> Save \union {None}]
  /\ now \in Clock /\ count \in Versions
  /\ op \in [Processes -> [at : Stages, edit : BOOLEAN, new : Versions \union {None},
                           stamp : Clock \union {None}, doomed : SUBSET Clock]]
  /\ done \subseteq Processes
  /\ written \subseteq Versions \union {Missing}
  /\ alone \subseteq Processes /\ collided \subseteq Clock
  /\ owed \subseteq [at : Clock, save : Save]

(* A save that an edit replaced, and that nobody else wrote while the edit *)
(* was under way, stays in that edit's backup, data and manifest, until    *)
(* Retention newer backups have displaced it: whatever stops, whatever the *)
(* game and other operations write later, also within the same second.     *)
OriginalsStay ==
  \A o \in owed :
    backups[o.at] = o.save \/ o.at \in Displaced \union collided

(* The manifest never describes a data file that has not been there: an    *)
(* edit that stops halfway leaves an old manifest and never one ahead of   *)
(* its data.                                                               *)
ManifestFollows == profile.meta \in written

(* What the stages of an operation say of the disk, of which the two       *)
(* properties above are consequences.                                      *)
Copying == {"make", "copyMeta", "copyData"}
Copied == {"list", "prune", "replaceData"}
Named == Copying \union Copied \union {"replaceMeta"}

(* A named folder has a second that has come, and so has every folder.     *)
InThePast ==
  /\ \A p \in Processes : op[p].at \in Named => op[p].stamp \in Clock /\ op[p].stamp <= now
  /\ \A s \in Kept : s <= now

(* The manifest about to be written describes the data that was.           *)
Behind == \A p \in Processes : At(p, "replaceMeta") => op[p].new \in written \intersect Versions

(* A folder disappears only after Retention newer ones were made.          *)
Spared ==
  \A p \in Processes :
    /\ op[p].at \in Named \ {"make"} => backups[op[p].stamp] # None \/ op[p].stamp \in Displaced
    /\ op[p].doomed \subseteq Displaced

(* Only operations that collided write into one folder, or into one that   *)
(* holds an original.                                                      *)
OwnFolder ==
  \A p \in Processes :
    /\ op[p].at \in Named =>
         \A q \in Processes \ {p} :
           op[q].at \in Named /\ op[q].stamp = op[p].stamp => op[p].stamp \in collided
    /\ op[p].at \in Copying =>
         \A o \in owed : o.at = op[p].stamp => o.at \in collided

(* What an edit that is alone has copied so far is the save it will        *)
(* replace.                                                                *)
Preserved ==
  \A p \in alone :
    op[p].at \in Named =>
      \/ op[p].stamp \in Displaced \union collided
      \/ /\ At(p, "copyData") => backups[op[p].stamp].meta = profile.meta
         /\ op[p].at \in Copied => backups[op[p].stamp] = profile

(* Where each operation stands agrees with the folders on disk: the        *)
(* inductive part of OriginalsStay and ManifestFollows.                    *)
Bookkeeping == InThePast /\ Behind /\ Spared /\ OwnFolder /\ Preserved
===============================================================================
