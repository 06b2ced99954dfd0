---------------------------- MODULE SaveFilesProofs ---------------------------
(***************************************************************************)
(* Theorems about SaveFiles, for any number of processes, backups and      *)
(* seconds. See README.md for the argument.                                *)
(***************************************************************************)
EXTENDS SaveFiles, FiniteSetTheorems, TLAPS

USE ConstAssumption

(***************************************************************************)
(* Types.                                                                  *)
(***************************************************************************)
(* What the first state gives the variables is of their types.             *)
LEMMA InitTypeOK == Init => TypeOK
<1> SUFFICES ASSUME Init PROVE TypeOK
  OBVIOUS
<1>1. profile \in Save
  BY DEF Init, NoSave, Save, Versions
<1>2. backups \in [Clock -> Save \union {None}]
  BY DEF Init, Save, Versions
<1>3. now \in Clock /\ count \in Versions
  BY DEF Init, Clock, Versions
<1>4. op \in [Processes -> [at : Stages, edit : BOOLEAN, new : Versions \union {None},
                            stamp : Clock \union {None}, doomed : SUBSET Clock]]
  BY DEF Init, Idle, Stages
<1>5. written \subseteq Versions \union {Missing}
  BY DEF Init, NoSave, Versions
<1> QED BY <1>1, <1>2, <1>3, <1>4, <1>5 DEF Init, TypeOK

(* Every step keeps the types.                                             *)
LEMMA StepTypeOK ==
  ASSUME TypeOK, InThePast, Behind, [Next]_vars
  PROVE  TypeOK'
<1> USE DEF TypeOK
<1>1. ASSUME NEW p \in Processes, BeginEdit(p) PROVE TypeOK'
  BY <1>1 DEF BeginEdit, Idle, Stages, history
<1>2. ASSUME NEW p \in Processes, CheckGame(p) PROVE TypeOK'
  <2>1. CASE End(p) /\ UNCHANGED alone
    BY <1>2, <2>1 DEF CheckGame, End, Idle, Stages
  <2>2. CASE Go(p, "choose") /\ alone' = alone \union {p}
    BY <1>2, <2>2 DEF CheckGame, Go, Stages
  <2> QED BY <1>2, <2>1, <2>2 DEF CheckGame
<1>3. ASSUME NEW p \in Processes, BeginBackup(p) PROVE TypeOK'
  BY <1>3 DEF BeginBackup, Stages, history
<1>4. ASSUME NEW p \in Processes, BeginDeploy(p) PROVE TypeOK'
  BY <1>4 DEF BeginDeploy, Stages, history
<1>5. ASSUME NEW p \in Processes, Choose(p) PROVE TypeOK'
  <2>1. collided' \subseteq Clock
    BY <1>5 DEF Choose
  <2>2. op' = [op EXCEPT ![p] = [op[p] EXCEPT !.at = "make", !.stamp = now]]
    BY <1>5 DEF Choose
  <2>3. op' \in [Processes -> [at : Stages, edit : BOOLEAN, new : Versions \union {None},
                              stamp : Clock \union {None}, doomed : SUBSET Clock]]
    BY <2>2 DEF Stages
  <2> QED BY <1>5, <2>1, <2>3 DEF Choose
<1>6. ASSUME NEW p \in Processes, Skip(p) PROVE TypeOK'
  BY <1>6 DEF Skip, End, Idle, Stages, history
<1>7. ASSUME NEW p \in Processes, Make(p) PROVE TypeOK'
  BY <1>7 DEF Make, Go, Stages, NoSave, Save, history
<1>8. ASSUME NEW p \in Processes, CopyMeta(p) PROVE TypeOK'
  <2>1. op[p].stamp \in Clock
    BY <1>8 DEF CopyMeta, At, InThePast, Named, Copying
  <2>2. [backups[op[p].stamp] EXCEPT !.meta = profile.meta] \in Save
    BY <1>8, <2>1 DEF CopyMeta, Save
  <2> QED BY <1>8, <2>1, <2>2 DEF CopyMeta, Go, Stages, history
<1>9. ASSUME NEW p \in Processes, CopyData(p) PROVE TypeOK'
  <2>1. op[p].stamp \in Clock
    BY <1>9 DEF CopyData, At, InThePast, Named, Copying
  <2>2. [backups[op[p].stamp] EXCEPT !.data = profile.data] \in Save
    BY <1>9, <2>1 DEF CopyData, Save
  <2> QED BY <1>9, <2>1, <2>2 DEF CopyData, Go, Stages, history
<1>10. ASSUME NEW p \in Processes, List(p) PROVE TypeOK'
  BY <1>10 DEF List, Stages, Kept, history
<1>11. ASSUME NEW p \in Processes, Prune(p) PROVE TypeOK'
  BY <1>11 DEF Prune, Stages, history
<1>12. ASSUME NEW p \in Processes, BackedUp(p) PROVE TypeOK'
  <2>1. CASE Go(p, "replaceData")
    BY <1>12, <2>1 DEF BackedUp, Go, Stages, history
  <2>2. CASE End(p)
    BY <1>12, <2>2 DEF BackedUp, End, Idle, Stages, history
  <2> QED BY <1>12, <2>1, <2>2 DEF BackedUp
<1>13. ASSUME NEW p \in Processes, ReplaceData(p) PROVE TypeOK'
  <2>1. op[p].stamp \in Clock
    BY <1>13 DEF ReplaceData, At, InThePast, Named, Copied
  <2>2. count + 1 \in Versions
    BY <1>13 DEF ReplaceData, Versions
  <2>3. owed' \subseteq [at : Clock, save : Save]
    BY <1>13, <2>1 DEF ReplaceData
  <2>4. profile' \in Save
    BY <1>13, <2>2 DEF ReplaceData, Save
  <2> QED BY <1>13, <2>2, <2>3, <2>4 DEF ReplaceData, Go, Disturb, Stages
<1>14. ASSUME NEW p \in Processes, ReplaceMeta(p) PROVE TypeOK'
  <2>1. op[p].new \in Versions
    BY <1>14 DEF ReplaceMeta, Behind
  <2>2. profile' \in Save
    BY <1>14, <2>1 DEF ReplaceMeta, Save
  <2> QED BY <1>14, <2>2 DEF ReplaceMeta, End, Idle, Disturb, Stages
<1>15. ASSUME NEW p \in Processes, Stop(p) PROVE TypeOK'
  BY <1>15 DEF Stop, End, Idle, Stages
<1>16. CASE GameSaves
  <2>1. count + 1 \in Versions
    BY <1>16 DEF GameSaves, Versions
  <2> QED BY <1>16, <2>1 DEF GameSaves, Disturb, Save
<1>17. CASE GameUpdated
  BY <1>17 DEF GameUpdated, history
<1>18. CASE Tick
  BY <1>18 DEF Tick, Clock, history
<1>19. CASE UNCHANGED vars
  BY <1>19 DEF vars
<1> QED BY <1>1, <1>2, <1>3, <1>4, <1>5, <1>6, <1>7, <1>8, <1>9, <1>10, <1>11, <1>12, <1>13,
           <1>14, <1>15, <1>16, <1>17, <1>18, <1>19 DEF Next, OpStep

(***************************************************************************)
(* Retention.                                                              *)
(***************************************************************************)
(* A set with enough newer backups in it has enough newer backups.         *)
LEMMA EnoughMore ==
  ASSUME NEW S, NEW T, IsFiniteSet(T), S \subseteq T, Cardinality(S) >= Retention
  PROVE  Cardinality(T) >= Retention
<1>1. Cardinality(S) <= Cardinality(T) /\ IsFiniteSet(S)
  BY FS_Subset
<1>2. Cardinality(S) \in Nat /\ Cardinality(T) \in Nat
  BY <1>1, FS_CardinalityType
<1> QED BY <1>1, <1>2

(* The backups newer than a second are finitely many.                      *)
LEMMA NewerFinite ==
  ASSUME NEW s, NEW S \in SUBSET Clock
  PROVE  IsFiniteSet({t \in S : t > s})
<1>1. IsFiniteSet(Clock)
  BY FS_Interval DEF Clock
<1> QED BY <1>1, FS_Subset

(* No backup is newer than the clock, so this second's is not displaced.   *)
LEMMA NowNotDisplaced ==
  ASSUME TypeOK, InThePast
  PROVE  now \notin Displaced
<1>1. Newer(now) = {}
  BY DEF TypeOK, InThePast, Newer, Kept, Clock
<1>2. Cardinality(Newer(now)) = 0
  BY <1>1, FS_EmptySet
<1> QED BY <1>2 DEF Displaced

(* Copying a file into a backup leaves it a backup.                        *)
LEMMA CopyKeeps ==
  ASSUME TypeOK, Bookkeeping, NEW p \in Processes, CopyMeta(p) \/ CopyData(p)
  PROVE  Kept \subseteq Kept'
<1>1. op[p].stamp \in Clock /\ backups[op[p].stamp] \in Save
  BY DEF CopyMeta, CopyData, At, Bookkeeping, InThePast, Named, Copying, TypeOK
<1>2. /\ [backups[op[p].stamp] EXCEPT !.meta = profile.meta] \in Save
      /\ [backups[op[p].stamp] EXCEPT !.data = profile.data] \in Save
  BY <1>1 DEF Save, TypeOK
<1>3. None \notin Save
  BY DEF Save, Versions
<1> QED BY <1>1, <1>2, <1>3 DEF CopyMeta, CopyData, TypeOK, Kept

(* A step makes backups, or removes one that is displaced.                 *)
LEMMA KeptSteps ==
  ASSUME TypeOK, Bookkeeping, [Next]_vars
  PROVE  \/ Kept \subseteq Kept'
         \/ \E t \in Displaced : Kept' = Kept \ {t}
<1>1. ASSUME NEW p \in Processes, Make(p) PROVE Kept \subseteq Kept'
  BY <1>1 DEF Make, TypeOK, Kept, NoSave
<1>2. ASSUME NEW p \in Processes, CopyMeta(p) \/ CopyData(p) PROVE Kept \subseteq Kept'
  BY <1>2, CopyKeeps
<1>4. ASSUME NEW p \in Processes, Prune(p) PROVE \E t \in Displaced : Kept' = Kept \ {t}
  <2>1. PICK t \in op[p].doomed : backups' = [backups EXCEPT ![t] = None]
    BY <1>4 DEF Prune
  <2>2. t \in Displaced /\ t \in Clock
    BY <2>1 DEF Bookkeeping, Spared, Displaced
  <2>3. Kept' = Kept \ {t}
    BY <2>1, <2>2 DEF TypeOK, Kept
  <2> QED BY <2>2, <2>3
<1>5. CASE UNCHANGED backups
  BY <1>5 DEF Kept
<1>6. ASSUME NEW p \in Processes, OpStep(p) PROVE \/ Make(p) \/ CopyMeta(p) \/ CopyData(p) \/ Prune(p)
                                                  \/ UNCHANGED backups
  BY <1>6 DEF OpStep, BeginEdit, CheckGame, BeginBackup, BeginDeploy, Choose, Skip, List, BackedUp,
              ReplaceData, ReplaceMeta, Stop
<1>7. CASE GameSaves \/ GameUpdated \/ Tick \/ UNCHANGED vars
  BY <1>5, <1>7 DEF GameSaves, GameUpdated, Tick, vars
<1> QED BY <1>1, <1>2, <1>4, <1>5, <1>6, <1>7 DEF Next

(* What is displaced stays displaced: what prune removes had enough newer  *)
(* backups itself.                                                         *)
LEMMA DisplacedStays ==
  ASSUME TypeOK, Bookkeeping, [Next]_vars
  PROVE  Displaced \subseteq Displaced'
<1> SUFFICES ASSUME NEW s \in Clock, Cardinality(Newer(s)) >= Retention
             PROVE  Cardinality(Newer(s)') >= Retention
  BY DEF Displaced
<1>1. Kept' \in SUBSET Clock
  BY DEF Kept
<1>2. IsFiniteSet(Newer(s)')
  BY <1>1, NewerFinite DEF Newer
<1>3. CASE Kept \subseteq Kept'
  <2>1. Newer(s) \subseteq Newer(s)'
    BY <1>3 DEF Newer
  <2> QED BY <1>2, <2>1, EnoughMore
<1>4. ASSUME NEW t \in Displaced, Kept' = Kept \ {t}
      PROVE  Cardinality(Newer(s)') >= Retention
  <2>1. t \in Clock /\ Cardinality(Newer(t)) >= Retention
    BY DEF Displaced
  <2>2. CASE t > s
    <3>1. Newer(t) \subseteq Newer(s)'
      BY <1>4, <2>1, <2>2 DEF Newer, Kept, Clock
    <3> QED BY <1>2, <2>1, <3>1, EnoughMore
  <2>3. CASE ~(t > s)
    <3>1. Newer(s) \subseteq Newer(s)'
      BY <1>4, <2>3 DEF Newer
    <3> QED BY <1>2, <3>1, EnoughMore
  <2> QED BY <2>2, <2>3
<1> QED BY <1>3, <1>4, KeptSteps
(***************************************************************************)
(* Bookkeeping.                                                            *)
(***************************************************************************)
(* Nothing is under way in the first state.                                *)
LEMMA InitBookkeeping == Init => Bookkeeping /\ OriginalsStay /\ ManifestFollows
<1> SUFFICES ASSUME Init PROVE Bookkeeping /\ OriginalsStay /\ ManifestFollows
  OBVIOUS
<1>1. \A p \in Processes : op[p].at = "idle" /\ op[p].doomed = {}
  BY DEF Init, Idle
<1>2. InThePast
  BY <1>1 DEF Init, InThePast, Named, Copying, Copied, Kept, Clock
<1>3. Behind /\ Spared /\ OwnFolder /\ Preserved
  BY <1>1 DEF Init, Behind, Spared, OwnFolder, Preserved, Named, Copying, Copied, At
<1>4. OriginalsStay /\ ManifestFollows
  BY DEF Init, OriginalsStay, ManifestFollows, NoSave
<1> QED BY <1>2, <1>3, <1>4 DEF Bookkeeping

(* A folder is named for the second the clock shows.                       *)
LEMMA StepInThePast ==
  ASSUME TypeOK, Bookkeeping, [Next]_vars
  PROVE  InThePast'
<1> USE DEF Bookkeeping, InThePast, TypeOK, Kept, At, Named, Copying, Copied, Clock
<1>1. ASSUME NEW p \in Processes, BeginEdit(p) PROVE InThePast'
  BY <1>1 DEF BeginEdit, Idle, history
<1>2. ASSUME NEW p \in Processes, CheckGame(p) PROVE InThePast'
  BY <1>2 DEF CheckGame, End, Go, Idle
<1>3. ASSUME NEW p \in Processes, BeginBackup(p) PROVE InThePast'
  BY <1>3 DEF BeginBackup, history
<1>4. ASSUME NEW p \in Processes, BeginDeploy(p) PROVE InThePast'
  BY <1>4 DEF BeginDeploy, history
<1>5. ASSUME NEW p \in Processes, Choose(p) PROVE InThePast'
  BY <1>5 DEF Choose
<1>6. ASSUME NEW p \in Processes, Skip(p) PROVE InThePast'
  BY <1>6 DEF Skip, End, Idle, history
<1>7. ASSUME NEW p \in Processes, Make(p) PROVE InThePast'
  BY <1>7 DEF Make, Go, NoSave, history
<1>8. ASSUME NEW p \in Processes, CopyMeta(p) PROVE InThePast'
  BY <1>8 DEF CopyMeta, Go, history
<1>9. ASSUME NEW p \in Processes, CopyData(p) PROVE InThePast'
  BY <1>9 DEF CopyData, Go, history
<1>10. ASSUME NEW p \in Processes, List(p) PROVE InThePast'
  BY <1>10 DEF List, history
<1>11. ASSUME NEW p \in Processes, Prune(p) PROVE InThePast'
  BY <1>11 DEF Prune, history
<1>12. ASSUME NEW p \in Processes, BackedUp(p) PROVE InThePast'
  BY <1>12 DEF BackedUp, Go, End, Idle, history
<1>13. ASSUME NEW p \in Processes, ReplaceData(p) PROVE InThePast'
  BY <1>13 DEF ReplaceData, Disturb
<1>14. ASSUME NEW p \in Processes, ReplaceMeta(p) PROVE InThePast'
  BY <1>14 DEF ReplaceMeta, End, Idle, Disturb
<1>15. ASSUME NEW p \in Processes, Stop(p) PROVE InThePast'
  BY <1>15 DEF Stop, End, Idle
<1>16. CASE GameSaves
  BY <1>16 DEF GameSaves, Disturb
<1>17. CASE GameUpdated
  BY <1>17 DEF GameUpdated, history
<1>18. CASE Tick
  BY <1>18 DEF Tick, history
<1>19. CASE UNCHANGED vars
  BY <1>19 DEF vars
<1> QED BY <1>1, <1>2, <1>3, <1>4, <1>5, <1>6, <1>7, <1>8, <1>9, <1>10, <1>11, <1>12, <1>13, <1>14, <1>15, <1>16, <1>17, <1>18, <1>19 DEF Next, OpStep

(* What the data file has had it has had.                                  *)
LEMMA StepBehind ==
  ASSUME TypeOK, Bookkeeping, [Next]_vars
  PROVE  Behind'
<1> USE DEF Bookkeeping, Behind, TypeOK, At, Versions
<1>1. ASSUME NEW p \in Processes, BeginEdit(p) PROVE Behind'
  BY <1>1 DEF BeginEdit, Idle, history
<1>2. ASSUME NEW p \in Processes, CheckGame(p) PROVE Behind'
  BY <1>2 DEF CheckGame, End, Go, Idle
<1>3. ASSUME NEW p \in Processes, BeginBackup(p) PROVE Behind'
  BY <1>3 DEF BeginBackup, history
<1>4. ASSUME NEW p \in Processes, BeginDeploy(p) PROVE Behind'
  BY <1>4 DEF BeginDeploy, history
<1>5. ASSUME NEW p \in Processes, Choose(p) PROVE Behind'
  BY <1>5 DEF Choose
<1>6. ASSUME NEW p \in Processes, Skip(p) PROVE Behind'
  BY <1>6 DEF Skip, End, Idle, history
<1>7. ASSUME NEW p \in Processes, Make(p) PROVE Behind'
  BY <1>7 DEF Make, Go, NoSave, history
<1>8. ASSUME NEW p \in Processes, CopyMeta(p) PROVE Behind'
  BY <1>8 DEF CopyMeta, Go, history
<1>9. ASSUME NEW p \in Processes, CopyData(p) PROVE Behind'
  BY <1>9 DEF CopyData, Go, history
<1>10. ASSUME NEW p \in Processes, List(p) PROVE Behind'
  BY <1>10 DEF List, history
<1>11. ASSUME NEW p \in Processes, Prune(p) PROVE Behind'
  BY <1>11 DEF Prune, history
<1>12. ASSUME NEW p \in Processes, BackedUp(p) PROVE Behind'
  BY <1>12 DEF BackedUp, Go, End, Idle, history
<1>13. ASSUME NEW p \in Processes, ReplaceData(p) PROVE Behind'
  BY <1>13 DEF ReplaceData, Disturb
<1>14. ASSUME NEW p \in Processes, ReplaceMeta(p) PROVE Behind'
  BY <1>14 DEF ReplaceMeta, End, Idle, Disturb
<1>15. ASSUME NEW p \in Processes, Stop(p) PROVE Behind'
  BY <1>15 DEF Stop, End, Idle
<1>16. CASE GameSaves
  BY <1>16 DEF GameSaves, Disturb
<1>17. CASE GameUpdated
  BY <1>17 DEF GameUpdated, history
<1>18. CASE Tick
  BY <1>18 DEF Tick, history
<1>19. CASE UNCHANGED vars
  BY <1>19 DEF vars
<1> QED BY <1>1, <1>2, <1>3, <1>4, <1>5, <1>6, <1>7, <1>8, <1>9, <1>10, <1>11, <1>12, <1>13, <1>14, <1>15, <1>16, <1>17, <1>18, <1>19 DEF Next, OpStep


(* What is doomed is displaced, and only that disappears.                  *)
LEMMA StepSpared ==
  ASSUME TypeOK, Bookkeeping, [Next]_vars
  PROVE  Spared'
<1> USE DEF Bookkeeping, InThePast, Spared, TypeOK, At, Named, Copying, Copied
<1>d. Displaced \subseteq Displaced'
  BY DisplacedStays
<1>1. ASSUME NEW p \in Processes, BeginEdit(p) PROVE Spared'
  BY <1>1, <1>d DEF BeginEdit, Idle, history
<1>2. ASSUME NEW p \in Processes, CheckGame(p) PROVE Spared'
  BY <1>2, <1>d DEF CheckGame, End, Go, Idle
<1>3. ASSUME NEW p \in Processes, BeginBackup(p) PROVE Spared'
  BY <1>3, <1>d DEF BeginBackup, history
<1>4. ASSUME NEW p \in Processes, BeginDeploy(p) PROVE Spared'
  BY <1>4, <1>d DEF BeginDeploy, history
<1>5. ASSUME NEW p \in Processes, Choose(p) PROVE Spared'
  BY <1>5, <1>d DEF Choose
<1>6. ASSUME NEW p \in Processes, Skip(p) PROVE Spared'
  BY <1>6, <1>d DEF Skip, End, Idle, history
<1>7. ASSUME NEW p \in Processes, Make(p) PROVE Spared'
  BY <1>7, <1>d DEF Make, Go, NoSave, history
<1>8. ASSUME NEW p \in Processes, CopyMeta(p) PROVE Spared'
  <2>1. Kept \subseteq Kept'
    BY <1>8, CopyKeeps
  <2>2. \A s \in Clock : backups[s] # None => backups'[s] # None
    BY <2>1 DEF Kept
  <2> QED BY <1>8, <1>d, <2>2 DEF CopyMeta, Go
<1>9. ASSUME NEW p \in Processes, CopyData(p) PROVE Spared'
  <2>1. Kept \subseteq Kept'
    BY <1>9, CopyKeeps
  <2>2. \A s \in Clock : backups[s] # None => backups'[s] # None
    BY <2>1 DEF Kept
  <2> QED BY <1>9, <1>d, <2>2 DEF CopyData, Go
<1>10. ASSUME NEW p \in Processes, List(p) PROVE Spared'
  BY <1>10, <1>d DEF List, history
<1>11. ASSUME NEW p \in Processes, Prune(p) PROVE Spared'
  BY <1>11, <1>d DEF Prune, history
<1>12. ASSUME NEW p \in Processes, BackedUp(p) PROVE Spared'
  BY <1>12, <1>d DEF BackedUp, Go, End, Idle, history
<1>13. ASSUME NEW p \in Processes, ReplaceData(p) PROVE Spared'
  BY <1>13, <1>d DEF ReplaceData, Disturb
<1>14. ASSUME NEW p \in Processes, ReplaceMeta(p) PROVE Spared'
  BY <1>14, <1>d DEF ReplaceMeta, End, Idle, Disturb
<1>15. ASSUME NEW p \in Processes, Stop(p) PROVE Spared'
  BY <1>15, <1>d DEF Stop, End, Idle
<1>16. CASE GameSaves
  BY <1>16, <1>d DEF GameSaves, Disturb
<1>17. CASE GameUpdated
  BY <1>17, <1>d DEF GameUpdated, history
<1>18. CASE Tick
  BY <1>18, <1>d DEF Tick, history
<1>19. CASE UNCHANGED vars
  BY <1>19, <1>d DEF vars
<1> QED BY <1>1, <1>2, <1>3, <1>4, <1>5, <1>6, <1>7, <1>8, <1>9, <1>10, <1>11, <1>12, <1>13, <1>14, <1>15, <1>16, <1>17, <1>18, <1>19 DEF Next, OpStep

(* A second with a folder is chosen by nobody else.                        *)
LEMMA StepOwnFolder ==
  ASSUME TypeOK, Bookkeeping, OriginalsStay, [Next]_vars
  PROVE  OwnFolder'
<1> USE DEF Bookkeeping, InThePast, Spared, OwnFolder, TypeOK, At, Named, Copying, Copied
<1>d. Displaced \subseteq Displaced'
  BY DisplacedStays
<1>1. ASSUME NEW p \in Processes, BeginEdit(p) PROVE OwnFolder'
  BY <1>1, <1>d DEF BeginEdit, Idle, history
<1>2. ASSUME NEW p \in Processes, CheckGame(p) PROVE OwnFolder'
  BY <1>2, <1>d DEF CheckGame, End, Go, Idle
<1>3. ASSUME NEW p \in Processes, BeginBackup(p) PROVE OwnFolder'
  BY <1>3, <1>d DEF BeginBackup, history
<1>4. ASSUME NEW p \in Processes, BeginDeploy(p) PROVE OwnFolder'
  BY <1>4, <1>d DEF BeginDeploy, history
<1>5. ASSUME NEW p \in Processes, Choose(p) PROVE OwnFolder'
  <2>1. now \notin Displaced
    BY NowNotDisplaced
  <2>3. ASSUME NEW q \in Processes \ {p}, op[q].at \in Named, op[q].stamp = now
        PROVE  now \in collided'
    BY <1>5, <2>1, <2>3 DEF Choose
  <2>4. ASSUME NEW o \in owed, o.at = now PROVE now \in collided
    <3>1. o.save \in Save /\ None \notin Save
      BY DEF Save, Versions
    <3> QED BY <1>5, <2>1, <2>4, <3>1 DEF Choose, OriginalsStay
  <2>5. collided \subseteq collided'
    BY <1>5 DEF Choose
  <2>6. /\ op' = [op EXCEPT ![p] = [op[p] EXCEPT !.at = "make", !.stamp = now]]
        /\ owed' = owed
    BY <1>5 DEF Choose
  <2> QED BY <2>3, <2>4, <2>5, <2>6
<1>6. ASSUME NEW p \in Processes, Skip(p) PROVE OwnFolder'
  BY <1>6, <1>d DEF Skip, End, Idle, history
<1>7. ASSUME NEW p \in Processes, Make(p) PROVE OwnFolder'
  BY <1>7, <1>d DEF Make, Go, NoSave, history
<1>8. ASSUME NEW p \in Processes, CopyMeta(p) PROVE OwnFolder'
  BY <1>8, <1>d DEF CopyMeta, Go, history
<1>9. ASSUME NEW p \in Processes, CopyData(p) PROVE OwnFolder'
  BY <1>9, <1>d DEF CopyData, Go, history
<1>10. ASSUME NEW p \in Processes, List(p) PROVE OwnFolder'
  BY <1>10, <1>d DEF List, history
<1>11. ASSUME NEW p \in Processes, Prune(p) PROVE OwnFolder'
  BY <1>11, <1>d DEF Prune, history
<1>12. ASSUME NEW p \in Processes, BackedUp(p) PROVE OwnFolder'
  BY <1>12, <1>d DEF BackedUp, Go, End, Idle, history
<1>13. ASSUME NEW p \in Processes, ReplaceData(p) PROVE OwnFolder'
  BY <1>13, <1>d DEF ReplaceData, Disturb
<1>14. ASSUME NEW p \in Processes, ReplaceMeta(p) PROVE OwnFolder'
  BY <1>14, <1>d DEF ReplaceMeta, End, Idle, Disturb
<1>15. ASSUME NEW p \in Processes, Stop(p) PROVE OwnFolder'
  BY <1>15, <1>d DEF Stop, End, Idle
<1>16. CASE GameSaves
  BY <1>16, <1>d DEF GameSaves, Disturb
<1>17. CASE GameUpdated
  BY <1>17, <1>d DEF GameUpdated, history
<1>18. CASE Tick
  BY <1>18, <1>d DEF Tick, history
<1>19. CASE UNCHANGED vars
  BY <1>19, <1>d DEF vars
<1> QED BY <1>1, <1>2, <1>3, <1>4, <1>5, <1>6, <1>7, <1>8, <1>9, <1>10, <1>11, <1>12, <1>13, <1>14, <1>15, <1>16, <1>17, <1>18, <1>19 DEF Next, OpStep

(* Who is alone copies what it will replace.                               *)
LEMMA StepPreserved ==
  ASSUME TypeOK, Bookkeeping, [Next]_vars
  PROVE  Preserved'
<1> USE DEF Bookkeeping, InThePast, OwnFolder, Spared, Preserved, TypeOK, At, Named, Copying, Copied
<1>d. Displaced \subseteq Displaced'
  BY DisplacedStays
<1>1. ASSUME NEW p \in Processes, BeginEdit(p) PROVE Preserved'
  BY <1>1, <1>d DEF BeginEdit, Idle, history
<1>2. ASSUME NEW p \in Processes, CheckGame(p) PROVE Preserved'
  BY <1>2, <1>d DEF CheckGame, End, Go, Idle
<1>3. ASSUME NEW p \in Processes, BeginBackup(p) PROVE Preserved'
  BY <1>3, <1>d DEF BeginBackup, history
<1>4. ASSUME NEW p \in Processes, BeginDeploy(p) PROVE Preserved'
  BY <1>4, <1>d DEF BeginDeploy, history
<1>5. ASSUME NEW p \in Processes, Choose(p) PROVE Preserved'
  BY <1>5, <1>d DEF Choose
<1>6. ASSUME NEW p \in Processes, Skip(p) PROVE Preserved'
  BY <1>6, <1>d DEF Skip, End, Idle, history
<1>7. ASSUME NEW p \in Processes, Make(p) PROVE Preserved'
  BY <1>7, <1>d DEF Make, Go, NoSave, history
<1>8. ASSUME NEW p \in Processes, CopyMeta(p) PROVE Preserved'
  BY <1>8, <1>d DEF CopyMeta, Go, history
<1>9. ASSUME NEW p \in Processes, CopyData(p) PROVE Preserved'
  <2>1. op[p].stamp \in Clock /\ backups[op[p].stamp] \in Save
    BY <1>9 DEF CopyData
  <2>2. backups'[op[p].stamp] = [backups[op[p].stamp] EXCEPT !.data = profile.data]
    BY <1>9, <2>1 DEF CopyData
  <2>3. backups[op[p].stamp].meta = profile.meta => backups'[op[p].stamp] = profile
    BY <2>1, <2>2 DEF Save
  <2>4. ASSUME NEW q \in alone, op[q].at \in Named, q # p,
               op[q].stamp \notin Displaced' \union collided
        PROVE  backups'[op[q].stamp] = backups[op[q].stamp]
    BY <1>9, <1>d, <2>4 DEF CopyData
  <2>5. /\ op' = [op EXCEPT ![p].at = "list"]
        /\ alone' = alone /\ collided' = collided /\ profile' = profile
    BY <1>9 DEF CopyData, Go, history
  <2> QED BY <1>9, <1>d, <2>3, <2>4, <2>5 DEF CopyData
<1>10. ASSUME NEW p \in Processes, List(p) PROVE Preserved'
  BY <1>10, <1>d DEF List, history
<1>11. ASSUME NEW p \in Processes, Prune(p) PROVE Preserved'
  BY <1>11, <1>d DEF Prune, history
<1>12. ASSUME NEW p \in Processes, BackedUp(p) PROVE Preserved'
  BY <1>12, <1>d DEF BackedUp, Go, End, Idle, history
<1>13. ASSUME NEW p \in Processes, ReplaceData(p) PROVE Preserved'
  BY <1>13, <1>d DEF ReplaceData, Disturb
<1>14. ASSUME NEW p \in Processes, ReplaceMeta(p) PROVE Preserved'
  BY <1>14, <1>d DEF ReplaceMeta, End, Idle, Disturb
<1>15. ASSUME NEW p \in Processes, Stop(p) PROVE Preserved'
  BY <1>15, <1>d DEF Stop, End, Idle
<1>16. CASE GameSaves
  BY <1>16, <1>d DEF GameSaves, Disturb
<1>17. CASE GameUpdated
  BY <1>17, <1>d DEF GameUpdated, history
<1>18. CASE Tick
  BY <1>18, <1>d DEF Tick, history
<1>19. CASE UNCHANGED vars
  BY <1>19, <1>d DEF vars
<1> QED BY <1>1, <1>2, <1>3, <1>4, <1>5, <1>6, <1>7, <1>8, <1>9, <1>10, <1>11, <1>12, <1>13, <1>14, <1>15, <1>16, <1>17, <1>18, <1>19 DEF Next, OpStep

(* A folder that holds an original is written by nobody.                   *)
LEMMA StepOriginalsStay ==
  ASSUME TypeOK, Bookkeeping, OriginalsStay, [Next]_vars
  PROVE  OriginalsStay'
<1> USE DEF Bookkeeping, InThePast, OwnFolder, Spared, Preserved, OriginalsStay, TypeOK, At, Named, Copying, Copied
<1>d. Displaced \subseteq Displaced'
  BY DisplacedStays
<1>1. ASSUME NEW p \in Processes, BeginEdit(p) PROVE OriginalsStay'
  BY <1>1, <1>d DEF BeginEdit, Idle, history
<1>2. ASSUME NEW p \in Processes, CheckGame(p) PROVE OriginalsStay'
  BY <1>2, <1>d DEF CheckGame, End, Go, Idle
<1>3. ASSUME NEW p \in Processes, BeginBackup(p) PROVE OriginalsStay'
  BY <1>3, <1>d DEF BeginBackup, history
<1>4. ASSUME NEW p \in Processes, BeginDeploy(p) PROVE OriginalsStay'
  BY <1>4, <1>d DEF BeginDeploy, history
<1>5. ASSUME NEW p \in Processes, Choose(p) PROVE OriginalsStay'
  BY <1>5, <1>d DEF Choose
<1>6. ASSUME NEW p \in Processes, Skip(p) PROVE OriginalsStay'
  BY <1>6, <1>d DEF Skip, End, Idle, history
<1>7. ASSUME NEW p \in Processes, Make(p) PROVE OriginalsStay'
  BY <1>7, <1>d DEF Make, Go, NoSave, history
<1>8. ASSUME NEW p \in Processes, CopyMeta(p) PROVE OriginalsStay'
  BY <1>8, <1>d DEF CopyMeta, Go, history
<1>9. ASSUME NEW p \in Processes, CopyData(p) PROVE OriginalsStay'
  BY <1>9, <1>d DEF CopyData, Go, history
<1>10. ASSUME NEW p \in Processes, List(p) PROVE OriginalsStay'
  BY <1>10, <1>d DEF List, history
<1>11. ASSUME NEW p \in Processes, Prune(p) PROVE OriginalsStay'
  BY <1>11, <1>d DEF Prune, history
<1>12. ASSUME NEW p \in Processes, BackedUp(p) PROVE OriginalsStay'
  BY <1>12, <1>d DEF BackedUp, Go, End, Idle, history
<1>13. ASSUME NEW p \in Processes, ReplaceData(p) PROVE OriginalsStay'
  BY <1>13, <1>d DEF ReplaceData, Disturb
<1>14. ASSUME NEW p \in Processes, ReplaceMeta(p) PROVE OriginalsStay'
  BY <1>14, <1>d DEF ReplaceMeta, End, Idle, Disturb
<1>15. ASSUME NEW p \in Processes, Stop(p) PROVE OriginalsStay'
  BY <1>15, <1>d DEF Stop, End, Idle
<1>16. CASE GameSaves
  BY <1>16, <1>d DEF GameSaves, Disturb
<1>17. CASE GameUpdated
  BY <1>17, <1>d DEF GameUpdated, history
<1>18. CASE Tick
  BY <1>18, <1>d DEF Tick, history
<1>19. CASE UNCHANGED vars
  BY <1>19, <1>d DEF vars
<1> QED BY <1>1, <1>2, <1>3, <1>4, <1>5, <1>6, <1>7, <1>8, <1>9, <1>10, <1>11, <1>12, <1>13, <1>14, <1>15, <1>16, <1>17, <1>18, <1>19 DEF Next, OpStep

(***************************************************************************)
(* The theorems.                                                           *)
(***************************************************************************)
(* The manifest is renamed into place after the data it describes.         *)
LEMMA StepManifestFollows ==
  ASSUME TypeOK, Bookkeeping, ManifestFollows, [Next]_vars
  PROVE  ManifestFollows'
<1> USE DEF ManifestFollows
<1>1. ASSUME NEW p \in Processes, ReplaceData(p) PROVE ManifestFollows'
  BY <1>1 DEF ReplaceData, TypeOK, Save
<1>2. ASSUME NEW p \in Processes, ReplaceMeta(p) PROVE ManifestFollows'
  BY <1>2 DEF ReplaceMeta, TypeOK, Save, Bookkeeping, Behind
<1>3. CASE GameSaves
  BY <1>3 DEF GameSaves
<1>4. CASE UNCHANGED <<profile, written>>
  BY <1>4
<1>5. ASSUME NEW p \in Processes, OpStep(p)
      PROVE  ReplaceData(p) \/ ReplaceMeta(p) \/ UNCHANGED <<profile, written>>
  BY <1>5 DEF OpStep, BeginEdit, CheckGame, BeginBackup, BeginDeploy, Choose, Skip, Make, CopyMeta,
              CopyData, List, Prune, BackedUp, Stop, history
<1>6. CASE GameUpdated \/ Tick \/ UNCHANGED vars
  BY <1>4, <1>6 DEF GameUpdated, Tick, history, vars
<1> QED BY <1>1, <1>2, <1>3, <1>4, <1>5, <1>6 DEF Next

(* Every reachable state is well typed, the stages of the operations agree *)
(* with the folders on disk, and originals and manifests are as they       *)
(* should be: one inductive invariant.                                     *)
LEMMA Inductive == Spec => [](TypeOK /\ Bookkeeping /\ OriginalsStay /\ ManifestFollows)
<1>1. Init => TypeOK /\ Bookkeeping /\ OriginalsStay /\ ManifestFollows
  BY InitTypeOK, InitBookkeeping
<1>2. TypeOK /\ Bookkeeping /\ OriginalsStay /\ ManifestFollows /\ [Next]_vars
        => (TypeOK /\ Bookkeeping /\ OriginalsStay /\ ManifestFollows)'
  <2> SUFFICES ASSUME TypeOK, Bookkeeping, OriginalsStay, ManifestFollows, [Next]_vars
               PROVE  (TypeOK /\ Bookkeeping /\ OriginalsStay /\ ManifestFollows)'
    OBVIOUS
  <2>1. TypeOK'
    BY StepTypeOK DEF Bookkeeping
  <2>2. Bookkeeping'
    BY StepInThePast, StepBehind, StepSpared, StepOwnFolder, StepPreserved DEF Bookkeeping
  <2> QED BY <2>1, <2>2, StepOriginalsStay, StepManifestFollows
<1> QED BY <1>1, <1>2, PTL DEF Spec

(* Where each operation stands agrees with the folders on disk, however    *)
(* many processes there are and wherever they stop.                        *)
THEOREM Bookkept == Spec => [](TypeOK /\ Bookkeeping)
BY Inductive, PTL

(* The save an edit replaced, and that nobody else wrote meanwhile, stays  *)
(* in that edit's backup until Retention newer ones displace it.           *)
THEOREM OriginalsKept == Spec => []OriginalsStay
BY Inductive, PTL

(* The manifest of a save never describes data that was not there.         *)
THEOREM ManifestNeverAhead == Spec => []ManifestFollows
BY Inductive, PTL
===============================================================================
