---------------------------- MODULE BuildRunProofs ----------------------------
(***************************************************************************)
(* Theorems about BuildRun, for any plan, any number of workers and of     *)
(* builds. See README.md for the argument.                                 *)
(***************************************************************************)
EXTENDS BuildRun, TLAPS

USE PlanAssumption, NoneAssumption

(***************************************************************************)
(* Types.                                                                  *)
(***************************************************************************)
LEMMA EmptyFolderType == EmptyFolder \in Folder
BY DEF EmptyFolder, Folder

(* The document of a target and its retry without structural edits.        *)
LEMMA FullType ==
  ASSUME NEW t \in Targets, run \in Runs
  PROVE  Full(t) \in Docs /\ Full(t) # None /\ Safe(t) \in Docs /\ Safe(t) # None
BY DEF Full, Safe, Docs, Kinds, Targets

(* A partial removal or mirror of a mod folder is a mod folder.            *)
LEMMA RemainsType ==
  ASSUME NEW folder \in Folder \union {None}, NEW r \in Remains(folder)
  PROVE  r \in Folder \union {None}
BY DEF Remains, Folder

(* Mirroring the globals keeps a mod folder a mod folder.                  *)
LEMMA MirroredType ==
  ASSUME NEW folder \in Folder, NEW r \in Mirrored(folder)
  PROVE  r \in Folder
BY DEF Mirrored, Folder

(* The first state is well typed and no worker is at work.                 *)
LEMMA InitTypeOK == Init => TypeOK /\ Bookkeeping
<1> SUFFICES ASSUME Init PROVE TypeOK /\ Bookkeeping
  OBVIOUS
<1>1. accepts \subseteq Merge
  BY DEF Init, Merge, Targets, Kinds
<1>2. worker \in [Workers -> [at : Stages, doc : Docs \union {None}]]
  BY DEF Init, Gone, Stages
<1>3. outcome \in [Targets -> {"none", "noSource", "built", "degraded", "dropped"}]
  BY DEF Init
<1>4. mxml \in [Internals -> Docs \union {None}] /\ tmp \in [Internals -> Docs \union {None}]
  BY DEF Init, NoFiles
<1>5. run \in 0..MaxRuns /\ next \in 1..(Count + 1)
  BY DEF Init
<1>6. TypeOK
  BY <1>1, <1>2, <1>3, <1>4, <1>5 DEF Init, TypeOK, Places
<1>7. Bookkeeping
  BY DEF Init, Bookkeeping, AtWork, Busy, Standing, Aside, Gone
<1> QED BY <1>6, <1>7

(* What a step on one worker keeps of the types.                           *)
LEMMA SetWorkerType ==
  ASSUME TypeOK, NEW w \in Workers, NEW at \in Stages, NEW doc \in Docs \union {None},
         SetWorker(w, at, doc)
  PROVE  worker' \in [Workers -> [at : Stages, doc : Docs \union {None}]]
BY DEF TypeOK, SetWorker

(* What a report keeps of the types.                                       *)
LEMMA ReportType ==
  ASSUME TypeOK, NEW t \in Targets,
         NEW how \in {"none", "noSource", "built", "degraded", "dropped"}, Report(t, how)
  PROVE  outcome' \in [Targets -> {"none", "noSource", "built", "degraded", "dropped"}]
BY DEF TypeOK, Report

(* A worker at work is at a target with a path, in a folder that stands.   *)
LEMMA BusyWorker ==
  ASSUME TypeOK, Bookkeeping, NEW w \in Workers, Busy(w)
  PROVE  /\ pc = "process" /\ modRoot \in Folder /\ run \in Runs
         /\ worker[w].doc \in Docs /\ worker[w].doc.target \in Targets
         /\ Path(w) \in Internals
<1>1. worker[w].doc \in Docs
  BY DEF TypeOK, Bookkeeping, AtWork
<1>2. worker[w].doc.target \in Targets
  BY <1>1 DEF Docs
<1>3. pc = "process" /\ InternalOf[worker[w].doc.target] # None
  BY DEF Bookkeeping, AtWork
<1>4. Path(w) \in Internals
  BY <1>2, <1>3 DEF Path
<1>5. modRoot \in Folder /\ run \in Runs
  BY <1>3 DEF TypeOK, Bookkeeping, Standing, Runs
<1> QED BY <1>1, <1>2, <1>3, <1>4, <1>5

(* A failed compile, retried or reported, keeps the types.                 *)
LEMMA FailedTypes ==
  ASSUME TypeOK, Bookkeeping, NEW w \in Workers, Busy(w), CompileFailed(w)
  PROVE  TypeOK'
<1>1. /\ worker[w].doc.target \in Targets
      /\ Safe(worker[w].doc.target) \in Docs
  BY BusyWorker, FullType
<1>2. worker' \in [Workers -> [at : Stages, doc : Docs \union {None}]]
  <2>1. CASE Retryable(worker[w].doc)
    BY <2>1, <1>1, SetWorkerType DEF CompileFailed, Stages
  <2>2. CASE ~Retryable(worker[w].doc)
    BY <2>2, SetWorkerType DEF CompileFailed, Stages
  <2> QED BY <2>1, <2>2
<1>3. outcome' \in [Targets -> {"none", "noSource", "built", "degraded", "dropped"}]
  <2>1. CASE Retryable(worker[w].doc)
    BY <2>1 DEF CompileFailed, TypeOK
  <2>2. CASE ~Retryable(worker[w].doc)
    BY <2>2, <1>1, ReportType DEF CompileFailed
  <2> QED BY <2>1, <2>2
<1> QED BY <1>2, <1>3 DEF TypeOK, CompileFailed, folders, history

(* Every step keeps the types.                                             *)
LEMMA StepTypeOK ==
  ASSUME TypeOK, Bookkeeping, [Next]_vars
  PROVE  TypeOK'
<1>1. CASE Start
  <2>1. worker' \in [Workers -> [at : Stages, doc : Docs \union {None}]]
    BY <1>1 DEF Start, Waiting, Stages
  <2>2. outcome' \in [Targets -> {"none", "noSource", "built", "degraded", "dropped"}]
    BY <1>1 DEF Start
  <2>3. run' \in 0..MaxRuns /\ next' \in 1..(Count + 1)
    BY <1>1 DEF Start, TypeOK
  <2> QED BY <1>1, <2>1, <2>2, <2>3 DEF Start, TypeOK, folders, Places
<1>2. CASE ClearPrev
  BY <1>2 DEF ClearPrev, TypeOK, pool, history, Places
<1>3. CASE SetAside
  BY <1>3 DEF SetAside, TypeOK, pool, history, Places
<1>4. CASE MakeDirs
  BY <1>4, EmptyFolderType DEF MakeDirs, TypeOK, pool, history, Places, NoFiles
<1>5. CASE CloseJobs
  BY <1>5 DEF CloseJobs, TypeOK, folders, history
<1>6. CASE Collect
  BY <1>6 DEF Collect, TypeOK, folders, pool, history, Places
<1>7. CASE Discard
  BY <1>7 DEF Discard, TypeOK, pool, history, Places
<1>8. CASE PutBack
  BY <1>8 DEF PutBack, TypeOK, pool, Places
<1>9. CASE MirrorGlobals
  <2>1. modRoot \in Folder
    BY <1>9 DEF MirrorGlobals, TypeOK, Bookkeeping, Standing
  <2>2. modRoot' \in Folder
    BY <1>9, <2>1 DEF MirrorGlobals, Folder
  <2> QED BY <1>9, <2>2 DEF MirrorGlobals, TypeOK, pool, Places
<1>10. CASE DropPrev
  BY <1>10 DEF DropPrev, TypeOK, pool, history, Places
<1>11. CASE Cancel
  BY <1>11 DEF Cancel, TypeOK, folders, pool, history
<1>12. CASE Interrupt
  <2>1. modRoot' \in Folder \union {None}
    <3>1. CASE pc = "discard"
      BY <1>12, <3>1, RemainsType DEF Interrupt, TypeOK
    <3>2. CASE pc = "mirror"
      <4>1. modRoot \in Folder
        BY <3>2 DEF TypeOK, Bookkeeping, Standing
      <4> QED BY <1>12, <3>2, <4>1, MirroredType DEF Interrupt
    <3>3. CASE pc \notin {"discard", "mirror"}
      BY <1>12, <3>3 DEF Interrupt, TypeOK
    <3> QED BY <3>1, <3>2, <3>3
  <2>2. prev' \in Folder \union {None}
    BY <1>12, RemainsType DEF Interrupt, TypeOK
  <2> QED BY <1>12, <2>1, <2>2 DEF Interrupt, TypeOK, history, Places, Gone, Stages
<1>13. CASE Deploy
  BY <1>13 DEF Deploy, TypeOK, folders, pool, history
<1>14. ASSUME NEW w \in Workers, TakeJob(w) PROVE TypeOK'
  <2>1. next \in Targets /\ run \in Runs
    BY <1>14 DEF TakeJob, TypeOK, Targets, Bookkeeping, Standing, Runs
  <2>2. worker' \in [Workers -> [at : Stages, doc : Docs \union {None}]]
    <3>1. CASE UNCHANGED worker
      BY <3>1 DEF TypeOK
    <3>2. CASE InternalOf[next] # None /\ SetWorker(w, "merged", Full(next))
      BY <2>1, <3>2, FullType, SetWorkerType DEF Stages
    <3> QED BY <1>14, <3>1, <3>2 DEF TakeJob
  <2>3. outcome' \in [Targets -> {"none", "noSource", "built", "degraded", "dropped"}]
    <3>1. CASE Report(next, "noSource")
      BY <2>1, <3>1, ReportType
    <3>2. CASE UNCHANGED outcome
      BY <3>2 DEF TypeOK
    <3> QED BY <1>14, <3>1, <3>2 DEF TakeJob
  <2>4. next' \in 1..(Count + 1)
    BY <1>14 DEF TakeJob, TypeOK
  <2> QED BY <1>14, <2>2, <2>3, <2>4 DEF TakeJob, TypeOK, folders, history
<1>15. ASSUME NEW w \in Workers, WriteMXML(w) PROVE TypeOK'
  <2>1. worker[w].doc \in Docs /\ Path(w) \in Internals
    BY <1>15, BusyWorker DEF WriteMXML, Busy
  <2>2. worker' \in [Workers -> [at : Stages, doc : Docs \union {None}]]
    BY <1>15, <2>1, SetWorkerType DEF WriteMXML, Stages
  <2> QED BY <1>15, <2>1, <2>2 DEF WriteMXML, TypeOK, history
<1>16. ASSUME NEW w \in Workers, ClearTemp(w) PROVE TypeOK'
  <2>1. worker[w].doc \in Docs /\ Path(w) \in Internals
    BY <1>16, BusyWorker DEF ClearTemp, Busy
  <2>2. worker' \in [Workers -> [at : Stages, doc : Docs \union {None}]]
    BY <1>16, <2>1, SetWorkerType DEF ClearTemp, Stages
  <2> QED BY <1>16, <2>1, <2>2 DEF ClearTemp, TypeOK, history
<1>17. ASSUME NEW w \in Workers, CompilerAccepts(w) PROVE TypeOK'
  <2>1. worker[w].doc \in Docs /\ Path(w) \in Internals
    BY <1>17, BusyWorker DEF CompilerAccepts, Busy
  <2>2. worker' \in [Workers -> [at : Stages, doc : Docs \union {None}]]
    BY <1>17, <2>1, SetWorkerType DEF CompilerAccepts, Stages
  <2>3. mxml[Path(w)] \in Docs \union {None}
    BY <2>1 DEF TypeOK
  <2> QED BY <1>17, <2>1, <2>2, <2>3 DEF CompilerAccepts, TypeOK, history
<1>18. ASSUME NEW w \in Workers, CompilerRejects(w) PROVE TypeOK'
  BY <1>18, FailedTypes DEF CompilerRejects, Busy
<1>19. ASSUME NEW w \in Workers, CancelCompile(w) PROVE TypeOK'
  BY <1>19, FailedTypes DEF CancelCompile, Busy
<1>20. ASSUME NEW w \in Workers, FileError(w) PROVE TypeOK'
  BY <1>20, FailedTypes DEF FileError, Busy
<1>21. ASSUME NEW w \in Workers, NoOutput(w) PROVE TypeOK'
  BY <1>21, FailedTypes DEF NoOutput, Busy
<1>22. ASSUME NEW w \in Workers, FindOutput(w) PROVE TypeOK'
  <2>1. worker[w].doc \in Docs
    BY <1>22, BusyWorker DEF FindOutput, Busy
  <2>2. worker' \in [Workers -> [at : Stages, doc : Docs \union {None}]]
    BY <1>22, <2>1, SetWorkerType DEF FindOutput, Stages
  <2> QED BY <1>22, <2>2 DEF FindOutput, TypeOK, folders, history
<1>23. ASSUME NEW w \in Workers, Place(w) PROVE TypeOK'
  <2>1. Busy(w)
    BY <1>23 DEF Place, Busy
  <2>2. /\ modRoot \in Folder /\ worker[w].doc.target \in Targets /\ Path(w) \in Internals
    BY <2>1, BusyWorker
  <2>3. tmp[Path(w)] \in Docs \union {None}
    BY <2>2 DEF TypeOK
  <2>4. [modRoot EXCEPT !.files[Path(w)] = tmp[Path(w)]] \in Folder
    BY <2>2, <2>3 DEF Folder
  <2>5. modRoot' \in Folder
    BY <1>23, <2>2, <2>4 DEF Place
  <2>6. tmp' \in [Internals -> Docs \union {None}]
    BY <1>23 DEF Place, TypeOK
  <2>7. worker' \in [Workers -> [at : Stages, doc : Docs \union {None}]]
    BY <1>23, SetWorkerType DEF Place, Stages
  <2>8. outcome' \in [Targets -> {"none", "noSource", "built", "degraded", "dropped"}]
    BY <1>23, <2>2, ReportType DEF Place, Built
  <2> QED BY <1>23, <2>5, <2>6, <2>7, <2>8 DEF Place, TypeOK, history
<1>24. ASSUME NEW w \in Workers, Leave(w) PROVE TypeOK'
  BY <1>24 DEF Leave, TypeOK, folders, history, Gone, Stages
<1>25. CASE UNCHANGED vars
  BY <1>25 DEF vars, TypeOK
<1> QED BY <1>1, <1>2, <1>3, <1>4, <1>5, <1>6, <1>7, <1>8, <1>9, <1>10, <1>11, <1>12, <1>13,
           <1>14, <1>15, <1>16, <1>17, <1>18, <1>19, <1>20, <1>21, <1>22, <1>23, <1>24, <1>25
        DEF Next, RunStep, WorkerStep

(***************************************************************************)
(* Where a run stands.                                                     *)
(***************************************************************************)
(* A worker that changes only its own place, to one that is not busy or    *)
(* with the document it had, or with another merge of the same target.     *)
LEMMA WorkersStay ==
  ASSUME TypeOK, AtWork, NEW w \in Workers, NEW at, NEW doc,
         pc = "process", SetWorker(w, at, doc), UNCHANGED pc,
         at \in {"waiting", "gone"} \/ (doc # None /\ InternalOf[doc.target] # None)
  PROVE  AtWork'
BY DEF AtWork, Busy, SetWorker, TypeOK

(* A failed compile, retried or reported, keeps the bookkeeping.           *)
LEMMA FailedBookkeeping ==
  ASSUME TypeOK, Bookkeeping, NEW w \in Workers, Busy(w), CompileFailed(w)
  PROVE  Bookkeeping'
<1>1. /\ pc = "process" /\ run \in Runs
      /\ worker[w].doc \in Docs /\ worker[w].doc.target \in Targets
  BY BusyWorker
<1>2. InternalOf[worker[w].doc.target] # None
  BY DEF Bookkeeping, AtWork
<1>3. Safe(worker[w].doc.target) # None /\ Safe(worker[w].doc.target).target = worker[w].doc.target
  BY <1>1, FullType DEF Safe
<1>4. AtWork'
  <2>1. CASE Retryable(worker[w].doc)
    BY <2>1, <1>1, <1>2, <1>3, WorkersStay DEF CompileFailed, Bookkeeping
  <2>2. CASE ~Retryable(worker[w].doc)
    BY <2>2, <1>1, WorkersStay DEF CompileFailed, Bookkeeping
  <2> QED BY <2>1, <2>2
<1>5. UNCHANGED <<modRoot, prev, pc, run, ending, found>>
  BY DEF CompileFailed, folders, history
<1> QED BY <1>4, <1>5 DEF Bookkeeping, Standing, Aside

(* Every step keeps the bookkeeping: only the run's own steps move it.     *)
LEMMA StepBookkeeping ==
  ASSUME TypeOK, Bookkeeping, [Next]_vars
  PROVE  Bookkeeping'
<1>1. CASE Start
  BY <1>1 DEF Start, TypeOK, Bookkeeping, AtWork, Busy, Standing, Aside, Waiting, folders
<1>2. CASE ClearPrev
  BY <1>2 DEF ClearPrev, Bookkeeping, AtWork, Busy, Standing, Aside, pool, history
<1>3. CASE SetAside
  BY <1>3 DEF SetAside, Bookkeeping, AtWork, Busy, Standing, Aside, pool, history
<1>4. CASE MakeDirs
  BY <1>4, EmptyFolderType DEF MakeDirs, Bookkeeping, AtWork, Busy, Standing, Aside, pool, history
<1>5. CASE CloseJobs
  BY <1>5 DEF CloseJobs, Bookkeeping, AtWork, Busy, Standing, Aside, folders, history
<1>6. CASE Collect
  BY <1>6 DEF Collect, Bookkeeping, AtWork, Busy, Standing, Aside, Gone, folders, pool, history
<1>7. CASE Discard
  BY <1>7 DEF Discard, Bookkeeping, AtWork, Busy, Standing, Aside, pool, history
<1>8. CASE PutBack
  BY <1>8 DEF PutBack, Bookkeeping, AtWork, Busy, Standing, Aside, pool
<1>9. CASE MirrorGlobals
  <2>1. modRoot \in Folder
    BY <1>9 DEF MirrorGlobals, TypeOK, Bookkeeping, Standing
  <2>2. modRoot' \in Folder
    BY <1>9, <2>1 DEF MirrorGlobals, Folder
  <2> QED BY <1>9, <2>2 DEF MirrorGlobals, Bookkeeping, AtWork, Busy, Standing, Aside, pool
<1>10. CASE DropPrev
  BY <1>10 DEF DropPrev, Bookkeeping, AtWork, Busy, Standing, Aside, pool, history
<1>11. CASE Cancel
  BY <1>11 DEF Cancel, Bookkeeping, AtWork, Busy, Standing, Aside, folders, pool, history
<1>12. CASE Interrupt
  BY <1>12 DEF Interrupt, Bookkeeping, AtWork, Busy, Standing, Aside, Gone, history
<1>13. CASE Deploy
  BY <1>13 DEF Deploy, Bookkeeping, AtWork, Busy, Standing, Aside, folders, pool, history
<1>14. ASSUME NEW w \in Workers, TakeJob(w) PROVE Bookkeeping'
  <2>1. next \in Targets /\ run \in Runs
    BY <1>14 DEF TakeJob, TypeOK, Targets, Bookkeeping, Standing, Runs
  <2>2. Full(next) # None /\ Full(next).target = next
    BY <2>1, FullType DEF Full
  <2>3. AtWork'
    <3>1. CASE UNCHANGED worker
      BY <1>14, <3>1 DEF TakeJob, Bookkeeping, AtWork, Busy
    <3>2. CASE InternalOf[next] # None /\ SetWorker(w, "merged", Full(next))
      BY <1>14, <2>2, <3>2, WorkersStay DEF TakeJob, Bookkeeping
    <3> QED BY <1>14, <3>1, <3>2 DEF TakeJob
  <2> QED BY <1>14, <2>3 DEF TakeJob, Bookkeeping, Standing, Aside, folders, history
<1>15. ASSUME NEW w \in Workers, Busy(w), NEW at,
              SetWorker(w, at, worker[w].doc), UNCHANGED <<modRoot, prev, pc, run, history>>
       PROVE  Bookkeeping'
  <2>1. pc = "process" /\ worker[w].doc # None /\ InternalOf[worker[w].doc.target] # None
    BY <1>15 DEF Bookkeeping, AtWork
  <2>2. AtWork'
    BY <1>15, <2>1, WorkersStay DEF Bookkeeping
  <2> QED BY <1>15, <2>2 DEF Bookkeeping, Standing, Aside, history
<1>16. ASSUME NEW w \in Workers, WriteMXML(w) PROVE Bookkeeping'
  BY <1>15, <1>16 DEF WriteMXML, Busy
<1>17. ASSUME NEW w \in Workers, ClearTemp(w) PROVE Bookkeeping'
  BY <1>15, <1>17 DEF ClearTemp, Busy
<1>18. ASSUME NEW w \in Workers, CompilerAccepts(w) PROVE Bookkeeping'
  BY <1>15, <1>18 DEF CompilerAccepts, Busy
<1>19. ASSUME NEW w \in Workers, FindOutput(w) PROVE Bookkeeping'
  BY <1>15, <1>19 DEF FindOutput, Busy, folders
<1>20. ASSUME NEW w \in Workers, CompilerRejects(w) \/ CancelCompile(w) \/ FileError(w) \/ NoOutput(w)
       PROVE  Bookkeeping'
  BY <1>20, FailedBookkeeping DEF CompilerRejects, CancelCompile, FileError, NoOutput, Busy
<1>21. ASSUME NEW w \in Workers, Place(w) PROVE Bookkeeping'
  <2>1. Busy(w)
    BY <1>21 DEF Place, Busy
  <2>2. pc = "process" /\ modRoot \in Folder
    BY <2>1, BusyWorker
  <2>3. modRoot' # None
    <3>1. TypeOK'
      BY <1>21, StepTypeOK DEF Next, WorkerStep
    <3>2. [modRoot EXCEPT !.files[Path(w)] = tmp[Path(w)]] \in Folder
      BY <2>1, <2>2, BusyWorker DEF TypeOK, Folder
    <3> QED BY <1>21, <2>2, <3>2 DEF Place
  <2>4. AtWork'
    BY <1>21, <2>2, WorkersStay DEF Place, Bookkeeping
  <2> QED BY <1>21, <2>2, <2>3, <2>4 DEF Place, Bookkeeping, Standing, Aside, history
<1>22. ASSUME NEW w \in Workers, Leave(w) PROVE Bookkeeping'
  BY <1>22 DEF Leave, TypeOK, Bookkeeping, AtWork, Busy, Standing, Aside, Gone, folders, history
<1>23. CASE UNCHANGED vars
  BY <1>23 DEF vars, Bookkeeping, AtWork, Busy, Standing, Aside
<1> QED BY <1>1, <1>2, <1>3, <1>4, <1>5, <1>6, <1>7, <1>8, <1>9, <1>10, <1>11, <1>12, <1>13,
           <1>14, <1>16, <1>17, <1>18, <1>19, <1>20, <1>21, <1>22, <1>23
        DEF Next, RunStep, WorkerStep

(* Every reachable state is well typed, and where a run stands agrees with *)
(* what is on disk and with what its workers do.                           *)
THEOREM Bookkept == Spec => [](TypeOK /\ Bookkeeping)
<1>1. Init => TypeOK /\ Bookkeeping
  BY InitTypeOK
<1>2. TypeOK /\ Bookkeeping /\ [Next]_vars => (TypeOK /\ Bookkeeping)'
  BY StepTypeOK, StepBookkeeping
<1> QED BY <1>1, <1>2, PTL DEF Spec

(***************************************************************************)
(* The output a run found.                                                 *)
(***************************************************************************)
LEMMA StepFoundSurvives ==
  ASSUME TypeOK, Bookkeeping, FoundSurvives, [Next]_vars
  PROVE  FoundSurvives'
<1>1. CASE Start
  BY <1>1 DEF Start, FoundSurvives, folders
<1>2. CASE ClearPrev \/ SetAside \/ MakeDirs
  BY <1>2 DEF ClearPrev, SetAside, MakeDirs, FoundSurvives, Bookkeeping, Aside, history
<1>3. CASE CloseJobs \/ Collect \/ Cancel \/ Deploy
  BY <1>3 DEF CloseJobs, Collect, Cancel, Deploy, FoundSurvives, folders, history
<1>4. CASE Discard \/ PutBack
  BY <1>4 DEF Discard, PutBack, FoundSurvives, Bookkeeping, Aside, history
<1>5. CASE MirrorGlobals \/ DropPrev
  BY <1>5 DEF MirrorGlobals, DropPrev, FoundSurvives, Bookkeeping, Standing, history
<1>6. CASE Interrupt
  BY <1>6 DEF Interrupt, FoundSurvives, Bookkeeping, Standing, Aside, history, TypeOK, Places
<1>7. ASSUME NEW w \in Workers, WorkerStep(w) PROVE FoundSurvives'
  <2>1. prev' = prev /\ found' = found /\ ending' = ending
    BY <1>7 DEF WorkerStep, TakeJob, WriteMXML, ClearTemp, CompilerAccepts, CompilerRejects,
         CancelCompile, FileError, FindOutput, NoOutput, CompileFailed, Place, Leave, folders, history
  <2>2. pc = "process" \/ modRoot' = modRoot
    BY <1>7, BusyWorker DEF WorkerStep, TakeJob, WriteMXML, ClearTemp, CompilerAccepts, CompilerRejects,
         CancelCompile, FileError, FindOutput, NoOutput, CompileFailed, Place, Leave, Busy, folders
  <2> QED BY <2>1, <2>2 DEF FoundSurvives, Bookkeeping, Aside
<1>8. CASE UNCHANGED vars
  BY <1>8 DEF vars, FoundSurvives
<1> QED BY <1>1, <1>2, <1>3, <1>4, <1>5, <1>6, <1>7, <1>8 DEF Next, RunStep

(* Until a run publishes, the folder it found is on disk, whole, wherever  *)
(* the run crashes.                                                        *)
THEOREM OutputSurvives == Spec => []FoundSurvives
<1>1. Init => FoundSurvives
  BY DEF Init, FoundSurvives
<1>2. TypeOK /\ Bookkeeping /\ FoundSurvives /\ [Next]_vars => FoundSurvives'
  BY StepFoundSurvives
<1> QED BY <1>1, <1>2, Bookkept, PTL DEF Spec

(* A cancelled run leaves the folder it found.                             *)
THEOREM CancelledRunUndone == Spec => CancelUndoes
<1>1. TypeOK /\ Bookkeeping /\ [Next]_vars =>
        [ending # "undone" /\ ending' = "undone" => modRoot' = found]_vars
  <2> SUFFICES ASSUME TypeOK, Bookkeeping, Next, ending # "undone", ending' = "undone"
               PROVE  modRoot' = found
    OBVIOUS
  <2>1. CASE PutBack
    BY <2>1 DEF PutBack, Bookkeeping, Aside
  <2>2. CASE ~PutBack
    BY <2>2 DEF Next, RunStep, WorkerStep, Start, ClearPrev, SetAside, MakeDirs, CloseJobs, Collect,
         Discard, MirrorGlobals, DropPrev, Cancel, Interrupt, Deploy, TakeJob, WriteMXML, ClearTemp,
         CompilerAccepts, CompilerRejects, CancelCompile, FileError, FindOutput, NoOutput,
         CompileFailed, Place, Leave, history
  <2> QED BY <2>1, <2>2
<1> QED BY <1>1, Bookkept, PTL DEF Spec, CancelUndoes

(***************************************************************************)
(* What ships.                                                             *)
(***************************************************************************)
LEMMA AcceptedStays ==
  ASSUME NEW doc, accepts' = accepts
  PROVE  Accepted(doc)' <=> Accepted(doc)
BY DEF Accepted

(* What the compiler takes does not change.                                *)
LEMMA CompiledStays ==
  ASSUME NEW folder, Compiled(folder), accepts' = accepts
  PROVE  Compiled(folder)'
BY DEF Compiled, Accepted

(* No folder and the empty folder hold nothing rejected.                   *)
LEMMA EmptyCompiled == Compiled(None) /\ Compiled(EmptyFolder)
BY DEF Compiled, EmptyFolder

(* What a removal leaves of a compiled folder is compiled.                 *)
LEMMA RemainsCompiled ==
  ASSUME NEW folder, Compiled(folder), NEW r \in Remains(folder)
  PROVE  Compiled(r)
BY EmptyCompiled DEF Compiled, Remains

(* Mirroring the globals adds only what the folder holds.                  *)
LEMMA MirroredCompiled ==
  ASSUME NEW folder \in Folder, Compiled(folder), NEW r \in Mirrored(folder)
  PROVE  Compiled(r)
BY DEF Compiled, Mirrored, Folder

(* Every step keeps rejected documents out of the folders.                 *)
LEMMA StepCompiled ==
  ASSUME TypeOK, Bookkeeping, TmpCompiled, OnlyCompiledShips, [Next]_vars
  PROVE  TmpCompiled' /\ OnlyCompiledShips'
<1>1. accepts' = accepts
  BY DEF Next, RunStep, WorkerStep, Start, ClearPrev, SetAside, MakeDirs, CloseJobs, Collect,
     Discard, PutBack, MirrorGlobals, DropPrev, Cancel, Interrupt, Deploy, TakeJob, WriteMXML,
     ClearTemp, CompilerAccepts, CompilerRejects, CancelCompile, FileError, FindOutput, NoOutput,
     CompileFailed, Place, Leave, vars
<1>2. ASSUME UNCHANGED tmp PROVE TmpCompiled'
  BY <1>1, <1>2 DEF TmpCompiled, Accepted
<1>3. ASSUME Compiled(modRoot'), Compiled(prev'), Compiled(deployed')
      PROVE  OnlyCompiledShips'
  BY <1>1, <1>3 DEF OnlyCompiledShips, Compiled, Accepted
<1>4. ASSUME UNCHANGED <<tmp, modRoot, prev, deployed>>
      PROVE  TmpCompiled' /\ OnlyCompiledShips'
  BY <1>2, <1>3, <1>4 DEF OnlyCompiledShips
<1>5. CASE Start \/ CloseJobs \/ Collect \/ Cancel \/ UNCHANGED vars
  BY <1>4, <1>5 DEF Start, CloseJobs, Collect, Cancel, vars, folders
<1>6. CASE ClearPrev \/ SetAside \/ Discard \/ PutBack \/ DropPrev
  BY <1>2, <1>3, <1>6, EmptyCompiled
  DEF ClearPrev, SetAside, Discard, PutBack, DropPrev, OnlyCompiledShips
<1>7. CASE MakeDirs
  <2>1. TmpCompiled'
    BY <1>7 DEF MakeDirs, TmpCompiled, NoFiles
  <2> QED BY <1>3, <1>7, <2>1, EmptyCompiled DEF MakeDirs, OnlyCompiledShips
<1>8. CASE MirrorGlobals
  <2>1. modRoot \in Folder
    BY <1>8 DEF MirrorGlobals, TypeOK, Bookkeeping, Standing
  <2>2. Compiled(modRoot')
    BY <1>8, <2>1 DEF MirrorGlobals, OnlyCompiledShips, Compiled, Folder
  <2> QED BY <1>2, <1>3, <1>8, <2>2 DEF MirrorGlobals, OnlyCompiledShips
<1>9. CASE Interrupt
  <2>1. Compiled(modRoot')
    <3>1. CASE pc = "discard"
      BY <1>9, <3>1, RemainsCompiled DEF Interrupt, OnlyCompiledShips
    <3>2. CASE pc = "mirror"
      <4>1. modRoot \in Folder
        BY <3>2 DEF TypeOK, Bookkeeping, Standing
      <4> QED BY <1>9, <3>2, <4>1, MirroredCompiled DEF Interrupt, OnlyCompiledShips
    <3>3. CASE pc \notin {"discard", "mirror"}
      BY <1>9, <3>3 DEF Interrupt, OnlyCompiledShips
    <3> QED BY <3>1, <3>2, <3>3
  <2>2. Compiled(prev')
    BY <1>9, RemainsCompiled DEF Interrupt, OnlyCompiledShips
  <2> QED BY <1>2, <1>3, <1>9, <2>1, <2>2 DEF Interrupt, OnlyCompiledShips
<1>10. CASE Deploy
  BY <1>2, <1>3, <1>10 DEF Deploy, OnlyCompiledShips, folders
<1>11. ASSUME NEW w \in Workers,
              \/ TakeJob(w) \/ WriteMXML(w) \/ CompilerRejects(w) \/ CancelCompile(w)
              \/ FileError(w) \/ FindOutput(w) \/ NoOutput(w) \/ Leave(w)
       PROVE  TmpCompiled' /\ OnlyCompiledShips'
  BY <1>4, <1>11 DEF TakeJob, WriteMXML, CompilerRejects, CancelCompile, FileError, FindOutput,
     NoOutput, CompileFailed, Leave, folders
<1>12. ASSUME NEW w \in Workers, ClearTemp(w) PROVE TmpCompiled' /\ OnlyCompiledShips'
  <2>1. TmpCompiled'
    BY <1>1, <1>12 DEF ClearTemp, TmpCompiled, Accepted, TypeOK
  <2> QED BY <1>3, <1>12, <2>1 DEF ClearTemp, OnlyCompiledShips
<1>13. ASSUME NEW w \in Workers, CompilerAccepts(w) PROVE TmpCompiled' /\ OnlyCompiledShips'
  <2>1. TmpCompiled'
    BY <1>1, <1>13 DEF CompilerAccepts, TmpCompiled, Accepted, TypeOK
  <2> QED BY <1>3, <1>13, <2>1 DEF CompilerAccepts, OnlyCompiledShips
<1>14. ASSUME NEW w \in Workers, Place(w) PROVE TmpCompiled' /\ OnlyCompiledShips'
  <2>1. modRoot \in Folder /\ Path(w) \in Internals
    BY <1>14, BusyWorker DEF Place, Busy
  <2>2. TmpCompiled'
    BY <1>1, <1>14, <2>1 DEF Place, TmpCompiled, Accepted, TypeOK
  <2>3. tmp[Path(w)] # None => Compiled([modRoot EXCEPT !.files[Path(w)] = tmp[Path(w)]])
    BY <2>1 DEF TmpCompiled, OnlyCompiledShips, Compiled, Folder
  <2>4. Compiled(modRoot')
    BY <1>14, <2>3 DEF Place, OnlyCompiledShips
  <2> QED BY <1>3, <1>14, <2>2, <2>4 DEF Place, OnlyCompiledShips
<1> QED BY <1>5, <1>6, <1>7, <1>8, <1>9, <1>10, <1>11, <1>12, <1>13, <1>14
        DEF Next, RunStep, WorkerStep

(* Nothing the compiler rejects is in the output, beside it or in the      *)
(* game, also when targets share an output path and workers overwrite each *)
(* other's files.                                                          *)
THEOREM ShipsCompiled == Spec => []OnlyCompiledShips
<1>1. Init => TmpCompiled /\ OnlyCompiledShips
  BY EmptyCompiled DEF Init, TmpCompiled, NoFiles, OnlyCompiledShips
<1>2. TypeOK /\ Bookkeeping /\ TmpCompiled /\ OnlyCompiledShips /\ [Next]_vars
        => TmpCompiled' /\ OnlyCompiledShips'
  BY StepCompiled
<1> QED BY <1>1, <1>2, Bookkept, PTL DEF Spec

(***************************************************************************)
(* The refinement of Publication, for runs that do not crash.              *)
(***************************************************************************)
LEMMA StepDecides ==
  ASSUME ~MayStop, TypeOK, Bookkeeping, [Next]_vars
  PROVE  [Output!Next]_<<Visible, Stage, cancelled>>
<1> USE DEF Visible, Stage, Decided
<1>1. CASE Start
  BY <1>1 DEF Start, folders, Output!Next, Output!Begin
<1>2. CASE ClearPrev \/ SetAside \/ MakeDirs
  BY <1>2 DEF ClearPrev, SetAside, MakeDirs, Bookkeeping, Aside
<1>3. CASE CloseJobs
  BY <1>3 DEF CloseJobs, folders
<1>4. CASE Collect
  BY <1>4 DEF Collect, folders, Output!Next, Output!Publish, Output!Withdraw
<1>5. CASE Discard
  BY <1>5 DEF Discard
<1>6. CASE PutBack
  BY <1>6 DEF PutBack, Output!Next, Output!End
<1>7. CASE MirrorGlobals
  BY <1>7 DEF MirrorGlobals
<1>8. CASE DropPrev
  BY <1>8 DEF DropPrev, Output!Next, Output!End
<1>9. CASE Cancel
  BY <1>9 DEF Cancel, folders, Output!Next, Output!Revoke
<1>10. CASE Interrupt
  BY <1>10 DEF Interrupt
<1>11. CASE Deploy
  BY <1>11 DEF Deploy, folders
<1>12. ASSUME NEW w \in Workers, WorkerStep(w)
       PROVE  UNCHANGED <<Visible, Stage, cancelled>>
  <2>1. UNCHANGED <<pc, prev, cancelled>>
    BY <1>12 DEF WorkerStep, TakeJob, WriteMXML, ClearTemp, CompilerAccepts, CompilerRejects,
         CancelCompile, FileError, FindOutput, NoOutput, CompileFailed, Place, Leave, folders
  <2>2. pc = "process" \/ modRoot' = modRoot
    BY <1>12, BusyWorker DEF WorkerStep, TakeJob, WriteMXML, ClearTemp, CompilerAccepts, CompilerRejects,
         CancelCompile, FileError, FindOutput, NoOutput, CompileFailed, Place, Leave, Busy, folders
  <2> QED BY <2>1, <2>2
<1>13. CASE UNCHANGED vars
  BY <1>13 DEF vars
<1> QED BY <1>1, <1>2, <1>3, <1>4, <1>5, <1>6, <1>7, <1>8, <1>9, <1>10, <1>11, <1>12, <1>13
        DEF Next, RunStep

(* A run that does not crash replaces the output in one step or not at     *)
(* all, and not when it was cancelled before it decided.                   *)
THEOREM RunDecidesOnce ==
  ASSUME ~MayStop
  PROVE  Spec => AllOrNothing
<1>1. Init => Output!Init
  BY DEF Init, Output!Init, Stage
<1>2. TypeOK /\ Bookkeeping /\ [Next]_vars => [Output!Next]_<<Visible, Stage, cancelled>>
  BY StepDecides
<1> QED BY <1>1, <1>2, Bookkept, PTL DEF Spec, AllOrNothing, Output!Spec

(***************************************************************************)
(* The pool: whatever order the workers run in, the run publishes what the *)
(* plan and the compiler say.                                              *)
(***************************************************************************)

(* Every target that has a file of the game has one of its own.            *)
OwnPaths ==
  \A t, u \in Targets : InternalOf[t] # None /\ InternalOf[t] = InternalOf[u] => t = u

(* What a target puts at its path.                                         *)
Shipped(t) ==
  IF outcome[t] = "built" THEN Full(t) ELSE IF outcome[t] = "degraded" THEN Safe(t) ELSE None
At(w, t) == Busy(w) /\ worker[w].doc.target = t

(* Before the pool starts, nothing is handed out and nothing reported.     *)
Unstarted ==
  pc \in {"clearPrev", "setAside", "makeDirs"} =>
    next = 1 /\ ~closed /\ outcome = [t \in Targets |-> "none"]
(* While it works and is not cancelled: the targets handed out and not yet *)
(* reported are those the workers are at, each at one of its own.          *)
Shared ==
  pc = "process" /\ ~cancelled =>
    /\ closed => next = Count + 1
    /\ \A w, v \in Workers :
         Busy(w) /\ Busy(v) /\ worker[v].doc.target = worker[w].doc.target => v = w
    /\ \A t \in Targets : outcome[t] = "none" <=> t >= next \/ \E w \in Workers : At(w, t)
    /\ \A w \in Workers : Busy(w) => worker[w].doc.target < next
(* A worker has its target's merge, or what is left of it after a          *)
(* rejection, and what it wrote and compiled is that.                      *)
Keeps(w) ==
  LET doc == worker[w].doc IN
  /\ \/ doc = Full(doc.target)
     \/ doc = Safe(doc.target) /\ Edits[doc.target] = Kinds /\ ~Accepted(Full(doc.target))
  /\ worker[w].at \in {"written", "compiling", "compiled", "found"} => mxml[Path(w)] = doc
  /\ worker[w].at \in {"compiled", "found"} => tmp[Path(w)] = doc /\ Accepted(doc)
Faithful == pc = "process" /\ ~cancelled => \A w \in Workers : Busy(w) => Keeps(w)
(* What is reported is the verdict of the plan and the compiler, and the   *)
(* folder holds what the reports say.                                      *)
Reported ==
  (pc = "process" /\ ~cancelled) \/ pc = "mirror" =>
    /\ \A t \in Targets : outcome[t] \in {"none", Verdict(t)}
    /\ \A t \in Targets : InternalOf[t] # None => modRoot.files[InternalOf[t]] = Shipped(t)
    /\ \A i \in Internals : (\A t \in Targets : InternalOf[t] # i) => modRoot.files[i] = None
Finished == pc = "mirror" => \A t \in Targets : outcome[t] # "none"
Planned == Unstarted /\ Shared /\ Faithful /\ Reported /\ Finished

(* A worker at work and what it is at.                                     *)
LEMMA Worker ==
  ASSUME TypeOK, Bookkeeping, NEW w \in Workers, Busy(w)
  PROVE  /\ pc = "process" /\ modRoot \in Folder
         /\ worker[w].doc \in Docs /\ worker[w].doc # None
         /\ worker[w].doc.target \in Targets /\ InternalOf[worker[w].doc.target] # None
         /\ Path(w) \in Internals
  BY BusyWorker DEF Bookkeeping, AtWork

(* No two workers share a path.                                            *)
LEMMA PathsApart ==
  ASSUME OwnPaths, TypeOK, Bookkeeping, Shared, ~cancelled,
         NEW w \in Workers, NEW v \in Workers, Busy(w), Busy(v), v # w
  PROVE  Path(v) # Path(w)
  BY Worker DEF OwnPaths, Shared, At, Path

(* What the plan and the compiler say does not change while a run lasts.   *)
LEMMA VerdictStays ==
  ASSUME run' = run, accepts' = accepts
  PROVE  /\ \A t \in Targets : Full(t)' = Full(t) /\ Safe(t)' = Safe(t)
         /\ \A t \in Targets : Verdict(t)' = Verdict(t)
  BY DEF Full, Safe, Verdict, Accepted

(* A worker that goes on with its target changes nothing of the pool.      *)
LEMMA GoesOn ==
  ASSUME TypeOK, Bookkeeping, Shared, Reported, ~cancelled,
         NEW w \in Workers, Busy(w), NEW at \in Stages \ {"waiting", "gone"}, NEW doc \in Docs,
         doc.target = worker[w].doc.target, SetWorker(w, at, doc),
         UNCHANGED <<modRoot, outcome, next, closed, pc, run, accepts, cancelled>>
  PROVE  Shared' /\ Reported'
<1>1. /\ pc = "process" /\ worker' \in [Workers -> [at : Stages, doc : Docs \union {None}]]
      /\ worker'[w] = [at |-> at, doc |-> doc] /\ \A v \in Workers : v # w => worker'[v] = worker[v]
  BY Worker, SetWorkerType DEF SetWorker, TypeOK
<1>2. Busy(w)' /\ worker'[w].doc = doc /\ \A v \in Workers : Busy(v)' = Busy(v)
  BY <1>1 DEF Busy
<1>3. \A v \in Workers, t \in Targets : At(v, t)' = At(v, t)
  BY <1>1, <1>2 DEF At
<1>4. \A v \in Workers : Busy(v) => worker'[v].doc.target = worker[v].doc.target
  BY <1>1, <1>2
<1>5. Shared'
  BY <1>1, <1>2, <1>3, <1>4, Worker DEF Shared
<1>6. Reported'
  BY <1>1, VerdictStays DEF Reported, Shipped
<1> QED BY <1>5, <1>6

(* A worker that reports its target leaves the rest of the pool alone.     *)
LEMMA Reports ==
  ASSUME TypeOK, Bookkeeping, Shared, ~cancelled,
         NEW w \in Workers, Busy(w), NEW how \in {"built", "degraded", "dropped"},
         SetWorker(w, "waiting", None), Report(worker[w].doc.target, how),
         UNCHANGED <<next, closed, pc, cancelled>>
  PROVE  /\ Shared'
         /\ outcome'[worker[w].doc.target] = how /\ outcome[worker[w].doc.target] = "none"
         /\ \A t \in Targets : t # worker[w].doc.target => outcome'[t] = outcome[t]
<1> DEFINE mine == worker[w].doc.target
<1>1. /\ pc = "process" /\ worker'[w] = Waiting /\ mine \in Targets
      /\ \A v \in Workers : v # w => worker'[v] = worker[v]
  BY Worker DEF SetWorker, TypeOK, Waiting
<1>2. outcome'[mine] = how /\ \A t \in Targets : t # mine => outcome'[t] = outcome[t]
  BY <1>1 DEF Report, TypeOK
<1>3. ~Busy(w)' /\ \A v \in Workers : v # w => Busy(v)' = Busy(v)
  BY <1>1 DEF Busy, Waiting
<1>4. \A v \in Workers, t \in Targets : At(v, t)' <=> At(v, t) /\ v # w
  BY <1>1, <1>3 DEF At
<1>5. \A v \in Workers : At(v, mine) <=> v = w
  BY <1>1 DEF Shared, At
<1>6. outcome[mine] = "none" /\ mine < next
  BY <1>1, <1>5 DEF Shared
<1>7. \A t \in Targets : outcome'[t] = "none" <=> t >= next' \/ \E v \in Workers : At(v, t)'
  <2>1. SUFFICES ASSUME NEW t \in Targets
                 PROVE  outcome'[t] = "none" <=> t >= next \/ \E v \in Workers : At(v, t) /\ v # w
    BY <1>4
  <2>2. CASE t = mine
    <3>1. ~(t >= next)
      BY <1>6, <2>2, PlanAssumption DEF TypeOK, Targets
    <3> QED BY <1>2, <1>5, <2>2, <3>1
  <2>3. CASE t # mine
    <3>1. ~At(w, t)
      BY <2>3 DEF At
    <3>2. outcome[t] = "none" <=> t >= next \/ \E v \in Workers : At(v, t)
      BY <1>1 DEF Shared
    <3> QED BY <1>2, <2>3, <3>1, <3>2
  <2> QED BY <2>2, <2>3
<1>8. \A v \in Workers : Busy(v)' => worker'[v].doc.target = worker[v].doc.target /\ Busy(v) /\ v # w
  BY <1>1, <1>3
<1> QED BY <1>1, <1>2, <1>4, <1>6, <1>7, <1>8, Worker DEF Shared


(* A worker writes only to its own path.                                   *)
LEMMA OthersKeep ==
  ASSUME OwnPaths, TypeOK, Bookkeeping, Shared, Faithful, ~cancelled,
         NEW w \in Workers, Busy(w), NEW at, NEW doc, SetWorker(w, at, doc),
         \A i \in Internals \ {Path(w)} : mxml'[i] = mxml[i] /\ tmp'[i] = tmp[i],
         UNCHANGED <<pc, run, accepts>>
  PROVE  \A v \in Workers \ {w} : Busy(v)' => Keeps(v)'
<1> SUFFICES ASSUME NEW v \in Workers, v # w, Busy(v)' PROVE Keeps(v)'
  OBVIOUS
<1>1. worker'[v] = worker[v] /\ Busy(v)
  BY DEF SetWorker, TypeOK, Busy
<1>2. /\ pc = "process" /\ Keeps(v) /\ Path(v) # Path(w) /\ Path(v) \in Internals
      /\ worker[v].doc \in Docs /\ worker[v].doc.target \in Targets
  BY <1>1, Worker, PathsApart DEF Faithful
<1>3. Path(v)' = Path(v) /\ mxml'[Path(v)] = mxml[Path(v)] /\ tmp'[Path(v)] = tmp[Path(v)]
  BY <1>1, <1>2 DEF Path
<1>4. /\ Full(worker[v].doc.target)' = Full(worker[v].doc.target)
      /\ Safe(worker[v].doc.target)' = Safe(worker[v].doc.target)
  BY <1>1 DEF Full, Safe
<1>5. Accepted(worker[v].doc)' = Accepted(worker[v].doc)
  BY <1>1 DEF Accepted
<1>6. Accepted(Full(worker[v].doc.target))' = Accepted(Full(worker[v].doc.target))
  BY <1>1 DEF Accepted, Full
<1> QED BY <1>1, <1>2, <1>3, <1>4, <1>5, <1>6 DEF Keeps

(* The retry after a rejection.                                            *)
LEMMA RejectedMeans ==
  ASSUME TypeOK, Bookkeeping, Faithful, ~cancelled, NEW w \in Workers, worker[w].at = "compiling",
         ~Accepted(mxml[Path(w)])
  PROVE  LET doc == worker[w].doc IN
         /\ doc.target \in Targets
         /\ Retryable(doc) => doc = Full(doc.target) /\ Edits[doc.target] = Kinds
         /\ ~Accepted(doc) /\ (~Retryable(doc) => Verdict(doc.target) = "dropped")
<1>1. /\ Busy(w) /\ pc = "process" /\ worker[w].doc.target \in Targets
      /\ InternalOf[worker[w].doc.target] # None
  BY Worker DEF Busy
<1>2. Keeps(w) /\ mxml[Path(w)] = worker[w].doc
  BY <1>1 DEF Faithful, Keeps
<1> QED BY <1>1, <1>2 DEF Keeps, Retryable, Verdict, Full, Safe, Kinds

(* What the report of an accepted document says.                           *)
LEMMA AcceptedMeans ==
  ASSUME TypeOK, Bookkeeping, Faithful, ~cancelled, NEW w \in Workers, worker[w].at = "found"
  PROVE  LET doc == worker[w].doc IN
         /\ tmp[Path(w)] = doc
         /\ Built(doc) = Verdict(doc.target)
         /\ Verdict(doc.target) \in {"built", "degraded"}
         /\ doc = IF Verdict(doc.target) = "built" THEN Full(doc.target) ELSE Safe(doc.target)
<1>1. /\ Busy(w) /\ pc = "process" /\ worker[w].doc.target \in Targets
      /\ InternalOf[worker[w].doc.target] # None
  BY Worker DEF Busy
<1>2. Keeps(w) /\ tmp[Path(w)] = worker[w].doc /\ Accepted(worker[w].doc)
  BY <1>1 DEF Faithful, Keeps
<1> QED BY <1>1, <1>2 DEF Keeps, Built, Verdict, Full, Safe, Kinds


(* The workers work while Run waits for them.                              *)
LEMMA WorkerInProcess ==
  ASSUME TypeOK, Bookkeeping, NEW w \in Workers, WorkerStep(w)
  PROVE  pc = "process" /\ UNCHANGED <<pc, run, accepts, cancelled>>
<1>1. UNCHANGED <<pc, run, accepts, cancelled>>
  BY DEF WorkerStep, TakeJob, WriteMXML, ClearTemp, CompilerAccepts, CompilerRejects, CancelCompile,
         FileError, FindOutput, NoOutput, CompileFailed, Place, Leave, folders
<1>2. pc = "process"
  <2>1. CASE TakeJob(w) \/ Leave(w)
    BY <2>1 DEF TakeJob, Leave
  <2>2. CASE ~(TakeJob(w) \/ Leave(w))
    <3>1. Busy(w)
      BY <2>2 DEF WorkerStep, WriteMXML, ClearTemp, CompilerAccepts, CompilerRejects, CancelCompile,
         FileError, FindOutput, NoOutput, Place, Busy
    <3> QED BY <3>1, Worker
  <2> QED BY <2>1, <2>2
<1> QED BY <1>1, <1>2

(* Every step of a worker that is not cancelled.                           *)
LEMMA WorkerPlanned ==
  ASSUME ~FilesMayFail, OwnPaths, TypeOK, Bookkeeping, Planned, ~cancelled,
         NEW w \in Workers, WorkerStep(w)
  PROVE  Shared' /\ Faithful' /\ Reported'
<1> USE DEF Planned
<1>1. pc = "process" /\ UNCHANGED <<pc, run, accepts, cancelled>>
  BY WorkerInProcess
<1>2. CASE WriteMXML(w)
  <2>1. /\ Busy(w) /\ SetWorker(w, "written", worker[w].doc) /\ worker[w].doc \in Docs
        /\ mxml' = [mxml EXCEPT ![Path(w)] = worker[w].doc] /\ Path(w) \in Internals
        /\ UNCHANGED <<tmp, modRoot, outcome, next, closed>>
    BY <1>2, Worker DEF WriteMXML, Busy
  <2>2. Shared' /\ Reported'
    BY <1>1, <2>1, GoesOn DEF Stages
  <2>3. \A v \in Workers \ {w} : Busy(v)' => Keeps(v)'
    BY <1>1, <2>1, OthersKeep DEF TypeOK
  <2>4. Keeps(w)'
    <3>1. Keeps(w) /\ worker'[w] = [at |-> "written", doc |-> worker[w].doc]
      BY <1>1, <2>1 DEF Faithful, SetWorker, TypeOK
    <3>2. mxml'[Path(w)] = worker[w].doc
      BY <2>1 DEF TypeOK
    <3> QED BY <1>1, <3>1, <3>2 DEF Keeps, Path, Full, Safe, Accepted
  <2> QED BY <2>2, <2>3, <2>4 DEF Faithful
<1>3. CASE ClearTemp(w)
  <2>1. /\ Busy(w) /\ SetWorker(w, "compiling", worker[w].doc) /\ worker[w].doc \in Docs
        /\ worker[w].at = "written" /\ Path(w) \in Internals
        /\ tmp' = [tmp EXCEPT ![Path(w)] = None]
        /\ UNCHANGED <<mxml, modRoot, outcome, next, closed>>
    BY <1>3, Worker DEF ClearTemp, Busy
  <2>2. Shared' /\ Reported'
    BY <1>1, <2>1, GoesOn DEF Stages
  <2>3. \A v \in Workers \ {w} : Busy(v)' => Keeps(v)'
    BY <1>1, <2>1, OthersKeep DEF TypeOK
  <2>4. Keeps(w)'
    <3>1. Keeps(w) /\ worker'[w] = [at |-> "compiling", doc |-> worker[w].doc]
      BY <1>1, <2>1 DEF Faithful, SetWorker, TypeOK
    <3> QED BY <1>1, <2>1, <3>1 DEF Keeps, Path, Full, Safe, Accepted
  <2> QED BY <2>2, <2>3, <2>4 DEF Faithful
<1>4. CASE CompilerAccepts(w)
  <2>1. /\ Busy(w) /\ SetWorker(w, "compiled", worker[w].doc) /\ worker[w].doc \in Docs
        /\ worker[w].at = "compiling" /\ Path(w) \in Internals /\ Accepted(mxml[Path(w)])
        /\ tmp' = [tmp EXCEPT ![Path(w)] = mxml[Path(w)]]
        /\ UNCHANGED <<mxml, modRoot, outcome, next, closed>>
    BY <1>4, Worker DEF CompilerAccepts, Busy
  <2>2. Shared' /\ Reported'
    BY <1>1, <2>1, GoesOn DEF Stages
  <2>3. \A v \in Workers \ {w} : Busy(v)' => Keeps(v)'
    BY <1>1, <2>1, OthersKeep DEF TypeOK
  <2>4. Keeps(w)'
    <3>1. Keeps(w) /\ worker'[w] = [at |-> "compiled", doc |-> worker[w].doc]
      BY <1>1, <2>1 DEF Faithful, SetWorker, TypeOK
    <3>2. mxml[Path(w)] = worker[w].doc
      BY <2>1, <3>1 DEF Keeps
    <3>3. tmp'[Path(w)] = worker[w].doc
      BY <2>1, <3>2 DEF TypeOK
    <3> QED BY <1>1, <2>1, <3>1, <3>2, <3>3 DEF Keeps, Path, Full, Safe, Accepted
  <2> QED BY <2>2, <2>3, <2>4 DEF Faithful
<1>5. CASE FindOutput(w)
  <2>1. /\ Busy(w) /\ SetWorker(w, "found", worker[w].doc) /\ worker[w].doc \in Docs
        /\ worker[w].at = "compiled" /\ Path(w) \in Internals
        /\ UNCHANGED <<tmp, mxml, modRoot, outcome, next, closed>>
    BY <1>5, Worker DEF FindOutput, Busy, folders
  <2>2. Shared' /\ Reported'
    BY <1>1, <2>1, GoesOn DEF Stages
  <2>3. \A v \in Workers \ {w} : Busy(v)' => Keeps(v)'
    BY <1>1, <2>1, OthersKeep
  <2>4. Keeps(w)'
    <3>1. Keeps(w) /\ worker'[w] = [at |-> "found", doc |-> worker[w].doc]
      BY <1>1, <2>1 DEF Faithful, SetWorker, TypeOK
    <3> QED BY <1>1, <2>1, <3>1 DEF Keeps, Path, Full, Safe, Accepted
  <2> QED BY <2>2, <2>3, <2>4 DEF Faithful
<1>6. CASE CompilerRejects(w)
  <2> DEFINE doc == worker[w].doc
  <2>1. /\ Busy(w) /\ doc \in Docs /\ doc.target \in Targets /\ CompileFailed(w)
        /\ UNCHANGED <<tmp, mxml, modRoot, next, closed>>
    BY <1>6, Worker DEF CompilerRejects, CompileFailed, Busy, folders
  <2>2. /\ Retryable(doc) => doc = Full(doc.target) /\ Edits[doc.target] = Kinds
        /\ ~Accepted(doc) /\ (~Retryable(doc) => Verdict(doc.target) = "dropped")
    BY <1>6, RejectedMeans DEF CompilerRejects
  <2>3. CASE Retryable(doc)
    <3>1. SetWorker(w, "merged", Safe(doc.target)) /\ UNCHANGED outcome
      BY <2>1, <2>3 DEF CompileFailed
    <3>2. Safe(doc.target) \in Docs /\ Safe(doc.target).target = doc.target
      BY <1>1, <2>1, FullType DEF Safe, TypeOK, Bookkeeping, Standing, Runs
    <3>3. Shared' /\ Reported'
      BY <1>1, <2>1, <3>1, <3>2, GoesOn DEF Stages
    <3>4. \A v \in Workers \ {w} : Busy(v)' => Keeps(v)'
      BY <1>1, <2>1, <3>1, OthersKeep
    <3>5. Keeps(w)'
      <4>1. worker'[w] = [at |-> "merged", doc |-> Safe(doc.target)]
        BY <3>1 DEF SetWorker, TypeOK
      <4>2. Edits[doc.target] = Kinds /\ ~Accepted(Full(doc.target))
        BY <2>2, <2>3
      <4>3. PICK t \in Targets : t = doc.target
        BY <2>1
      <4>4. /\ worker'[w].doc = Safe(t) /\ worker'[w].doc.target = t /\ worker'[w].at = "merged"
            /\ Edits[t] = Kinds /\ ~Accepted(Full(t))
        BY <3>2, <4>1, <4>2, <4>3
      <4>5. Safe(t)' = Safe(t) /\ Full(t)' = Full(t) /\ ~Accepted(Full(t))'
        BY <1>1, <4>4 DEF Safe, Full, Accepted
      <4> HIDE DEF doc
      <4> QED BY <1>1, <4>4, <4>5 DEF Keeps, Safe, Full, Accepted
    <3> QED BY <3>3, <3>4, <3>5 DEF Faithful
  <2>4. CASE ~Retryable(doc)
    <3>1. SetWorker(w, "waiting", None) /\ Report(doc.target, "dropped")
      BY <2>1, <2>4 DEF CompileFailed
    <3>2. /\ Shared' /\ outcome'[doc.target] = "dropped" /\ outcome[doc.target] = "none"
          /\ \A t \in Targets : t # doc.target => outcome'[t] = outcome[t]
      BY <1>1, <2>1, <3>1, Reports
    <3>3. Faithful'
      <4>1. \A v \in Workers \ {w} : Busy(v)' => Keeps(v)'
        BY <1>1, <2>1, <3>1, OthersKeep
      <4>2. ~Busy(w)'
        BY <3>1 DEF SetWorker, TypeOK, Busy
      <4> QED BY <4>1, <4>2 DEF Faithful
    <3>4. Reported'
      BY <1>1, <2>1, <2>2, <2>4, <3>2, VerdictStays DEF Reported, Shipped
    <3> QED BY <3>2, <3>3, <3>4
  <2> QED BY <2>3, <2>4
<1>7. CASE Place(w)
  <2> DEFINE doc == worker[w].doc
  <2>1. /\ Busy(w) /\ doc \in Docs /\ doc.target \in Targets /\ Path(w) \in Internals
        /\ worker[w].at = "found" /\ SetWorker(w, "waiting", None)
        /\ modRoot \in Folder /\ Path(w) = InternalOf[doc.target]
        /\ UNCHANGED <<mxml, next, closed>>
    BY <1>7, Worker DEF Place, Busy, Path
  <2>2. /\ tmp[Path(w)] = doc /\ Built(doc) = Verdict(doc.target)
        /\ Verdict(doc.target) \in {"built", "degraded"}
        /\ doc = IF Verdict(doc.target) = "built" THEN Full(doc.target) ELSE Safe(doc.target)
    BY <2>1, AcceptedMeans
  <2>3. /\ modRoot' = [modRoot EXCEPT !.files[Path(w)] = doc]
        /\ tmp' = [tmp EXCEPT ![Path(w)] = None]
        /\ Report(doc.target, Verdict(doc.target))
    BY <1>7, <2>1, <2>2, NoneAssumption DEF Place
  <2>4. /\ Shared' /\ outcome'[doc.target] = Verdict(doc.target) /\ outcome[doc.target] = "none"
        /\ \A t \in Targets : t # doc.target => outcome'[t] = outcome[t]
    BY <1>1, <2>1, <2>2, <2>3, Reports
  <2>5. Faithful'
    <3>1. \A v \in Workers \ {w} : Busy(v)' => Keeps(v)'
      BY <1>1, <2>1, <2>3, OthersKeep DEF TypeOK
    <3>2. ~Busy(w)'
      BY <2>1 DEF SetWorker, TypeOK, Busy
    <3> QED BY <3>1, <3>2 DEF Faithful
  <2>6. Reported'
    <3>1. /\ modRoot'.files[Path(w)] = doc
          /\ \A i \in Internals : i # Path(w) => modRoot'.files[i] = modRoot.files[i]
      BY <2>1, <2>3 DEF Folder
    <3>2. \A t \in Targets : t = doc.target => doc = Shipped(t)'
      BY <1>1, <2>2, <2>4, VerdictStays DEF Shipped
    <3>3. \A t \in Targets : outcome'[t] \in {"none", Verdict(t)'}
      BY <1>1, <2>1, <2>4, VerdictStays DEF Reported
    <3>4. ASSUME NEW t \in Targets, InternalOf[t] # None
          PROVE  modRoot'.files[InternalOf[t]] = Shipped(t)'
      <4>1. CASE t = doc.target
        BY <2>1, <3>1, <3>2, <4>1, Zenon
      <4>2. CASE t # doc.target
        <5>1. InternalOf[t] \in Internals /\ InternalOf[t] # Path(w)
          BY <2>1, <3>4, <4>2, PlanAssumption DEF OwnPaths
        <5>2. Shipped(t)' = Shipped(t)
          BY <1>1, <2>4, <4>2, VerdictStays DEF Shipped
        <5> QED BY <1>1, <3>1, <3>4, <5>1, <5>2 DEF Reported
      <4> QED BY <4>1, <4>2
    <3>5. ASSUME NEW i \in Internals, \A t \in Targets : InternalOf[t] # i
          PROVE  modRoot'.files[i] = None
      BY <1>1, <2>1, <3>1, <3>5 DEF Reported
    <3> QED BY <3>3, <3>4, <3>5 DEF Reported
  <2> QED BY <2>4, <2>5, <2>6
<1>8. CASE Leave(w)
  <2>1. /\ worker[w].at = "waiting" /\ worker' = [worker EXCEPT ![w] = Gone]
        /\ UNCHANGED <<modRoot, mxml, tmp, outcome, next, closed>>
    BY <1>8 DEF Leave, folders
  <2>2. /\ ~Busy(w) /\ ~Busy(w)' /\ \A v \in Workers : v # w => worker'[v] = worker[v]
        /\ \A v \in Workers : Busy(v)' = Busy(v)
    BY <2>1 DEF Busy, Gone, TypeOK
  <2>3. \A v \in Workers, t \in Targets : At(v, t)' = At(v, t)
    BY <2>2 DEF At
  <2>4. \A v \in Workers : Busy(v) => worker'[v] = worker[v]
    BY <2>2
  <2>5. Shared'
    BY <1>1, <2>1, <2>2, <2>3, <2>4, Worker DEF Shared
  <2>6. Reported'
    BY <1>1, <2>1, VerdictStays DEF Reported, Shipped
  <2>7. Faithful'
    BY <1>1, <2>1, <2>2, <2>4 DEF Faithful, Keeps, Path, Full, Safe, Accepted
  <2> QED BY <2>5, <2>6, <2>7
<1>9. CASE TakeJob(w)
  <2>1. /\ worker[w].at = "waiting" /\ ~closed /\ next <= Count /\ next \in Targets
        /\ next' = next + 1 /\ next \in Nat
        /\ UNCHANGED <<modRoot, mxml, tmp, closed>>
    BY <1>9, PlanAssumption DEF TakeJob, folders, TypeOK, Targets
  <2>2. ~Busy(w) /\ outcome[next] = "none" /\ \A v \in Workers : ~At(v, next)
    <3>1. outcome[next] = "none"
      BY <1>1, <2>1 DEF Shared
    <3>2. \A v \in Workers : Busy(v) => worker[v].doc.target < next
      BY <1>1 DEF Shared
    <3> QED BY <2>1, <3>1, <3>2 DEF Busy, At
  <2>3. CASE InternalOf[next] = None
    <3>1. outcome' = [outcome EXCEPT ![next] = "noSource"] /\ worker' = worker
      BY <1>9, <2>3 DEF TakeJob, Report
    <3>2. /\ outcome'[next] = "noSource"
          /\ \A t \in Targets : t # next => outcome'[t] = outcome[t]
      BY <2>1, <3>1 DEF TypeOK
    <3>3. \A v \in Workers : Busy(v)' = Busy(v) /\ \A t \in Targets : At(v, t)' = At(v, t)
      BY <3>1 DEF Busy, At
    <3>4. Shared'
      <4>1. ASSUME NEW t \in Targets
            PROVE  outcome'[t] = "none" <=> t >= next' \/ \E v \in Workers : At(v, t)
        <5>1. t \in Nat /\ (outcome[t] = "none" <=> t >= next \/ \E v \in Workers : At(v, t))
          BY <1>1, PlanAssumption DEF Shared, Targets
        <5>2. CASE t = next
          <6>1. ~(t >= next')
            BY <2>1, <5>2
          <6> QED BY <2>2, <3>2, <5>2, <6>1
        <5>3. CASE t # next
          <6>1. t >= next <=> t >= next'
            BY <2>1, <5>1, <5>3
          <6> QED BY <3>2, <5>1, <5>3, <6>1
        <5> QED BY <5>2, <5>3
      <4>2. \A v \in Workers : Busy(v) => worker[v].doc.target < next'
        <5>1. \A v \in Workers : Busy(v) => worker[v].doc.target \in Targets /\ worker[v].doc.target < next
          BY <1>1, Worker DEF Shared
        <5> QED BY <2>1, <5>1, PlanAssumption DEF Targets
      <4>3. \A t \in Targets : outcome'[t] = "none" <=> t >= next' \/ \E v \in Workers : At(v, t)'
        BY <3>3, <4>1
      <4>4. \A v, u \in Workers :
              (Busy(v) /\ Busy(u) /\ worker[u].doc.target = worker[v].doc.target)' => u = v
        BY <1>1, <3>1, <3>3 DEF Shared
      <4> QED BY <1>1, <2>1, <3>1, <3>3, <4>2, <4>3, <4>4 DEF Shared
    <3>5. Faithful'
      BY <1>1, <2>1, <3>1, <3>3 DEF Faithful, Keeps, Path, Full, Safe, Accepted
    <3>6. Reported'
      <4>1. Verdict(next) = "noSource"
        BY <2>3 DEF Verdict
      <4>2. \A t \in Targets : outcome'[t] \in {"none", Verdict(t)'}
        BY <1>1, <3>2, <4>1, VerdictStays DEF Reported
      <4>3. \A t \in Targets : InternalOf[t] # None => Shipped(t)' = Shipped(t)
        BY <1>1, <2>3, <3>2, VerdictStays DEF Shipped
      <4> QED BY <1>1, <2>1, <4>2, <4>3 DEF Reported
    <3> QED BY <3>4, <3>5, <3>6
  <2>4. CASE InternalOf[next] # None
    <3>1. /\ SetWorker(w, "merged", Full(next)) /\ outcome' = outcome
          /\ Full(next).target = next /\ Full(next) # None
      <4>1. run \in Runs
        BY <1>1 DEF TypeOK, Bookkeeping, Standing, Runs
      <4> QED BY <1>9, <2>1, <2>4, <4>1, FullType DEF TakeJob, Full
    <3>2. /\ worker'[w].at = "merged" /\ worker'[w].doc = Full(next)
          /\ worker'[w].doc.target = next
          /\ \A v \in Workers : v # w => worker'[v] = worker[v]
      BY <3>1 DEF SetWorker, TypeOK
    <3>3. /\ Busy(w)' /\ \A v \in Workers : v # w => Busy(v)' = Busy(v)
          /\ \A v \in Workers, t \in Targets : At(v, t)' <=> At(v, t) \/ (v = w /\ t = next)
      BY <2>2, <3>2 DEF Busy, At
    <3>4. Shared'
      <4>1. ASSUME NEW t \in Targets
            PROVE  outcome'[t] = "none" <=> t >= next' \/ \E v \in Workers : At(v, t)'
        <5>1. t \in Nat /\ (outcome[t] = "none" <=> t >= next \/ \E v \in Workers : At(v, t))
          BY <1>1, PlanAssumption DEF Shared, Targets
        <5>2. CASE t = next
          BY <2>2, <3>1, <3>3, <5>2
        <5>3. CASE t # next
          <6>1. t >= next <=> t >= next'
            BY <2>1, <5>1, <5>3
          <6> QED BY <3>1, <3>3, <5>1, <5>3, <6>1
        <5> QED BY <5>2, <5>3
      <4>2. \A v \in Workers : Busy(v)' => worker'[v].doc.target < next'
        <5>1. \A v \in Workers : Busy(v) => worker[v].doc.target \in Targets /\ worker[v].doc.target < next
          BY <1>1, Worker DEF Shared
        <5> QED BY <2>1, <3>2, <3>3, <5>1, PlanAssumption DEF Targets
      <4>3. ASSUME NEW v \in Workers, NEW u \in Workers, Busy(v)', Busy(u)',
                   worker'[u].doc.target = worker'[v].doc.target
            PROVE  u = v
        <5>2. \A x \in Workers : x # w /\ Busy(x) => worker[x].doc.target # next
          BY <2>2 DEF At
        <5>3. CASE u = w \/ v = w
          BY <3>2, <3>3, <4>3, <5>2, <5>3
        <5>4. CASE u # w /\ v # w
          <6>1. Busy(v) /\ Busy(u) /\ worker[u].doc.target = worker[v].doc.target
            BY <3>2, <3>3, <4>3, <5>4
          <6> QED BY <1>1, <6>1 DEF Shared
        <5> QED BY <5>3, <5>4
      <4> QED BY <1>1, <2>1, <4>1, <4>2, <4>3 DEF Shared
    <3>5. Faithful'
      <4>1. ASSUME NEW v \in Workers, v # w, Busy(v)' PROVE Keeps(v)'
        <5>1. Keeps(v) /\ worker'[v] = worker[v]
          BY <1>1, <3>2, <3>3, <4>1 DEF Faithful
        <5> QED BY <1>1, <2>1, <5>1 DEF Keeps, Path, Full, Safe, Accepted
      <4>2. Keeps(w)'
        BY <1>1, <3>2 DEF Keeps, Full
      <4> QED BY <4>1, <4>2 DEF Faithful
    <3>6. Reported'
      BY <1>1, <2>1, <3>1, VerdictStays DEF Reported, Shipped
    <3> QED BY <3>4, <3>5, <3>6
  <2> QED BY <2>3, <2>4
<1>10. ~(NoOutput(w) \/ FileError(w) \/ CancelCompile(w))
  <2>1. ~NoOutput(w)
    <3>1. SUFFICES ASSUME worker[w].at = "compiled" PROVE tmp[Path(w)] # None
      BY DEF NoOutput
    <3>2. Busy(w) /\ worker[w].doc # None
      BY <3>1, Worker DEF Busy
    <3>3. tmp[Path(w)] = worker[w].doc
      BY <1>1, <3>1, <3>2 DEF Faithful, Keeps
    <3> QED BY <3>2, <3>3
  <2> QED BY <2>1 DEF FileError, CancelCompile
<1> QED BY <1>2, <1>3, <1>4, <1>5, <1>6, <1>7, <1>8, <1>9, <1>10 DEF WorkerStep


(* Every step of a run, of its workers, of the user and of a crash.        *)
LEMMA StepPlanned ==
  ASSUME ~FilesMayFail, OwnPaths, TypeOK, Bookkeeping, Planned, [Next]_vars
  PROVE  Planned'
<1> USE DEF Planned
<1>1. CASE \/ Start \/ ClearPrev \/ SetAside
  BY <1>1, PlanAssumption DEF Start, ClearPrev, SetAside, pool, Unstarted, Shared, Faithful, Reported, Finished
<1>2. CASE MakeDirs
  <2>1. /\ pc' = "process" /\ modRoot' = EmptyFolder /\ next' = 1 /\ ~closed'
        /\ outcome' = [t \in Targets |-> "none"] /\ worker' = worker
    BY <1>2 DEF MakeDirs, pool, Unstarted
  <2>2. \A w \in Workers : ~Busy(w)'
    BY <1>2, <2>1 DEF MakeDirs, Bookkeeping, AtWork, Busy
  <2>3. Shared'
    BY <2>1, <2>2, PlanAssumption DEF Shared, Targets
  <2>4. Faithful'
    BY <2>2 DEF Faithful
  <2>5. Reported'
    BY <2>1, PlanAssumption DEF Reported, Shipped, EmptyFolder
  <2> QED BY <2>1, <2>3, <2>4, <2>5 DEF Unstarted, Finished
<1>3. CASE CloseJobs
  <2>1. /\ pc = "process" /\ closed' = TRUE /\ (next > Count \/ cancelled)
        /\ UNCHANGED <<folders, pc, run, next, worker, outcome, cancelled, accepts>>
    BY <1>3 DEF CloseJobs
  <2>2. next > Count => next = Count + 1
    BY PlanAssumption DEF TypeOK
  <2>3. Shared'
    BY <2>1, <2>2 DEF Shared, Busy, At
  <2>4. Faithful' /\ Reported'
    BY <2>1, VerdictStays DEF folders, Faithful, Keeps, Busy, Path, Full, Safe, Accepted, Reported, Shipped, Verdict
  <2> QED BY <2>1, <2>3, <2>4 DEF Unstarted, Finished
<1>4. CASE Collect
  <2>1. /\ pc = "process" /\ closed /\ \A w \in Workers : worker[w] = Gone
        /\ pc' = IF cancelled THEN "discard" ELSE "mirror"
        /\ UNCHANGED <<folders, run, pool, cancelled, accepts>>
    BY <1>4 DEF Collect
  <2>2. CASE cancelled
    BY <2>1, <2>2 DEF Unstarted, Shared, Faithful, Reported, Finished
  <2>3. CASE ~cancelled
    <3>1. \A t \in Targets : outcome[t] # "none"
      <4>1. \A w \in Workers, t \in Targets : ~At(w, t)
        BY <2>1 DEF At, Busy, Gone
      <4>2. \A t \in Targets : ~(t >= next)
        BY <2>1, <2>3, PlanAssumption DEF Shared, Targets
      <4> QED BY <2>1, <2>3, <4>1, <4>2 DEF Shared
    <3>2. Reported'
      BY <2>1, <2>3, VerdictStays DEF folders, pool, Reported, Shipped
    <3> QED BY <2>1, <2>3, <3>1, <3>2 DEF pool, Unstarted, Shared, Faithful, Finished
  <2> QED BY <2>2, <2>3
<1>5. CASE Discard \/ PutBack \/ MirrorGlobals \/ DropPrev \/ Interrupt
  BY <1>5 DEF Discard, PutBack, MirrorGlobals, DropPrev, Interrupt, Unstarted, Shared, Faithful,
     Reported, Finished
<1>6. CASE Cancel
  BY <1>6, VerdictStays DEF Cancel, folders, pool, Unstarted, Shared, Faithful, Reported, Shipped, Finished
<1>7. CASE Deploy \/ UNCHANGED vars
  <2>1. UNCHANGED <<folders, pc, run, pool, cancelled, accepts>>
    BY <1>7 DEF Deploy, vars, folders, pool
  <2>2. Unstarted' /\ Finished' /\ Shared'
    BY <2>1 DEF pool, Unstarted, Shared, Finished, Busy, At
  <2>3. Faithful' /\ Reported'
    BY <2>1, VerdictStays DEF folders, pool, Faithful, Keeps, Busy, Path, Full, Safe, Accepted, Reported,
       Shipped, Verdict
  <2> QED BY <2>2, <2>3
<1>8. ASSUME NEW w \in Workers, WorkerStep(w) PROVE Planned'
  <2>1. pc = "process" /\ UNCHANGED <<pc, cancelled>>
    BY <1>8, WorkerInProcess
  <2>2. CASE cancelled
    BY <2>1, <2>2 DEF Unstarted, Shared, Faithful, Reported, Finished
  <2>3. CASE ~cancelled
    BY <1>8, <2>1, <2>3, WorkerPlanned DEF Unstarted, Finished
  <2> QED BY <2>2, <2>3
<1> QED BY <1>1, <1>2, <1>3, <1>4, <1>5, <1>6, <1>7, <1>8 DEF Next, RunStep

(* What a run publishes is what the plan and the compiler say, however the *)
(* scheduler ran the workers and whatever was cancelled or killed before:  *)
(* as long as every target has its own file and the disk does not fail.    *)
THEOREM PlanPublished ==
  ASSUME ~FilesMayFail, OwnPaths
  PROVE  Spec => PublishedMatchesPlan
<1>1. Init => Planned
  BY DEF Init, Planned, Unstarted, Shared, Faithful, Reported, Finished
<1>2. TypeOK /\ Bookkeeping /\ Planned /\ [Next]_vars => Planned'
  BY StepPlanned
<1>3. ASSUME TypeOK, Bookkeeping, Planned, Next, ending # "published", ending' = "published"
      PROVE  /\ outcome' = [t \in Targets |-> Verdict(t)]
             /\ \A i \in Internals : modRoot'.files[i] \in Expected(i)
             /\ \A g \in Globals : modRoot'.mirror[g] = modRoot'.files[g]
  <2>1. MirrorGlobals
    BY <1>3 DEF Next, RunStep, WorkerStep, Start, ClearPrev, SetAside, MakeDirs, CloseJobs, Collect,
       Discard, PutBack, DropPrev, Cancel, Interrupt, Deploy, TakeJob, WriteMXML, ClearTemp,
       CompilerAccepts, CompilerRejects, CancelCompile, FileError, FindOutput, NoOutput,
       CompileFailed, Place, Leave, history
  <2>2. pc = "mirror" /\ outcome' = outcome /\ modRoot \in Folder
    BY <1>3, <2>1 DEF MirrorGlobals, pool, TypeOK, Bookkeeping, Standing
  <2>3. \A t \in Targets : outcome[t] = Verdict(t)
    BY <1>3, <2>2 DEF Planned, Reported, Finished
  <2>4. outcome' = [t \in Targets |-> Verdict(t)]
    BY <1>3, <2>2, <2>3 DEF TypeOK
  <2>5. /\ modRoot'.files = modRoot.files
        /\ \A g \in Globals : modRoot'.mirror[g] = modRoot'.files[g]
    BY <2>1, <2>2 DEF MirrorGlobals, Folder
  <2>6. ASSUME NEW i \in Internals PROVE modRoot.files[i] \in Expected(i)
    <3>1. CASE \E t \in Targets : InternalOf[t] = i /\ Verdict(t) \in {"built", "degraded"}
      <4>1. PICK t \in Targets : InternalOf[t] = i /\ Verdict(t) \in {"built", "degraded"}
        BY <3>1
      <4>2. modRoot.files[i] = IF Verdict(t) = "built" THEN Full(t) ELSE Safe(t)
        BY <1>3, <2>2, <2>3, <4>1, PlanAssumption DEF Planned, Reported, Shipped
      <4> QED BY <4>1, <4>2 DEF Expected
    <3>2. CASE ~\E t \in Targets : InternalOf[t] = i /\ Verdict(t) \in {"built", "degraded"}
      <4>1. modRoot.files[i] = None
        BY <1>3, <2>2, <2>3, <3>2, PlanAssumption DEF Planned, Reported, Shipped
      <4> QED BY <3>2, <4>1 DEF Expected
    <3> QED BY <3>1, <3>2
  <2> QED BY <2>4, <2>5, <2>6
<1>4. TypeOK /\ Bookkeeping /\ Planned /\ [Next]_vars =>
        [ending # "published" /\ ending' = "published" =>
           /\ outcome' = [t \in Targets |-> Verdict(t)]
           /\ \A i \in Internals : modRoot'.files[i] \in Expected(i)
           /\ \A g \in Globals : modRoot'.mirror[g] = modRoot'.files[g]]_vars
  BY <1>3
<1> QED
  BY <1>1, <1>2, <1>4, Bookkept, PTL DEF Spec, PublishedMatchesPlan

===============================================================================
