------------------------------- MODULE BuildRun -------------------------------
(***************************************************************************)
(* build.Run (internal/build/run.go): the workspace's mod folder while     *)
(* builds run, are cancelled and crash.                                    *)
(*                                                                         *)
(* A run sets the previous output aside as <ModName>.prev, lets a pool of  *)
(* workers merge, compile and place the targets of the plan, and then      *)
(* either publishes what they placed or, when it was cancelled, puts the   *)
(* previous output back. Workers share the work directory: the merged MXML *)
(* and the temporary directory of a target are named after the pak-        *)
(* internal path it resolved to. What MBINCompiler accepts is unknown and  *)
(* fixed. A deploy reads the mod folder between runs.                      *)
(*                                                                         *)
(* A document is what one merge produced: the run and target it was made   *)
(* for and the edits in it. A mod folder maps internal paths to the        *)
(* documents their MBINs were compiled from.                               *)
(***************************************************************************)
EXTENDS Integers, FiniteSets

CONSTANTS
  Workers,      \* Options.Workers goroutines
  Count,        \* the number of targets of the plan
  Edits,        \* [1..Count -> kinds of edit: "value", "structural"]
  Internals,    \* the output paths, InternalUpper of a pak-internal path
  InternalOf,   \* [1..Count -> the path its source resolved to, or None]
  Globals,      \* the outputs that lie at the root and are mirrored
  None,
  MaxRuns,      \* bound: builds started
  FilesMayFail, \* reading, writing, listing and moving a target's files may fail
  MayStop       \* a run may crash, or return an error

Targets == 1..Count
Kinds == {"value", "structural"}

ASSUME PlanAssumption ==
  /\ Count \in Nat
  /\ Edits \in [Targets -> SUBSET Kinds]
  /\ \A t \in Targets : Edits[t] # {}
  /\ None \notin Internals
  /\ InternalOf \in [Targets -> Internals \union {None}]
  /\ Globals \subseteq Internals
  /\ MaxRuns \in Nat
  /\ FilesMayFail \in BOOLEAN /\ MayStop \in BOOLEAN

ASSUME WorkersAssumption == IsFiniteSet(Workers) /\ Workers # {}

Runs == 1..MaxRuns
Merge == [target : Targets, edits : SUBSET Kinds]
Docs == [run : Runs, target : Targets, edits : SUBSET Kinds]

(* A mod folder: its MBINs, and the copies under GLOBALS/.                 *)
Folder == [files : [Internals -> Docs \union {None}], mirror : [Globals -> Docs \union {None}]]

ASSUME NoneAssumption == None \notin Docs /\ None \notin Folder

VARIABLES
  modRoot,   \* <workspace>/<ModName>, None when it does not exist
  prev,      \* <ModName>.prev
  mxml,      \* <ModName>.work/mxml: [Internals -> document or None]
  tmp,       \* <ModName>.work/tmp: the MBIN each target's directory holds
  pc,        \* the next step of Run, "idle" when none runs
  run,       \* the number of builds started
  next,      \* the next target the feeding loop sends
  closed,    \* the jobs channel is closed
  worker,    \* [Workers -> what it is doing, and to which document]
  outcome,   \* [Targets -> the outcome of the target]
  cancelled, \* ctx is done
  accepts,   \* the merges MBINCompiler compiles
  deployed,  \* the folder the last deploy copied into the game
  (* history *)
  ending,    \* how the last run ended
  found,     \* the mod folder the run found
  published  \* every folder a run published

folders == <<modRoot, prev, mxml, tmp>>
pool == <<next, closed, worker, outcome>>
history == <<ending, found, published>>
vars == <<modRoot, prev, mxml, tmp, pc, run, next, closed, worker, outcome, cancelled,
          accepts, deployed, ending, found, published>>

EmptyFolder == [files |-> [i \in Internals |-> None], mirror |-> [g \in Globals |-> None]]
NoFiles == [i \in Internals |-> None]

Waiting == [at |-> "waiting", doc |-> None]
Gone == [at |-> "gone", doc |-> None]

(* The target's merge with all its edits, and the one the degraded retry   *)
(* compiles.                                                               *)
Full(t) == [run |-> run, target |-> t, edits |-> Edits[t]]
Safe(t) == [run |-> run, target |-> t, edits |-> {"value"}]
Retryable(doc) == doc.edits = Kinds
Accepted(doc) == [target |-> doc.target, edits |-> doc.edits] \in accepts

-------------------------------------------------------------------------------
Init ==
  /\ modRoot = None /\ prev = None
  /\ mxml = NoFiles /\ tmp = NoFiles
  /\ pc = "idle" /\ run = 0
  /\ next = 1 /\ closed = FALSE
  /\ worker = [w \in Workers |-> Gone]
  /\ outcome = [t \in Targets |-> "none"]
  /\ cancelled = FALSE
  /\ accepts \in SUBSET (UNION {{[target |-> t, edits |-> Edits[t]],
                                 [target |-> t, edits |-> {"value"}]} : t \in Targets})
  /\ deployed = None
  /\ ending = "none" /\ found = None /\ published = {}

(* Mutant: the feeding loop counts from zero.                              *)
StartAtZero ==
  /\ pc = "idle" /\ run < MaxRuns
  /\ pc' = "clearPrev"
  /\ run' = run + 1
  /\ next' = 0 /\ closed' = FALSE
  /\ worker' = [w \in Workers |-> Waiting]
  /\ outcome' = [t \in Targets |-> "none"]
  /\ cancelled' = FALSE
  /\ ending' = "none" /\ found' = modRoot
  /\ UNCHANGED <<folders, accepts, deployed, published>>

(***************************************************************************)
(* prepare: the previous output is renamed, never deleted.                 *)
(***************************************************************************)
Start ==
  /\ pc = "idle" /\ run < MaxRuns
  /\ pc' = "clearPrev"
  /\ run' = run + 1
  /\ next' = 1 /\ closed' = FALSE
  /\ worker' = [w \in Workers |-> Waiting]
  /\ outcome' = [t \in Targets |-> "none"]
  /\ cancelled' = FALSE
  /\ ending' = "none" /\ found' = modRoot
  /\ UNCHANGED <<folders, accepts, deployed, published>>

ClearPrev ==
  /\ pc = "clearPrev"
  /\ prev' = None
  /\ pc' = "setAside"
  /\ UNCHANGED <<modRoot, mxml, tmp, run, pool, cancelled, accepts, deployed, history>>

(* Mutant: prepare deletes the previous output.                            *)
DeleteOutput ==
  /\ pc = "setAside"
  /\ modRoot' = None
  /\ pc' = "makeDirs"
  /\ UNCHANGED <<prev, mxml, tmp, run, pool, cancelled, accepts, deployed, history>>

SetAside ==
  /\ pc = "setAside"
  /\ IF modRoot = None THEN UNCHANGED <<modRoot, prev>> ELSE prev' = modRoot /\ modRoot' = None
  /\ pc' = "makeDirs"
  /\ UNCHANGED <<mxml, tmp, run, pool, cancelled, accepts, deployed, history>>

MakeDirs ==
  /\ pc = "makeDirs"
  /\ modRoot' = EmptyFolder /\ mxml' = NoFiles /\ tmp' = NoFiles
  /\ pc' = "process"
  /\ UNCHANGED <<prev, run, pool, cancelled, accepts, deployed, history>>

(***************************************************************************)
(* process: the feeding loop and the workers.                              *)
(***************************************************************************)
SetWorker(w, at, doc) == worker' = [worker EXCEPT ![w] = [at |-> at, doc |-> doc]]
Report(t, how) == outcome' = [outcome EXCEPT ![t] = how]

(* An unbuffered send meets a worker's receive. The worker reads the       *)
(* pristine file and merges: a target with no cached source, or with one   *)
(* that cannot be read, is reported and skipped.                           *)
TakeJob(w) ==
  /\ pc = "process" /\ ~closed /\ next <= Count
  /\ worker[w].at = "waiting"
  /\ next' = next + 1
  /\ \/ /\ InternalOf[next] = None \/ FilesMayFail
        /\ Report(next, "noSource") /\ UNCHANGED worker
     \/ /\ InternalOf[next] # None
        /\ SetWorker(w, "merged", Full(next)) /\ UNCHANGED outcome
  /\ UNCHANGED <<folders, pc, run, closed, cancelled, accepts, deployed, history>>

(* The feeding loop ends with the plan or with the context, and closes the *)
(* channel.                                                                *)
CloseJobs ==
  /\ pc = "process" /\ ~closed
  /\ next > Count \/ cancelled
  /\ closed' = TRUE
  /\ UNCHANGED <<folders, pc, run, next, worker, outcome, cancelled, accepts, deployed, history>>

Path(w) == InternalOf[worker[w].doc.target]

WriteMXML(w) ==
  /\ worker[w].at = "merged"
  /\ mxml' = [mxml EXCEPT ![Path(w)] = worker[w].doc]
  /\ SetWorker(w, "written", worker[w].doc)
  /\ UNCHANGED <<modRoot, prev, tmp, pc, run, next, closed, outcome, cancelled, accepts,
                 deployed, history>>

ClearTemp(w) ==
  /\ worker[w].at = "written"
  /\ tmp' = [tmp EXCEPT ![Path(w)] = None]
  /\ SetWorker(w, "compiling", worker[w].doc)
  /\ UNCHANGED <<modRoot, prev, mxml, pc, run, next, closed, outcome, cancelled, accepts,
                 deployed, history>>

(* Mutant: the compiler's exit code is ignored.                            *)
AlwaysCompiled(w) ==
  /\ worker[w].at = "compiling"
  /\ tmp' = [tmp EXCEPT ![Path(w)] = mxml[Path(w)]]
  /\ SetWorker(w, "compiled", worker[w].doc)
  /\ UNCHANGED <<modRoot, prev, mxml, pc, run, next, closed, outcome, cancelled, accepts,
                 deployed, history>>

(* MBINCompiler compiles the file at the MXML path, whoever wrote it, and  *)
(* convert looks for the MBIN in the temporary directory.                  *)
CompilerAccepts(w) ==
  /\ worker[w].at = "compiling" /\ Accepted(mxml[Path(w)])
  /\ tmp' = [tmp EXCEPT ![Path(w)] = mxml[Path(w)]]
  /\ SetWorker(w, "compiled", worker[w].doc)
  /\ UNCHANGED <<modRoot, prev, mxml, pc, run, next, closed, outcome, cancelled, accepts,
                 deployed, history>>

(* A failed compile of a merge with structural and value edits is retried  *)
(* once, with the value edits alone. Any other failure drops the file.     *)
CompileFailed(w) ==
  LET doc == worker[w].doc IN
  /\ IF Retryable(doc)
     THEN SetWorker(w, "merged", Safe(doc.target)) /\ UNCHANGED outcome
     ELSE Report(doc.target, "dropped") /\ SetWorker(w, "waiting", None)
  /\ UNCHANGED <<folders, pc, run, next, closed, cancelled, accepts, deployed, history>>

CompilerRejects(w) ==
  worker[w].at = "compiling" /\ ~Accepted(mxml[Path(w)]) /\ CompileFailed(w)

(* Making, writing, clearing or listing a target's own files fails, which   *)
(* compile and convert return as they return a rejection.                  *)
FileError(w) ==
  FilesMayFail /\ worker[w].at \in {"merged", "written", "compiling", "compiled"} /\ CompileFailed(w)

FindOutput(w) ==
  /\ worker[w].at = "compiled" /\ tmp[Path(w)] # None
  /\ SetWorker(w, "found", worker[w].doc)
  /\ UNCHANGED <<folders, pc, run, next, closed, outcome, cancelled, accepts, deployed, history>>

NoOutput(w) == worker[w].at = "compiled" /\ tmp[Path(w)] = None /\ CompileFailed(w)

(* Mutant: exec.Command, which no context kills.                           *)
NeverKilled(w) == FALSE

(* exec.CommandContext kills the compiler, and a compile that is waiting   *)
(* for a process slot gives up.                                            *)
CancelCompile(w) == worker[w].at = "compiling" /\ cancelled /\ CompileFailed(w)

Built(doc) == IF doc.edits = Edits[doc.target] THEN "built" ELSE "degraded"

(* moveFile into the mod folder. It also fails when the copy is made but   *)
(* the original cannot be removed.                                         *)
Place(w) ==
  LET doc == worker[w].doc
      placed == tmp[Path(w)] IN
  /\ worker[w].at = "found"
  /\ \/ /\ placed # None
        /\ modRoot' = [modRoot EXCEPT !.files[Path(w)] = placed]
        /\ tmp' = [tmp EXCEPT ![Path(w)] = None]
        /\ Report(doc.target, Built(doc))
     \/ /\ placed = None \/ FilesMayFail
        /\ Report(doc.target, "dropped")
        /\ \/ UNCHANGED modRoot
           \/ placed # None /\ modRoot' = [modRoot EXCEPT !.files[Path(w)] = placed]
        /\ UNCHANGED tmp
  /\ SetWorker(w, "waiting", None)
  /\ UNCHANGED <<prev, mxml, pc, run, next, closed, cancelled, accepts, deployed, history>>

Leave(w) ==
  /\ pc = "process" /\ closed
  /\ worker[w].at = "waiting"
  /\ worker' = [worker EXCEPT ![w] = Gone]
  /\ UNCHANGED <<folders, pc, run, next, closed, outcome, cancelled, accepts, deployed, history>>

(* Mutant: a run whose every target was handed out counts as complete.     *)
CollectFed ==
  /\ pc = "process" /\ closed
  /\ \A w \in Workers : worker[w] = Gone
  /\ pc' = IF cancelled /\ next <= Count THEN "discard" ELSE "mirror"
  /\ UNCHANGED <<folders, run, pool, cancelled, accepts, deployed, history>>

(* wg.Wait, then the one look at ctx.Err that decides the run.             *)
Collect ==
  /\ pc = "process" /\ closed
  /\ \A w \in Workers : worker[w] = Gone
  /\ pc' = IF cancelled THEN "discard" ELSE "mirror"
  /\ UNCHANGED <<folders, run, pool, cancelled, accepts, deployed, history>>

(***************************************************************************)
(* restorePrevious, or mirrorGlobals and the end of .prev.                 *)
(***************************************************************************)
(* Mutant: .prev is consumed before the run is undone.                     *)
DiscardBoth ==
  /\ pc = "discard"
  /\ modRoot' = None /\ prev' = None
  /\ pc' = "putBack"
  /\ UNCHANGED <<mxml, tmp, run, pool, cancelled, accepts, deployed, history>>

Discard ==
  /\ pc = "discard"
  /\ modRoot' = None
  /\ pc' = "putBack"
  /\ UNCHANGED <<prev, mxml, tmp, run, pool, cancelled, accepts, deployed, history>>

PutBack ==
  /\ pc = "putBack"
  /\ modRoot' = prev /\ prev' = None
  /\ pc' = "idle" /\ ending' = "undone"
  /\ UNCHANGED <<mxml, tmp, run, pool, cancelled, accepts, deployed, found, published>>

MirrorGlobals ==
  /\ pc = "mirror"
  /\ modRoot' = [modRoot EXCEPT !.mirror = [g \in Globals |-> modRoot.files[g]]]
  /\ pc' = "dropPrev"
  /\ ending' = "published" /\ published' = published \union {modRoot'}
  /\ UNCHANGED <<prev, mxml, tmp, run, pool, cancelled, accepts, deployed, found>>

DropPrev ==
  /\ pc = "dropPrev"
  /\ prev' = None
  /\ pc' = "idle"
  /\ UNCHANGED <<modRoot, mxml, tmp, run, pool, cancelled, accepts, deployed, history>>

(***************************************************************************)
(* The user cancels; the process crashes or a step returns an error; a     *)
(* deploy copies the folder when it holds at least one file.               *)
(***************************************************************************)
Cancel ==
  /\ pc # "idle" /\ ~cancelled
  /\ cancelled' = TRUE
  /\ UNCHANGED <<folders, pc, run, pool, accepts, deployed, history>>

(* A RemoveAll or a mirror that was interrupted did a part of its work.    *)
Remains(folder) ==
  IF folder = None THEN {None}
  ELSE {None} \union
       {[files |-> [i \in Internals |-> IF i \in kept THEN folder.files[i] ELSE None],
         mirror |-> folder.mirror] : kept \in SUBSET Internals}
Mirrored(folder) ==
  {[folder EXCEPT !.mirror = [g \in Globals |-> IF g \in done THEN folder.files[g] ELSE None]] :
     done \in SUBSET Globals}

Interrupt ==
  /\ MayStop /\ pc # "idle"
  /\ modRoot' \in CASE pc = "discard" -> Remains(modRoot)
                    [] pc = "mirror"  -> Mirrored(modRoot)
                    [] OTHER          -> {modRoot}
  /\ prev' \in IF pc \in {"clearPrev", "dropPrev"} THEN Remains(prev) ELSE {prev}
  /\ pc' = "idle"
  /\ worker' = [w \in Workers |-> Gone]
  /\ UNCHANGED <<mxml, tmp, run, next, closed, outcome, cancelled, accepts, deployed, history>>

Deploy ==
  /\ pc = "idle" /\ modRoot # None
  /\ \E i \in Internals : modRoot.files[i] # None
  /\ deployed' = modRoot
  /\ UNCHANGED <<folders, pc, run, pool, cancelled, accepts, history>>

WorkerStep(w) ==
  \/ TakeJob(w) \/ WriteMXML(w) \/ ClearTemp(w) \/ CompilerAccepts(w) \/ CompilerRejects(w)
  \/ CancelCompile(w) \/ FileError(w) \/ FindOutput(w) \/ NoOutput(w) \/ Place(w) \/ Leave(w)
RunStep ==
  \/ ClearPrev \/ SetAside \/ MakeDirs \/ CloseJobs \/ Collect
  \/ Discard \/ PutBack \/ MirrorGlobals \/ DropPrev

Next == Start \/ RunStep \/ (\E w \in Workers : WorkerStep(w)) \/ Cancel \/ Interrupt \/ Deploy

Spec == Init /\ [][Next]_vars

(* Go schedules every goroutine that can run, and the operating system     *)
(* kills a process it was told to kill. Nobody promises that MBINCompiler  *)
(* ends by itself, so its verdicts are not fair steps.                     *)
Fairness ==
  /\ WF_vars(RunStep)
  /\ \A w \in Workers :
       /\ WF_vars(\/ TakeJob(w) \/ WriteMXML(w) \/ ClearTemp(w) \/ FindOutput(w) \/ NoOutput(w)
                  \/ Place(w) \/ Leave(w))
       /\ WF_vars(CancelCompile(w))
FairSpec == Spec /\ Fairness

-------------------------------------------------------------------------------
Places == {"idle", "clearPrev", "setAside", "makeDirs", "process", "discard", "putBack",
           "mirror", "dropPrev"}
Stages == {"waiting", "merged", "written", "compiling", "compiled", "found", "gone"}
TypeOK ==
  /\ modRoot \in Folder \union {None} /\ prev \in Folder \union {None}
  /\ mxml \in [Internals -> Docs \union {None}] /\ tmp \in [Internals -> Docs \union {None}]
  /\ pc \in Places /\ run \in 0..MaxRuns
  /\ next \in 1..(Count + 1) /\ closed \in BOOLEAN
  /\ worker \in [Workers -> [at : Stages, doc : Docs \union {None}]]
  /\ outcome \in [Targets -> {"none", "noSource", "built", "degraded", "dropped"}]
  /\ cancelled \in BOOLEAN
  /\ accepts \subseteq Merge
  /\ deployed \in Folder \union {None}
  /\ ending \in {"none", "undone", "published"}
  /\ found \in Folder \union {None} /\ published \subseteq Folder

(* Where a run stands decides what is on disk and which workers may be at  *)
(* it: workers have targets with a source, and only while Run waits for    *)
(* them; the output they write to is there; the folder the run found is    *)
(* under its own name until it is set aside, and under .prev until the run *)
(* has published or put it back.                                           *)
Busy(w) == worker[w].at \notin {"waiting", "gone"}
AtWork ==
  \A w \in Workers : Busy(w) =>
    pc = "process" /\ worker[w].doc # None /\ InternalOf[worker[w].doc.target] # None
Standing ==
  /\ pc # "idle" => run # 0
  /\ pc \in {"process", "discard", "mirror", "dropPrev"} => modRoot # None
  /\ pc \notin {"idle", "dropPrev"} => ending = "none"
  /\ pc = "dropPrev" => ending = "published"
Aside ==
  /\ pc \in {"clearPrev", "setAside"} => modRoot = found
  /\ pc = "setAside" => prev = None
  /\ pc \in {"makeDirs", "process", "discard", "putBack", "mirror"} => prev = found
Bookkeeping == AtWork /\ Standing /\ Aside

(* What the compiler left in a temporary directory is its own output.      *)
TmpCompiled == \A i \in Internals : tmp[i] # None => Accepted(tmp[i])

(* "A file the compiler rejects is never shipped": whatever lies in the    *)
(* mod folder, beside it, or in the game was compiled from a document      *)
(* MBINCompiler accepts, also when two targets share one output path and   *)
(* overwrite each other's files.                                           *)
Compiled(folder) ==
  folder # None => \A i \in Internals : folder.files[i] # None => Accepted(folder.files[i])
OnlyCompiledShips == Compiled(modRoot) /\ Compiled(prev) /\ Compiled(deployed)

(* Until a run publishes, the folder it found is on disk, complete, under  *)
(* its own name or as .prev: wherever the run crashes or fails.            *)
FoundSurvives == found # None /\ ending # "published" => found \in {modRoot, prev}

(* A cancelled run leaves the mod folder it found, and none when there was *)
(* none.                                                                   *)
CancelUndoes == [][ending # "undone" /\ ending' = "undone" => modRoot' = found]_vars

(* What a run publishes depends on the plan and on the compiler, not on    *)
(* the order the workers ran in: every target with a source and a merge    *)
(* that compiles, all its edits when they compile and its value edits when *)
(* only they do, and the globals twice.                                    *)
Verdict(t) ==
  IF InternalOf[t] = None THEN "noSource"
  ELSE IF Accepted(Full(t)) THEN "built"
  ELSE IF Edits[t] = Kinds /\ Accepted(Safe(t)) THEN "degraded" ELSE "dropped"
Expected(i) ==
  LET built == {Full(t) : t \in {u \in Targets : InternalOf[u] = i /\ Verdict(u) = "built"}}
      degraded == {Safe(t) : t \in {u \in Targets : InternalOf[u] = i /\ Verdict(u) = "degraded"}}
  IN  IF built \union degraded = {} THEN {None} ELSE built \union degraded
PublishedMatchesPlan ==
  [][ending # "published" /\ ending' = "published" =>
       /\ outcome' = [t \in Targets |-> Verdict(t)]
       /\ \A i \in Internals : modRoot'.files[i] \in Expected(i)
       /\ \A g \in Globals : modRoot'.mirror[g] = modRoot'.files[g]]_vars

(* A cancelled run returns, even when MBINCompiler hangs.                  *)
CancelReturns == (pc # "idle" /\ cancelled) ~> pc = "idle"

(* The abstract specification of the mod folder: see Publication.          *)
Decided == {"discard", "putBack", "mirror", "dropPrev"}
Visible ==
  IF pc \in {"makeDirs", "process", "discard", "putBack"} THEN prev
  ELSE IF pc = "mirror" THEN [modRoot EXCEPT !.mirror = [g \in Globals |-> modRoot.files[g]]]
  ELSE modRoot
Stage == IF pc = "idle" THEN "idle" ELSE IF pc \in Decided THEN "decided" ELSE "building"
Output == INSTANCE Publication WITH output <- Visible, stage <- Stage, revoked <- cancelled
AllOrNothing == Output!Spec

===============================================================================
