------------------------------ MODULE Toolchain ------------------------------
(* The MBINCompiler releases under the tools directory (mbin/install.go,      *)
(* mbin/releases.go), the operations on them (core/tools.go) and the limit on *)
(* MBINCompiler processes they share with a build (mbin/compiler.go), inside  *)
(* one program.  A release is a directory with a binary and a library per     *)
(* flavor and the save-key mapping; a binary either runs and reports its      *)
(* release's version or it does not.                                          *)
EXTENDS Naturals, Sequences, FiniteSets, FiniteSetsExt

CONSTANTS
  MaxTag,     \* releases 1..MaxTag: a higher number is a higher version
  GameOf,     \* the game version (major.minor) a release is made for
  Limit,      \* config.Workers: how many MBINCompilers may run at once
  None,
  MaxOpens    \* bound: operations that open a session

Tags == 1..MaxTag
Flavors == {"dotnet10", "self-contained"}
Games == {GameOf[t] : t \in Tags}
(* The goroutines that run MBINCompiler: a tools operation, a build, and the  *)
(* compatibility check the user may start beside them.                        *)
Users == {"tools", "build", "check"}

ASSUME ToolchainAssumption ==
  /\ MaxTag \in Nat \ {0} /\ Limit \in Nat \ {0} /\ MaxOpens \in Nat
  /\ None \notin Tags /\ None \notin Games /\ None \notin {"runs", "broken"}
  /\ None \notin [sem : 0..MaxOpens, held : BOOLEAN]

VARIABLES
  published,  \* the releases GitHub lists
  listing,    \* releases.json, the listing that was fetched last
  pin,        \* mbincompiler.pin
  dirs,       \* tools/mbincompiler/<tag>
  op,         \* the tools operation
  job,        \* what the build and the check have located, each
  slots,      \* the semaphore a user asked for a slot, and whether it has one
  sem,        \* the current semaphore: SetMaxProcesses makes a new one
  tokens      \* how many slots of each semaphore are taken

vars == <<published, listing, pin, dirs, op, job, slots, sem, tokens>>
files == <<published, listing, pin, dirs>>
limit == <<slots, sem, tokens>>

NoDir == [bin |-> [f \in Flavors |-> None], lib |-> {}, mapping |-> FALSE]
NoOp == [pc |-> "idle"]

(***************************************************************************)
(* Which compiler is used                                                  *)
(***************************************************************************)

(* What a directory with a binary and its library looks like to locateIn:     *)
(* complete, whether it runs or not.                                          *)
Complete(d) == {f \in Flavors : d.bin[f] # None /\ f \in d.lib}
Working(d) == {f \in Complete(d) : d.bin[f] = "runs"}
Present(d) == d # NoDir

(* Locate: the pinned release if it is complete, else an error; without a pin *)
(* the highest complete one.                                                  *)
Locate(ds, p) ==
  LET usable == {t \in Tags : Complete(ds[t]) # {} /\ p \in {None, t}}
  IN  IF usable = {} THEN None ELSE Max(usable)

(* Select: the pin if it is listed; the highest release made for the game's   *)
(* version; the highest release when the version is unknown or has none.      *)
Select(releases, p, game) ==
  LET matching == {t \in releases : GameOf[t] = game}
  IN  CASE p # None -> IF p \in releases THEN p ELSE None
        [] p = None /\ matching # {} -> Max(matching)
        [] OTHER -> Max(releases)

(***************************************************************************)
(* The process limit                                                       *)
(***************************************************************************)

(* Every operation opens a session, and every session sets the limit again:   *)
(* a new semaphore, with nobody in it.                                        *)
Open ==
  /\ sem < MaxOpens
  /\ sem' = sem + 1

(* acquire reads the current semaphore and waits on that one from then on.    *)
Ask(u, g) == slots' = [slots EXCEPT ![u] = [sem |-> g, held |-> FALSE]]

Waiting(u) == slots[u] # None /\ ~slots[u].held
Holding(u) == slots[u] # None /\ slots[u].held

(* Mutant: the slot is taken without waiting for one to be free.              *)
AcquireAnyway(u) ==
  /\ Waiting(u)
  /\ tokens' = [tokens EXCEPT ![slots[u].sem] = @ + 1]
  /\ slots' = [slots EXCEPT ![u].held = TRUE]
  /\ UNCHANGED <<published, listing, pin, dirs, op, job, sem>>

Acquire(u) ==
  /\ Waiting(u)
  /\ tokens[slots[u].sem] < Limit
  /\ tokens' = [tokens EXCEPT ![slots[u].sem] = @ + 1]
  /\ slots' = [slots EXCEPT ![u].held = TRUE]
  /\ UNCHANGED <<published, listing, pin, dirs, op, job, sem>>

(* Mutants: a slot goes back to whatever semaphore is current; a slot is not  *)
(* given back.                                                                *)
ReleaseCurrent(u) ==
  /\ Holding(u)
  /\ tokens' = [tokens EXCEPT ![sem] = IF @ > 0 THEN @ - 1 ELSE 0]
ReleaseNone(u) ==
  /\ Holding(u)
  /\ tokens' = tokens

(* The process of a user has ended: its slot goes back to the semaphore it    *)
(* came from.                                                                 *)
Release(u) ==
  /\ Holding(u)
  /\ tokens[slots[u].sem] > 0
  /\ tokens' = [tokens EXCEPT ![slots[u].sem] = @ - 1]

(* A cancelled user that has no slot yet stops waiting for one.               *)
Leave(u) ==
  /\ Waiting(u)
  /\ tokens' = tokens

(* One MBINCompiler run of the tools operation ends, having worked or not: a  *)
(* cancelled one fails, running or waiting.                                   *)
Ended(works) ==
  \/ Release("tools") /\ works = (~op.cancelled)
  \/ op.cancelled /\ Leave("tools") /\ ~works

(***************************************************************************)
(* tools ensure                                                            *)
(***************************************************************************)

Ensuring(pc, p, offline, install) ==
  [pc |-> pc, pin |-> p, offline |-> offline, install |-> install, game |-> None,
   releases |-> {}, tag |-> None, todo |-> <<>>, cancelled |-> FALSE]

(* The ensure goes on in the session that was opened for it: the game's       *)
(* version is asked of the compiler that is in use, before the listing is     *)
(* read; without one it stays unknown.                                        *)
AskVersion(begun) ==
  IF Locate(dirs, pin) = None
    THEN op' = [begun EXCEPT !.pc = "listing"] /\ UNCHANGED slots
    ELSE op' = [begun EXCEPT !.pc = "asking"] /\ Ask("tools", sem')

(* EnsureTools, for the configured pin or one given for this call.            *)
BeginEnsure ==
  /\ op = NoOp
  /\ Open
  /\ UNCHANGED pin
  /\ \E offline \in BOOLEAN, p \in {pin} \union Tags :
       AskVersion(Ensuring("asking", p, offline, TRUE))
  /\ UNCHANGED <<published, listing, dirs, job, tokens>>

(* ListReleases asks and lists in the same way, and installs nothing.         *)
BeginListReleases ==
  /\ op = NoOp
  /\ Open
  /\ UNCHANGED pin
  /\ \E offline \in BOOLEAN : AskVersion(Ensuring("asking", pin, offline, FALSE))
  /\ UNCHANGED <<published, listing, dirs, job, tokens>>

(* PinTool: the pin is saved; unpinning goes on to EnsureTools.               *)
Pin ==
  /\ op = NoOp
  /\ Open
  /\ \E t \in Tags \union {None} :
       /\ pin' = t
       /\ IF t # None THEN op' = op
          ELSE \E offline \in BOOLEAN : op' = Ensuring("unpinned", None, offline, TRUE)
  /\ UNCHANGED <<published, listing, dirs, job, slots, tokens>>

(* The ensure of an unpinning opens a session of its own, or fails to: the    *)
(* pin is gone either way, and PinTool reports what is still in use.          *)
EnsureUnpinned ==
  /\ op.pc = "unpinned"
  /\ \/ Open /\ AskVersion(op)
     \/ op' = NoOp /\ UNCHANGED <<slots, sem>>
  /\ UNCHANGED <<files, job, tokens>>

(* The answer is a plausible version or unknown: game data that MBINCompiler  *)
(* did not write, a number no release has, a compiler that does not run.      *)
VersionRead ==
  /\ op.pc = "asking"
  /\ \E works \in BOOLEAN, game \in Games \union {None} :
       /\ Ended(works)
       /\ works \/ game = None
       /\ op' = [op EXCEPT !.pc = "listing", !.game = game]
  /\ slots' = [slots EXCEPT !["tools"] = None]
  /\ UNCHANGED <<published, listing, pin, dirs, job, sem>>

(* writeCache: the new listing is stored, or cannot be written, or is torn by *)
(* a kill; readCache takes a torn one for none.                               *)
Stored(fetched) == {fetched, listing, {}}

(* Releases: the stored listing alone when offline; otherwise GitHub's, which *)
(* is stored, or the stored one when GitHub fails or has nothing newer.       *)
List ==
  /\ op.pc = "listing"
  /\ \E releases \in {listing, published} :
       /\ IF releases = listing THEN UNCHANGED listing
          ELSE ~op.offline /\ ~op.cancelled /\ listing' \in Stored(releases)
       /\ op' = IF releases = {} \/ ~op.install THEN NoOp
                ELSE [op EXCEPT !.pc = "choosing", !.releases = releases]
  /\ UNCHANGED <<published, pin, dirs, job, limit>>

(* What the choice was made from is not used again.                           *)
Chosen(t, flavors) ==
  [Ensuring("verify", None, op.offline, TRUE) EXCEPT
     !.tag = t, !.todo = flavors, !.cancelled = op.cancelled]

(* Mutant: only the first flavor of what is there is verified.                *)
ChooseFirst ==
  /\ op.pc = "choosing"
  /\ LET t == Select(op.releases, op.pin, op.game)
     IN  op' = IF t = None THEN NoOp
               ELSE Chosen(t, <<"dotnet10">>)
  /\ UNCHANGED <<files, job, limit>>

(* The release to install; verifyDir then runs what is already there, one     *)
(* complete flavor after the other.                                           *)
Choose ==
  /\ op.pc = "choosing"
  /\ LET t == Select(op.releases, op.pin, op.game)
     IN  op' = IF t = None THEN NoOp
               ELSE Chosen(t, <<"dotnet10", "self-contained">>)
  /\ UNCHANGED <<files, job, limit>>

(* The next flavor to verify runs; when none is left the release is not       *)
(* installed, and the flavors are tried in the order the configuration or the *)
(* .NET runtime on this machine gives.                                        *)
Verify ==
  /\ op.pc = "verify"
  /\ IF op.todo = <<>>
       THEN /\ \E order \in {<<"dotnet10", "self-contained">>, <<"self-contained", "dotnet10">>} :
                 op' = [op EXCEPT !.pc = "flavor", !.todo = order]
            /\ UNCHANGED slots
       ELSE IF Head(op.todo) \in Complete(dirs[op.tag])
         THEN op' = [op EXCEPT !.pc = "verifying"] /\ Ask("tools", sem)
         ELSE op' = [op EXCEPT !.todo = Tail(@)] /\ UNCHANGED slots
  /\ UNCHANGED <<files, job, sem, tokens>>

Verified ==
  /\ op.pc = "verifying"
  /\ \E runs \in BOOLEAN :
       /\ Ended(runs)
       /\ op' = IF runs /\ dirs[op.tag].bin[Head(op.todo)] = "runs"
                  THEN [op EXCEPT !.pc = "mapping"]
                  ELSE [op EXCEPT !.pc = "verify", !.todo = Tail(@)]
  /\ slots' = [slots EXCEPT !["tools"] = None]
  /\ UNCHANGED <<files, job, sem>>

(* A flavor the release publishes no assets for is passed over; the install   *)
(* fails when no flavor is left.                                              *)
TryFlavor ==
  /\ op.pc = "flavor"
  /\ op' \in IF op.todo = <<>> THEN {NoOp}
             ELSE {[op EXCEPT !.pc = "bin"], [op EXCEPT !.todo = Tail(@)]}
  /\ UNCHANGED <<files, job, limit>>

(* Each file arrives whole, under its name, or not at all.                    *)
DownloadBinary ==
  /\ op.pc = "bin" /\ ~op.cancelled
  /\ \E quality \in {"runs", "broken"} :
       dirs' = [dirs EXCEPT ![op.tag].bin[Head(op.todo)] = quality]
  /\ op' = [op EXCEPT !.pc = "lib"]
  /\ UNCHANGED <<published, listing, pin, job, limit>>

DownloadLibrary ==
  /\ op.pc = "lib" /\ ~op.cancelled
  /\ dirs' = [dirs EXCEPT ![op.tag].lib = @ \union {Head(op.todo)}]
  /\ op' = [op EXCEPT !.pc = "trying"]
  /\ Ask("tools", sem)
  /\ UNCHANGED <<published, listing, pin, job, sem, tokens>>

(* The whole directory of the release goes, and the next flavor is tried.     *)
Discard ==
  /\ dirs' = [dirs EXCEPT ![op.tag] = NoDir]
  /\ op' = [op EXCEPT !.pc = "flavor", !.todo = Tail(@)]

DownloadFails ==
  /\ op.pc \in {"bin", "lib"}
  /\ Discard
  /\ UNCHANGED <<published, listing, pin, job, limit>>

(* Mutant: the fresh install is kept unseen.                                  *)
TriedUnseen ==
  /\ op.pc = "trying"
  /\ \E runs \in BOOLEAN :
       /\ Ended(runs)
       /\ IF runs THEN op' = [op EXCEPT !.pc = "mapping"] /\ UNCHANGED dirs
          ELSE Discard
  /\ slots' = [slots EXCEPT !["tools"] = None]
  /\ UNCHANGED <<published, listing, pin, job, sem>>

(* The fresh install is run: it is kept only if it reports its version.       *)
Tried ==
  /\ op.pc = "trying"
  /\ \E runs \in BOOLEAN :
       /\ Ended(runs)
       /\ IF runs /\ dirs[op.tag].bin[Head(op.todo)] = "runs"
            THEN op' = [op EXCEPT !.pc = "mapping"] /\ UNCHANGED dirs
            ELSE Discard
  /\ slots' = [slots EXCEPT !["tools"] = None]
  /\ UNCHANGED <<published, listing, pin, job, sem>>

(* InstallMapping, unless offline or already there; its failure is a warning. *)
FetchMapping ==
  /\ op.pc = "mapping"
  /\ \/ /\ ~op.offline /\ ~op.cancelled
        /\ dirs' = [dirs EXCEPT ![op.tag].mapping = TRUE]
     \/ UNCHANGED dirs
  /\ op' = NoOp
  /\ UNCHANGED <<published, listing, pin, job, limit>>

Cancel ==
  /\ op # NoOp /\ op.pc # "removing" /\ ~op.cancelled
  /\ op' = [op EXCEPT !.cancelled = TRUE]
  /\ UNCHANGED <<files, job, limit>>

(***************************************************************************)
(* tools remove                                                            *)
(***************************************************************************)

(* RemoveTool refuses a release that is not there and the one in use.         *)
BeginRemove ==
  /\ op = NoOp
  /\ Open
  /\ \E t \in Tags :
       /\ Present(dirs[t])
       /\ Locate(dirs, pin) # t
       /\ op' = [pc |-> "removing", tag |-> t]
  /\ UNCHANGED <<files, job, slots, tokens>>

Remove ==
  /\ op.pc = "removing"
  /\ dirs' = [dirs EXCEPT ![op.tag] = NoDir]
  /\ op' = NoOp
  /\ UNCHANGED <<published, listing, pin, job, limit>>

(***************************************************************************)
(* A build and a compatibility check beside it                             *)
(***************************************************************************)

(* Both open a session and locate their compiler once, in the beginning.      *)
Locates(u) ==
  /\ job[u] = None
  /\ Open
  /\ job' = [job EXCEPT ![u] = Locate(dirs, pin)]
  /\ UNCHANGED <<files, op, slots, tokens>>

(* Each conversion takes a slot, runs and gives it back, and may fail.        *)
Convert(u) ==
  /\ job[u] # None /\ slots[u] = None
  /\ Ask(u, sem)
  /\ UNCHANGED <<files, op, job, sem, tokens>>

Converted(u) ==
  /\ Release(u)
  /\ slots' = [slots EXCEPT ![u] = None]
  /\ job' \in {job, [job EXCEPT ![u] = None]}
  /\ UNCHANGED <<files, op, sem>>

(***************************************************************************)
(* The rest of the world                                                   *)
(***************************************************************************)

(* The program ends or is killed: its operations are gone, its files stay,    *)
(* and the next one begins with no semaphore but the one its first operation  *)
(* makes.                                                                     *)
Stop ==
  /\ op # NoOp
  /\ op' = NoOp
  /\ job' = [u \in Users |-> None]
  /\ slots' = [u \in Users |-> None]
  /\ tokens' = [g \in 0..MaxOpens |-> 0]
  /\ UNCHANGED <<files, sem>>

Publish ==
  /\ \E t \in Tags \ published : published' = published \union {t}
  /\ UNCHANGED <<listing, pin, dirs, op, job, limit>>

Init ==
  /\ published = {1}
  /\ listing = {} /\ pin = None
  /\ dirs = [t \in Tags |-> NoDir]
  /\ op = NoOp
  /\ job = [u \in Users |-> None]
  /\ slots = [u \in Users |-> None]
  /\ sem = 0
  /\ tokens = [g \in 0..MaxOpens |-> 0]

ToolsStep ==
  \/ EnsureUnpinned \/ VersionRead \/ List \/ Choose \/ Verify \/ Verified \/ TryFlavor
  \/ DownloadBinary \/ DownloadLibrary \/ DownloadFails \/ Tried
  \/ FetchMapping \/ Remove

Others == Users \ {"tools"}

Next ==
  \/ BeginEnsure \/ BeginListReleases \/ Pin \/ BeginRemove \/ Cancel
  \/ ToolsStep
  \/ \E u \in Users : Acquire(u)
  \/ \E u \in Others : Locates(u) \/ Convert(u) \/ Converted(u)
  \/ Publish
  \/ Stop

Spec == Init /\ [][Next]_vars

(* Operations that have begun go on; every MBINCompiler process ends.  A      *)
(* waiting sender on a channel gets its turn when slots keep being freed.     *)
FairSpec ==
  /\ Spec
  /\ WF_vars(ToolsStep)
  /\ \A u \in Others : WF_vars(Converted(u))
  /\ \A u \in Users : SF_vars(Acquire(u))

(***************************************************************************)
(* Properties                                                              *)
(***************************************************************************)

(* Every variable has its type: no semaphore ever has more than Limit tokens. *)
TypeOK ==
  /\ published \in SUBSET Tags /\ listing \in SUBSET Tags
  /\ pin \in Tags \union {None}
  /\ dirs \in [Tags -> [bin : [Flavors -> {None, "runs", "broken"}],
                        lib : SUBSET Flavors, mapping : BOOLEAN]]
  /\ op.pc \in {"idle", "unpinned", "asking", "listing", "choosing", "verify",
               "verifying", "flavor", "bin", "lib", "trying", "mapping", "removing"}
  /\ job \in [Users -> Tags \union {None}]
  /\ slots \in [Users -> [sem : 0..MaxOpens, held : BOOLEAN] \union {None}]
  /\ sem \in 0..MaxOpens
  /\ tokens \in [0..MaxOpens -> 0..Limit]

(* A slot goes back to the semaphore it was taken from: each semaphore has as *)
(* many tokens as users hold one of its slots, however often the limit is set *)
(* again while they run.  A token that stayed would be a slot lost for good.  *)
SlotsAccounted ==
  \A g \in 0..MaxOpens :
    tokens[g] = Cardinality({u \in Users : Holding(u) /\ slots[u].sem = g})

(* A release that works is never lost to an ensure: verification finds the    *)
(* flavor that works even when the other one is broken or half downloaded, so *)
(* nothing is downloaded over it and no failed download removes it.  An       *)
(* ensure the user cancels is excepted: its verification fails for everything *)
(* that is there, its download fails too, and that removes the release.       *)
WorkingInstallStays ==
  [][/\ op.pc = "verify" /\ op'.pc = "flavor" /\ ~op.cancelled
          => Working(dirs[op.tag]) = {}
     /\ \A t \in Tags : Working(dirs[t]) # {} /\ Working(dirs'[t]) = {}
          => op.tag = t /\ (op.pc \in {"removing", "lib", "trying"} \/ op.cancelled)]_vars

(* An ensure that succeeds leaves a release that is in place and runs, also   *)
(* when an earlier one was killed between two downloads or before it had run  *)
(* what it downloaded.                                                        *)
EnsuredRuns == op.pc = "mapping" => Working(dirs[op.tag]) # {}

(* A tools operation that has begun ends: each of the MBINCompilers it starts *)
(* gets a slot, though builds and checks take slots all the time and every    *)
(* new session replaces the semaphore it waits on.                            *)
OperationsEnd == op # NoOp ~> op = NoOp
=============================================================================
