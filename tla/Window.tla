------------------------------- MODULE Window -------------------------------
(* The window of nmsbonker-gui (internal/gui): sections that load what they  *)
(* show on goroutines of their own, one operation at a time against the      *)
(* core, and a build beside it whose progress and end arrive as callbacks.   *)
(* Everything a callback does happens on the UI thread in one step; calls    *)
(* into the core do not, so a load reads the disk somewhere between its      *)
(* start and its landing, with an operation's writes before, after or within.*)
EXTENDS WindowOps

CONSTANTS Sittings,    \* what the window is opened for, of which a run takes one
          Nothing      \* no operation, no save, no text: nil

(* A sitting names the operations the user asks for and the sections visited,*)
(* the first of them open, what is there at the start, and how often each    *)
(* thing may happen: the bounds of the model.                                *)
Facts == {"game", "compiler", "report", "entries"}
Budget == [ops : Nat, visits : Nat, refreshes : Nat, fails : Nat, texts : Nat]
ASSUME SittingsAssumption ==
  \A s \in Sittings : /\ s.asks \subseteq OpNames \cup {"Build"}
                     /\ Len(s.places) > 0
                     /\ \A i \in 1..Len(s.places) : s.places[i] \in Sections
                     /\ s.there \subseteq Facts
                     /\ s.budget \in Budget

(* An operation under way: its call into the core and how far it has come.   *)
UnderWay == [name : OpNames, call : 1..2, stage : {"calls", "land", "end"}]
ASSUME NothingAssumption == Nothing \notin UnderWay

VARIABLES sitting,   \* what the window is open for
          machine,   \* what is there: a game, a compiler, a report, an archive entry
          facts,     \* the same, as last loaded: u.status, u.lastReport, u.archive
          section,   \* the section on screen
          ok,        \* statusOK, modsOK ...: a load was started since the flag was cleared
          flying,    \* per loader, its loads under way, oldest first
          shown,     \* what a loader's section shows against the disk, a ghost
          op,        \* the operation Perform runs
          run,       \* the build: u.run
          steps,     \* the rows of the build's step list
          left       \* what is left of the sitting's budget
winVars == <<sitting, machine, facts, section, ok, flying, shown, op, run, steps, left>>

(* What a load under way will bring: "clean", no write to what it reads      *)
(* since it started; "crossed", there was one, and it may have read before   *)
(* or after it; "loose", crossed and then overtaken, or crossed by a write   *)
(* nothing answers with a new load.                                          *)
Clean == [age |-> "clean", saw |-> {}]
Ages == {"clean", "crossed", "loose"}
Seen == {"nothing", "current", "old", "loose", "failed"}

Working == op # Nothing \/ run.running
Idle == ~Working

(* ---------------------------------------------------------------- sections *)
(* The loads a section's builder starts, given the facts it is drawn from:   *)
(* Overview explains a missing game and measures the compiler it has.        *)
BuildOverview == {"status", "mods", "report", "saves"}
BuildMods == {"mods", "report"}
BuildReport == {"report", "archive"}
BuildSaves == {"status", "slots", "saves"}
BuildTools == {"status", "tools"}
Builders == [Overview |-> BuildOverview, Mods |-> BuildMods, Tweaks |-> {"tweaks"},
             Build |-> {}, Report |-> BuildReport, Saves |-> BuildSaves,
             Tools |-> BuildTools, Settings |-> {"config"}, About |-> {}]
InstallCard(known) == IF "game" \in known THEN {} ELSE {"detect"}
(* The check runs once per process: its flag is set before it can fail, and  *)
(* never cleared.                                                            *)
CanCheck(known) == IF {"game", "compiler"} \subseteq known THEN {"compat"} ELSE {}
Arrivals(where, known) ==
  Builders[where] \cup (IF where = "Overview" THEN InstallCard(known) \cup CanCheck(known)
                        ELSE {})

(* A loader returns when its flag is set, and sets it before its call rather *)
(* than after, so that a redraw does not start a second one.                 *)
StartLoads(wanted, flags, loads) ==
  LET fresh == {l \in wanted : ~flags[l]}
  IN /\ ok' = [l \in Loads |-> flags[l] \/ l \in fresh]
     /\ flying' = [l \in Loads |-> IF l \in fresh THEN Append(loads[l], Clean) ELSE loads[l]]
Redraw(flags, loads) == StartLoads(Arrivals(section', facts'), flags, loads)
Clear(flags, gone) == [l \in Loads |-> flags[l] /\ l \notin gone]

KeptArchive == {"compat", "archive"}
(* onInvalidate: everything loaded is dropped but the compatibility, the     *)
(* status bar's two are read again, and the section is drawn again.          *)
Kept == {"compat"}
OnInvalidate(flags) ==
  StartLoads({"status", "mods"} \cup Arrivals(section', facts'),
             Clear(flags, Loads \ Kept), flying)

(* ------------------------------------------------------------ reads, writes *)
(* A write to stores W. Loads that read them are crossed and what is shown   *)
(* of them is old; "loose" are the loads for which nothing will clear the    *)
(* flag on this write's account.                                             *)
Hit(W) == {l \in Loads : Reads[l] \cap W # {}}
Aged(load, loose) ==
  [age |-> IF loose \/ load.age = "loose" THEN "loose" ELSE "crossed",
   saw |-> IF load.age = "clean" THEN machine ELSE load.saw]
Write(W, misses) ==
  /\ flying' = [l \in Loads |-> IF l \in Hit(W)
                  THEN [i \in DOMAIN flying[l] |-> Aged(flying[l][i], l \in misses)]
                  ELSE flying[l]]
  /\ shown' = [l \in Loads |-> IF l \in Hit(W) /\ shown[l] = "current"
                 THEN (IF l \in misses THEN "loose" ELSE "old") ELSE shown[l]]
(* Nothing will be read again for a write to what loads L read after all.    *)
GivenUp(load) == IF load.age = "clean" THEN load ELSE [load EXCEPT !.age = "loose"]
Slack(loads, L) ==
  [l \in Loads |-> IF l \in L THEN [i \in DOMAIN loads[l] |-> GivenUp(loads[l][i])]
                   ELSE loads[l]]
SlackShown(L) == [l \in Loads |-> IF l \in L /\ shown[l] = "old" THEN "loose" ELSE shown[l]]

(* What a write does to the facts: settings can name another game directory, *)
(* an installation leaves a compiler, a deploy or an undeploy leaves an      *)
(* entry in the archive, a build leaves a report.                            *)
Becomes(W) ==
  machine' \in {m \in SUBSET Facts :
    /\ m \ {"game"} = (machine \ {"game"})
         \cup (IF "tools" \in W THEN {"compiler"} ELSE {})
         \cup (IF "archive" \in W THEN {"entries"} ELSE {})
         \cup (IF "report" \in W THEN {"report"} ELSE {})
    /\ "settings" \in W \/ ("game" \in m <=> "game" \in machine)}

(* The facts each loader brings. *)
Brings == [l \in Loads |-> CASE l = "status" -> {"game", "compiler"}
                             [] l = "report" -> {"report"}
                             [] l = "archive" -> {"entries"} [] OTHER -> {}]
Overtaken(loads, i) == [j \in 1..(i - 1) |-> GivenUp(loads[j])] \o SubSeq(loads, i + 1, Len(loads))

(* A load lands: fields of *ui are set and the section on screen is drawn    *)
(* again. Loads of one kind land in any order.                               *)
Land(l) ==
  \E i \in DOMAIN flying[l] :
    LET load == flying[l][i]
        late == load.age # "clean"
    IN \E saw \in (IF late THEN {machine, load.saw} ELSE {machine}) :
         /\ facts' = (facts \ Brings[l]) \cup (saw \cap Brings[l])
         /\ \E what \in (CASE load.age = "clean" -> {"current"}
                           [] load.age = "loose" -> {"loose"}
                           [] OTHER -> IF saw = machine THEN {"old", "current"} ELSE {"old"}) :
              shown' = [shown EXCEPT ![l] = what]
         /\ UNCHANGED <<sitting, machine, section, op, run, steps, left>>
         /\ Redraw(ok, [flying EXCEPT ![l] = Overtaken(@, i)])
Drawn(l) == shown[l] \notin {"nothing", "failed"}
(* A load fails: a banner, the flag stays set and what was loaded before     *)
(* stays on screen. A report that cannot be read is no failure, it is no     *)
(* build yet.                                                                *)
LoadFails(l) ==
  /\ l # "report" /\ left.fails > 0
  /\ \E i \in DOMAIN flying[l] : flying' = [flying EXCEPT ![l] = Overtaken(@, i)]
  /\ shown' = [shown EXCEPT ![l] = IF Drawn(l) THEN "loose" ELSE "failed"]
  /\ left' = [left EXCEPT !.fails = @ - 1]
  /\ UNCHANGED <<sitting, machine, facts, section, ok, op, run, steps>>

(* --------------------------------------------------------------- operations *)
CanPress(name) ==
  /\ name \in sitting.asks \cap Buttons[section]
  /\ Needs(name) \cup LaidOut(section) \subseteq facts
  /\ FirstRun(section, name) \cap facts = {}
  /\ \A l \in RowsOf(name) : Drawn(l)
Performing(name) == [name |-> name, call |-> 1, stage |-> "calls"]
Doing(name) == Operations[name]

(* A button, its dialog confirmed: Perform refuses while anything is at work,*)
(* and the section is drawn again with its buttons greyed out.               *)
Press(name) ==
  /\ Idle /\ left.ops > 0 /\ CanPress(name)
  /\ op' = Performing(name)
  /\ left' = [left EXCEPT !.ops = @ - 1]
  /\ UNCHANGED <<sitting, machine, facts, section, shown, run, steps>>
  /\ Redraw(ok, flying)
(* The next of its calls into the core. *)
Core ==
  /\ op # Nothing /\ op.stage = "calls"
  /\ LET calls == Doing(op.name).calls
     IN /\ Write(calls[op.call], Doing(op.name).misses)
        /\ Becomes(calls[op.call])
        /\ op' = IF op.call < Len(calls) THEN [op EXCEPT !.call = @ + 1]
                 ELSE [op EXCEPT !.stage = "land"]
  /\ UNCHANGED <<sitting, facts, section, ok, run, steps, left>>
(* The call fails: a banner, and nothing is read again for those before it.  *)
CoreFails ==
  /\ op # Nothing /\ op.stage = "calls" /\ left.fails > 0
  /\ LET done == Hit(UNION {Doing(op.name).calls[i] : i \in 1..(op.call - 1)})
     IN flying' = Slack(flying, done) /\ shown' = SlackShown(done)
  /\ op' = [op EXCEPT !.stage = "end"]
  /\ left' = [left EXCEPT !.fails = @ - 1]
  /\ UNCHANGED <<sitting, machine, facts, section, ok, run, steps>>
(* Its last callback. toolCheck answers the compatibility itself; noteParam  *)
(* writes the new value into the loaded tweaks.                              *)
Landed == op # Nothing /\ op.stage = "land"
AfterOp(name) ==
  LET flags == Clear(ok, Doing(name).clears)
  IN CASE Doing(name).ends = "invalidate" -> OnInvalidate(flags) /\ UNCHANGED shown
       [] Doing(name).ends = "rebuild" -> Redraw(flags, flying) /\ UNCHANGED shown
       [] Doing(name).ends = "flash" -> ok' = flags /\ UNCHANGED <<flying, shown>>
       [] Doing(name).ends = "patch" ->
            /\ ok' = flags
            /\ shown' = [shown EXCEPT !["tweaks"] = IF @ = "old" THEN "current" ELSE @]
            /\ flying' = Slack(flying, {"tweaks"})
       [] Doing(name).ends = "check" ->
            /\ shown' = [shown EXCEPT !["compat"] = "current"]
            /\ StartLoads({"status"}, [Clear(flags, {"status"}) EXCEPT !["compat"] = TRUE], flying)
LandOp ==
  /\ Landed
  /\ op' = [op EXCEPT !.stage = "end"]
  /\ UNCHANGED <<sitting, machine, facts, section, run, steps, left>>
  /\ AfterOp(op.name)
(* Perform's own end; the section is drawn again with its buttons back, and  *)
(* may itself start the next operation.                                      *)
EndOp(next) ==
  /\ op # Nothing /\ op.stage = "end"
  /\ op' = next
  /\ UNCHANGED <<sitting, machine, facts, section, shown, run, steps, left>>
  /\ Redraw(ok, flying)

(* --------------------------------------------------------------- the user *)
Visit == left.visits > 0 /\ left' = [left EXCEPT !.visits = @ - 1]
Navigate(to, next) ==
  /\ to # section /\ Visit
  /\ \E i \in DOMAIN sitting.places : to = sitting.places[i]
  /\ section' = to
  /\ op' = IF Idle THEN next ELSE op
  /\ UNCHANGED <<sitting, machine, facts, shown, run, steps>>
  /\ Redraw(ok, flying)
(* F5, during a build as well. *)
Refresh ==
  /\ left.refreshes > 0 /\ left' = [left EXCEPT !.refreshes = @ - 1]
  /\ UNCHANGED <<sitting, machine, facts, section, shown, op, run, steps>>
  /\ OnInvalidate(ok)
(* loadCache has no guard: every Measure reads again. *)
Measure ==
  /\ section = "Tools" /\ Idle /\ Visit
  /\ ok' = [ok EXCEPT !["cache"] = TRUE]
  /\ flying' = [flying EXCEPT !["cache"] = Append(@, Clean)]
  /\ UNCHANGED <<sitting, machine, facts, section, shown, op, run, steps>>

(* --------------------------------------------------------------- the build *)
StepDetect == 1
StepTools == 2
StepCache == 3
StepMerge == 4
StepCompile == 5
StepReport == 6
BuildSteps == StepDetect..StepReport
(* The messages of core's Progress that name a step. *)
StepFor == {StepTools, StepCache, StepMerge, StepCompile}
StepStates == {"pending", "running", "done", "failed", "cancelled"}

(* steps.List: what the list does with a step, from how the build drives it. *)
ListAdvance(list, step) ==
  [s \in BuildSteps |-> IF s < step /\ list[s] \in {"pending", "running"} THEN "done"
                        ELSE IF s = step THEN "running" ELSE list[s]]
ListStop(list, state) ==
  [s \in BuildSteps |-> IF list[s] = "running" THEN state ELSE list[s]]

Reset == /\ run' = [running |-> TRUE, cancelled |-> FALSE, finished |-> FALSE, core |-> "going"]
         /\ steps' = [s \in BuildSteps |-> IF s = StepDetect THEN "running" ELSE "pending"]
AdvanceBack(step) == ListAdvance(steps, step)
(* A step already done, failed or cancelled is left as it is. *)
Advance(step) == IF steps[step] \in {"pending", "running"} THEN ListAdvance(steps, step) ELSE steps
Finish(step) == [ListAdvance(steps, step) EXCEPT ![step] = "done"]

StartBuildBeside ==
  /\ "Build" \in sitting.asks /\ ~run.running /\ left.ops > 0
  /\ \/ section = "Build"
     \/ section \in {"Overview", "Tweaks"} /\ {"game", "compiler"} \subseteq facts
  /\ section' = "Build"
  /\ Reset
  /\ left' = [left EXCEPT !.ops = @ - 1]
  /\ UNCHANGED <<sitting, machine, facts, shown, op>>
  /\ Redraw(ok, flying)
(* The Build section's own buttons ask for nothing; Overview's and Tweaks'   *)
(* need a game and a compiler and go to Build first.                         *)
StartBuild ==
  /\ "Build" \in sitting.asks /\ Idle /\ left.ops > 0
  /\ \/ section = "Build"
     \/ section \in {"Overview", "Tweaks"} /\ {"game", "compiler"} \subseteq facts
  /\ section' = "Build"
  /\ Reset
  /\ left' = [left EXCEPT !.ops = @ - 1]
  /\ UNCHANGED <<sitting, machine, facts, shown, op>>
  /\ Redraw(ok, flying)
BuildEvents ==
  /\ run.running /\ run.core = "going"
  /\ \E step \in StepFor : steps' = Advance(step)
  /\ UNCHANGED <<sitting, machine, facts, section, ok, flying, shown, op, run, left>>
(* Core.Build ends: everything written, or stopped by an error or by the     *)
(* cancellation with the cache and the index perhaps already new. A          *)
(* cancellation it did not come to notice changes nothing.                   *)
BuildMisses == {"mods", "tweaks", "cache"}
CoreBuilds ==
  /\ run.running /\ run.core = "going"
  /\ LET W == {"cache", "index", "report"}
     IN Write(W, BuildMisses) /\ Becomes(W)
  /\ run' = [run EXCEPT !.core = "built"]
  /\ UNCHANGED <<sitting, facts, section, ok, op, steps, left>>
CoreStops ==
  /\ run.running /\ run.core = "going"
  /\ run.cancelled \/ left.fails > 0
  /\ Write({"cache", "index"}, BuildMisses)
  /\ left' = IF run.cancelled THEN left ELSE [left EXCEPT !.fails = @ - 1]
  /\ run' = [run EXCEPT !.core = "stopped"]
  /\ UNCHANGED <<sitting, machine, facts, section, ok, op, steps>>
(* finishBuild. Cancelled is asked first, whatever core returned. *)
FinishBuild(next) ==
  /\ run.running /\ run.core \in {"built", "stopped"}
  /\ LET good == run.core = "built" /\ ~run.cancelled
         flags == Clear(ok, {"status"} \cup (IF good THEN {"report"} ELSE {}))
         end == IF run.cancelled THEN "cancelled" ELSE "failed"
     IN /\ steps' = IF good THEN Finish(StepReport) ELSE ListStop(steps, end)
        /\ run' = [run EXCEPT !.running = FALSE, !.finished = TRUE, !.core = "none"]
        /\ op' = next
        /\ UNCHANGED <<sitting, machine, facts, section, left>>
        /\ LET missed == IF good THEN {} ELSE Hit({"report"})
           IN /\ shown' = SlackShown(missed)
              /\ StartLoads({"status"} \cup Arrivals(section, facts), flags, Slack(flying, missed))
CancelBuild ==
  /\ run.running /\ ~run.cancelled
  /\ run' = [run EXCEPT !.cancelled = TRUE]
  /\ UNCHANGED <<sitting, machine, facts, section, ok, flying, shown, op, steps, left>>

(* OnStart: the window opens on any section, with the status bar's two loads.*)
NoSteps == [s \in BuildSteps |-> "pending"]
NoRun == [running |-> FALSE, cancelled |-> FALSE, finished |-> FALSE, core |-> "none"]
OnStart ==
  /\ sitting \in Sittings
  /\ machine = sitting.there /\ facts = {}
  /\ section = sitting.places[1]
  /\ LET started == {"status", "mods"} \cup Arrivals(section, {})
     IN /\ ok = [l \in Loads |-> l \in started]
        /\ flying = [l \in Loads |-> IF l \in started THEN <<Clean>> ELSE <<>>]
  /\ shown = [l \in Loads |-> "nothing"]
  /\ op = Nothing /\ run = NoRun /\ steps = NoSteps
  /\ left = sitting.budget

(* -------------------------------------------------------------- properties *)
Runs == [running : BOOLEAN, cancelled : BOOLEAN, finished : BOOLEAN,
         core : {"none", "going", "built", "stopped"}]
WindowTypeOK ==
  /\ sitting \in Sittings
  /\ machine \subseteq Facts /\ facts \subseteq Facts
  /\ section \in Sections
  /\ ok \in [Loads -> BOOLEAN] /\ shown \in [Loads -> Seen]
  /\ \A l \in Loads : \A i \in DOMAIN flying[l] : flying[l][i] \in [age : Ages, saw : SUBSET Facts]
  /\ op \in UnderWay \cup {Nothing}
  /\ run \in Runs /\ steps \in [BuildSteps -> StepStates]
  /\ left \in Budget
  /\ op # Nothing => ~run.running

(* With nothing at work, whatever the window counts as loaded is, or is      *)
(* about to be, what is on disk: no load, callback, operation or build end,  *)
(* in any order, leaves a section's flag set over data older than the last   *)
(* write the window made, the known gaps of WindowOps excepted. (The flags   *)
(* set before the call in internal/gui/state.go, cleared by onInvalidate,    *)
(* finishBuild and the callbacks of the operations.)                         *)
ReadsCurrent ==
  Idle => \A l \in Loads : ok[l] =>
            IF flying[l] # <<>> THEN flying[l][Len(flying[l])].age # "crossed"
            ELSE shown[l] # "old"

(* A step of the build's list never goes back, whatever order core's         *)
(* messages arrive in: from pending to running to how it ended, and only a   *)
(* new build starts the list over (advance, finish and stop in buildrun.go). *)
Reached == [pending |-> 0, running |-> 1, done |-> 2, failed |-> 2, cancelled |-> 2]
StepsOnlyForward ==
  [][\A s \in BuildSteps : \/ Reached[steps[s]] < Reached[steps'[s]]
                           \/ steps[s] = steps'[s]
                           \/ ~run.running /\ run'.running]_winVars
===============================================================================
