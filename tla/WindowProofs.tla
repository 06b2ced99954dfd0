----------------------------- MODULE WindowProofs -----------------------------
(***************************************************************************)
(* Theorems about the window, for any sittings, saves, form and values.    *)
(* See README.md for the argument.                                         *)
(***************************************************************************)
EXTENDS SaveTab, TLAPS

USE FieldsAssumption

(***************************************************************************)
(* The step list of a build.                                               *)
(***************************************************************************)

(* While a build runs no step of its list has failed or been cancelled, so *)
(* that its end may still call the last one done.                          *)
StepsOK ==
  /\ run \in Runs
  /\ steps \in [BuildSteps -> StepStates]
  /\ run.running => \A s \in BuildSteps : steps[s] \in {"pending", "running", "done"}

(* A build's first step, an event of it, and its end.                      *)
Builds(next) == StartBuild \/ BuildEvents \/ FinishBuild(next)
(* What else happens to u.run while the list stays as it is.               *)
RunOnly == CoreBuilds \/ CoreStops \/ CancelBuild

Forward ==
  \A s \in BuildSteps : \/ Reached[steps[s]] < Reached[steps'[s]]
                        \/ steps[s] = steps'[s]
                        \/ ~run.running /\ run'.running

LEMMA StepNumbers ==
  /\ BuildSteps = 1..6 /\ StepDetect \in BuildSteps /\ StepReport \in BuildSteps
  /\ StepFor \subseteq BuildSteps
BY DEF BuildSteps, StepDetect, StepReport, StepFor, StepTools, StepCache, StepMerge, StepCompile

LEMMA AdvanceForward ==
  ASSUME NEW list \in [BuildSteps -> {"pending", "running", "done"}],
         NEW step \in BuildSteps
  PROVE  /\ ListAdvance(list, step) \in [BuildSteps -> {"pending", "running", "done"}]
         /\ \A s \in BuildSteps : s # step =>
              \/ ListAdvance(list, step)[s] = list[s]
              \/ /\ Reached[list[s]] < Reached[ListAdvance(list, step)[s]]
                 /\ ListAdvance(list, step)[s] = "done"
         /\ ListAdvance(list, step)[step] = "running"
BY StepNumbers DEF ListAdvance, Reached

LEMMA BuildStepsForward ==
  ASSUME StepsOK, NEW next, Builds(next)
  PROVE  StepsOK' /\ Forward
<1>1. CASE StartBuild
  <2>1. ~run.running /\ run'.running /\ run' \in Runs
    BY <1>1 DEF StartBuild, Reset, Idle, Working, Runs, StepsOK
  <2>2. steps' = [s \in BuildSteps |-> IF s = StepDetect THEN "running" ELSE "pending"]
    BY <1>1 DEF StartBuild, Reset
  <2> QED BY <2>1, <2>2 DEF StepsOK, Forward, StepStates
<1>2. CASE BuildEvents
  <2>1. run.running /\ run' = run
    BY <1>2 DEF BuildEvents
  <2>2. PICK step \in StepFor : steps' = Advance(step)
    BY <1>2 DEF BuildEvents
  <2>3. steps \in [BuildSteps -> {"pending", "running", "done"}] /\ step \in BuildSteps
    BY <2>1, StepNumbers DEF StepsOK
  <2>4. CASE steps[step] \in {"pending", "running"}
    <3>1. steps' = ListAdvance(steps, step)
      BY <2>2, <2>4 DEF Advance
    <3>2. steps' \in [BuildSteps -> {"pending", "running", "done"}]
      BY <2>3, <3>1, AdvanceForward
    <3>3. Reached[steps[step]] < Reached[steps'[step]] \/ steps[step] = steps'[step]
      BY <2>3, <2>4, <3>1, AdvanceForward DEF Reached
    <3>4. Forward
      BY <2>3, <3>1, <3>3, AdvanceForward DEF Forward
    <3> QED BY <2>1, <3>2, <3>4 DEF StepsOK, StepStates
  <2>5. CASE steps[step] \notin {"pending", "running"}
    BY <2>1, <2>2, <2>5 DEF Advance, StepsOK, Forward
  <2> QED BY <2>4, <2>5
<1>3. CASE FinishBuild(next)
  <2>1. /\ run.running
        /\ run' = [run EXCEPT !.running = FALSE, !.finished = TRUE, !.core = "none"]
    BY <1>3 DEF FinishBuild
  <2>2. run' \in Runs /\ ~run'.running
    BY <2>1 DEF StepsOK, Runs
  <2>3. steps \in [BuildSteps -> {"pending", "running", "done"}]
    BY <2>1 DEF StepsOK
  <2>4. \/ steps' = Finish(StepReport)
        \/ \E end \in {"cancelled", "failed"} : steps' = ListStop(steps, end)
    BY <1>3 DEF FinishBuild
  <2>5. CASE steps' = Finish(StepReport)
    <3> DEFINE last == ListAdvance(steps, StepReport)
    <3>1. /\ last \in [BuildSteps -> {"pending", "running", "done"}]
          /\ \A s \in BuildSteps : s # StepReport =>
               last[s] = steps[s] \/ Reached[steps[s]] < Reached[last[s]]
      BY <2>3, StepNumbers, AdvanceForward
    <3> HIDE DEF last
    <3>2. steps' = [last EXCEPT ![StepReport] = "done"]
      BY <2>5 DEF Finish, last
    <3>3. steps' \in [BuildSteps -> StepStates] /\ steps'[StepReport] = "done"
      BY <3>1, <3>2, StepNumbers DEF StepStates
    <3>4. steps[StepReport] = "done" \/ Reached[steps[StepReport]] < Reached["done"]
      BY <2>3, StepNumbers DEF Reached
    <3>5. Forward
      BY <3>1, <3>2, <3>3, <3>4 DEF Forward
    <3> QED BY <2>2, <3>3, <3>5 DEF StepsOK
  <2>6. ASSUME NEW end \in {"cancelled", "failed"}, steps' = ListStop(steps, end)
        PROVE  StepsOK' /\ Forward
    <3>1. steps' \in [BuildSteps -> StepStates]
      BY <2>3, <2>6 DEF ListStop, StepStates
    <3>2. Forward
      BY <2>3, <2>6 DEF Forward, ListStop, Reached
    <3> QED BY <2>2, <3>1, <3>2 DEF StepsOK
  <2> QED BY <2>4, <2>5, <2>6
<1> QED BY <1>1, <1>2, <1>3 DEF Builds

LEMMA RunOnlyForward ==
  ASSUME StepsOK, RunOnly
  PROVE  StepsOK' /\ Forward
<1>1. run' \in Runs /\ run'.running = run.running /\ steps' = steps
  BY DEF RunOnly, CoreBuilds, CoreStops, CancelBuild, StepsOK, Runs
<1> QED BY <1>1 DEF StepsOK, Forward

LEMMA ListUntouched ==
  ASSUME StepsOK, UNCHANGED <<run, steps>>
  PROVE  StepsOK' /\ Forward
BY DEF StepsOK, Forward

(* Of all that can happen in the window only these steps touch the build.  *)
LEMMA WhoTouchesTheList ==
  ASSUME [Next]_vars
  PROVE  (\E next : Builds(next)) \/ RunOnly \/ UNCHANGED <<run, steps>>
<1>1. CASE Redraws
  <2>1. StartBuild \/ UNCHANGED <<run, steps>>
    BY <1>1 DEF Redraws, Land, Press, LandOp, Refresh
  <2> QED BY <2>1 DEF Builds
<1>2. CASE Stays
  <2>1. BuildEvents \/ RunOnly \/ UNCHANGED <<run, steps>>
    BY <1>2 DEF Stays, LoadFails, Core, CoreFails, LandOp, Measure, RunOnly
  <2> QED BY <2>1 DEF Builds
<1>3. CASE Returns
  <2>1. FinishBuild(BuildSavesNext(section)) \/ UNCHANGED <<run, steps>>
    BY <1>3 DEF Returns, EndOp, Navigate
  <2> QED BY <2>1 DEF Builds
<1>4. CASE SaveRequest
  BY <1>4 DEF SaveRequest, SelectSlot, EditRequest, NodeRequest, LoadRawNode, ExportDialog,
              ImportDialog, Asks, Press
<1>5. CASE CoreSaves
  BY <1>5 DEF CoreSaves, Core
<1>6. CASE LandInspect \/ LandNode \/ LandWrite
  BY <1>6 DEF LandInspect, LandNode, LandWrite, LandOp
<1>7. ASSUME NEW f \in Fields, NEW v \in Values, TypeField(f, v) \/ PickType(f, v)
      PROVE  UNCHANGED <<run, steps>>
  BY <1>7 DEF TypeField, PickType, Elsewhere
<1>8. ASSUME NEW s \in Ships, PickShip(s) PROVE UNCHANGED <<run, steps>>
  BY <1>8 DEF PickShip
<1>9. ASSUME NEW v \in Values, RawEditor(v) PROVE UNCHANGED <<run, steps>>
  BY <1>9 DEF RawEditor, Elsewhere
<1>10. CASE SlotsCard
  BY <1>10 DEF SlotsCard
<1>11. CASE UNCHANGED vars
  BY <1>11 DEF vars, winVars
<1> QED BY <1>1, <1>2, <1>3, <1>4, <1>5, <1>6, <1>7, <1>8, <1>9, <1>10, <1>11 DEF Next

LEMMA InitStepsOK == Init => StepsOK
BY StepNumbers DEF Init, OnStart, NoRun, NoSteps, StepsOK, Runs, StepStates

(* No message, end or cancellation of a build, with loads, operations and  *)
(* navigation beside it, takes a step of its list back.                    *)
THEOREM ListOnlyForward == Spec => StepsOnlyForward
<1>1. StepsOK /\ [Next]_vars => StepsOK' /\ Forward
  BY WhoTouchesTheList, BuildStepsForward, RunOnlyForward, ListUntouched
<1>2. StepsOK /\ [Next]_vars => [Forward]_winVars
  BY <1>1
<1>3. Spec => [][Forward]_winVars
  BY InitStepsOK, <1>1, <1>2, PTL DEF Spec
<1> QED BY <1>3 DEF StepsOnlyForward, Forward

(***************************************************************************)
(* The form of the save editor.                                            *)
(***************************************************************************)

Text == Values \cup {Nothing}
Op1 == [name : OpNames, call : Nat, stage : {"calls", "land", "end"}]

(* What an operation on a save was asked.                                  *)
IsRequest(r) ==
  /\ r = [save |-> r.save, set |-> r.set, wrote |-> r.wrote]
  /\ r.save \in Saves
  /\ DOMAIN r.set \subseteq Fields
  /\ \A f \in DOMAIN r.set : r.set[f] \in Values

(* A value that was entered for a field of the save in the form, or for    *)
(* one whose row has the same label.                                       *)
Entered(f, v) == \E g \in Fields : Label[g] = Label[f] /\ v \in mine[g]

FormTyped ==
  /\ op = Nothing \/ op \in Op1
  /\ saves \in [Saves -> [Fields -> Values]]
  /\ inspect = Nothing \/ inspect \in Form
  /\ draft \in [Labels -> Text]
  /\ node = Nothing \/ node \in [field : Fields, text : Values]
  /\ op # Nothing /\ op.name \in SaveOps => IsRequest(request)
  /\ reinspect \in Saves \cup {Nothing}
  /\ mine \in [Fields -> SUBSET Values]

(* A draft, the text of a node and what a row shows were entered since the *)
(* save in the form was read, but for a row that shows what the save       *)
(* holds.                                                                  *)
DraftsEntered == \A f \in Fields : draft[Label[f]] # Nothing => Entered(f, draft[Label[f]])
NodeEntered == node # Nothing => Entered(node.field, node.text)
RowsEntered ==
  /\ entry \in [Fields -> Text]
  /\ inspect # Nothing => \A f \in Fields :
       entry[f] \notin {Nothing, inspect.held[f]} => Entered(f, entry[f])

(* A write under way is of the save in the form, with values entered for   *)
(* it: nothing selects another save before the write has ended.            *)
WriteEntered ==
  op # Nothing /\ op.name \in SaveWrites /\ op.stage = "calls" =>
    /\ inspect # Nothing /\ inspect.save = request.save
    /\ \A f \in DOMAIN request.set : Entered(f, request.set[f])

FormOK == FormTyped /\ DraftsEntered /\ NodeEntered /\ RowsEntered /\ WriteEntered

LEMMA SaveOperations ==
  /\ SaveOps \subseteq OpNames /\ SaveWrites \subseteq SaveOps
  /\ "InspectSave" \in SaveOps \ SaveWrites
BY DEF SaveOps, SaveWrites, OpNames, Operations

LEMMA PerformingType ==
  ASSUME NEW name \in OpNames
  PROVE  Performing(name) \in Op1 /\ Performing(name).name = name
BY DEF Performing, Op1

(* What was entered stays entered while only more is.                      *)
LEMMA EnteredStays ==
  ASSUME \A f \in Fields : mine[f] \subseteq mine'[f],
         NEW f \in Fields, NEW v, Entered(f, v)
  PROVE  Entered(f, v)'
BY DEF Entered

(* The rows as they are laid out again.                                    *)
LEMMA RowsLaid ==
  ASSUME Laid, inspect' = Nothing \/ inspect' \in Form, draft' \in [Labels -> Text],
         DraftsEntered'
  PROVE  RowsEntered'
<1>1. CASE ~(section' = "Saves" /\ inspect' # Nothing)
  BY <1>1 DEF Laid, RowsEntered, NoText, Text
<1>2. CASE section' = "Saves" /\ inspect' # Nothing
  <2>1. entry' = SaveEditorTab(inspect', draft', ship') /\ inspect' \in Form
    BY <1>2 DEF Laid
  <2>2. ASSUME NEW f \in Fields
        PROVE  entry'[f] \in Text /\ entry'[f] \in {Nothing, inspect'.held[f], draft'[Label[f]]}
    BY <2>1 DEF SaveEditorTab, FieldRow, Form, Text, Labels
  <2>3. entry' \in [Fields -> Text]
    BY <2>1, <2>2 DEF SaveEditorTab
  <2> QED BY <2>2, <2>3 DEF RowsEntered, DraftsEntered
<1> QED BY <1>1, <1>2

(* Steps that leave the form as it is, but for what they lay out again.    *)
LEMMA FormStays ==
  ASSUME FormOK, UNCHANGED <<saves, inspect, draft, node, reinspect, mine>>,
         Laid \/ UNCHANGED entry,
         op' = Nothing \/ op' \in Op1,
         op' # Nothing /\ op'.name \in SaveOps => IsRequest(request'),
         WriteEntered'
  PROVE  FormOK'
<1>1. FormTyped'
  BY DEF FormOK, FormTyped
<1>2. DraftsEntered' /\ NodeEntered'
  BY DEF FormOK, DraftsEntered, NodeEntered, Entered
<1>3. RowsEntered'
  <2>1. CASE Laid
    BY <1>1, <1>2, <2>1, RowsLaid DEF FormTyped
  <2>2. CASE UNCHANGED entry
    BY <2>2 DEF FormOK, RowsEntered, Entered
  <2> QED BY <2>1, <2>2
<1> QED BY <1>1, <1>2, <1>3 DEF FormOK

(* Of these, the ones that keep the operation and what it was asked, and   *)
(* at most let it go on.                                                   *)
LEMMA OperationGoesOn ==
  ASSUME FormOK, UNCHANGED <<saves, inspect, draft, node, reinspect, mine, request>>,
         Laid \/ UNCHANGED entry,
         \/ op' = op
         \/ /\ op # Nothing /\ op' \in Op1 /\ op'.name = op.name
            /\ op'.stage = "calls" => op.stage = "calls"
  PROVE  FormOK'
<1>1. op' = Nothing \/ op' \in Op1
  BY DEF FormOK, FormTyped
<1>2. op' # Nothing => op # Nothing /\ op'.name = op.name /\ (op'.stage = "calls" => op.stage = "calls")
  OBVIOUS
<1>3. op' # Nothing /\ op'.name \in SaveOps => IsRequest(request')
  BY <1>2 DEF FormOK, FormTyped, IsRequest
<1>4. WriteEntered'
  BY <1>2 DEF FormOK, WriteEntered, Entered
<1> QED BY <1>1, <1>3, <1>4, FormStays

(* The next operation writes to no save, or there is none.                 *)
LEMMA OperationBegins ==
  ASSUME FormOK, UNCHANGED <<saves, inspect, draft, node, reinspect, mine>>,
         Laid \/ UNCHANGED entry,
         \/ op' = Nothing
         \/ \E name \in OpNames \ SaveWrites :
              op' = Performing(name) /\ (name \in SaveOps => IsRequest(request'))
  PROVE  FormOK'
<1>1. op' = Nothing \/ op' \in Op1
  BY PerformingType
<1>2. op' # Nothing => op'.name \notin SaveWrites /\ (op'.name \in SaveOps => IsRequest(request'))
  BY PerformingType
<1>3. WriteEntered'
  BY <1>2 DEF WriteEntered
<1> QED BY <1>1, <1>2, <1>3, FormStays

(* The core's steps, and the callbacks that end an operation.              *)
LEMMA CallsGoOn ==
  ASSUME op = Nothing \/ op \in Op1, Core \/ CoreFails \/ LandOp
  PROVE  /\ op # Nothing /\ op' \in Op1 /\ op'.name = op.name
         /\ op'.stage = "calls" => op.stage = "calls"
<1>1. op \in Op1
  BY DEF Core, CoreFails, LandOp, Landed
<1>2. CASE Core
  BY <1>1, <1>2 DEF Core, Op1
<1>3. CASE CoreFails
  BY <1>1, <1>3 DEF CoreFails, Op1
<1>4. CASE LandOp
  BY <1>1, <1>4 DEF LandOp, Landed, Op1
<1> QED BY <1>2, <1>3, <1>4

(* A step at which the user enters a value: whatever else is in the form   *)
(* was entered before or is that value.                                    *)
LEMMA ValueEntered ==
  ASSUME FormOK, UNCHANGED <<op, saves, inspect, reinspect, request>>,
         mine' \in [Fields -> SUBSET Values], \A f \in Fields : mine[f] \subseteq mine'[f],
         draft' \in [Labels -> Text], node' = Nothing \/ node' \in [field : Fields, text : Values],
         DraftsEntered', NodeEntered', RowsEntered'
  PROVE  FormOK'
<1>1. FormTyped'
  BY DEF FormOK, FormTyped, IsRequest
<1>2. WriteEntered'
  <2> SUFFICES ASSUME op # Nothing, op.name \in SaveWrites, op.stage = "calls"
               PROVE  /\ inspect # Nothing /\ inspect.save = request.save
                      /\ \A f \in DOMAIN request.set : Entered(f, request.set[f])'
    BY DEF WriteEntered
  <2>1. /\ inspect # Nothing /\ inspect.save = request.save
        /\ \A f \in DOMAIN request.set : Entered(f, request.set[f])
    BY DEF FormOK, WriteEntered
  <2>2. DOMAIN request.set \subseteq Fields
    BY SaveOperations DEF FormOK, FormTyped, IsRequest
  <2> QED BY <2>1, <2>2, EnteredStays
<1> QED BY <1>1, <1>2 DEF FormOK

LEMMA RedrawsForm == ASSUME FormOK, Redraws PROVE FormOK'
<1>1. UNCHANGED <<saves, inspect, draft, node, request, reinspect, mine>> /\ Laid
  BY DEF Redraws
<1>2. CASE (\E l \in Loads : Land(l)) \/ Refresh \/ StartBuild
  <2>1. op' = op
    BY <1>2 DEF Land, Refresh, StartBuild
  <2> QED BY <1>1, <2>1, OperationGoesOn
<1>3. ASSUME NEW name \in OpNames \ SaveOps, Press(name)
      PROVE  FormOK'
  <2>1. op' = Performing(name) /\ name \in OpNames \ SaveWrites
    BY <1>3, SaveOperations DEF Press
  <2> QED BY <1>1, <1>3, <2>1, OperationBegins
<1>4. CASE LandOp
  BY <1>1, <1>4, CallsGoOn, OperationGoesOn DEF FormOK, FormTyped
<1> QED BY <1>2, <1>3, <1>4 DEF Redraws

LEMMA StaysForm == ASSUME FormOK, Stays PROVE FormOK'
<1>1. UNCHANGED tabVars
  BY DEF Stays
<1>2. CASE Core \/ CoreFails \/ LandOp
  BY <1>1, <1>2, CallsGoOn, OperationGoesOn DEF FormOK, FormTyped, tabVars
<1>3. CASE (\E l \in Loads : LoadFails(l)) \/ Measure \/ BuildEvents \/ RunOnly
  <2>1. op' = op
    BY <1>3 DEF LoadFails, Measure, BuildEvents, RunOnly, CoreBuilds, CoreStops, CancelBuild
  <2> QED BY <1>1, <2>1, OperationGoesOn DEF tabVars
<1> QED BY <1>2, <1>3 DEF Stays, RunOnly

(* A redraw that finds a save to read again begins to, and only then.      *)
LEMMA ReturnsForm == ASSUME FormOK, Returns PROVE FormOK'
<1>1. UNCHANGED <<saves, inspect, draft, node, mine>> /\ Laid
  BY DEF Returns
<1> DEFINE Rereads(idle, where) ==
      /\ idle /\ where = "Saves" /\ reinspect # Nothing
      /\ op' = Performing("InspectSave")
      /\ request' = [save |-> reinspect, set |-> <<>>, wrote |-> FALSE]
      /\ reinspect' = Nothing
    Goes == UNCHANGED <<request, reinspect>> /\ (op' = Nothing \/ op' = op)
<1>2. (\E idle, where : Rereads(idle, where)) \/ Goes
  <2>1. ASSUME NEW where, op' = BuildSavesNext(where), Reinspected(TRUE, where)
        PROVE  Rereads(TRUE, where) \/ Goes
    BY <2>1 DEF BuildSavesNext, Reinspected
  <2>2. ASSUME NEW to \in Sections, Navigate(to, BuildSavesNext(to)), Reinspected(Idle, to)
        PROVE  Rereads(Idle, to) \/ Goes
    BY <2>2 DEF Navigate, BuildSavesNext, Reinspected, Idle, Working
  <2> QED BY <2>1, <2>2 DEF Returns, EndOp, FinishBuild
<1>3. CASE \E idle, where : Rereads(idle, where)
  <2>1. /\ reinspect \in Saves /\ op' = Performing("InspectSave")
        /\ request' = [save |-> reinspect, set |-> <<>>, wrote |-> FALSE]
        /\ reinspect' = Nothing
    BY <1>3 DEF FormOK, FormTyped
  <2>2. IsRequest(request')
    BY <2>1 DEF IsRequest
  <2>3. op' \in Op1 /\ op'.name \notin SaveWrites
    BY <2>1, PerformingType, SaveOperations
  <2>4. FormTyped'
    BY <1>1, <2>1, <2>2, <2>3 DEF FormOK, FormTyped
  <2>5. DraftsEntered' /\ NodeEntered'
    BY <1>1 DEF FormOK, DraftsEntered, NodeEntered, Entered
  <2>6. RowsEntered'
    BY <1>1, <2>4, <2>5, RowsLaid DEF FormTyped
  <2>7. WriteEntered'
    BY <2>3 DEF WriteEntered
  <2> QED BY <2>4, <2>5, <2>6, <2>7 DEF FormOK
<1>4. CASE Goes
  <2>1. UNCHANGED <<saves, inspect, draft, node, reinspect, mine, request>>
    BY <1>1, <1>4
  <2>2. CASE op' = op
    BY <1>1, <2>1, <2>2, OperationGoesOn
  <2>3. CASE op' = Nothing
    BY <1>1, <2>1, <2>3, OperationBegins
  <2> QED BY <1>4, <2>2, <2>3
<1> HIDE DEF Rereads, Goes
<1> QED BY <1>2, <1>3, <1>4

(* What a request captures of the form was entered for the save in it.     *)
LEMMA Captured ==
  ASSUME FormOK, OnForm
  PROVE  /\ inspect \in Form /\ inspect.save \in Saves
         /\ DOMAIN ChangeSet \subseteq Fields
         /\ \A f \in DOMAIN ChangeSet : ChangeSet[f] \in Values /\ Entered(f, ChangeSet[f])
<1>1. inspect # Nothing /\ inspect \in Form
  BY DEF OnForm, FormOK, FormTyped
<1>2. ASSUME NEW f \in Fields, entry[f] \notin {Nothing, inspect.held[f]}
      PROVE  entry[f] \in Values /\ Entered(f, entry[f])
  BY <1>1, <1>2 DEF FormOK, RowsEntered, Text
<1> QED BY <1>1, <1>2 DEF ChangeSet, Form

LEMMA AsksForm ==
  ASSUME FormOK, UNCHANGED <<saves, inspect, draft, node, reinspect, mine>>,
         NEW name \in SaveOps, Press(name), Laid, IsRequest(request'),
         name \in SaveWrites =>
           /\ inspect # Nothing /\ inspect.save = request'.save
           /\ \A f \in DOMAIN request'.set : Entered(f, request'.set[f])
  PROVE  FormOK'
<1>1. op' \in Op1 /\ op'.name = name
  BY PerformingType, SaveOperations DEF Press
<1>2. WriteEntered'
  BY <1>1 DEF WriteEntered, Entered
<1> QED BY <1>1, <1>2, FormStays

LEMMA ImportForm ==
  ASSUME FormOK, NEW v \in Values, ImportDialog(v)
  PROVE  FormOK'
<1>1. /\ inspect \in Form /\ inspect.save \in Saves /\ inspect # Nothing
  BY Captured DEF ImportDialog, OnForm
<1>2. /\ UNCHANGED <<saves, inspect, draft, ship, node, reinspect>> /\ Laid
      /\ request' = [save |-> inspect.save, set |-> [f \in Fields |-> v], wrote |-> FALSE]
      /\ mine' = [f \in Fields |-> mine[f] \cup {v}]
      /\ op' = Performing("ImportSave")
  BY DEF ImportDialog, Asks, Of, Press
<1>3. op' \in Op1
  BY <1>2, PerformingType, SaveOperations DEF SaveOps
<1>4. IsRequest(request')
  BY <1>1, <1>2 DEF IsRequest
<1>5. mine' \in [Fields -> SUBSET Values] /\ \A f \in Fields : mine[f] \subseteq mine'[f]
  BY <1>2 DEF FormOK, FormTyped
<1>6. FormTyped'
  BY <1>2, <1>3, <1>4, <1>5 DEF FormOK, FormTyped
<1>7. DraftsEntered'
  BY <1>2, <1>5, EnteredStays DEF FormOK, DraftsEntered
<1>8. NodeEntered'
  BY <1>2, <1>5, EnteredStays DEF FormOK, FormTyped, NodeEntered
<1>9. RowsEntered'
  BY <1>2, <1>6, <1>7, RowsLaid DEF FormTyped
<1>10. WriteEntered'
  BY <1>1, <1>2 DEF WriteEntered, Entered
<1> QED BY <1>6, <1>7, <1>8, <1>9, <1>10 DEF FormOK

LEMMA RequestsForm == ASSUME FormOK, SaveRequest PROVE FormOK'
<1>1. ASSUME NEW s \in Saves, SelectSlot(s) PROVE FormOK'
  <2>1. /\ Press("InspectSave") /\ Laid
        /\ request' = [save |-> s, set |-> <<>>, wrote |-> FALSE]
        /\ UNCHANGED <<saves, inspect, draft, node, reinspect, mine>>
    BY <1>1 DEF SelectSlot, Asks
  <2>2. IsRequest(request')
    BY <2>1 DEF IsRequest
  <2> QED BY <2>1, <2>2, SaveOperations, AsksForm
<1>2. ASSUME NEW name \in {"PreviewEdit", "EditSave"}, EditRequest(name) PROVE FormOK'
  <2>1. /\ OnForm /\ Press(name) /\ Laid
        /\ request' = [save |-> inspect.save, set |-> ChangeSet, wrote |-> FALSE]
        /\ UNCHANGED <<saves, inspect, draft, node, reinspect, mine>>
    BY <1>2 DEF EditRequest, Asks, Of
  <2>2. IsRequest(request')
    BY <2>1, Captured DEF IsRequest
  <2>3. name \in SaveOps /\ inspect # Nothing
    BY <2>1 DEF SaveOps, OnForm
  <2> QED BY <2>1, <2>2, <2>3, Captured, AsksForm
<1>3. ASSUME NEW name \in {"CheckNode", "SetNode"}, NodeRequest(name) PROVE FormOK'
  <2>1. /\ OnForm /\ node # Nothing /\ Press(name) /\ Laid
        /\ request' = [save |-> inspect.save, set |-> Only(node.field, node.text), wrote |-> FALSE]
        /\ UNCHANGED <<saves, inspect, draft, node, reinspect, mine>>
    BY <1>3 DEF NodeRequest, Asks, Of
  <2>2. node.field \in Fields /\ node.text \in Values /\ Entered(node.field, node.text)
    BY <2>1 DEF FormOK, FormTyped, NodeEntered
  <2>3. IsRequest(request')
    BY <2>1, <2>2, Captured DEF IsRequest, Only
  <2>4. name \in SaveOps /\ inspect # Nothing
    BY <2>1 DEF SaveOps, OnForm
  <2> QED BY <2>1, <2>2, <2>3, <2>4, AsksForm DEF Only
<1>4. ASSUME NEW f \in Fields, LoadRawNode(f) PROVE FormOK'
  <2>1. /\ OnForm /\ Press("LoadNode") /\ Laid
        /\ request' = [save |-> inspect.save, set |-> Only(f, inspect.held[f]), wrote |-> FALSE]
        /\ UNCHANGED <<saves, inspect, draft, node, reinspect, mine>>
    BY <1>4 DEF LoadRawNode, Asks, Of
  <2>2. IsRequest(request')
    BY <2>1, Captured DEF IsRequest, Only, Form
  <2>3. "LoadNode" \in SaveOps /\ "LoadNode" \notin SaveWrites
    BY DEF SaveOps, SaveWrites
  <2> QED BY <2>1, <2>2, <2>3, AsksForm
<1>5. CASE ExportDialog
  <2>1. /\ OnForm /\ Press("ExportSave") /\ Laid
        /\ request' = [save |-> inspect.save, set |-> <<>>, wrote |-> FALSE]
        /\ UNCHANGED <<saves, inspect, draft, node, reinspect, mine>>
    BY <1>5 DEF ExportDialog, Asks, Of
  <2>2. IsRequest(request')
    BY <2>1, Captured DEF IsRequest
  <2>3. "ExportSave" \in SaveOps /\ "ExportSave" \notin SaveWrites
    BY DEF SaveOps, SaveWrites
  <2> QED BY <2>1, <2>2, <2>3, AsksForm
<1> QED BY <1>1, <1>2, <1>3, <1>4, <1>5, ImportForm DEF SaveRequest

(* The core writes the fields asked for into the save asked for.           *)
LEMMA CoreSavesForm == ASSUME FormOK, CoreSaves PROVE FormOK'
<1>1. /\ op # Nothing /\ op \in Op1 /\ op.name \in SaveWrites /\ IsRequest(request)
      /\ UNCHANGED <<inspect, draft, entry, ship, node, reinspect, mine>>
  BY SaveOperations DEF CoreSaves, FormOK, FormTyped
<1>2. /\ op' \in Op1 /\ op'.name = op.name /\ op.stage = "calls"
      /\ IsRequest(request') /\ request'.save = request.save /\ request'.set = request.set
  <2>1. CASE Core /\ request' = [request EXCEPT !.wrote = TRUE]
    <3>1. IsRequest(request') /\ request'.save = request.save /\ request'.set = request.set
      BY <1>1, <2>1 DEF IsRequest
    <3>2. op.stage = "calls"
      BY <2>1 DEF Core
    <3> QED BY <1>1, <2>1, <3>1, <3>2, CallsGoOn
  <2>2. CASE op.stage = "calls" /\ op' = [op EXCEPT !.stage = "land"] /\ request' = request
    BY <1>1, <2>2 DEF Op1
  <2> QED BY <2>1, <2>2 DEF CoreSaves
<1>3. saves' \in [Saves -> [Fields -> Values]]
  <2>1. saves \in [Saves -> [Fields -> Values]]
    BY DEF FormOK, FormTyped
  <2>2. CASE UNCHANGED saves
    BY <2>1, <2>2
  <2>3. CASE saves' = [saves EXCEPT ![request.save] =
               [f \in Fields |-> IF f \in DOMAIN request.set THEN request.set[f] ELSE @[f]]]
    <3> DEFINE written == [f \in Fields |-> IF f \in DOMAIN request.set THEN request.set[f]
                                            ELSE saves[request.save][f]]
    <3>1. written \in [Fields -> Values]
      BY <1>1, <2>1 DEF IsRequest
    <3>2. saves' = [saves EXCEPT ![request.save] = written]
      BY <2>3
    <3> QED BY <2>1, <3>1, <3>2
  <2> QED BY <2>2, <2>3 DEF CoreSaves
<1>4. FormTyped'
  BY <1>1, <1>2, <1>3 DEF FormOK, FormTyped
<1>5. DraftsEntered' /\ NodeEntered' /\ RowsEntered' /\ WriteEntered'
  BY <1>1, <1>2 DEF FormOK, DraftsEntered, NodeEntered, RowsEntered, WriteEntered, Entered
<1> QED BY <1>4, <1>5 DEF FormOK

(* The save is read, and the form is a fresh one.                          *)
LEMMA LandInspectForm == ASSUME FormOK, LandInspect PROVE FormOK'
<1>1. /\ op # Nothing /\ op.name = "InspectSave" /\ LandOp /\ Laid
      /\ draft' = NoDraft /\ node' = Nothing /\ mine' = NoneMine
      /\ inspect' = [save |-> request.save, held |-> saves[request.save]]
      /\ UNCHANGED <<saves, request, reinspect>>
  BY DEF LandInspect, Opened, Landed
<1>2. op' \in Op1 /\ op'.name = op.name /\ op'.stage = "end"
  BY <1>1, CallsGoOn DEF FormOK, FormTyped, LandOp, Op1
<1>3. IsRequest(request) /\ inspect' \in Form
  BY <1>1, SaveOperations DEF FormOK, FormTyped, IsRequest, Form
<1>4. draft' \in [Labels -> Text] /\ mine' \in [Fields -> SUBSET Values]
  BY <1>1 DEF NoDraft, NoneMine, Text
<1>5. FormTyped'
  BY <1>1, <1>2, <1>3, <1>4 DEF FormOK, FormTyped, IsRequest
<1>6. DraftsEntered' /\ NodeEntered'
  BY <1>1 DEF DraftsEntered, NodeEntered, NoDraft, Labels
<1>7. RowsEntered'
  BY <1>1, <1>3, <1>4, <1>6, RowsLaid
<1>8. WriteEntered'
  BY <1>2 DEF WriteEntered
<1> QED BY <1>5, <1>6, <1>7, <1>8 DEF FormOK

LEMMA LandNodeForm == ASSUME FormOK, LandNode PROVE FormOK'
<1>1. /\ op # Nothing /\ op.name = "LoadNode" /\ LandOp /\ Laid
      /\ UNCHANGED <<saves, inspect, draft, ship, request, reinspect>>
  BY DEF LandNode, Landed
<1>2. op' \in Op1 /\ op'.name = op.name /\ op'.stage = "end"
  BY <1>1, CallsGoOn DEF FormOK, FormTyped, LandOp, Op1
<1>3. IsRequest(request)
  BY <1>1 DEF FormOK, FormTyped, SaveOps
<1>4. PICK f \in DOMAIN request.set :
        /\ node' = [field |-> f, text |-> saves[request.save][f]]
        /\ Enters(f, saves[request.save][f])
  BY DEF LandNode
<1>5. f \in Fields /\ saves[request.save][f] \in Values
  BY <1>3, <1>4 DEF IsRequest, FormOK, FormTyped
<1>6. /\ mine' \in [Fields -> SUBSET Values] /\ \A g \in Fields : mine[g] \subseteq mine'[g]
      /\ saves[request.save][f] \in mine'[f]
  BY <1>4, <1>5 DEF Enters, FormOK, FormTyped
<1>7. FormTyped'
  BY <1>1, <1>2, <1>3, <1>4, <1>5, <1>6 DEF FormOK, FormTyped, IsRequest
<1>8. DraftsEntered'
  BY <1>1, <1>6, EnteredStays DEF FormOK, DraftsEntered
<1>9. NodeEntered'
  BY <1>4, <1>5, <1>6 DEF NodeEntered, Entered
<1>10. RowsEntered'
  BY <1>1, <1>7, <1>8, RowsLaid DEF FormTyped
<1>11. WriteEntered'
  BY <1>2 DEF WriteEntered
<1> QED BY <1>7, <1>8, <1>9, <1>10, <1>11 DEF FormOK

LEMMA LandWriteForm == ASSUME FormOK, LandWrite PROVE FormOK'
<1>1. /\ op # Nothing /\ op.stage = "land" /\ op.name \in SaveWrites /\ draft' = NoDraft
      /\ UNCHANGED <<saves, inspect, ship, node, request, mine>>
  BY DEF LandWrite, Landed
<1>2. IsRequest(request) /\ op \in Op1
  BY <1>1, SaveOperations DEF FormOK, FormTyped
<1>3. /\ op' \in Op1 /\ op'.name = op.name /\ op'.stage = "end"
      /\ reinspect' \in Saves \cup {Nothing}
  <2>1. op' = [op EXCEPT !.stage = "end"]
    BY DEF LandWrite, LandOp
  <2>2. reinspect' \in Saves \cup {Nothing}
    BY <1>2 DEF LandWrite, FormOK, FormTyped, IsRequest
  <2> QED BY <1>2, <2>1, <2>2 DEF Op1
<1>4. draft' \in [Labels -> Text]
  BY <1>1 DEF NoDraft, Text
<1>5. FormTyped'
  BY <1>1, <1>2, <1>3, <1>4 DEF FormOK, FormTyped, IsRequest
<1>6. DraftsEntered' /\ NodeEntered'
  BY <1>1 DEF FormOK, DraftsEntered, NodeEntered, NoDraft, Labels, Entered
<1>7. RowsEntered'
  <2>1. CASE Laid
    BY <1>4, <1>5, <1>6, <2>1, RowsLaid DEF FormTyped
  <2>2. CASE UNCHANGED entry
    BY <1>1, <2>2 DEF FormOK, RowsEntered, Entered
  <2> QED BY <2>1, <2>2 DEF LandWrite
<1>8. WriteEntered'
  BY <1>3 DEF WriteEntered
<1> QED BY <1>5, <1>6, <1>7, <1>8 DEF FormOK

(* The user at the form.                                                   *)
LEMMA EntersGrows ==
  ASSUME FormOK, NEW f \in Fields, NEW v \in Values, Enters(f, v)
  PROVE  /\ mine' \in [Fields -> SUBSET Values] /\ v \in mine'[f]
         /\ \A g \in Fields : mine[g] \subseteq mine'[g]
BY DEF Enters, FormOK, FormTyped

LEMMA TypeFieldForm ==
  ASSUME FormOK, NEW f \in Fields, NEW v \in Values, TypeField(f, v)
  PROVE  FormOK'
<1>1. /\ UNCHANGED <<op, saves, inspect, ship, node, request, reinspect>>
      /\ entry' = [entry EXCEPT ![f] = v] /\ draft' = [draft EXCEPT ![Label[f]] = v]
      /\ Enters(f, v)
  BY DEF TypeField, Elsewhere
<1>2. /\ mine' \in [Fields -> SUBSET Values] /\ v \in mine'[f]
      /\ \A g \in Fields : mine[g] \subseteq mine'[g]
  BY <1>1, EntersGrows
<1>3. draft' \in [Labels -> Text] /\ entry' \in [Fields -> Text]
  BY <1>1 DEF FormOK, FormTyped, RowsEntered, Text
<1>4. DraftsEntered'
  <2> SUFFICES ASSUME NEW g \in Fields, NEW x, x = draft'[Label[g]], x # Nothing
               PROVE  Entered(g, x)'
    BY DEF DraftsEntered, Entered
  <2>1. CASE Label[g] = Label[f]
    <3>1. draft'[Label[g]] = v
      BY <1>1, <2>1 DEF FormOK, FormTyped, Labels
    <3> QED BY <1>2, <2>1, <3>1 DEF Entered
  <2>2. CASE Label[g] # Label[f]
    <3>1. draft'[Label[g]] = draft[Label[g]]
      BY <1>1, <2>2 DEF FormOK, FormTyped, Labels
    <3> QED BY <1>2, <3>1, EnteredStays DEF FormOK, DraftsEntered
  <2> QED BY <2>1, <2>2
<1>5. NodeEntered'
  BY <1>1, <1>2, EnteredStays DEF FormOK, FormTyped, NodeEntered
<1>6. RowsEntered'
  <2> SUFFICES ASSUME inspect # Nothing, NEW g \in Fields,
                      NEW x, x = entry'[g], x \notin {Nothing, inspect.held[g]}
               PROVE  Entered(g, x)'
    BY <1>1, <1>3 DEF RowsEntered, Entered
  <2>1. CASE g = f
    BY <1>1, <1>2, <2>1 DEF FormOK, RowsEntered, Entered
  <2>2. CASE g # f
    BY <1>1, <1>2, <2>2, EnteredStays DEF FormOK, RowsEntered
  <2> QED BY <2>1, <2>2
<1> QED BY <1>1, <1>2, <1>3, <1>4, <1>5, <1>6, ValueEntered DEF FormOK, FormTyped

LEMMA PickTypeForm ==
  ASSUME FormOK, NEW f \in Fields, NEW v \in Values, PickType(f, v)
  PROVE  FormOK'
<1>1. /\ UNCHANGED <<op, saves, inspect, draft, ship, node, request, reinspect>>
      /\ entry' = [entry EXCEPT ![f] = v] /\ Enters(f, v)
  BY DEF PickType, Elsewhere
<1>2. /\ mine' \in [Fields -> SUBSET Values] /\ v \in mine'[f]
      /\ \A g \in Fields : mine[g] \subseteq mine'[g]
  BY <1>1, EntersGrows
<1>3. entry' \in [Fields -> Text]
  BY <1>1 DEF FormOK, RowsEntered, Text
<1>4. DraftsEntered'
  BY <1>1, <1>2, EnteredStays DEF FormOK, DraftsEntered
<1>5. NodeEntered'
  BY <1>1, <1>2, EnteredStays DEF FormOK, FormTyped, NodeEntered
<1>6. RowsEntered'
  <2> SUFFICES ASSUME inspect # Nothing, NEW g \in Fields,
                      NEW x, x = entry'[g], x \notin {Nothing, inspect.held[g]}
               PROVE  Entered(g, x)'
    BY <1>1, <1>3 DEF RowsEntered, Entered
  <2>1. CASE g = f
    BY <1>1, <1>2, <2>1 DEF FormOK, RowsEntered, Entered
  <2>2. CASE g # f
    BY <1>1, <1>2, <2>2, EnteredStays DEF FormOK, RowsEntered
  <2> QED BY <2>1, <2>2
<1> QED BY <1>1, <1>2, <1>4, <1>5, <1>6, ValueEntered DEF FormOK, FormTyped

LEMMA RawEditorForm ==
  ASSUME FormOK, NEW v \in Values, RawEditor(v)
  PROVE  FormOK'
<1>1. /\ UNCHANGED <<op, saves, inspect, draft, entry, ship, request, reinspect>>
      /\ node # Nothing /\ node' = [node EXCEPT !.text = v] /\ Enters(node.field, v)
  BY DEF RawEditor, Elsewhere
<1>2. node.field \in Fields /\ node' = [field |-> node.field, text |-> v]
  BY <1>1 DEF FormOK, FormTyped
<1>3. /\ mine' \in [Fields -> SUBSET Values] /\ v \in mine'[node.field]
      /\ \A g \in Fields : mine[g] \subseteq mine'[g]
  BY <1>1, <1>2, EntersGrows
<1>4. DraftsEntered'
  BY <1>1, <1>3, EnteredStays DEF FormOK, DraftsEntered
<1>5. NodeEntered'
  BY <1>2, <1>3 DEF NodeEntered, Entered
<1>6. RowsEntered'
  BY <1>1, <1>3, EnteredStays DEF FormOK, RowsEntered
<1> QED BY <1>1, <1>2, <1>3, <1>4, <1>5, <1>6, ValueEntered DEF FormOK, FormTyped

LEMMA PickShipForm == ASSUME FormOK, NEW s \in Ships, PickShip(s) PROVE FormOK'
<1>1. /\ UNCHANGED <<saves, inspect, draft, node, reinspect, mine, request, op>> /\ Laid
  BY DEF PickShip
<1> QED BY <1>1, OperationGoesOn

(* With nothing at work there is no write the save in the form is needed   *)
(* for.                                                                    *)
LEMMA SlotsCardForm == ASSUME FormOK, SlotsCard PROVE FormOK'
<1>1. /\ op = Nothing /\ op' = op /\ inspect' = Nothing /\ Laid
      /\ UNCHANGED <<saves, draft, node, request, reinspect, mine>>
  BY DEF SlotsCard, Idle, Working
<1>2. FormTyped'
  BY <1>1 DEF FormOK, FormTyped
<1>3. DraftsEntered' /\ NodeEntered'
  BY <1>1 DEF FormOK, DraftsEntered, NodeEntered, Entered
<1>4. RowsEntered'
  BY <1>1, <1>2, <1>3, RowsLaid DEF FormTyped
<1>5. WriteEntered'
  BY <1>1 DEF WriteEntered
<1> QED BY <1>2, <1>3, <1>4, <1>5 DEF FormOK

LEMMA InitForm == Init => FormOK
<1> SUFFICES ASSUME Init PROVE FormOK
  OBVIOUS
<1>1. /\ op = Nothing /\ inspect = Nothing /\ draft = NoDraft /\ entry = NoText
      /\ node = Nothing /\ reinspect = Nothing /\ mine = NoneMine
      /\ saves = [s \in Saves |-> [f \in Fields |-> Stock]]
  BY DEF Init, OnStart
<1> QED BY <1>1 DEF FormOK, FormTyped, DraftsEntered, NodeEntered, RowsEntered, WriteEntered,
                    NoDraft, NoText, NoneMine, Text, Labels

LEMMA NextForm == ASSUME FormOK, [Next]_vars PROVE FormOK'
<1>1. CASE UNCHANGED vars
  BY <1>1, OperationGoesOn DEF vars, winVars, tabVars
<1> QED BY <1>1, RedrawsForm, StaysForm, ReturnsForm, RequestsForm, CoreSavesForm,
           LandInspectForm, LandNodeForm, LandWriteForm, TypeFieldForm, PickTypeForm,
           PickShipForm, RawEditorForm, SlotsCardForm DEF Next

(* Only the core, at a write under way, changes a save.                    *)
LEMMA WhoWrites == ASSUME [Next]_vars PROVE CoreSaves \/ UNCHANGED saves
<1>1. Redraws \/ Stays \/ Returns => UNCHANGED saves
  BY DEF Redraws, Stays, Returns, tabVars
<1>2. SaveRequest => UNCHANGED saves
  BY DEF SaveRequest, SelectSlot, EditRequest, NodeRequest, LoadRawNode, ExportDialog,
         ImportDialog
<1>3. LandInspect \/ LandNode \/ LandWrite \/ SlotsCard => UNCHANGED saves
  BY DEF LandInspect, LandNode, LandWrite, SlotsCard
<1>4. \A f \in Fields, v \in Values : TypeField(f, v) \/ PickType(f, v) => UNCHANGED saves
  BY DEF TypeField, PickType
<1>5. \A s \in Ships : PickShip(s) => UNCHANGED saves
  BY DEF PickShip
<1>6. \A v \in Values : RawEditor(v) => UNCHANGED saves
  BY DEF RawEditor
<1>7. UNCHANGED vars => UNCHANGED saves
  BY DEF vars, tabVars
<1> QED BY <1>1, <1>2, <1>3, <1>4, <1>5, <1>6, <1>7 DEF Next

ToItsSave ==
  \A s \in Saves, f \in Fields : Changed(s, f) =>
    /\ inspect # Nothing /\ inspect.save = s
    /\ \E g \in Fields : Label[g] = Label[f] /\ saves'[s][f] \in mine[g]

LEMMA CoreSavesHome == ASSUME FormOK, CoreSaves PROVE ToItsSave
<1> SUFFICES ASSUME NEW s \in Saves, NEW f \in Fields, Changed(s, f)
             PROVE  inspect # Nothing /\ inspect.save = s /\ Entered(f, saves'[s][f])
  BY DEF ToItsSave, Entered
<1>1. op # Nothing /\ op.name \in SaveWrites /\ IsRequest(request)
      /\ saves \in [Saves -> [Fields -> Values]]
  BY SaveOperations DEF CoreSaves, FormOK, FormTyped
<1>2. /\ saves' = [saves EXCEPT ![request.save] =
              [g \in Fields |-> IF g \in DOMAIN request.set THEN request.set[g] ELSE @[g]]]
      /\ Core
  BY DEF CoreSaves, Changed
<1>3. op.stage = "calls"
  BY <1>2 DEF Core
<1>4. s = request.save /\ f \in DOMAIN request.set /\ saves'[s][f] = request.set[f]
  BY <1>1, <1>2 DEF Changed
<1> QED BY <1>1, <1>3, <1>4 DEF FormOK, WriteEntered

(* What is written into a save was entered while that save was the one in  *)
(* the form: no draft, node or request reaches another one.                *)
THEOREM TextsStayHome == Spec => WritesGoToTheirSave
<1>1. FormOK /\ [Next]_vars => FormOK' /\ ToItsSave
  <2>1. ASSUME UNCHANGED saves PROVE ToItsSave
    BY <2>1 DEF ToItsSave, Changed
  <2> QED BY <2>1, NextForm, WhoWrites, CoreSavesHome
<1>2. FormOK /\ [Next]_vars => [ToItsSave]_vars
  BY <1>1
<1>3. Spec => [][ToItsSave]_vars
  BY InitForm, <1>1, <1>2, PTL DEF Spec
<1> QED BY <1>3 DEF WritesGoToTheirSave, ToItsSave

(***************************************************************************)
(* The operations, as data.                                                *)
(***************************************************************************)

(* The loads that read what one of the first n calls of an operation       *)
(* writes, its known gaps left out.                                        *)
Reach(o, n, l) == l \notin o.misses /\ \E i \in 1..n : Reads[l] \cap o.calls[i] # {}

(* What the landing does for those: it clears their flags itself, or drops *)
(* everything but the compatibility, or writes the new value into the      *)
(* tweaks; and the compatibility is dropped by none of them.               *)
Answered(o, l) ==
  \/ l \in o.clears
  \/ o.ends = "invalidate" /\ l # "compat"
  \/ o.ends = "patch" /\ l = "tweaks"
Shape(o) ==
  /\ o.calls \in Seq(SUBSET Stores) /\ Len(o.calls) \in 1..2
  /\ o.clears \subseteq Loads /\ "compat" \notin o.clears
  /\ o.ends \in {"invalidate", "rebuild", "flash", "patch", "check"}
  /\ \A l \in Loads : Reach(o, Len(o.calls), l) => Answered(o, l)

LEMMA Loaders ==
  Loads = {"status", "detect", "mods", "tweaks", "compat", "tools", "cache", "report",
           "saves", "slots", "archive", "config"}
BY DEF Loads, Reads

(* Who reads what.                                                         *)
LEMMA Readers ==
  \A l \in Loads :
    /\ Reads[l] \subseteq Stores
    /\ "modlist" \in Reads[l] => l \in {"mods", "tweaks"}
    /\ "params" \in Reads[l] => l \in {"mods", "tweaks", "report"}
    /\ "scripts" \in Reads[l] => l \in {"status", "mods"}
    /\ "settings" \in Reads[l] => l \in {"status", "detect", "compat", "config"}
    /\ "pin" \in Reads[l] => l \in {"status", "compat", "tools", "config"}
    /\ "tools" \in Reads[l] => l \in {"status", "compat", "tools"}
    /\ "game" \in Reads[l] => l = "status"
    /\ "archive" \in Reads[l] => l = "archive"
    /\ "backups" \in Reads[l] => l = "saves"
    /\ "profile" \in Reads[l] => l = "slots"
    /\ "report" \in Reads[l] => l \in {"mods", "tweaks", "report"}
    /\ "cache" \in Reads[l] => l = "cache"
    /\ "index" \in Reads[l] => l \in {"status", "cache"}
BY DEF Loads, Reads, Stores, LoadStatus, LoadDetect, LoadMods, LoadTweaks, LoadCompat, LoadTools,
       LoadCache, LoadReport, LoadSaves, LoadSlots, LoadArchive, LoadConfig

(* The three common kinds of operation.                                    *)
LEMMA DoneShape ==
  ASSUME NEW calls \in Seq(SUBSET Stores), Len(calls) \in 1..2,
         NEW clears \in SUBSET (Loads \ {"compat"})
  PROVE  Shape(Done(calls, clears))
BY DEF Shape, Done, Op, Reach, Answered

LEMMA LooksShape ==
  ASSUME NEW ends \in {"rebuild", "flash", "check"}
  PROVE  Shape(Looks(ends))
BY DEF Shape, Looks, Op, Reach, Answered

(* One call that writes one store, known gaps beside it.                   *)
LEMMA OneCallShape ==
  ASSUME NEW W \in SUBSET Stores, NEW clears \in SUBSET (Loads \ {"compat"}),
         NEW ends \in {"flash", "patch"}, NEW misses,
         \A l \in Loads : Reads[l] \cap W # {} =>
            l \in misses \/ l \in clears \/ (ends = "patch" /\ l = "tweaks")
  PROVE  Shape(Op(<<W>>, clears, ends, misses))
BY DEF Shape, Op, Reach, Answered

LEMMA StoresAre ==
  Stores = {"settings", "pin", "modlist", "params", "scripts", "tools", "game",
            "archive", "backups", "profile", "report", "cache", "index"}
BY DEF Stores

LEMMA DoneOperations ==
  /\ Shape(AddMod) /\ Shape(ImportMods) /\ Shape(ExportMod) /\ Shape(RemoveMod)
  /\ Shape(SetModEnabled) /\ Shape(MoveMod) /\ Shape(ResetAllTweaks) /\ Shape(Rollback)
  /\ Shape(BackupSaves) /\ Shape(ToggleAllMods) /\ Shape(ReplaceSymlinkAndDeploy)
  /\ Shape(DeployLast) /\ Shape(Undeploy) /\ Shape(SaveSettings) /\ Shape(SetConfig)
  /\ Shape(EnsureTools) /\ Shape(PinTool) /\ Shape(RemoveTool) /\ Shape(ClearCache)
  /\ Shape(RebuildIndex) /\ Shape(Extract)
<1>1. ASSUME NEW W \in SUBSET Stores, NEW clears \in SUBSET (Loads \ {"compat"})
      PROVE  Shape(Done(<<W>>, clears)) /\ Shape(Done(<<W, W>>, clears))
  <2>1. <<W>> \in Seq(SUBSET Stores) /\ Len(<<W>>) \in 1..2
    OBVIOUS
  <2>2. <<W, W>> \in Seq(SUBSET Stores) /\ Len(<<W, W>>) \in 1..2
    OBVIOUS
  <2> QED BY <2>1, <2>2, DoneShape
<1>2. /\ {} \in SUBSET (Loads \ {"compat"}) /\ {"archive"} \in SUBSET (Loads \ {"compat"})
      /\ {"saves"} \in SUBSET (Loads \ {"compat"}) /\ {"config"} \in SUBSET (Loads \ {"compat"})
      /\ {"cache"} \in SUBSET (Loads \ {"compat"})
  BY Loaders
<1>3. /\ {} \in SUBSET Stores /\ {"scripts", "modlist"} \in SUBSET Stores
      /\ {"modlist"} \in SUBSET Stores /\ {"params"} \in SUBSET Stores
      /\ {"game", "archive"} \in SUBSET Stores /\ {"backups"} \in SUBSET Stores
      /\ {"game"} \in SUBSET Stores /\ {"backups", "game", "archive"} \in SUBSET Stores
      /\ {"settings"} \in SUBSET Stores /\ {"tools"} \in SUBSET Stores
      /\ {"pin", "tools"} \in SUBSET Stores /\ {"cache", "index"} \in SUBSET Stores
      /\ {"index"} \in SUBSET Stores
  BY StoresAre
<1>4. {"modlist", "scripts"} = {"scripts", "modlist"}
  OBVIOUS
<1>5. /\ Shape(AddMod) /\ Shape(ImportMods) /\ Shape(ExportMod) /\ Shape(RemoveMod)
      /\ Shape(SetModEnabled) /\ Shape(MoveMod) /\ Shape(ResetAllTweaks)
  BY <1>1, <1>2, <1>3, <1>4 DEF AddMod, ImportMods, ExportMod, RemoveMod, SetModEnabled, MoveMod,
     ResetAllTweaks
<1>6. /\ Shape(Rollback) /\ Shape(BackupSaves) /\ Shape(ToggleAllMods)
      /\ Shape(ReplaceSymlinkAndDeploy) /\ Shape(DeployLast) /\ Shape(Undeploy)
      /\ Shape(SaveSettings) /\ Shape(SetConfig)
  BY <1>1, <1>2, <1>3 DEF Rollback, BackupSaves, ToggleAllMods, ReplaceSymlinkAndDeploy,
     DeployLast, Undeploy, SaveSettings, SetConfig
<1>7. /\ Shape(EnsureTools) /\ Shape(PinTool) /\ Shape(RemoveTool) /\ Shape(ClearCache)
      /\ Shape(RebuildIndex) /\ Shape(Extract)
  BY <1>1, <1>2, <1>3 DEF EnsureTools, PinTool, RemoveTool, ClearCache, RebuildIndex, Extract
<1> QED BY <1>5, <1>6, <1>7

LEMMA LookingOperations ==
  /\ Shape(CheckMods) /\ Shape(RecheckAmounts) /\ Shape(ToolCheck) /\ Shape(BrowseArchives)
  /\ Shape(Releases) /\ Shape(InspectSave) /\ Shape(PreviewEdit) /\ Shape(LoadNode)
  /\ Shape(CheckNode) /\ Shape(ExportSave)
BY LooksShape DEF CheckMods, RecheckAmounts, ToolCheck, BrowseArchives, Releases, InspectSave,
   PreviewEdit, LoadNode, CheckNode, ExportSave

LEMMA OtherOperations ==
  /\ Shape(LibraryParam) /\ Shape(ApplyParam) /\ Shape(ResetParam) /\ Shape(ApplyAuditFix)
  /\ Shape(FindInArchives) /\ Shape(Wrote)
<1>1. {} \in SUBSET (Loads \ {"compat"}) /\ {"slots", "saves"} \in SUBSET (Loads \ {"compat"})
  BY Loaders
<1>2. /\ {"params"} \in SUBSET Stores /\ {"index"} \in SUBSET Stores
      /\ {"profile", "backups"} \in SUBSET Stores
  BY StoresAre
<1>3. \A l \in Loads : Reads[l] \cap {"params"} # {} => l \in {"mods", "tweaks", "report"}
  BY Readers
<1>4. Shape(LibraryParam)
  BY <1>1, <1>2, <1>3, OneCallShape DEF LibraryParam
<1>5. Shape(ApplyParam) /\ Shape(ResetParam)
  BY <1>1, <1>2, <1>3, OneCallShape DEF ApplyParam, ResetParam
<1>6. Shape(FindInArchives)
  <2>1. \A l \in Loads : Reads[l] \cap {"index"} # {} => l \in {"status", "cache"}
    BY Readers
  <2> QED BY <1>1, <1>2, <2>1, OneCallShape DEF FindInArchives
<1>7. Shape(Wrote)
  <2>1. \A l \in Loads : Reads[l] \cap {"profile", "backups"} # {} => l \in {"slots", "saves"}
    BY Readers
  <2> QED BY <1>1, <1>2, <2>1, OneCallShape DEF Wrote
<1>8. Shape(ApplyAuditFix)
  <2>1. /\ <<{"params"}, {"params"}>> \in Seq(SUBSET Stores)
        /\ Len(<<{"params"}, {"params"}>>) = 2
        /\ \A i \in 1..2 : <<{"params"}, {"params"}>>[i] = {"params"}
    BY <1>2
  <2>2. {"tweaks"} \subseteq Loads
    BY Loaders
  <2> QED BY <1>3, <2>1, <2>2 DEF ApplyAuditFix, Shape, Op, Reach, Answered
<1> QED BY <1>4, <1>5, <1>6, <1>7, <1>8

(* Every operation of the window answers every load it leaves with older   *)
(* data, but for its known gaps.                                           *)
LEMMA EveryOperation == \A name \in OpNames : Shape(Operations[name])
BY DoneOperations, LookingOperations, OtherOperations DEF OpNames, Operations

(***************************************************************************)
(* The loads.                                                              *)
(***************************************************************************)

Flight == [age : Ages, saw : SUBSET Facts]
Flags == [Loads -> BOOLEAN]
Flights == [Loads -> Seq(Flight)]

(* What is counted as loaded in flags o, with loads f under way and s on   *)
(* screen, while it is older than what is on disk.                         *)
StaleIn(o, f, s, l) ==
  o[l] /\ IF f[l] # <<>> THEN f[l][Len(f[l])].age = "crossed" ELSE s[l] = "old"
Stale(l) == StaleIn(ok, flying, shown, l)

LEMMA CleanFlight == Clean \in Flight /\ Clean.age = "clean"
BY DEF Clean, Flight, Ages

LEMMA AgedFlight ==
  ASSUME machine \subseteq Facts, NEW load \in Flight, NEW loose
  PROVE  /\ Aged(load, loose) \in Flight
         /\ loose => Aged(load, loose).age = "loose"
BY DEF Aged, Flight, Ages

LEMMA GivenUpFlight ==
  ASSUME NEW load \in Flight
  PROVE  GivenUp(load) \in Flight /\ GivenUp(load).age # "crossed"
BY DEF GivenUp, Flight, Ages

(* A section that is drawn again starts what is not loaded, and what it    *)
(* starts is the last load of its kind.                                    *)
LEMMA StartsFresh ==
  ASSUME NEW wanted, NEW flags \in Flags, NEW loads \in Flights, StartLoads(wanted, flags, loads)
  PROVE  /\ ok' \in Flags /\ flying' \in Flights
         /\ \A l \in Loads : flags[l] => ok'[l]
         /\ \A l \in Loads : flying'[l] # <<>> => loads[l] # <<>> \/ ok'[l]
         /\ \A l \in Loads : StaleIn(ok', flying', shown', l) => StaleIn(flags, loads, shown', l)
<1> DEFINE fresh == {l \in wanted : ~flags[l]}
<1>1. /\ ok' = [l \in Loads |-> flags[l] \/ l \in fresh]
      /\ flying' = [l \in Loads |-> IF l \in fresh THEN Append(loads[l], Clean) ELSE loads[l]]
  BY DEF StartLoads
<1> HIDE DEF fresh
<1>2. ok' \in Flags /\ \A l \in Loads : ok'[l] = (flags[l] \/ l \in fresh)
  BY <1>1 DEF Flags
<1>3. ASSUME NEW l \in Loads, l \in fresh
      PROVE  flying'[l] \in Seq(Flight) /\ flying'[l] # <<>>
             /\ flying'[l][Len(flying'[l])].age = "clean"
  <2>1. loads[l] \in Seq(Flight) /\ flying'[l] = Append(loads[l], Clean)
    BY <1>1, <1>3 DEF Flights
  <2> QED BY <2>1, CleanFlight
<1>4. ASSUME NEW l \in Loads, l \notin fresh
      PROVE  flying'[l] = loads[l] /\ loads[l] \in Seq(Flight) /\ ok'[l] = flags[l]
  <2>1. flying'[l] = loads[l] /\ loads[l] \in Seq(Flight)
    BY <1>1, <1>4 DEF Flights
  <2>2. ok'[l] = (flags[l] \/ FALSE) /\ flags[l] \in BOOLEAN
    BY <1>2, <1>4 DEF Flags
  <2> QED BY <2>1, <2>2
<1>5. flying' \in Flights
  <2>1. \A l \in Loads : flying'[l] \in Seq(Flight)
    BY <1>3, <1>4
  <2>2. flying' = [l \in Loads |-> flying'[l]]
    BY <1>1
  <2> QED BY <2>1, <2>2 DEF Flights
<1>6. ASSUME NEW l \in Loads, StaleIn(ok', flying', shown', l)
      PROVE  StaleIn(flags, loads, shown', l)
  <2>1. l \notin fresh
    BY <1>3, <1>6 DEF StaleIn
  <2> QED BY <1>4, <1>6, <2>1 DEF StaleIn
<1>7. \A l \in Loads : flying'[l] # <<>> => loads[l] # <<>> \/ ok'[l]
  BY <1>2, <1>4
<1> QED BY <1>2, <1>5, <1>6, <1>7

(* Clearing a flag takes it out of what is stale.                          *)
LEMMA ClearsFlags ==
  ASSUME NEW flags \in Flags, NEW gone
  PROVE  /\ Clear(flags, gone) \in Flags
         /\ \A l \in Loads : Clear(flags, gone)[l] <=> flags[l] /\ l \notin gone
         /\ \A f, s, l : l \in Loads /\ StaleIn(Clear(flags, gone), f, s, l) =>
              StaleIn(flags, f, s, l) /\ l \notin gone
BY DEF Clear, Flags, StaleIn

(* A write leaves behind, of what is loaded, what reads it, but for the    *)
(* known gaps.                                                             *)
LEMMA WriteAges ==
  ASSUME machine \subseteq Facts, flying \in Flights, shown \in [Loads -> Seen], ok \in Flags,
         NEW W, NEW misses, Write(W, misses), UNCHANGED ok
  PROVE  /\ flying' \in Flights /\ shown' \in [Loads -> Seen]
         /\ \A l \in Loads : flying'[l] # <<>> => flying[l] # <<>>
         /\ \A l \in Loads : Stale(l)' => Stale(l) \/ (Reads[l] \cap W # {} /\ l \notin misses)
<1>1. /\ flying' = [l \in Loads |-> IF l \in Hit(W)
                      THEN [i \in DOMAIN flying[l] |-> Aged(flying[l][i], l \in misses)]
                      ELSE flying[l]]
      /\ shown' = [l \in Loads |-> IF l \in Hit(W) /\ shown[l] = "current"
                     THEN (IF l \in misses THEN "loose" ELSE "old") ELSE shown[l]]
  BY DEF Write
<1>2. shown' \in [Loads -> Seen]
  BY <1>1 DEF Seen
<1>3. ASSUME NEW l \in Loads
      PROVE  /\ flying'[l] \in Seq(Flight) /\ Len(flying'[l]) = Len(flying[l])
             /\ flying'[l] # <<>> => flying[l] # <<>>
             /\ Stale(l)' => Stale(l) \/ (l \in Hit(W) /\ l \notin misses)
  <2>1. flying[l] \in Seq(Flight)
    BY DEF Flights
  <2>2. CASE l \in Hit(W)
    <3>1. flying'[l] = [i \in 1..Len(flying[l]) |-> Aged(flying[l][i], l \in misses)]
      BY <1>1, <2>1, <2>2
    <3>2. \A i \in 1..Len(flying[l]) :
            /\ flying[l][i] \in Flight /\ Aged(flying[l][i], l \in misses) \in Flight
            /\ l \in misses => Aged(flying[l][i], l \in misses).age = "loose"
      <4>1. \A i \in 1..Len(flying[l]) : flying[l][i] \in Flight
        BY <2>1
      <4> QED BY <4>1, AgedFlight, Zenon
    <3>3. flying'[l] \in Seq(Flight) /\ Len(flying'[l]) = Len(flying[l])
      BY <2>1, <3>1, <3>2
    <3>4. l \in misses => ~StaleIn(ok, flying', shown', l) \/ Stale(l)
      <4>1. flying'[l] # <<>> => Len(flying[l]) \in 1..Len(flying[l])
        BY <2>1, <3>3
      <4>2. flying'[l] = <<>> => flying[l] = <<>>
        BY <2>1, <3>3
      <4> QED BY <1>1, <2>2, <3>1, <3>2, <3>3, <4>1, <4>2 DEF StaleIn, Stale
    <3> QED BY <2>1, <2>2, <3>3, <3>4 DEF Stale
  <2>3. CASE l \notin Hit(W)
    <3>1. flying'[l] = flying[l] /\ shown'[l] = shown[l]
      BY <1>1, <2>3
    <3> QED BY <2>1, <3>1 DEF Stale, StaleIn
  <2> QED BY <2>2, <2>3
<1>4. flying' \in Flights
  <2>1. flying' = [l \in Loads |-> flying'[l]]
    BY <1>1
  <2> QED BY <1>3, <2>1 DEF Flights
<1> QED BY <1>2, <1>3, <1>4 DEF Hit

(* What is given up on is no longer counted.                               *)
LEMMA Slackens ==
  ASSUME NEW f \in Flights, NEW L
  PROVE  /\ Slack(f, L) \in Flights
         /\ \A l \in Loads : (Slack(f, L)[l] # <<>>) = (f[l] # <<>>)
         /\ \A l \in Loads : Slack(f, L)[l] # <<>> /\ l \in L =>
              Slack(f, L)[l][Len(Slack(f, L)[l])].age # "crossed"
         /\ \A l \in Loads : l \notin L => Slack(f, L)[l] = f[l]
<1> DEFINE g == Slack(f, L)
<1>1. ASSUME NEW l \in Loads
      PROVE  /\ g[l] \in Seq(Flight) /\ Len(g[l]) = Len(f[l])
             /\ g[l] # <<>> /\ l \in L => g[l][Len(g[l])].age # "crossed"
             /\ l \notin L => g[l] = f[l]
             /\ (g[l] # <<>>) = (f[l] # <<>>)
  <2>1. f[l] \in Seq(Flight)
    BY DEF Flights
  <2>2. CASE l \in L
    <3>1. g[l] = [i \in 1..Len(f[l]) |-> GivenUp(f[l][i])]
      BY <2>1, <2>2 DEF Slack
    <3>2. \A i \in 1..Len(f[l]) : GivenUp(f[l][i]) \in Flight /\ GivenUp(f[l][i]).age # "crossed"
      BY <2>1, GivenUpFlight
    <3> HIDE DEF g
    <3>3. g[l] \in Seq(Flight) /\ Len(g[l]) = Len(f[l])
      BY <2>1, <3>1, <3>2
    <3> QED BY <2>1, <2>2, <3>1, <3>2, <3>3
  <2>3. CASE l \notin L
    <3>1. g[l] = f[l]
      BY <2>3 DEF Slack
    <3> QED BY <2>1, <2>3, <3>1
  <2> QED BY <2>2, <2>3
<1>2. g = [l \in Loads |-> g[l]]
  BY DEF Slack
<1> HIDE DEF g
<1>3. g \in Flights
  BY <1>1, <1>2 DEF Flights
<1> QED BY <1>1, <1>3 DEF g

LEMMA SlackensShown ==
  ASSUME shown \in [Loads -> Seen], NEW L
  PROVE  /\ SlackShown(L) \in [Loads -> Seen]
         /\ \A l \in Loads : l \in L => SlackShown(L)[l] # "old"
         /\ \A l \in Loads : l \notin L => SlackShown(L)[l] = shown[l]
BY DEF SlackShown, Seen

LEMMA ConcatRight ==
  ASSUME NEW S, NEW a \in Seq(S), NEW b \in Seq(S), NEW k \in 1..Len(b)
  PROVE  (a \o b)[Len(a) + k] = b[k]
OBVIOUS

(* The loads before one that landed are overtaken by it.                   *)
LEMMA Overtakes ==
  ASSUME NEW s \in Seq(Flight), NEW i \in DOMAIN s
  PROVE  /\ Overtaken(s, i) \in Seq(Flight)
         /\ Overtaken(s, i) = <<>> => Len(s) = 1 /\ i = 1
         /\ Overtaken(s, i) # <<>> =>
              LET last == Overtaken(s, i)[Len(Overtaken(s, i))]
              IN last.age # "crossed" \/ last = s[Len(s)]
<1>1. i \in 1..Len(s) /\ Len(s) \in Nat
  OBVIOUS
<1> DEFINE before == [j \in 1..(i - 1) |-> GivenUp(s[j])]
           after == SubSeq(s, i + 1, Len(s))
<1>2. before \in Seq(Flight) /\ Len(before) = i - 1
      /\ \A j \in 1..(i - 1) : before[j].age # "crossed"
  <2>1. \A j \in 1..(i - 1) : GivenUp(s[j]) \in Flight /\ GivenUp(s[j]).age # "crossed"
    BY <1>1, GivenUpFlight
  <2> HIDE DEF after
  <2> QED BY <1>1, <2>1
<1>3. after \in Seq(Flight) /\ Len(after) = Len(s) - i
      /\ \A j \in 1..(Len(s) - i) : after[j] = s[i + j]
  BY <1>1
<1>4. Overtaken(s, i) = before \o after
  BY DEF Overtaken
<1> HIDE DEF before, after
<1>5. Overtaken(s, i) \in Seq(Flight) /\ Len(Overtaken(s, i)) = Len(s) - 1
  BY <1>1, <1>2, <1>3, <1>4
<1>6. CASE i = Len(s)
  <2>1. Overtaken(s, i) # <<>> => Overtaken(s, i)[Len(s) - 1] = before[Len(s) - 1] /\ Len(s) - 1 \in 1..(i - 1)
    BY <1>1, <1>2, <1>3, <1>4, <1>5, <1>6
  <2> QED BY <1>1, <1>2, <1>5, <1>6, <2>1
<1>7. CASE i < Len(s)
  <2>1. /\ Len(s) - i \in 1..(Len(s) - i) /\ i + (Len(s) - i) = Len(s)
        /\ Len(s) - 1 = Len(before) + (Len(s) - i)
    <3>1. Len(before) = i - 1
      BY <1>2
    <3> QED BY <1>1, <1>7, <3>1
  <2>2. Overtaken(s, i)[Len(s) - 1] = after[Len(s) - i]
    BY <1>2, <1>3, <1>4, <2>1, ConcatRight
  <2>3. after[Len(s) - i] = s[Len(s)]
    BY <1>3, <2>1
  <2> QED BY <1>1, <1>5, <1>7, <2>2, <2>3
<1> QED BY <1>1, <1>6, <1>7

(***************************************************************************)
(* What is counted as loaded.                                              *)
(***************************************************************************)

(* The operation under way, or the build, will answer load l when it ends. *)
Owed(l) ==
  \/ op # Nothing /\ op.stage = "calls" /\ Reach(Operations[op.name], op.call - 1, l)
  \/ op # Nothing /\ op.stage = "land"
     /\ Reach(Operations[op.name], Len(Operations[op.name].calls), l)
  \/ run.running /\ run.core = "built" /\ l \in {"status", "report"}
  \/ run.running /\ run.core = "stopped" /\ l = "status"

(* Of what is counted as loaded only that is older than the disk which the *)
(* operation or the build at work has still to answer. The compatibility,  *)
(* which nothing drops, has a load under way only while it is counted.     *)
Fresh == /\ \A l \in Loads : Stale(l) => Owed(l)
         /\ flying["compat"] # <<>> => ok["compat"]

OpTyped(o) ==
  /\ o \in UnderWay
  /\ o.call <= Len(Operations[o.name].calls)

Placed == /\ sitting \in Sittings /\ machine \subseteq Facts /\ facts \subseteq Facts
          /\ section \in Sections /\ left \in Budget
AtWork == /\ op = Nothing \/ OpTyped(op)
          /\ op # Nothing => ~run.running
Loading == ok \in Flags /\ flying \in Flights /\ shown \in [Loads -> Seen]
WindowOK == Placed /\ AtWork /\ Loading /\ Fresh

LEMMA CompatIsALoad == "compat" \in Loads /\ "status" \in Loads /\ "tweaks" \in Loads /\ "cache" \in Loads
BY Loaders

LEMMA PerformingTyped ==
  ASSUME NEW name \in OpNames
  PROVE  OpTyped(Performing(name))
BY EveryOperation DEF OpTyped, UnderWay, Performing, Shape

LEMMA TypedIsWork == \A o : OpTyped(o) => o # Nothing
BY NothingAssumption DEF OpTyped

LEMMA Spends ==
  ASSUME left \in Budget
  PROVE  /\ left.ops > 0 => [left EXCEPT !.ops = @ - 1] \in Budget
         /\ left.visits > 0 => [left EXCEPT !.visits = @ - 1] \in Budget
         /\ left.refreshes > 0 => [left EXCEPT !.refreshes = @ - 1] \in Budget
         /\ left.fails > 0 => [left EXCEPT !.fails = @ - 1] \in Budget
         /\ left.texts > 0 => [left EXCEPT !.texts = @ - 1] \in Budget
BY DEF Budget

(* With nothing at work nothing is owed, and so nothing is stale.          *)
LEMMA IdleFresh ==
  ASSUME Fresh, Idle
  PROVE  \A l \in Loads : ~Stale(l)
BY DEF Fresh, Idle, Working, Owed

(* A step that draws the section again, from flags and loads of which only *)
(* what is owed after it is stale.                                         *)
LEMMA DrawnFresh ==
  ASSUME NEW wanted, NEW flags \in Flags, NEW loads \in Flights,
         StartLoads(wanted, flags, loads),
         loads["compat"] # <<>> => flags["compat"],
         \A l \in Loads : StaleIn(flags, loads, shown', l) => Owed(l)'
  PROVE  ok' \in Flags /\ flying' \in Flights /\ Fresh'
<1>1. /\ ok' \in Flags /\ flying' \in Flights
      /\ \A l \in Loads : flags[l] => ok'[l]
      /\ \A l \in Loads : flying'[l] # <<>> => loads[l] # <<>> \/ ok'[l]
      /\ \A l \in Loads : StaleIn(ok', flying', shown', l) => StaleIn(flags, loads, shown', l)
  BY StartsFresh
<1>2. flying'["compat"] # <<>> => ok'["compat"]
  BY <1>1, CompatIsALoad
<1>3. \A l \in Loads : Stale(l)' => Owed(l)'
  BY <1>1 DEF Stale
<1> QED BY <1>1, <1>2, <1>3 DEF Fresh

(* Of these, the ones that leave what is shown and under way as it was and *)
(* at most clear flags.                                                    *)
LEMMA RedrawnFresh ==
  ASSUME WindowOK, UNCHANGED shown, NEW wanted, NEW gone, "compat" \notin gone,
         StartLoads(wanted, Clear(ok, gone), flying),
         \A l \in Loads : Stale(l) /\ l \notin gone => Owed(l)'
  PROVE  ok' \in Flags /\ flying' \in Flights /\ shown' \in [Loads -> Seen] /\ Fresh'
<1>1. ok \in Flags /\ flying \in Flights /\ shown \in [Loads -> Seen] /\ Fresh
  BY DEF WindowOK, Loading
<1>2. /\ Clear(ok, gone) \in Flags
      /\ flying["compat"] # <<>> => Clear(ok, gone)["compat"]
      /\ \A l \in Loads : StaleIn(Clear(ok, gone), flying, shown, l) =>
           StaleIn(ok, flying, shown, l) /\ l \notin gone
  BY <1>1, ClearsFlags, CompatIsALoad DEF Fresh
<1>3. \A l \in Loads : StaleIn(Clear(ok, gone), flying, shown', l) => Owed(l)'
  BY <1>2 DEF Stale
<1> QED BY <1>1, <1>2, <1>3, DrawnFresh

LEMMA ClearNothing == ASSUME ok \in Flags PROVE ok = Clear(ok, {})
BY DEF Flags, Clear

LEMMA RedrawFresh ==
  ASSUME WindowOK, UNCHANGED shown, Redraw(ok, flying),
         \A l \in Loads : Stale(l) => Owed(l)'
  PROVE  ok' \in Flags /\ flying' \in Flights /\ shown' \in [Loads -> Seen] /\ Fresh'
<1>1. StartLoads(Arrivals(section', facts'), Clear(ok, {}), flying)
  BY ClearNothing DEF Redraw, WindowOK, Loading
<1> QED BY <1>1, RedrawnFresh

LEMMA OnInvalidateFresh ==
  ASSUME WindowOK, UNCHANGED shown, NEW gone, "compat" \notin gone,
         OnInvalidate(Clear(ok, gone)),
         Stale("compat") => Owed("compat")'
  PROVE  ok' \in Flags /\ flying' \in Flights /\ shown' \in [Loads -> Seen] /\ Fresh'
<1> DEFINE all == gone \cup (Loads \ Kept)
<1>1. Clear(Clear(ok, gone), Loads \ Kept) = Clear(ok, all)
  BY DEF Clear
<1>2. "compat" \notin all /\ \A l \in Loads : l \notin all => l = "compat"
  BY CompatIsALoad DEF Kept
<1>3. PICK wanted : StartLoads(wanted, Clear(ok, all), flying)
  BY <1>1 DEF OnInvalidate
<1> HIDE DEF all
<1>4. \A l \in Loads : Stale(l) /\ l \notin all => Owed(l)'
  BY <1>2
<1> QED BY <1>2, <1>3, <1>4, RedrawnFresh

(* A load that lands is the last of its kind that is left, or another one  *)
(* is.                                                                     *)
LEMMA LandOK == ASSUME WindowOK, NEW l \in Loads, Land(l) PROVE WindowOK'
<1>1. PICK i \in DOMAIN flying[l] : \E saw \in {machine, flying[l][i].saw} :
        /\ facts' = (facts \ Brings[l]) \cup (saw \cap Brings[l])
        /\ \E what \in (CASE flying[l][i].age = "clean" -> {"current"}
                          [] flying[l][i].age = "loose" -> {"loose"}
                          [] OTHER -> {"old", "current"}) :
             shown' = [shown EXCEPT ![l] = what]
        /\ UNCHANGED <<sitting, machine, section, op, run, steps, left>>
        /\ Redraw(ok, [flying EXCEPT ![l] = Overtaken(@, i)])
  <2>1. PICK i \in DOMAIN flying[l] :
          LET load == flying[l][i]
              late == load.age # "clean"
          IN \E saw \in (IF late THEN {machine, load.saw} ELSE {machine}) :
               /\ facts' = (facts \ Brings[l]) \cup (saw \cap Brings[l])
               /\ \E what \in (CASE load.age = "clean" -> {"current"}
                                 [] load.age = "loose" -> {"loose"}
                                 [] OTHER -> IF saw = machine THEN {"old", "current"} ELSE {"old"}) :
                    shown' = [shown EXCEPT ![l] = what]
               /\ UNCHANGED <<sitting, machine, section, op, run, steps, left>>
               /\ Redraw(ok, [flying EXCEPT ![l] = Overtaken(@, i)])
    BY DEF Land
  <2> QED BY <2>1
<1>2. /\ ok \in Flags /\ flying \in Flights /\ shown \in [Loads -> Seen] /\ Fresh
      /\ flying[l] \in Seq(Flight) /\ flying[l][i] \in Flight
  BY <1>1 DEF WindowOK, Loading, Flights
<1>3. /\ UNCHANGED <<sitting, machine, section, op, run, left>>
      /\ facts' \subseteq Facts
  BY <1>1, <1>2 DEF WindowOK, Placed, Flight
<1>4. Placed' /\ AtWork'
  BY <1>3 DEF WindowOK, Placed, AtWork, OpTyped
<1> DEFINE loads == [flying EXCEPT ![l] = Overtaken(@, i)]
<1>5. /\ Overtaken(flying[l], i) \in Seq(Flight)
      /\ Overtaken(flying[l], i) = <<>> => Len(flying[l]) = 1 /\ i = 1
      /\ Overtaken(flying[l], i) # <<>> =>
           LET last == Overtaken(flying[l], i)[Len(Overtaken(flying[l], i))]
           IN last.age # "crossed" \/ last = flying[l][Len(flying[l])]
  BY <1>1, <1>2, Overtakes
<1>6. /\ loads \in Flights /\ loads[l] = Overtaken(flying[l], i)
      /\ \A k \in Loads : k # l => loads[k] = flying[k]
  BY <1>2, <1>5 DEF Flights
<1>7. /\ shown' \in [Loads -> Seen] /\ \A k \in Loads : k # l => shown'[k] = shown[k]
      /\ shown'[l] = "old" => flying[l][i].age = "crossed"
  BY <1>1, <1>2 DEF Seen, Flight, Ages
<1>8. flying[l] # <<>>
  BY <1>1, <1>2
<1> HIDE DEF loads
<1>9. ASSUME NEW k \in Loads, StaleIn(ok, loads, shown', k)
      PROVE  Stale(k)
  <2>1. CASE k = l
    BY <1>5, <1>6, <1>7, <1>8, <1>9, <2>1 DEF StaleIn, Stale
  <2>2. CASE k # l
    BY <1>6, <1>7, <1>9, <2>2 DEF StaleIn, Stale
  <2> QED BY <2>1, <2>2
<1>10. \A k \in Loads : Owed(k) => Owed(k)'
  BY <1>3 DEF Owed, Reach
<1>11. loads["compat"] # <<>> => ok["compat"]
  BY <1>2, <1>6, <1>8, CompatIsALoad DEF Fresh
<1>12. StartLoads(Arrivals(section', facts'), ok, loads)
  BY <1>1 DEF Redraw, loads
<1>13. \A k \in Loads : StaleIn(ok, loads, shown', k) => Owed(k)'
  BY <1>2, <1>9, <1>10 DEF Fresh
<1>14. ok' \in Flags /\ flying' \in Flights /\ Fresh'
  BY <1>2, <1>6, <1>11, <1>12, <1>13, DrawnFresh
<1> QED BY <1>4, <1>7, <1>14 DEF WindowOK, Loading

LEMMA LoadFailsOK == ASSUME WindowOK, NEW l \in Loads, LoadFails(l) PROVE WindowOK'
<1>1. PICK i \in DOMAIN flying[l] : flying' = [flying EXCEPT ![l] = Overtaken(@, i)]
  BY DEF LoadFails
<1>2. /\ ok \in Flags /\ flying \in Flights /\ shown \in [Loads -> Seen] /\ Fresh
      /\ flying[l] \in Seq(Flight) /\ left \in Budget
  BY DEF WindowOK, Loading, Flights, Placed
<1>3. /\ UNCHANGED <<sitting, machine, facts, section, ok, op, run, steps>>
      /\ left.fails > 0 /\ left' = [left EXCEPT !.fails = @ - 1]
      /\ shown' = [shown EXCEPT ![l] = IF Drawn(l) THEN "loose" ELSE "failed"]
  BY DEF LoadFails
<1>4. Placed' /\ AtWork'
  BY <1>2, <1>3, Spends DEF WindowOK, Placed, AtWork, OpTyped
<1>5. /\ Overtaken(flying[l], i) \in Seq(Flight)
      /\ Overtaken(flying[l], i) = <<>> => Len(flying[l]) = 1 /\ i = 1
      /\ Overtaken(flying[l], i) # <<>> =>
           LET last == Overtaken(flying[l], i)[Len(Overtaken(flying[l], i))]
           IN last.age # "crossed" \/ last = flying[l][Len(flying[l])]
  BY <1>1, <1>2, Overtakes
<1>6. /\ flying' \in Flights /\ flying'[l] = Overtaken(flying[l], i)
      /\ \A k \in Loads : k # l => flying'[k] = flying[k]
  BY <1>1, <1>2, <1>5 DEF Flights
<1>7. /\ shown' \in [Loads -> Seen] /\ shown'[l] # "old"
      /\ \A k \in Loads : k # l => shown'[k] = shown[k]
  BY <1>2, <1>3 DEF Seen
<1>8. flying[l] # <<>>
  BY <1>1, <1>2
<1>9. ASSUME NEW k \in Loads, Stale(k)'
      PROVE  Stale(k)
  <2>1. CASE k = l
    BY <1>3, <1>5, <1>6, <1>7, <1>8, <1>9, <2>1 DEF StaleIn, Stale
  <2>2. CASE k # l
    BY <1>3, <1>6, <1>7, <1>9, <2>2 DEF StaleIn, Stale
  <2> QED BY <2>1, <2>2
<1>10. \A k \in Loads : Owed(k) => Owed(k)'
  BY <1>3 DEF Owed, Reach
<1>11. flying'["compat"] # <<>> => ok'["compat"]
  BY <1>2, <1>3, <1>6, <1>8, CompatIsALoad DEF Fresh
<1>12. Fresh'
  BY <1>2, <1>9, <1>10, <1>11 DEF Fresh
<1> QED BY <1>2, <1>3, <1>4, <1>6, <1>7, <1>12 DEF WindowOK, Loading

(* Nothing is owed when the user can press a button.                       *)
LEMMA PressOK == ASSUME WindowOK, NEW name \in OpNames, Press(name) PROVE WindowOK'
<1>1. /\ Idle /\ left.ops > 0 /\ left' = [left EXCEPT !.ops = @ - 1]
      /\ op' = Performing(name) /\ Redraw(ok, flying)
      /\ UNCHANGED <<sitting, machine, facts, section, shown, run, steps>>
  BY DEF Press
<1>2. Placed' /\ AtWork'
  <2>1. OpTyped(op)' /\ ~run'.running
    <3>1. OpTyped(Performing(name))
      BY PerformingTyped
    <3> QED BY <1>1, <3>1 DEF OpTyped, Idle, Working
  <2> QED BY <1>1, <2>1, Spends DEF WindowOK, Placed, AtWork
<1>3. \A l \in Loads : Stale(l) => Owed(l)'
  BY <1>1, IdleFresh DEF WindowOK
<1> QED BY <1>1, <1>2, <1>3, RedrawFresh DEF WindowOK, Loading

(* The core's next call.                                                   *)
LEMMA CoreOK == ASSUME WindowOK, Core PROVE WindowOK'
<1> DEFINE o == Operations[op.name]
<1>0. op # Nothing /\ op.stage = "calls" /\ OpTyped(op)
  BY DEF Core, WindowOK, AtWork
<1>1. /\ Write(o.calls[op.call], o.misses) /\ Becomes(o.calls[op.call])
      /\ op' = IF op.call < Len(o.calls) THEN [op EXCEPT !.call = @ + 1]
               ELSE [op EXCEPT !.stage = "land"]
      /\ UNCHANGED <<sitting, facts, section, ok, run, steps, left>>
  BY DEF Core, Doing
<1>2. machine' \subseteq Facts
  BY <1>1 DEF Becomes
<1>3. /\ op \in UnderWay /\ op.call \in 1..2 /\ op.call <= Len(o.calls) /\ Len(o.calls) \in 1..2
      /\ ~run.running
  BY <1>0, EveryOperation DEF OpTyped, UnderWay, Shape, WindowOK, AtWork
<1> HIDE DEF o
<1>4. /\ OpTyped(op') /\ op' # Nothing /\ op'.name = op.name
      /\ \/ op'.stage = "calls" /\ op'.call = op.call + 1
         \/ op'.stage = "land" /\ op.call = Len(o.calls)
  <2>1. CASE op.call < Len(o.calls)
    <3>1. op.call + 1 \in 1..2 /\ op.call + 1 <= Len(o.calls)
      <4>1. \A m, n \in 1..2 : m < n => m + 1 \in 1..2 /\ m + 1 <= n
        OBVIOUS
      <4> QED BY <1>3, <2>1, <4>1, Zenon
    <3>0. op' = [op EXCEPT !.call = @ + 1]
      BY <1>1, <2>1
    <3>2. op' \in UnderWay /\ op'.name = op.name /\ op'.stage = "calls" /\ op'.call = op.call + 1
      BY <1>0, <1>3, <3>0, <3>1 DEF UnderWay
    <3> QED BY <3>1, <3>2, TypedIsWork DEF OpTyped, o
  <2>2. CASE op.call >= Len(o.calls)
    <3>1. op' = [op EXCEPT !.stage = "land"] /\ op.call = Len(o.calls)
      BY <1>1, <1>3, <2>2
    <3>2. op' \in UnderWay /\ op'.name = op.name /\ op'.stage = "land" /\ op'.call = op.call
      BY <1>3, <3>1 DEF UnderWay
    <3> QED BY <1>3, <3>1, <3>2, TypedIsWork DEF OpTyped, o
  <2> QED BY <1>3, <2>1, <2>2
<1>5. /\ machine \subseteq Facts /\ Fresh
      /\ flying \in Flights /\ shown \in [Loads -> Seen] /\ ok \in Flags
  BY DEF WindowOK, Placed, Loading
<1>6. /\ flying' \in Flights /\ shown' \in [Loads -> Seen]
      /\ \A l \in Loads : flying'[l] # <<>> => flying[l] # <<>>
      /\ \A l \in Loads : Stale(l)' => Stale(l) \/ (Reads[l] \cap o.calls[op.call] # {} /\ l \notin o.misses)
  BY <1>1, <1>5, WriteAges
<1>7. ASSUME NEW l \in Loads, Stale(l)' PROVE Owed(l)'
  <2>1. Reach(o, op.call, l)
    <3>1. CASE Stale(l)
      <4>1. Reach(o, op.call - 1, l)
        BY <1>0, <1>3, <1>5, <3>1 DEF Fresh, Owed, o
      <4> QED BY <1>3, <4>1 DEF Reach
    <3>2. CASE ~Stale(l)
      <4>1. l \notin o.misses /\ Reads[l] \cap o.calls[op.call] # {}
        BY <1>6, <1>7, <3>2
      <4> QED BY <1>3, <4>1 DEF Reach
    <3> QED BY <3>1, <3>2
  <2>2. CASE op'.stage = "calls" /\ op'.call = op.call + 1
    <3>1. op'.call - 1 = op.call
      BY <1>3, <2>2
    <3> QED BY <1>4, <2>1, <2>2, <3>1 DEF Owed, o
  <2>3. CASE op'.stage = "land" /\ op.call = Len(o.calls)
    BY <1>4, <2>1, <2>3 DEF Owed, o
  <2> QED BY <1>4, <2>2, <2>3
<1>8. Fresh'
  BY <1>1, <1>5, <1>6, <1>7, CompatIsALoad DEF Fresh
<1>9. Placed' /\ AtWork'
  BY <1>1, <1>2, <1>3, <1>4 DEF WindowOK, Placed, AtWork, OpTyped
<1> QED BY <1>1, <1>5, <1>6, <1>8, <1>9 DEF WindowOK, Loading

(* The call fails, and nothing is read again for the calls before it.      *)
LEMMA CoreFailsOK == ASSUME WindowOK, CoreFails PROVE WindowOK'
<1> DEFINE o == Operations[op.name]
           done == Hit(UNION {o.calls[i] : i \in 1..(op.call - 1)})
<1>0. op # Nothing /\ op.stage = "calls" /\ OpTyped(op)
  BY DEF CoreFails, WindowOK, AtWork
<1>1. /\ flying' = Slack(flying, done) /\ shown' = SlackShown(done)
      /\ op' = [op EXCEPT !.stage = "end"]
      /\ left.fails > 0 /\ left' = [left EXCEPT !.fails = @ - 1]
      /\ UNCHANGED <<sitting, machine, facts, section, ok, run, steps>>
  BY DEF CoreFails, Doing
<1>2. \A l \in Loads : Reach(o, op.call - 1, l) => l \in done
  BY DEF Reach, Hit
<1> HIDE DEF done
<1>3. op \in UnderWay /\ ~run.running
  BY <1>0 DEF OpTyped, WindowOK, AtWork
<1>4. OpTyped(op')
  BY <1>0, <1>1, <1>3 DEF OpTyped, UnderWay
<1>5. /\ flying \in Flights /\ shown \in [Loads -> Seen] /\ ok \in Flags /\ Fresh
  BY DEF WindowOK, Loading
<1>6. /\ flying' \in Flights
      /\ \A l \in Loads : (flying'[l] # <<>>) = (flying[l] # <<>>)
      /\ \A l \in Loads : flying'[l] # <<>> /\ l \in done => flying'[l][Len(flying'[l])].age # "crossed"
      /\ \A l \in Loads : l \notin done => flying'[l] = flying[l]
  BY <1>1, <1>5, Slackens
<1>7. /\ shown' \in [Loads -> Seen]
      /\ \A l \in Loads : l \in done => shown'[l] # "old"
      /\ \A l \in Loads : l \notin done => shown'[l] = shown[l]
  BY <1>1, <1>5, SlackensShown
<1>8. ASSUME NEW l \in Loads, Stale(l)' PROVE FALSE
  <2>1. l \notin done
    BY <1>6, <1>7, <1>8 DEF Stale, StaleIn
  <2>2. Stale(l)
    BY <1>1, <1>6, <1>7, <1>8, <2>1 DEF Stale, StaleIn
  <2> QED BY <1>0, <1>2, <1>3, <1>5, <2>1, <2>2 DEF Fresh, Owed, o
<1>9. Fresh'
  BY <1>1, <1>5, <1>6, <1>8, CompatIsALoad DEF Fresh
<1>10. Placed' /\ AtWork'
  BY <1>1, <1>3, <1>4, Spends DEF WindowOK, Placed, AtWork, OpTyped
<1> QED BY <1>1, <1>5, <1>6, <1>7, <1>9, <1>10 DEF WindowOK, Loading

(* Its last callback answers what it owes.                                 *)
LEMMA OwedAtLanding ==
  ASSUME WindowOK, Landed
  PROVE  /\ Shape(Operations[op.name]) /\ OpTyped(op) /\ ~run.running
         /\ \A l \in Loads : Stale(l) =>
              /\ Reach(Operations[op.name], Len(Operations[op.name].calls), l)
              /\ Answered(Operations[op.name], l)
<1>1. OpTyped(op) /\ ~run.running /\ op.stage = "land" /\ Fresh
  BY DEF Landed, WindowOK, AtWork
<1>2. Shape(Operations[op.name])
  BY <1>1, EveryOperation DEF OpTyped, UnderWay
<1>3. \A l \in Loads : Stale(l) => Reach(Operations[op.name], Len(Operations[op.name].calls), l)
  BY <1>1 DEF Fresh, Owed
<1> QED BY <1>1, <1>2, <1>3 DEF Shape

LEMMA EndTyped ==
  ASSUME OpTyped(op), op' = [op EXCEPT !.stage = "end"]
  PROVE  OpTyped(op)' /\ op'.stage = "end"
BY DEF OpTyped, UnderWay

LEMMA AfterOpFresh ==
  ASSUME WindowOK, Landed, AfterOp(op.name), UNCHANGED machine
  PROVE  ok' \in Flags /\ flying' \in Flights /\ shown' \in [Loads -> Seen] /\ Fresh'
<1> DEFINE o == Operations[op.name]
<1>1. /\ Shape(o)
      /\ \A l \in Loads : Stale(l) => Reach(o, Len(o.calls), l) /\ Answered(o, l)
  BY OwedAtLanding
<1>2. /\ flying \in Flights /\ shown \in [Loads -> Seen] /\ ok \in Flags /\ Fresh
  BY DEF WindowOK, Loading
<1>3. "compat" \notin o.clears /\ o.ends \in {"invalidate", "rebuild", "flash", "patch", "check"}
  BY <1>1 DEF Shape
<1> DEFINE flags == Clear(ok, o.clears)
<1>4. /\ flags \in Flags
      /\ \A l \in Loads : flags[l] <=> ok[l] /\ l \notin o.clears
  BY <1>2, ClearsFlags
<1>5. CASE o.ends = "invalidate"
  <2>1. OnInvalidate(flags) /\ UNCHANGED shown
    BY <1>5 DEF AfterOp, Doing
  <2>2. ~Stale("compat")
    BY <1>1, <1>3, <1>5, CompatIsALoad DEF Answered
  <2> QED BY <1>3, <2>1, <2>2, OnInvalidateFresh
<1>6. CASE o.ends = "rebuild"
  <2>1. Redraw(flags, flying) /\ UNCHANGED shown
    BY <1>6 DEF AfterOp, Doing
  <2>2. PICK wanted : StartLoads(wanted, flags, flying)
    BY <2>1 DEF Redraw
  <2>3. \A l \in Loads : Stale(l) /\ l \notin o.clears => Owed(l)'
    BY <1>1, <1>6 DEF Answered
  <2> QED BY <1>3, <2>1, <2>2, <2>3, RedrawnFresh
<1>7. CASE o.ends = "flash"
  <2>1. ok' = flags /\ UNCHANGED <<flying, shown>>
    BY <1>7 DEF AfterOp, Doing
  <2>2. \A l \in Loads : Stale(l) => l \in o.clears
    BY <1>1, <1>7 DEF Answered
  <2> HIDE DEF flags, o
  <2>3. \A l \in Loads : ~Stale(l)'
    BY <1>4, <2>1, <2>2 DEF Stale, StaleIn
  <2> QED BY <1>2, <1>3, <1>4, <2>1, <2>3, CompatIsALoad DEF Fresh
<1>8. CASE o.ends = "patch"
  <2>1. /\ ok' = flags
        /\ shown' = [shown EXCEPT !["tweaks"] = IF @ = "old" THEN "current" ELSE @]
        /\ flying' = Slack(flying, {"tweaks"})
    BY <1>8 DEF AfterOp, Doing
  <2>2. \A l \in Loads : Stale(l) => l \in o.clears \/ l = "tweaks"
    BY <1>1, <1>8 DEF Answered
  <2> HIDE DEF flags, o
  <2>3. /\ flying' \in Flights
        /\ \A l \in Loads : (flying'[l] # <<>>) = (flying[l] # <<>>)
        /\ flying'["tweaks"] # <<>> => flying'["tweaks"][Len(flying'["tweaks"])].age # "crossed"
        /\ \A l \in Loads : l # "tweaks" => flying'[l] = flying[l]
    BY <1>2, <2>1, Slackens, CompatIsALoad
  <2>4. /\ shown' \in [Loads -> Seen] /\ shown'["tweaks"] # "old"
        /\ \A l \in Loads : l # "tweaks" => shown'[l] = shown[l]
    BY <1>2, <2>1, CompatIsALoad DEF Seen
  <2>5. \A l \in Loads : ~Stale(l)'
    BY <1>4, <2>1, <2>2, <2>3, <2>4 DEF Stale, StaleIn
  <2> QED BY <1>2, <1>3, <1>4, <2>1, <2>3, <2>4, <2>5, CompatIsALoad DEF Fresh
<1>9. CASE o.ends = "check"
  <2> DEFINE asked == [Clear(flags, {"status"}) EXCEPT !["compat"] = TRUE]
  <2>1. /\ shown' = [shown EXCEPT !["compat"] = "current"]
        /\ StartLoads({"status"}, asked, flying)
    BY <1>9 DEF AfterOp, Doing
  <2>2. \A l \in Loads : Stale(l) => l \in o.clears
    BY <1>1, <1>9 DEF Answered
  <2> HIDE DEF flags, o
  <2>3. /\ Clear(flags, {"status"}) \in Flags
        /\ \A l \in Loads : Clear(flags, {"status"})[l] <=> flags[l] /\ l # "status"
    BY <1>4, ClearsFlags
  <2>4. asked \in Flags /\ asked["compat"]
        /\ \A l \in Loads : l # "compat" => (asked[l] <=> flags[l] /\ l # "status")
    BY <2>3, CompatIsALoad DEF Flags
  <2> HIDE DEF asked
  <2>5. /\ shown' \in [Loads -> Seen] /\ shown'["compat"] # "old"
        /\ \A l \in Loads : l # "compat" => shown'[l] = shown[l]
    BY <1>2, <2>1, CompatIsALoad DEF Seen
  <2>6. ~Stale("compat")
    BY <1>3, <2>2, CompatIsALoad
  <2>7. ASSUME NEW l \in Loads, StaleIn(asked, flying, shown', l) PROVE FALSE
    <3>1. CASE l = "compat"
      BY <1>2, <2>5, <2>6, <2>7, <3>1 DEF Stale, StaleIn, Fresh
    <3>2. CASE l # "compat"
      <4>1. flags[l] /\ shown'[l] = shown[l]
        BY <2>4, <2>5, <2>7, <3>2 DEF StaleIn
      <4>2. Stale(l) /\ l \notin o.clears
        BY <1>4, <2>7, <4>1 DEF Stale, StaleIn
      <4> QED BY <2>2, <4>2
    <3> QED BY <3>1, <3>2
  <2> QED BY <1>2, <2>1, <2>4, <2>5, <2>7, DrawnFresh
<1> QED BY <1>3, <1>5, <1>6, <1>7, <1>8, <1>9

LEMMA LandOpOK == ASSUME WindowOK, LandOp PROVE WindowOK'
<1>1. /\ Landed /\ op' = [op EXCEPT !.stage = "end"] /\ AfterOp(op.name)
      /\ UNCHANGED <<sitting, machine, facts, section, run, steps, left>>
  BY DEF LandOp
<1>2. OpTyped(op)' /\ ~run.running
  BY <1>1, OwedAtLanding, EndTyped
<1>3. Placed' /\ AtWork'
  BY <1>1, <1>2 DEF WindowOK, Placed, AtWork
<1> QED BY <1>1, <1>3, AfterOpFresh DEF WindowOK, Loading

(* A write to a save that changed nothing draws the section again instead. *)
LEMMA LandNothingOK ==
  ASSUME WindowOK, Landed, Doing(op.name).ends = "flash", op' = [op EXCEPT !.stage = "end"],
         UNCHANGED <<sitting, machine, facts, section, shown, run, steps, left>>,
         Redraw(Clear(ok, Doing(op.name).clears), flying)
  PROVE  WindowOK'
<1> DEFINE o == Operations[op.name]
<1>1. /\ Shape(o) /\ OpTyped(op) /\ ~run.running
      /\ \A l \in Loads : Stale(l) => Answered(o, l)
  BY OwedAtLanding
<1>2. OpTyped(op)'
  BY <1>1, EndTyped
<1>3. Placed' /\ AtWork'
  BY <1>1, <1>2 DEF WindowOK, Placed, AtWork
<1>4. PICK wanted : StartLoads(wanted, Clear(ok, o.clears), flying)
  BY DEF Redraw, Doing
<1>5. \A l \in Loads : Stale(l) /\ l \notin o.clears => Owed(l)'
  BY <1>1 DEF Answered, Doing
<1>6. "compat" \notin o.clears
  BY <1>1 DEF Shape
<1>7. ok' \in Flags /\ flying' \in Flights /\ shown' \in [Loads -> Seen] /\ Fresh'
  BY <1>4, <1>5, <1>6, RedrawnFresh
<1> QED BY <1>3, <1>7 DEF WindowOK, Loading

(* What a step may start next.                                             *)
NextOp(next) == next = Nothing \/ OpTyped(next)

LEMMA EndOpOK == ASSUME WindowOK, NEW next, NextOp(next), EndOp(next) PROVE WindowOK'
<1>1. /\ op # Nothing /\ op.stage = "end" /\ op' = next /\ Redraw(ok, flying)
      /\ UNCHANGED <<sitting, machine, facts, section, shown, run, steps, left>>
  BY DEF EndOp
<1>2. ~run.running /\ Fresh
  BY <1>1 DEF WindowOK, AtWork
<1>3. \A l \in Loads : ~Stale(l)
  BY <1>1, <1>2 DEF Fresh, Owed
<1>4. Placed' /\ AtWork'
  BY <1>1, <1>2 DEF WindowOK, Placed, AtWork, NextOp, OpTyped
<1>5. ok' \in Flags /\ flying' \in Flights /\ shown' \in [Loads -> Seen] /\ Fresh'
  BY <1>1, <1>3, RedrawFresh
<1> QED BY <1>4, <1>5 DEF WindowOK, Loading

(* The user moves on, with nothing at work or beside it.                   *)
LEMMA NavigateOK ==
  ASSUME WindowOK, NEW next, NextOp(next), NEW to \in Sections, Navigate(to, next)
  PROVE  WindowOK'
<1>1. /\ left.visits > 0 /\ left' = [left EXCEPT !.visits = @ - 1]
      /\ section' = to /\ op' = (IF Idle THEN next ELSE op) /\ Redraw(ok, flying)
      /\ UNCHANGED <<sitting, machine, facts, shown, run, steps>>
  BY DEF Navigate, Visit
<1>2. Placed'
  BY <1>1, Spends DEF WindowOK, Placed
<1>3. AtWork'
  <2>1. CASE Idle
    BY <1>1, <2>1 DEF Idle, Working, NextOp, AtWork, OpTyped
  <2>2. CASE ~Idle
    BY <1>1, <2>2 DEF WindowOK, AtWork, OpTyped
  <2> QED BY <2>1, <2>2
<1>4. ASSUME NEW l \in Loads, Stale(l) PROVE Owed(l)'
  <2>1. ~Idle /\ Owed(l)
    BY <1>4, IdleFresh DEF WindowOK, Fresh
  <2>2. UNCHANGED <<op, run>>
    BY <1>1, <2>1
  <2> QED BY <2>1, <2>2 DEF Owed, Reach
<1>5. ok' \in Flags /\ flying' \in Flights /\ shown' \in [Loads -> Seen] /\ Fresh'
  BY <1>1, <1>4, RedrawFresh
<1> QED BY <1>2, <1>3, <1>5 DEF WindowOK, Loading

LEMMA OwedStays ==
  ASSUME UNCHANGED <<op, run>>, WindowOK
  PROVE  /\ \A l \in Loads : Stale(l) => Owed(l)'
         /\ AtWork'
BY DEF Owed, Reach, WindowOK, Fresh, AtWork, OpTyped

LEMMA RefreshOK == ASSUME WindowOK, Refresh PROVE WindowOK'
<1>1. /\ left.refreshes > 0 /\ left' = [left EXCEPT !.refreshes = @ - 1]
      /\ UNCHANGED <<sitting, machine, facts, section, shown, op, run, steps>>
      /\ OnInvalidate(Clear(ok, {}))
  BY ClearNothing DEF Refresh, WindowOK, Loading
<1>2. Placed' /\ AtWork'
  BY <1>1, Spends, OwedStays DEF WindowOK, Placed
<1>3. ok' \in Flags /\ flying' \in Flights /\ shown' \in [Loads -> Seen] /\ Fresh'
  BY <1>1, OwedStays, CompatIsALoad, OnInvalidateFresh
<1> QED BY <1>2, <1>3 DEF WindowOK, Loading

LEMMA MeasureOK == ASSUME WindowOK, Measure PROVE WindowOK'
<1>1. /\ left.visits > 0 /\ left' = [left EXCEPT !.visits = @ - 1]
      /\ UNCHANGED <<sitting, machine, facts, section, shown, op, run, steps>>
      /\ ok' = [ok EXCEPT !["cache"] = TRUE]
      /\ flying' = [flying EXCEPT !["cache"] = Append(@, Clean)]
  BY DEF Measure, Visit
<1>2. Placed' /\ AtWork' /\ \A l \in Loads : Stale(l) => Owed(l)'
  BY <1>1, Spends, OwedStays DEF WindowOK, Placed
<1>3. /\ flying \in Flights /\ shown \in [Loads -> Seen] /\ ok \in Flags /\ Fresh
      /\ flying["cache"] \in Seq(Flight)
  BY CompatIsALoad DEF WindowOK, Loading, Flights
<1>4. /\ Append(flying["cache"], Clean) \in Seq(Flight)
      /\ Append(flying["cache"], Clean)[Len(Append(flying["cache"], Clean))].age # "crossed"
      /\ Append(flying["cache"], Clean) # <<>>
  BY <1>3, CleanFlight
<1>5. /\ flying' \in Flights /\ flying'["cache"] = Append(flying["cache"], Clean)
      /\ \A l \in Loads : l # "cache" => flying'[l] = flying[l]
  BY <1>1, <1>3, <1>4, CompatIsALoad DEF Flights
<1>6. ok' \in Flags /\ \A l \in Loads : l # "cache" => ok'[l] = ok[l]
  BY <1>1, <1>3 DEF Flags
<1>7. ASSUME NEW l \in Loads, Stale(l)' PROVE Stale(l)
  <2>1. l # "cache"
    BY <1>4, <1>5, <1>7 DEF Stale, StaleIn
  <2> QED BY <1>1, <1>5, <1>6, <1>7, <2>1 DEF Stale, StaleIn
<1>8. Fresh'
  BY <1>2, <1>3, <1>5, <1>6, <1>7, CompatIsALoad DEF Fresh
<1> QED BY <1>1, <1>2, <1>3, <1>5, <1>6, <1>8 DEF WindowOK, Loading

LEMMA StartBuildOK == ASSUME WindowOK, StartBuild PROVE WindowOK'
<1>1. /\ Idle /\ section' = "Build" /\ left.ops > 0 /\ left' = [left EXCEPT !.ops = @ - 1]
      /\ UNCHANGED <<sitting, machine, facts, shown, op>> /\ Redraw(ok, flying)
  BY DEF StartBuild
<1>2. "Build" \in Sections
  BY DEF Sections, Buttons
<1>3. Placed' /\ AtWork'
  BY <1>1, <1>2, Spends DEF WindowOK, Placed, AtWork, Idle, Working
<1>4. \A l \in Loads : ~Stale(l)
  BY <1>1, IdleFresh DEF WindowOK
<1>5. ok' \in Flags /\ flying' \in Flights /\ shown' \in [Loads -> Seen] /\ Fresh'
  BY <1>1, <1>4, RedrawFresh
<1> QED BY <1>3, <1>5 DEF WindowOK, Loading

(* Steps that leave the window's loads, flags and operation alone.         *)
LEMMA AsideOK ==
  ASSUME WindowOK, UNCHANGED <<sitting, machine, facts, section, ok, flying, shown, op>>,
         left' \in Budget, run'.running = run.running, run'.core = run.core
  PROVE  WindowOK'
<1>1. Placed' /\ AtWork' /\ Loading'
  BY DEF WindowOK, Placed, AtWork, Loading, OpTyped
<1>2. \A l \in Loads : (Stale(l)' <=> Stale(l)) /\ (Owed(l) => Owed(l)')
  BY DEF Stale, StaleIn, Owed, Reach
<1>3. Fresh'
  BY <1>2 DEF WindowOK, Fresh
<1> QED BY <1>1, <1>3 DEF WindowOK

LEMMA BuildEventsOK == ASSUME WindowOK, BuildEvents PROVE WindowOK'
BY AsideOK DEF BuildEvents, WindowOK, Placed

LEMMA CancelBuildOK == ASSUME WindowOK, run \in Runs, CancelBuild PROVE WindowOK'
<1>1. run'.running = run.running /\ run'.core = run.core
  BY DEF CancelBuild, Runs
<1> QED BY <1>1, AsideOK DEF CancelBuild, WindowOK, Placed

(* The core's build writes beside the window, and what it writes its end   *)
(* will answer.                                                            *)
LEMMA BuildWritesOK ==
  ASSUME WindowOK, run \in Runs, run.running, run.core = "going",
         NEW W, NEW how \in {"built", "stopped"}, Write(W, BuildMisses),
         run' = [run EXCEPT !.core = how], UNCHANGED <<sitting, facts, section, ok, op>>,
         machine' \subseteq Facts, left' \in Budget,
         \A l \in Loads : Reads[l] \cap W # {} =>
           l \in BuildMisses \/ l = "status" \/ (how = "built" /\ l = "report")
  PROVE  WindowOK'
<1>1. /\ flying \in Flights /\ shown \in [Loads -> Seen] /\ ok \in Flags /\ Fresh
      /\ machine \subseteq Facts /\ op = Nothing
  BY DEF WindowOK, Loading, Placed, AtWork
<1>2. run'.running /\ run'.core = how
  BY DEF Runs
<1>3. \A l \in Loads : ~Stale(l)
  BY <1>1 DEF Fresh, Owed
<1>4. /\ flying' \in Flights /\ shown' \in [Loads -> Seen]
      /\ \A l \in Loads : flying'[l] # <<>> => flying[l] # <<>>
      /\ \A l \in Loads : Stale(l)' => Stale(l) \/ (Reads[l] \cap W # {} /\ l \notin BuildMisses)
  BY <1>1, WriteAges
<1>5. \A l \in Loads : Stale(l)' => Owed(l)'
  BY <1>2, <1>3, <1>4 DEF Owed
<1>6. Fresh'
  BY <1>1, <1>4, <1>5, CompatIsALoad DEF Fresh
<1>7. Placed' /\ AtWork'
  BY <1>1 DEF WindowOK, Placed, AtWork
<1> QED BY <1>1, <1>4, <1>6, <1>7 DEF WindowOK, Loading

LEMMA CoreBuildsOK == ASSUME WindowOK, run \in Runs, CoreBuilds PROVE WindowOK'
<1> DEFINE W == {"cache", "index", "report"}
<1>1. /\ run.running /\ run.core = "going" /\ Write(W, BuildMisses)
      /\ run' = [run EXCEPT !.core = "built"] /\ UNCHANGED <<sitting, facts, section, ok, op, left>>
      /\ machine' \subseteq Facts
  BY DEF CoreBuilds, Becomes
<1>2. \A l \in Loads : Reads[l] \cap W # {} => l \in BuildMisses \/ l \in {"status", "report"}
  BY Readers DEF BuildMisses
<1>3. left' \in Budget
  BY <1>1 DEF WindowOK, Placed
<1> HIDE DEF W
<1> QED BY <1>1, <1>2, <1>3, BuildWritesOK

LEMMA CoreStopsOK == ASSUME WindowOK, run \in Runs, CoreStops PROVE WindowOK'
<1> DEFINE W == {"cache", "index"}
<1>1. /\ run.running /\ run.core = "going" /\ Write(W, BuildMisses)
      /\ run' = [run EXCEPT !.core = "stopped"] /\ UNCHANGED <<sitting, machine, facts, section, ok, op>>
  BY DEF CoreStops
<1>2. \A l \in Loads : Reads[l] \cap W # {} => l \in BuildMisses \/ l = "status"
  BY Readers DEF BuildMisses
<1>3. left' \in Budget /\ machine' \subseteq Facts
  BY <1>1, Spends DEF CoreStops, WindowOK, Placed
<1> HIDE DEF W
<1> QED BY <1>1, <1>2, <1>3, BuildWritesOK

(* finishBuild reads again what the build wrote, or gives it up.           *)
LEMMA FinishBuildOK ==
  ASSUME WindowOK, run \in Runs, NEW next, NextOp(next), FinishBuild(next)
  PROVE  WindowOK'
<1> DEFINE good == run.core = "built" /\ ~run.cancelled
           gone == {"status"} \cup (IF good THEN {"report"} ELSE {})
           missed == IF good THEN {} ELSE Hit({"report"})
           wanted == {"status"} \cup Arrivals(section, facts)
<1>1. /\ run.running /\ run.core \in {"built", "stopped"}
      /\ run' = [run EXCEPT !.running = FALSE, !.finished = TRUE, !.core = "none"]
      /\ op' = next /\ UNCHANGED <<sitting, machine, facts, section, left>>
      /\ shown' = SlackShown(missed)
      /\ StartLoads(wanted, Clear(ok, gone), Slack(flying, missed))
  BY DEF FinishBuild
<1>2. "compat" \notin gone /\ "status" \in gone /\ "report" \in gone \cup missed
  BY Loaders DEF Hit, Reads, LoadReport
<1> HIDE DEF gone, missed, wanted
<1>3. /\ flying \in Flights /\ shown \in [Loads -> Seen] /\ ok \in Flags /\ Fresh /\ op = Nothing
  BY <1>1 DEF WindowOK, Loading, AtWork
<1>4. ~run'.running
  BY <1>1 DEF Runs
<1>5. Placed' /\ AtWork'
  BY <1>1, <1>4 DEF WindowOK, Placed, AtWork, NextOp, OpTyped
<1>6. \A l \in Loads : Stale(l) => l \in gone \cup missed
  BY <1>1, <1>2, <1>3 DEF Fresh, Owed
<1> DEFINE flags == Clear(ok, gone)
           loads == Slack(flying, missed)
<1>7. /\ flags \in Flags
      /\ \A l \in Loads : flags[l] <=> ok[l] /\ l \notin gone
  BY <1>3, ClearsFlags
<1>8. /\ loads \in Flights
      /\ \A l \in Loads : (loads[l] # <<>>) = (flying[l] # <<>>)
      /\ \A l \in Loads : loads[l] # <<>> /\ l \in missed => loads[l][Len(loads[l])].age # "crossed"
      /\ \A l \in Loads : l \notin missed => loads[l] = flying[l]
  BY <1>3, Slackens
<1>9. /\ shown' \in [Loads -> Seen]
      /\ \A l \in Loads : l \in missed => shown'[l] # "old"
      /\ \A l \in Loads : l \notin missed => shown'[l] = shown[l]
  BY <1>1, <1>3, SlackensShown
<1>10. StartLoads(wanted, flags, loads)
  BY <1>1
<1> HIDE DEF flags, loads
<1>11. ASSUME NEW l \in Loads, StaleIn(flags, loads, shown', l) PROVE FALSE
  <2>1. l \notin missed /\ l \notin gone
    BY <1>7, <1>8, <1>9, <1>11 DEF StaleIn
  <2>2. Stale(l)
    BY <1>7, <1>8, <1>9, <1>11, <2>1 DEF Stale, StaleIn
  <2> QED BY <1>6, <2>1, <2>2
<1>12. loads["compat"] # <<>> => flags["compat"]
  BY <1>2, <1>3, <1>7, <1>8, CompatIsALoad DEF Fresh
<1>13. ok' \in Flags /\ flying' \in Flights /\ Fresh'
  BY <1>7, <1>8, <1>10, <1>11, <1>12, DrawnFresh
<1> QED BY <1>5, <1>9, <1>13 DEF WindowOK, Loading

(***************************************************************************)
(* The whole window.                                                       *)
(***************************************************************************)

(* A step at the form that lays the section out again.                     *)
LEMMA RedrawOK ==
  ASSUME WindowOK, left' \in Budget, NEW gone, "compat" \notin gone,
         UNCHANGED <<sitting, machine, facts, section, shown, op, run, steps>>,
         Redraw(Clear(ok, gone), flying)
  PROVE  WindowOK'
<1>1. PICK wanted : StartLoads(wanted, Clear(ok, gone), flying)
  BY DEF Redraw
<1>2. \A l \in Loads : Stale(l) /\ l \notin gone => Owed(l)'
  BY OwedStays
<1>3. ok' \in Flags /\ flying' \in Flights /\ shown' \in [Loads -> Seen] /\ Fresh'
  BY <1>1, <1>2, RedrawnFresh
<1>4. Placed' /\ AtWork'
  BY OwedStays DEF WindowOK, Placed
<1> QED BY <1>3, <1>4 DEF WindowOK, Loading

LEMMA RedrawsWindow == ASSUME WindowOK, Redraws PROVE WindowOK'
<1>1. SaveOps \subseteq OpNames
  BY SaveOperations
<1> QED BY LandOK, PressOK, LandOpOK, RefreshOK, StartBuildOK DEF Redraws

LEMMA StaysWindow == ASSUME WindowOK, run \in Runs, Stays PROVE WindowOK'
BY LoadFailsOK, CoreOK, CoreFailsOK, LandOpOK, MeasureOK, BuildEventsOK, CoreBuildsOK,
   CoreStopsOK, CancelBuildOK DEF Stays

LEMMA NextIsOp == \A where : NextOp(BuildSavesNext(where))
BY SaveOperations, PerformingTyped DEF NextOp, BuildSavesNext

LEMMA ReturnsWindow == ASSUME WindowOK, run \in Runs, Returns PROVE WindowOK'
BY NextIsOp, EndOpOK, FinishBuildOK, NavigateOK DEF Returns

LEMMA SaveRequestWindow == ASSUME WindowOK, SaveRequest PROVE WindowOK'
<1>1. PICK name \in OpNames : Press(name)
  BY DEF SaveRequest, SelectSlot, EditRequest, NodeRequest, LoadRawNode, ExportDialog, ImportDialog,
         Asks, OpNames, Operations
<1> QED BY <1>1, PressOK

LEMMA CoreSavesWindow == ASSUME WindowOK, CoreSaves PROVE WindowOK'
<1>1. CASE Core
  BY <1>1, CoreOK
<1>2. CASE ~Core
  <2>1. /\ op # Nothing /\ op.stage = "calls" /\ op' = [op EXCEPT !.stage = "land"]
        /\ UNCHANGED <<sitting, machine, facts, section, ok, flying, shown, run, steps, left>>
    BY <1>2 DEF CoreSaves
  <2>2. /\ OpTyped(op) /\ op \in UnderWay /\ ~run.running /\ op.call \in 1..2
        /\ op.call <= Len(Operations[op.name].calls) /\ Len(Operations[op.name].calls) \in 1..2
    BY <2>1, EveryOperation DEF WindowOK, AtWork, OpTyped, UnderWay, Shape
  <2>3. OpTyped(op') /\ op' # Nothing /\ op'.name = op.name /\ op'.stage = "land"
    <3>1. op' \in UnderWay /\ op'.name = op.name /\ op'.call = op.call /\ op'.stage = "land"
      BY <2>1, <2>2 DEF UnderWay
    <3>2. OpTyped(op')
      BY <2>2, <3>1 DEF OpTyped
    <3> QED BY <3>1, <3>2, TypedIsWork
  <2>4. Placed' /\ AtWork' /\ Loading'
    BY <2>1, <2>2, <2>3 DEF WindowOK, Placed, AtWork, Loading, OpTyped
  <2>5. ASSUME NEW l \in Loads, Stale(l)' PROVE Owed(l)'
    <3>1. Stale(l)
      BY <2>1, <2>5 DEF Stale, StaleIn
    <3>2. Reach(Operations[op.name], op.call - 1, l)
      BY <2>1, <2>2, <3>1 DEF WindowOK, Fresh, Owed
    <3>3. Reach(Operations[op.name], Len(Operations[op.name].calls), l)
      BY <2>2, <3>2 DEF Reach
    <3> QED BY <2>3, <3>3 DEF Owed
  <2>6. Fresh'
    BY <2>1, <2>5 DEF WindowOK, Fresh
  <2> QED BY <2>4, <2>6 DEF WindowOK
<1> QED BY <1>1, <1>2

LEMMA LandWriteWindow == ASSUME WindowOK, LandWrite PROVE WindowOK'
<1>1. CASE LandOp
  BY <1>1, LandOpOK
<1>2. CASE ~LandOp
  <2>1. /\ Landed /\ op.name \in SaveWrites /\ op' = [op EXCEPT !.stage = "end"]
        /\ UNCHANGED <<sitting, machine, facts, section, shown, run, steps, left>>
        /\ Redraw(Clear(ok, Doing(op.name).clears), flying)
    BY <1>2 DEF LandWrite
  <2>2. Doing(op.name) = Wrote /\ Wrote.ends = "flash"
    <3>1. \A name \in SaveWrites : Operations[name] = Wrote
      BY DEF SaveWrites, Operations
    <3>2. Wrote.ends = "flash"
      BY DEF Wrote, Op
    <3> QED BY <2>1, <3>1, <3>2 DEF Doing
  <2> QED BY <2>1, <2>2, LandNothingOK
<1> QED BY <1>1, <1>2

LEMMA TextsWindow ==
  ASSUME WindowOK, Typing, Elsewhere
  PROVE  WindowOK'
BY AsideOK, Spends DEF Typing, Elsewhere, WindowOK, Placed

LEMMA PickShipWindow == ASSUME WindowOK, NEW s \in Ships, PickShip(s) PROVE WindowOK'
<1>1. /\ UNCHANGED <<sitting, machine, facts, section, shown, op, run, steps>>
      /\ Redraw(Clear(ok, {}), flying) /\ left' \in Budget
  BY ClearNothing, Spends DEF PickShip, Typing, WindowOK, Placed, Loading
<1> QED BY <1>1, RedrawOK

LEMMA SlotsCardWindow == ASSUME WindowOK, SlotsCard PROVE WindowOK'
<1>1. /\ UNCHANGED <<sitting, machine, facts, section, shown, op, run, steps>>
      /\ Redraw(Clear(ok, {"slots"}), flying) /\ left' \in Budget
  BY Spends DEF SlotsCard, Visit, WindowOK, Placed
<1> QED BY <1>1, RedrawOK

LEMMA InitWindow == Init => WindowOK
<1> SUFFICES ASSUME Init PROVE WindowOK
  OBVIOUS
<1>1. /\ sitting \in Sittings /\ machine = sitting.there /\ facts = {}
      /\ section = sitting.places[1] /\ left = sitting.budget /\ op = Nothing
      /\ shown = [l \in Loads |-> "nothing"]
  BY DEF Init, OnStart
<1>2. Placed /\ AtWork
  BY <1>1, SittingsAssumption DEF Placed, AtWork
<1> DEFINE started == {"status", "mods"} \cup Arrivals(section, {})
<1>3. /\ ok = [l \in Loads |-> l \in started]
      /\ flying = [l \in Loads |-> IF l \in started THEN <<Clean>> ELSE <<>>]
  BY DEF Init, OnStart
<1> HIDE DEF started
<1>4. <<Clean>> \in Seq(Flight) /\ <<Clean>> # <<>> /\ Len(<<Clean>>) = 1 /\ <<Clean>>[1].age = "clean"
  BY CleanFlight
<1>5. Loading
  BY <1>1, <1>3, <1>4 DEF Loading, Flags, Flights, Seen
<1>6. ASSUME NEW l \in Loads PROVE ~Stale(l) /\ (flying[l] # <<>> => ok[l])
  BY <1>1, <1>3, <1>4 DEF Stale, StaleIn
<1>7. Fresh
  BY <1>6, CompatIsALoad DEF Fresh
<1> QED BY <1>2, <1>5, <1>7 DEF WindowOK

LEMMA NextWindow == ASSUME WindowOK, run \in Runs, [Next]_vars PROVE WindowOK'
<1>1. CASE UNCHANGED vars
  BY <1>1, AsideOK DEF vars, winVars, WindowOK, Placed
<1>2. CASE LandInspect \/ LandNode
  BY <1>2, LandOpOK DEF LandInspect, LandNode
<1>3. ASSUME NEW f \in Fields, NEW v \in Values, TypeField(f, v) \/ PickType(f, v)
      PROVE  WindowOK'
  BY <1>3, TextsWindow DEF TypeField, PickType
<1>4. ASSUME NEW v \in Values, RawEditor(v) PROVE WindowOK'
  BY <1>4, TextsWindow DEF RawEditor
<1> QED BY <1>1, <1>2, <1>3, <1>4, RedrawsWindow, StaysWindow, ReturnsWindow, SaveRequestWindow,
           CoreSavesWindow, LandWriteWindow, PickShipWindow, SlotsCardWindow DEF Next

LEMMA WindowInductive ==
  /\ Init => StepsOK /\ WindowOK
  /\ StepsOK /\ WindowOK /\ [Next]_vars => (StepsOK /\ WindowOK)'
<1>1. StepsOK /\ [Next]_vars => StepsOK'
  BY WhoTouchesTheList, BuildStepsForward, RunOnlyForward, ListUntouched
<1> QED BY <1>1, InitStepsOK, InitWindow, NextWindow DEF StepsOK

(* With nothing at work, whatever the window counts as loaded is, or has a *)
(* load under way that will make it, what is on disk, in any sitting: no   *)
(* order of loads, callbacks, operations and a build's end leaves older    *)
(* data counted, the known gaps of the operations excepted.                *)
THEOREM LoadedIsCurrent == Spec => []ReadsCurrent
<1>1. WindowOK => ReadsCurrent
  BY IdleFresh DEF WindowOK, ReadsCurrent, Stale, StaleIn
<1> QED BY <1>1, WindowInductive, PTL DEF Spec

(***************************************************************************)
(* Types.                                                                  *)
(***************************************************************************)

(* The ship picked, and the save last asked about.                         *)
AskedOK == /\ ship \in Ships
           /\ request = Nothing \/ request.save \in Saves

LEMMA InitAsked == Init => AskedOK
BY DEF Init, AskedOK

LEMMA AskedStays ==
  ASSUME AskedOK, ship' \in Ships, UNCHANGED request \/ request'.save \in Saves
  PROVE  AskedOK'
BY DEF AskedOK

LEMMA NextAsked == ASSUME AskedOK, FormOK, [Next]_vars PROVE AskedOK'
<1>1. ship \in Ships /\ Primary \in Ships /\ (inspect # Nothing => inspect.save \in Saves)
  BY DEF AskedOK, FormOK, FormTyped, Form
<1>2. CASE UNCHANGED vars
  BY <1>1, <1>2, AskedStays DEF vars, tabVars
<1>3. CASE Redraws \/ Stays
  BY <1>1, <1>3, AskedStays DEF Redraws, Stays, tabVars
<1>4. CASE Returns
  <2>1. UNCHANGED request \/ (request'.save = reinspect /\ reinspect \in Saves)
    BY <1>4 DEF Returns, Reinspected, FormOK, FormTyped
  <2>2. ship' = ship
    BY <1>4 DEF Returns
  <2> QED BY <1>1, <2>1, <2>2, AskedStays
<1>5. CASE SaveRequest
  BY <1>1, <1>5, AskedStays DEF SaveRequest, SelectSlot, EditRequest, NodeRequest, LoadRawNode,
     ExportDialog, ImportDialog, Asks, Of, OnForm
<1>6. CASE CoreSaves
  <2>1. IsRequest(request) /\ ship' = ship
    BY <1>6, SaveOperations DEF CoreSaves, FormOK, FormTyped
  <2>2. request'.save \in Saves
    BY <1>6, <2>1 DEF CoreSaves, IsRequest
  <2> QED BY <1>1, <2>1, <2>2, AskedStays
<1>7. CASE LandInspect \/ LandNode \/ LandWrite
  BY <1>1, <1>7, AskedStays DEF LandInspect, Opened, LandNode, LandWrite
<1>8. ASSUME NEW f \in Fields, NEW v \in Values, TypeField(f, v) \/ PickType(f, v)
      PROVE  AskedOK'
  BY <1>1, <1>8, AskedStays DEF TypeField, PickType
<1>9. ASSUME NEW v \in Values, RawEditor(v) PROVE AskedOK'
  BY <1>1, <1>9, AskedStays DEF RawEditor
<1>10. ASSUME NEW s \in Ships, PickShip(s) PROVE AskedOK'
  BY <1>1, <1>10, AskedStays DEF PickShip
<1>11. CASE SlotsCard
  BY <1>1, <1>11, AskedStays DEF SlotsCard
<1> QED BY <1>2, <1>3, <1>4, <1>5, <1>6, <1>7, <1>8, <1>9, <1>10, <1>11 DEF Next

(* The window's state and the form's are of the types declared for them;   *)
(* an operation and a build are never at work together.                    *)
THEOREM TypesHold == Spec => []TypeOK
<1>1. StepsOK /\ WindowOK => WindowTypeOK
  <2> SUFFICES ASSUME StepsOK, WindowOK PROVE WindowTypeOK
    OBVIOUS
  <2>1. \A l \in Loads : \A i \in DOMAIN flying[l] : flying[l][i] \in [age : Ages, saw : SUBSET Facts]
    <3> SUFFICES ASSUME NEW l \in Loads, NEW i \in DOMAIN flying[l]
                 PROVE  flying[l][i] \in Flight
      BY DEF Flight
    <3>1. flying[l] \in Seq(Flight)
      BY DEF WindowOK, Loading, Flights
    <3> QED BY <3>1
  <2> QED BY <2>1 DEF WindowTypeOK, WindowOK, Placed, AtWork, Loading, Flags, OpTyped, StepsOK
<1>2. FormOK /\ AskedOK /\ WindowTypeOK => TypeOK
  BY DEF FormOK, FormTyped, RowsEntered, AskedOK, TypeOK, Text
<1>3. /\ Init => StepsOK /\ WindowOK /\ FormOK /\ AskedOK
      /\ StepsOK /\ WindowOK /\ FormOK /\ AskedOK /\ [Next]_vars =>
           (StepsOK /\ WindowOK /\ FormOK /\ AskedOK)'
  BY WindowInductive, InitForm, NextForm, InitAsked, NextAsked
<1> QED BY <1>1, <1>2, <1>3, PTL DEF Spec

===============================================================================
