------------------------------- MODULE SaveTab -------------------------------
(* The Saves section of the window (internal/gui/views_saves.go): the form   *)
(* over one save, its drafts, the raw JSON browser and the writes, within    *)
(* the loads, redraws and one-at-a-time operations of Window.                *)
EXTENDS Window

CONSTANTS Saves,     \* the slots' saves
          Fields,    \* what the form edits
          Label,     \* [Fields -> the label of the field's row]
          ShipOf,    \* [Fields -> the ship a field is of, or Nothing]
          Ships, Primary,
          Picks,     \* the fields that are drop-downs
          Values, Stock

ASSUME FieldsAssumption ==
  /\ DOMAIN Label = Fields /\ DOMAIN ShipOf = Fields /\ Picks \subseteq Fields
  /\ Primary \in Ships /\ Stock \in Values

VARIABLES saves,     \* the saves on disk: [Saves -> [Fields -> Values]]
          inspect,   \* the save in the form, as it was read, or Nothing
          draft,     \* what was typed and not written, by label
          entry,     \* the texts in the rows on screen
          ship,      \* the ship picked
          node,      \* the raw JSON node in view and its text, or Nothing
          request,   \* what the operation under way was asked
          reinspect, \* a save to read again when its writer has ended
          mine       \* what the user entered for each field of inspect, a ghost
tabVars == <<saves, inspect, draft, entry, ship, node, request, reinspect, mine>>
vars == <<winVars, tabVars>>

Labels == {Label[f] : f \in Fields}
NoDraft == [b \in Labels |-> Nothing]
NoText == [f \in Fields |-> Nothing]
NoneMine == [f \in Fields |-> {}]

(* ---------------------------------------------------------------- the form *)
(* A row shows the draft under its label, and without one what the save      *)
(* holds; a drop-down always what the save holds. Only one ship's rows are   *)
(* laid out.                                                                 *)
ShipGroup(picked) == {f \in Fields : ShipOf[f] \in {Nothing, picked}}
FieldRow(f, held, drafts) ==
  IF f \in Picks \/ drafts[Label[f]] = Nothing THEN held[f] ELSE drafts[Label[f]]
SaveEditorTab(save, drafts, picked) ==
  [f \in Fields |-> IF f \in ShipGroup(picked) THEN FieldRow(f, save.held, drafts) ELSE Nothing]
(* A redraw lays the rows out again. *)
Laid == entry' = IF section' = "Saves" /\ inspect' # Nothing
                 THEN SaveEditorTab(inspect', draft', ship') ELSE NoText
(* The rows that differ from what was read. *)
ChangeSet ==
  LET differ == {f \in Fields : entry[f] \notin {Nothing, inspect.held[f]}}
  IN [f \in differ |-> entry[f]]

OnForm == section = "Saves" /\ inspect # Nothing
Typing == left.texts > 0 /\ left' = [left EXCEPT !.texts = @ - 1]
Elsewhere == UNCHANGED <<sitting, machine, facts, section, ok, flying, shown, op, run, steps>>
Enters(f, v) == mine' = [mine EXCEPT ![f] = @ \cup {v}]
TypeField(f, v) ==
  /\ OnForm /\ entry[f] # Nothing /\ f \notin Picks /\ Typing
  /\ entry' = [entry EXCEPT ![f] = v]
  /\ draft' = [draft EXCEPT ![Label[f]] = v]
  /\ Enters(f, v)
  /\ Elsewhere /\ UNCHANGED <<saves, inspect, ship, node, request, reinspect>>
PickType(f, v) ==
  /\ OnForm /\ entry[f] # Nothing /\ f \in Picks /\ Typing
  /\ entry' = [entry EXCEPT ![f] = v]
  /\ Enters(f, v)
  /\ Elsewhere /\ UNCHANGED <<saves, inspect, draft, ship, node, request, reinspect>>
PickShip(s) ==
  /\ OnForm /\ s # ship /\ Typing
  /\ ship' = s
  /\ UNCHANGED <<saves, inspect, draft, node, request, reinspect, mine>>
  /\ UNCHANGED <<sitting, machine, facts, section, shown, op, run, steps>>
  /\ Redraw(ok, flying)
  /\ Laid
RawEditor(v) ==
  /\ OnForm /\ node # Nothing /\ Typing
  /\ node' = [node EXCEPT !.text = v]
  /\ Enters(node.field, v)
  /\ Elsewhere /\ UNCHANGED <<saves, inspect, draft, entry, ship, request, reinspect>>
(* Refresh of the slots forgets the save in the form and keeps the draft. *)
SlotsCard ==
  /\ section = "Saves" /\ Idle /\ Visit
  /\ inspect' = Nothing
  /\ UNCHANGED <<saves, draft, ship, node, request, reinspect, mine>>
  /\ UNCHANGED <<sitting, machine, facts, section, shown, op, run, steps>>
  /\ Redraw(Clear(ok, {"slots"}), flying)
  /\ Laid

(* ------------------------------------------------------------- the requests *)
(* Each captures the save and the changes as they are when its button, or    *)
(* the button of its modal dialog, is pressed.                               *)
Asks(name, req) == Press(name) /\ request' = req /\ Laid
Only(f, v) == [g \in {f} |-> v]
Of(changes) == [save |-> inspect.save, set |-> changes, wrote |-> FALSE]
SelectSlot(s) ==
  /\ UNCHANGED <<saves, inspect, draft, ship, node, reinspect, mine>>
  /\ Asks("InspectSave", [save |-> s, set |-> <<>>, wrote |-> FALSE])
EditRequest(name) ==
  /\ OnForm /\ ChangeSet # <<>>
  /\ UNCHANGED <<saves, inspect, draft, ship, node, reinspect, mine>>
  /\ Asks(name, Of(ChangeSet))
NodeRequest(name) ==
  /\ OnForm /\ node # Nothing
  /\ UNCHANGED <<saves, inspect, draft, ship, node, reinspect, mine>>
  /\ Asks(name, Of(Only(node.field, node.text)))
LoadRawNode(f) ==
  /\ OnForm
  /\ UNCHANGED <<saves, inspect, draft, ship, node, reinspect, mine>>
  /\ Asks("LoadNode", Of(Only(f, inspect.held[f])))
ExportDialog ==
  /\ OnForm
  /\ UNCHANGED <<saves, inspect, draft, ship, node, reinspect, mine>>
  /\ Asks("ExportSave", Of(<<>>))
(* A file holds a whole save. *)
ImportDialog(v) ==
  /\ OnForm
  /\ mine' = [f \in Fields |-> mine[f] \cup {v}]
  /\ UNCHANGED <<saves, inspect, draft, ship, node, reinspect>>
  /\ Asks("ImportSave", Of([f \in Fields |-> v]))
SaveRequest ==
  \/ \E s \in Saves : SelectSlot(s)
  \/ \E name \in {"PreviewEdit", "EditSave"} : EditRequest(name)
  \/ \E name \in {"CheckNode", "SetNode"} : NodeRequest(name)
  \/ \E f \in Fields : LoadRawNode(f)
  \/ ExportDialog
  \/ \E v \in Values : ImportDialog(v)

(* -------------------------------------------------------- core and landings *)
(* The core reads the save again and sets the fields asked for; when nothing *)
(* comes out different it writes nothing, an import excepted.                *)
Differs == \E f \in DOMAIN request.set : saves[request.save][f] # request.set[f]
CoreSaves ==
  /\ op # Nothing /\ op.name \in SaveWrites
  /\ UNCHANGED <<inspect, draft, entry, ship, node, reinspect, mine>>
  /\ IF Differs \/ op.name = "ImportSave"
     THEN /\ Core
          /\ saves' = [saves EXCEPT ![request.save] =
              [f \in Fields |-> IF f \in DOMAIN request.set THEN request.set[f] ELSE @[f]]]
          /\ request' = [request EXCEPT !.wrote = TRUE]
     ELSE /\ op.stage = "calls"
          /\ op' = [op EXCEPT !.stage = "land"]
          /\ UNCHANGED <<sitting, machine, facts, section, ok, flying, shown, run, steps, left>>
          /\ UNCHANGED <<saves, request>>
OpenedKeepingDraft ==
  /\ inspect' = [save |-> request.save, held |-> saves[request.save]]
  /\ draft' = draft
  /\ node' = Nothing
  /\ ship' = Primary
(* A different save, a fresh form. *)
Opened ==
  /\ inspect' = [save |-> request.save, held |-> saves[request.save]]
  /\ draft' = NoDraft
  /\ node' = Nothing
  /\ ship' = Primary
LandInspect ==
  /\ Landed /\ op.name = "InspectSave"
  /\ Opened
  /\ mine' = NoneMine
  /\ UNCHANGED <<saves, request, reinspect>>
  /\ LandOp /\ Laid
LandNode ==
  /\ Landed /\ op.name = "LoadNode"
  /\ \E f \in DOMAIN request.set :
       LET text == saves[request.save][f]
       IN node' = [field |-> f, text |-> text] /\ Enters(f, text)
  /\ UNCHANGED <<saves, inspect, draft, ship, request, reinspect>>
  /\ LandOp /\ Laid
(* wrote: the slots and the backups are to be read again, the draft is gone, *)
(* and the save is read again once this operation has let go; after a write  *)
(* that changed nothing the section is drawn again instead.                  *)
LandWrite ==
  /\ Landed /\ op.name \in SaveWrites
  /\ draft' = NoDraft
  /\ UNCHANGED <<saves, inspect, ship, node, request, mine>>
  /\ IF request.wrote
     THEN LandOp /\ reinspect' = request.save /\ UNCHANGED entry
     ELSE /\ op' = [op EXCEPT !.stage = "end"]
          /\ UNCHANGED <<sitting, machine, facts, section, shown, run, steps, left>>
          /\ Redraw(Clear(ok, Doing(op.name).clears), flying)
          /\ UNCHANGED reinspect /\ Laid

(* A redraw of Saves with nothing at work and a save to read again starts    *)
(* reading it; the three steps that can find one are the end of an           *)
(* operation, the end of a build and the arrival at the section.             *)
BuildSavesNext(where) ==
  IF where = "Saves" /\ reinspect # Nothing THEN Performing("InspectSave") ELSE Nothing
Reinspected(idle, where) ==
  IF idle /\ where = "Saves" /\ reinspect # Nothing
  THEN /\ request' = [save |-> reinspect, set |-> <<>>, wrote |-> FALSE]
       /\ reinspect' = Nothing
  ELSE UNCHANGED <<request, reinspect>>
Returns ==
  /\ UNCHANGED <<saves, inspect, draft, ship, node, mine>>
  /\ \/ EndOp(BuildSavesNext(section)) /\ Reinspected(TRUE, section)
     \/ FinishBuild(BuildSavesNext(section)) /\ Reinspected(TRUE, section)
     \/ \E to \in Sections : Navigate(to, BuildSavesNext(to)) /\ Reinspected(Idle, to)
  /\ Laid

(* ----------------------------------------------------------- the whole window *)
Performs(names) == op # Nothing /\ op.name \in names
Redraws ==
  /\ UNCHANGED <<saves, inspect, draft, ship, node, request, reinspect, mine>>
  /\ \/ \E l \in Loads : Land(l)
     \/ \E name \in OpNames \ SaveOps : Press(name)
     \/ Performs(OpNames \ SaveOps) /\ LandOp
     \/ Refresh
     \/ StartBuild
  /\ Laid
Stays ==
  /\ UNCHANGED tabVars
  /\ \/ \E l \in Loads : LoadFails(l)
     \/ Performs(OpNames \ SaveWrites) /\ Core
     \/ CoreFails
     \/ Performs({"PreviewEdit", "CheckNode", "ExportSave"}) /\ LandOp
     \/ Measure \/ BuildEvents \/ CoreBuilds \/ CoreStops \/ CancelBuild

Init ==
  /\ OnStart
  /\ saves = [s \in Saves |-> [f \in Fields |-> Stock]]
  /\ inspect = Nothing /\ draft = NoDraft /\ entry = NoText /\ ship = Primary
  /\ node = Nothing /\ request = Nothing /\ reinspect = Nothing
  /\ mine = NoneMine
Next ==
  \/ Redraws \/ Stays \/ Returns \/ SaveRequest
  \/ CoreSaves \/ LandInspect \/ LandNode \/ LandWrite
  \/ \E f \in Fields, v \in Values : TypeField(f, v) \/ PickType(f, v)
  \/ \E s \in Ships : PickShip(s)
  \/ \E v \in Values : RawEditor(v)
  \/ SlotsCard
Spec == Init /\ [][Next]_vars

(* -------------------------------------------------------------- properties *)
Form == [save : Saves, held : [Fields -> Values]]
TypeOK ==
  /\ WindowTypeOK
  /\ saves \in [Saves -> [Fields -> Values]]
  /\ inspect = Nothing \/ inspect \in Form
  /\ draft \in [Labels -> Values \cup {Nothing}]
  /\ entry \in [Fields -> Values \cup {Nothing}]
  /\ ship \in Ships
  /\ node = Nothing \/ node \in [field : Fields, text : Values]
  /\ request = Nothing \/ request.save \in Saves
  /\ reinspect \in Saves \cup {Nothing}
  /\ mine \in [Fields -> SUBSET Values]

(* A value written into a save was entered while that save was the one in    *)
(* the form, in the field or in one under the same label: neither a draft,   *)
(* nor a node's text, nor a request outlives the save it was made for,       *)
(* whatever was selected, refreshed, re-read or redrawn in between           *)
(* (selectSlot, wrote and the reinspect in buildSaves, views_saves.go).      *)
Changed(s, f) == saves'[s][f] # saves[s][f]
WritesGoToTheirSave ==
  [][\A s \in Saves, f \in Fields : Changed(s, f) =>
       /\ inspect # Nothing /\ inspect.save = s
       /\ \E g \in Fields : Label[g] = Label[f] /\ saves'[s][f] \in mine[g]]_vars

(* A field that is written is a field whose value was entered: the others    *)
(* keep what the save holds, which is what the form was filled with.         *)
(* (fieldRow and changeSet in views_saves.go; the form is "with the current  *)
(* values prefilled", specs/007.) The rows of the suit, the ship and the     *)
(* freighter share labels, and the draft is kept by label.                   *)
WritesOnlyTypedFields ==
  [][\A s \in Saves, f \in Fields : Changed(s, f) => saves'[s][f] \in mine[f]]_vars
===============================================================================
