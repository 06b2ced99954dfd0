------------------------------ MODULE MCWindow ------------------------------
(* Sittings at the window: every operation in one of them, and a form of     *)
(* three rows under one label, one of them a drop-down's, over two saves.    *)
EXTENDS SaveTab

Sitting(asks, places, there, ops, visits, refreshes, fails, texts) ==
  [asks |-> asks, places |-> places, there |-> there,
   budget |-> [ops |-> ops, visits |-> visits, refreshes |-> refreshes, fails |-> fails, texts |-> texts]]
MCDeploys == {
  Sitting({"DeployLast", "Undeploy", "ToggleAllMods"}, <<"Overview">>, Facts, 1, 0, 0, 1, 0),
  Sitting({"EnsureTools", "SetConfig"}, <<"Overview">>, {}, 1, 0, 0, 0, 0),
  Sitting({"ReplaceSymlinkAndDeploy"}, <<"Overview">>, {"game", "compiler"}, 1, 0, 0, 0, 0),
  Sitting(Report, <<"Report">>, Facts, 2, 0, 0, 1, 0)}
MCLibrary == {
  Sitting(Mods, <<"Mods">>, Facts, 1, 0, 1, 0, 0),
  Sitting(Tweaks, <<"Tweaks">>, Facts, 2, 0, 0, 1, 0),
  Sitting(Tweaks, <<"Tweaks", "Mods">>, Facts, 2, 1, 0, 0, 0)}
MCMachine == {
  Sitting(Settings, <<"Settings">>, Facts, 2, 0, 0, 1, 0),
  Sitting(Tools, <<"Tools">>, Facts, 2, 0, 0, 1, 0),
  Sitting({"ClearCache", "FindInArchives"}, <<"Tools", "Settings">>, Facts, 1, 2, 0, 0, 0)}
MCBuilds == {
  Sitting({"Build", "DeployLast"}, <<"Build", "Report">>, Facts, 2, 1, 0, 1, 0),
  Sitting({"Build", "ApplyParam"}, <<"Tweaks">>, Facts, 2, 1, 0, 0, 0),
  Sitting({"Build", "InspectSave", "ImportSave"}, <<"Saves", "Build">>, Facts, 3, 2, 0, 0, 0)}
MCEdits == {
  Sitting({"InspectSave", "PreviewEdit", "EditSave"}, <<"Saves">>, Facts, 4, 0, 0, 0, 1)}
MCSaves == MCEdits \cup {
  Sitting({"InspectSave", "EditSave"}, <<"About", "Saves">>, Facts, 3, 3, 0, 0, 1),
  Sitting({"InspectSave", "LoadNode", "SetNode"}, <<"Saves">>, Facts, 4, 0, 0, 0, 1),
  Sitting({"InspectSave", "LoadNode", "CheckNode", "ExportSave", "ImportSave"}, <<"Saves">>, Facts, 3, 0, 0, 0, 0),
  Sitting({"BackupSaves"}, <<"Saves">>, Facts, 1, 0, 1, 0, 0)}
MCSittings == MCDeploys \cup MCLibrary \cup MCMachine \cup MCBuilds \cup MCSaves
MCFields == {"suit", "ship", "other", "type"}
MCLabel == [f \in MCFields |-> IF f = "type" THEN "Type" ELSE "Item slots"]
MCShipOf == [f \in MCFields |-> CASE f = "ship" -> "s1" [] f = "other" -> "s2" [] OTHER -> Nothing]
MCShips == {"s1", "s2"}
===============================================================================
