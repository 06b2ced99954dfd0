------------------------------ MODULE WindowOps ------------------------------
(* What the window of nmsbonker-gui can be asked to do, as data: the loaders *)
(* that fill its sections and what on disk each of them reads, and the       *)
(* operations behind its buttons, with what the calls into the core write    *)
(* and what the window does when they return (internal/gui/views_*.go).      *)
(* Window gives them their behaviour.                                        *)
EXTENDS Naturals, Sequences, FiniteSets

(* What a loader can read and an operation can write: the keys of the        *)
(* configuration, the pinned compiler, the build order, the parameter values *)
(* (all four in config.json), the scripts of the library, the installed      *)
(* compilers, GAMEDATA/MODS with the game's mod settings, the deploy         *)
(* archive, the save backups, the game's saves, the last report, the caches  *)
(* and the pak index.                                                        *)
Stores == {"settings", "pin", "modlist", "params", "scripts", "tools", "game",
           "archive", "backups", "profile", "report", "cache", "index"}

(* The loaders. *)
LoadStatus == {"settings", "pin", "scripts", "tools", "game", "index"}
LoadDetect == {"settings"}
LoadMods == {"modlist", "scripts", "params", "report"}
LoadTweaks == {"modlist", "params", "report"}
LoadCompat == {"settings", "pin", "tools"}
LoadTools == {"pin", "tools"}
LoadCache == {"cache", "index"}
LoadReport == {"report", "params"}
LoadSaves == {"backups"}
LoadSlots == {"profile"}
LoadArchive == {"archive"}
LoadConfig == {"settings", "pin"}
Reads == [status |-> LoadStatus, detect |-> LoadDetect, mods |-> LoadMods,
          tweaks |-> LoadTweaks, compat |-> LoadCompat, tools |-> LoadTools,
          cache |-> LoadCache, report |-> LoadReport, saves |-> LoadSaves,
          slots |-> LoadSlots, archive |-> LoadArchive, config |-> LoadConfig]
Loads == DOMAIN Reads

(* An operation: what each of its calls into the core writes, in order, the  *)
(* loaded flags its landing clears itself, how the landing ends ("flash"     *)
(* leaves the section alone, "rebuild" draws it again, "invalidate" drops    *)
(* what was loaded), and the loads that read what it writes and are left     *)
(* with the older data: "misses" is the list of the window's known gaps.     *)
Op(calls, clears, ends, misses) ==
  [calls |-> calls, clears |-> clears, ends |-> ends, misses |-> misses]
(* sh.OK: a banner, and everything is read again but the compatibility.      *)
Done(calls, clears) == Op(calls, clears, "invalidate", {"compat"})
(* The core only reads. *)
Looks(ends) == Op(<<{}>>, {}, ends, {})

(* Mods *)
AddMod == Done(<<{"scripts", "modlist"}>>, {})
ImportMods == Done(<<{"scripts", "modlist"}>>, {})
ExportMod == Done(<<{}>>, {})
RemoveMod == Done(<<{"modlist", "scripts"}>>, {})
SetModEnabled == Done(<<{"modlist"}>>, {})
MoveMod == Done(<<{"modlist"}>>, {})
CheckMods == Looks("rebuild")
LibraryParam == Op(<<{"params"}>>, {}, "flash", {"mods", "tweaks", "report"})
(* Tweaks. resetAllTweaks and applyAuditFix make one call per tweak, two in  *)
(* the model.                                                                *)
ApplyParam == Op(<<{"params"}>>, {}, "patch", {"mods", "report"})
ResetParam == Op(<<{"params"}>>, {}, "patch", {"mods", "report"})
ResetAllTweaks == Done(<<{"params"}, {"params"}>>, {})
(* Report *)
ApplyAuditFix == Op(<<{"params"}, {"params"}>>, {"tweaks"}, "rebuild", {"mods", "report"})
RecheckAmounts == Looks("rebuild")
Rollback == Done(<<{"game", "archive"}>>, {"archive"})
(* Overview *)
BackupSaves == Done(<<{"backups"}>>, {"saves"})
ToggleAllMods == Done(<<{"game"}>>, {})
ReplaceSymlinkAndDeploy == Done(<<{"backups", "game", "archive"}>>, {"saves"})
DeployLast == Done(<<{"backups", "game", "archive"}>>, {})
Undeploy == Done(<<{"game", "archive"}>>, {})
(* Settings: one call per key. *)
SaveSettings == Done(<<{"settings"}, {"settings"}>>, {"config"})
SetConfig == Done(<<{"settings"}>>, {"config"})
(* Tools *)
EnsureTools == Done(<<{"tools"}>>, {})
ToolCheck == Looks("check")
PinTool == Done(<<{"pin", "tools"}>>, {})
RemoveTool == Done(<<{"tools"}>>, {})
ClearCache == Done(<<{"cache", "index"}>>, {"cache"})
RebuildIndex == Done(<<{"index"}>>, {"cache"})
BrowseArchives == Looks("flash")
FindInArchives == Op(<<{"index"}>>, {}, "flash", {"status", "cache"})
Extract == Done(<<{"index"}>>, {})
Releases == Looks("rebuild")
(* Saves *)
InspectSave == Looks("rebuild")
PreviewEdit == Looks("flash")
LoadNode == Looks("rebuild")
CheckNode == Looks("flash")
ExportSave == Looks("flash")
Wrote == Op(<<{"profile", "backups"}>>, {"slots", "saves"}, "flash", {})

Operations ==
  [AddMod |-> AddMod, ImportMods |-> ImportMods, ExportMod |-> ExportMod,
   RemoveMod |-> RemoveMod, SetModEnabled |-> SetModEnabled, MoveMod |-> MoveMod,
   CheckMods |-> CheckMods, LibraryParam |-> LibraryParam,
   ApplyParam |-> ApplyParam, ResetParam |-> ResetParam,
   ResetAllTweaks |-> ResetAllTweaks, ApplyAuditFix |-> ApplyAuditFix,
   RecheckAmounts |-> RecheckAmounts, Rollback |-> Rollback,
   BackupSaves |-> BackupSaves, ToggleAllMods |-> ToggleAllMods,
   ReplaceSymlinkAndDeploy |-> ReplaceSymlinkAndDeploy,
   DeployLast |-> DeployLast, Undeploy |-> Undeploy,
   SaveSettings |-> SaveSettings, SetConfig |-> SetConfig,
   EnsureTools |-> EnsureTools, ToolCheck |-> ToolCheck, PinTool |-> PinTool,
   RemoveTool |-> RemoveTool, ClearCache |-> ClearCache,
   RebuildIndex |-> RebuildIndex, BrowseArchives |-> BrowseArchives,
   FindInArchives |-> FindInArchives, Extract |-> Extract, Releases |-> Releases,
   InspectSave |-> InspectSave, PreviewEdit |-> PreviewEdit,
   LoadNode |-> LoadNode, CheckNode |-> CheckNode, ExportSave |-> ExportSave,
   EditSave |-> Wrote, ImportSave |-> Wrote, SetNode |-> Wrote]
OpNames == DOMAIN Operations
SaveOps == {"InspectSave", "PreviewEdit", "LoadNode", "CheckNode", "ExportSave",
            "EditSave", "ImportSave", "SetNode"}
SaveWrites == {"EditSave", "ImportSave", "SetNode"}

(* The sections of the navigation, and the buttons each of them lays out; a  *)
(* dialog belongs to the section that opens it. "About" stands for the two   *)
(* that read nothing, Appearance and About. Mods makes the buttons that edit *)
(* and export a script but leaves them out of the strip it draws.            *)
Overview == {"DeployLast", "ToggleAllMods", "Undeploy", "EnsureTools", "SetConfig",
             "ReplaceSymlinkAndDeploy"}
Mods == {"AddMod", "ImportMods", "RemoveMod", "SetModEnabled", "MoveMod",
         "CheckMods", "LibraryParam"}
Tweaks == {"SetModEnabled", "ApplyParam", "ResetParam", "ResetAllTweaks", "ExportMod"}
Report == {"DeployLast", "Rollback", "ApplyAuditFix", "RecheckAmounts", "ToolCheck"}
Tools == {"EnsureTools", "ToolCheck", "PinTool", "RemoveTool", "ClearCache",
          "RebuildIndex", "BrowseArchives", "FindInArchives", "Extract", "Releases"}
Settings == {"SaveSettings"}
Buttons == [Overview |-> Overview, Mods |-> Mods, Tweaks |-> Tweaks,
            Build |-> {"DeployLast"}, Report |-> Report,
            Saves |-> SaveOps \cup {"BackupSaves"}, Tools |-> Tools,
            Settings |-> Settings, About |-> {}]
Sections == DOMAIN Buttons

(* What a button is greyed out without, of the facts last loaded: a game, a  *)
(* compiler, a report of a build, an archive entry. The first-run buttons    *)
(* are there only while the fact is missing.                                 *)
CanDeployLast == {"report", "game"}
GameActions == {"game"}
Rolls == {"report", "game", "entries"}
Needs(name) ==
  CASE name = "DeployLast" -> CanDeployLast
    [] name = "Rollback" -> Rolls
    [] name \in {"ToggleAllMods", "Undeploy", "BackupSaves", "ReplaceSymlinkAndDeploy",
                 "RebuildIndex", "BrowseArchives", "FindInArchives", "Extract"} -> GameActions
    [] name \in {"ApplyAuditFix", "RecheckAmounts"} -> {"report"}
    [] OTHER -> {}
(* The Report section lays out nothing before there is a report; one with    *)
(* files the compiler failed on has the button of the check as well.         *)
LaidOut(section) == IF section = "Report" THEN {"report"} ELSE {}
(* A row, a card or a form is there once its loader has brought something.   *)
RowsOf(name) ==
  CASE name \in {"RemoveMod", "SetModEnabled", "MoveMod", "LibraryParam"} -> {"mods"}
    [] name \in {"ApplyParam", "ResetParam", "ResetAllTweaks", "ExportMod"} -> {"tweaks"}
    [] name \in {"PinTool", "RemoveTool"} -> {"tools"}
    [] name = "SaveSettings" -> {"config"}
    [] name = "Rollback" -> {"archive"}
    [] name = "InspectSave" -> {"slots"}
    [] OTHER -> {}
FirstRun(section, name) ==
  CASE section = "Overview" /\ name = "EnsureTools" -> {"compiler"}
    [] section = "Overview" /\ name = "SetConfig" -> {"game"}
    [] OTHER -> {}
===============================================================================
