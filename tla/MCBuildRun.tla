------------------------------ MODULE MCBuildRun ------------------------------
(* Instances of BuildRun: see README.md for what each configuration is for.  *)
EXTENDS BuildRun, TLC

CONSTANTS w1, w2, rewards, globals, costs

(* A table with both kinds of edit, a root-level globals file with value     *)
(* edits, a table with structural edits only, and one with no cached source. *)
FourEdits == <<Kinds, {"value"}, {"structural"}, {"value"}>>
FourPaths == <<rewards, globals, costs, None>>
(* Two script sources that resolve, by base name, to one file of the game,   *)
(* and a globals file.                                                       *)
SharedEdits == <<Kinds, {"value"}, {"value"}>>
SharedPaths == <<rewards, rewards, globals>>
TwoEdits == <<Kinds, {"value"}>>
OnePath == <<rewards, rewards>>
Interchangeable == Permutations(Workers)
===============================================================================
