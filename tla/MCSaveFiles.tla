------------------------------ MODULE MCSaveFiles -----------------------------
(* The instance of SaveFiles that TLC checks: see README.md for its bounds.  *)
EXTENDS SaveFiles, TLC

CONSTANTS gui, cli

(* The processes are interchangeable. *)
Interchangeable == Permutations({gui, cli})
===============================================================================
