-------------------------------- MODULE MCCache -------------------------------
(* The instances of Cache that TLC checks: see README.md for their bounds.   *)
EXTENDS Cache, TLC

CONSTANTS gui, exact, loose, table, twin, v1, v2, here, there

(* One script spells a table with its path, another by its base name only:    *)
(* which finds the table, or a file of that base name in an earlier archive.  *)
Paths == exact :> table @@ loose :> None
OneBase == [x \in {exact, loose, table, twin} |-> table]
TwoHomes == twin :> {1} @@ table :> {2}
===============================================================================
