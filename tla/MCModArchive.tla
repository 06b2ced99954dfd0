----------------------------- MODULE MCModArchive -----------------------------
(* The instances of ModArchive that TLC checks: see README.md for what each  *)
(* configuration is for.                                                     *)
EXTENDS ModArchive, TLC

CONSTANTS nmsbonker, cosmos, b1, b2, f1, f2

MCNames == {nmsbonker, cosmos}
OneName == {nmsbonker}
(* "COSMOS COMBINE" sorts before "NMSBONKER". *)
MCNameRank == cosmos :> 0 @@ nmsbonker :> 1
OneNameRank == nmsbonker :> 1
(* Builds and files are interchangeable. *)
InterchangeableBuilds == Permutations({b1, b2})
Interchangeable == InterchangeableBuilds \union Permutations({f1, f2})
===============================================================================
