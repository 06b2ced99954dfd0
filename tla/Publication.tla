------------------------------ MODULE Publication ------------------------------
(* What build.Run promises about <workspace>/<ModName> to whoever reads it   *)
(* between runs: a run decides once. It replaces the whole output in that    *)
(* step or leaves it exactly as it was, and a run that was revoked before    *)
(* it decided leaves it as it was.                                           *)

VARIABLES
  output,   \* the mod folder
  stage,    \* "idle", "building", "decided"
  revoked   \* the run was cancelled

Init == stage = "idle" /\ ~revoked

Begin == stage = "idle" /\ stage' = "building" /\ ~revoked' /\ UNCHANGED output

Revoke == stage # "idle" /\ ~revoked /\ revoked' /\ UNCHANGED <<output, stage>>

Publish == stage = "building" /\ stage' = "decided" /\ ~revoked /\ UNCHANGED revoked

Withdraw ==
  stage = "building" /\ stage' = "decided" /\ revoked /\ UNCHANGED <<output, revoked>>

End == stage = "decided" /\ stage' = "idle" /\ UNCHANGED <<output, revoked>>

Next == Begin \/ Revoke \/ Publish \/ Withdraw \/ End

Spec == Init /\ [][Next]_<<output, stage, revoked>>
===============================================================================
