------------------------------ MODULE Selection ------------------------------
(* Selecting from a sequence: SelectSeq, of the members of a set and as a     *)
(* recursive function, which can be reasoned about.                           *)
EXTENDS Integers, Sequences, Functions

\* The elements of s that are in S, in their order.
Those(s, S) ==
  LET F[i \in 0..Len(s)] ==
        IF i = 0 THEN << >> ELSE IF s[i] \in S THEN Append(F[i - 1], s[i]) ELSE F[i - 1]
  IN  F[Len(s)]
==============================================================================
