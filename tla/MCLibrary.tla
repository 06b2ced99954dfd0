----------------------------- MODULE MCLibrary -----------------------------
(* One built-in and one library script, two programs. *)
EXTENDS Library, TLC

CONSTANTS tweak, script, plain, tuned, broken, torn, none, gui, cli

MCSymmetry == Permutations({gui, cli})
MCOrder    == <<tweak, script>>
MCDeclares == [t \in {plain, tuned, broken, torn} |-> IF t = tuned THEN 2 ELSE none]

\* Every request of the operations, over both mods and the texts and values
\* that make a difference to them.
MCRequests ==
  {[op |-> o] : o \in {"list", "build", "fix"}}
  \cup {[op |-> "add", names |-> <<script, script>>, text |-> tuned, replace |-> r, on |-> TRUE] : r \in BOOLEAN}
  \cup {[op |-> "remove", name |-> n, delete |-> TRUE] : n \in {tweak, script}}
  \cup {[op |-> "remove", name |-> script, delete |-> FALSE]}
  \cup {[op |-> "enable", names |-> <<n>>, on |-> n = tweak \/ b] : n \in {tweak, script}, b \in BOOLEAN}
  \cup {[op |-> "move", name |-> tweak, to |-> 2]}
  \cup {[op |-> "set", name |-> tweak, value |-> v] : v \in {1, 4}}
  \cup {[op |-> "set", name |-> script, value |-> 4]}
  \cup {[op |-> "reset", name |-> n, one |-> n = script /\ b] : n \in {tweak, script}, b \in BOOLEAN}
  \cup {[op |-> "config", limit |-> l] : l \in {-1, 0, 3}}
  \cup {[op |-> "write", name |-> script, text |-> x, force |-> FALSE] : x \in {tuned, broken}}
  \cup {[op |-> "write", name |-> script, text |-> broken, force |-> TRUE]}
============================================================================
