---- MODULE MCDeploy ----
(* Small instances of Deploy for TLC. *)
EXTENDS Deploy, TLC

CONSTANTS c1, c2, a, b

Symmetry == Permutations({c1, c2}) \cup Permutations({a, b})
====
