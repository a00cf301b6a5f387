---- MODULE MCBenchRunner ----
(* Small instances of BenchRunner for TLC. *)
EXTENDS BenchRunner, TLC

CONSTANTS r1, r2, d1, d2

Deps == Permutations({d1, d2})
====
