------------------------------ MODULE MCSuites ------------------------------
(* Instance of Comparison (and so of Suites and Results) for TLC. *)
EXTENDS Comparison

CONSTANTS c1, c2, s1, d1, q4, q8

Symmetry == Permutations({c1, c2}) \union Permutations({q4, q8})

Answer(ttft, decode, tokens) ==
  [ttft |-> ttft, decode |-> decode, tokens |-> tokens, prompt |-> 50]
Sample(answers, errors) == [answers |-> answers, errors |-> errors, wall |-> 1000]

Fast == Sample(<<Answer(300, 700, 70), Answer(100, 900, 90)>>, 0)
Slow == Sample(<<Answer(500, 1500, 90)>>, 1)
Silent == Sample(<<>>, 2)

(* Tasks "a" and "b" are asked for; "a" is reported with a subtask.        *)
Asked(k) == [kind |-> k, tasks |-> {"a", "b"}]

Out(sample, levels, vram, score) ==
  [single |-> sample, levels |-> levels, replayed |-> sample, raised |-> FALSE,
   resources |-> [vram |-> vram, util |-> 40, samples |-> IF vram > 0 THEN 3 ELSE 0],
   graded |-> [correct |-> score, total |-> 4], scores |-> [a |-> 25 * score, sub |-> 100]]

(* Two good ones, one at another level and with only a subtask scored, one *)
(* that answers nothing, one whose accuracy pass raises an error.          *)
Outs ==
  { Out(Fast, 1 :> Fast @@ 4 :> Slow, 8, 3),
    [Out(Slow, 1 :> Slow, 6, 1) EXCEPT !.scores = [sub |-> 50]],
    [Out(Silent, 1 :> Silent @@ 4 :> Silent, 0, 0) EXCEPT !.graded.total = 0,
                                                          !.scores = <<>>],
    [Out(Slow, 1 :> Fast, 0, 0) EXCEPT !.raised = TRUE] }

(* Or the configuration fails, before its deployment is ready or after.    *)
MCOutcome ==
  [k \in Kind |->
     {Unmeasured, [startup |-> 30, metrics |-> <<>>]}
       \union {[startup |-> 20 + o.resources.vram, metrics |-> RunEval(Asked(k), o)] : o \in Outs}]
=============================================================================
