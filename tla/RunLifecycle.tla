---------------------------- MODULE RunLifecycle ----------------------------
(***************************************************************************)
(* What a benchmark run promises to the owner of the box, without saying   *)
(* how: at most one run is in progress, a run may withhold deployments     *)
(* while it is, and it is over only when every deployment it withheld has  *)
(* been handed back (relaunched, or reported as not relaunched).           *)
(* BenchRunner implements this specification.                              *)
(***************************************************************************)
CONSTANTS
  Run,    \* identifiers of runs
  Dep,    \* deployments the users of the box own
  NoRun   \* not an identifier of a run

VARIABLES
  life,     \* life[r]: where run r is in its life
  heldBy    \* heldBy[d]: the run that withholds deployment d, or NoRun

Life == {"unborn", "active", "over"}

TypeOK ==
  /\ life \in [Run -> Life]
  /\ heldBy \in [Dep -> Run \union {NoRun}]

Init ==
  /\ life = [r \in Run |-> "unborn"]
  /\ heldBy = [d \in Dep |-> NoRun]

Begin(r) ==
  /\ life[r] = "unborn"
  /\ \A q \in Run : life[q] # "active"
  /\ life' = [life EXCEPT ![r] = "active"]
  /\ UNCHANGED heldBy

Withhold(r, d) ==
  /\ life[r] = "active"
  /\ heldBy[d] = NoRun
  /\ heldBy' = [heldBy EXCEPT ![d] = r]
  /\ UNCHANGED life

(* Any number of deployments may be handed back in one step: the report of *)
(* failed relaunches is one write.                                         *)
HandBack(S) ==
  /\ heldBy' = [d \in Dep |-> IF d \in S THEN NoRun ELSE heldBy[d]]
  /\ UNCHANGED life

End(r) ==
  /\ life[r] = "active"
  /\ \A d \in Dep : heldBy[d] # r
  /\ life' = [life EXCEPT ![r] = "over"]
  /\ UNCHANGED heldBy

Next ==
  \/ \E r \in Run : Begin(r) \/ End(r)
  \/ \E r \in Run, d \in Dep : Withhold(r, d)
  \/ \E S \in SUBSET Dep : HandBack(S)

vars == <<life, heldBy>>
Spec == Init /\ [][Next]_vars
=============================================================================
