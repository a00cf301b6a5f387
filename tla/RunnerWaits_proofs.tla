------------------------- MODULE RunnerWaits_proofs -------------------------
(***************************************************************************)
(* Proofs about RunnerWaits, for datasets, parts and batches of any size   *)
(* and any faults of the cluster.  The types come first; the two counters  *)
(* of missing deployments, the exits of the server, the staging and the    *)
(* output of the eval job have invariants of their own, and the steps are  *)
(* those of BenchRunner.                                                   *)
(***************************************************************************)
EXTENDS RunnerWaits, FiniteSetTheorems, SequenceTheorems, WellFoundedInduction, TLAPS

-----------------------------------------------------------------------------
(* Types.                                                                  *)

(* The types, in two parts: what is TRUE or FALSE, and the rest.           *)
Flags ==
  /\ pausing \in BOOLEAN /\ late \in BOOLEAN /\ cancelled \in BOOLEAN /\ warned \in BOOLEAN
  /\ stageErr \in BOOLEAN /\ exits \in BOOLEAN /\ died \in BOOLEAN /\ blind \in BOOLEAN
  /\ cut \in BOOLEAN /\ wrong \in BOOLEAN /\ downs \in BOOLEAN \X BOOLEAN

(* The two counters stay below 2 while their wait goes on.                 *)
Kinds ==
  /\ pc \in PC /\ status \in {"running", "cancelled", "failed"}
  /\ misses \in 0 .. 2 /\ (pc \in Waits => misses <= 1)
  /\ result \in {"pending", "deploying", "evaluating", "complete", "failed", "skipped"}
  /\ saved \in {"pending", "deploying", "evaluating", "complete", "failed", "skipped"}
  /\ reason \in Reasons /\ dataset \in {"none", "kept", "deleted"}
  /\ base \in 0 .. NumParts /\ next \in 0 .. NumParts
  /\ mine \in SUBSET Part /\ pending \in SUBSET Part /\ round \in SUBSET Part
  /\ stage \in [Part -> JobStatus] /\ share \in SUBSET Part /\ excused \in SUBSET Part
  /\ dep \in Sight /\ job \in JobStatus /\ log \in Logs \union {<<>>} /\ looks \in 0 .. 2

TInv == Flags /\ Kinds

(* The number of parts.                                                    *)
LEMMA PartsNat == NumParts \in Nat
<1> DEFINE n == Size + Chunk - 1
<1>1. n \in Nat /\ Chunk \in Nat \ {0}
  BY SizeAssumption, ChunkAssumption
<1>2. n \div Chunk \in Nat
  <2> HIDE DEF n
  <2> QED
    BY <1>1
<1> QED
  BY <1>2 DEF NumParts

LEMMA EndInRange ==
  ASSUME base \in 0 .. NumParts
  PROVE  End \in 0 .. NumParts /\ End >= base
  BY PartsNat, ParallelAssumption DEF End

LEMMA TInit == Init => TInv
<1>1. Init => Flags
  <2> SUFFICES ASSUME Init PROVE Flags
    OBVIOUS
  <2>1. /\ pausing = FALSE /\ late = FALSE /\ cancelled = FALSE /\ warned = FALSE
        /\ stageErr = FALSE /\ exits = FALSE /\ died = FALSE /\ blind = FALSE
        /\ cut = FALSE /\ wrong = FALSE /\ downs = <<FALSE, FALSE>>
    BY DEF Init
  <2>2. downs \in BOOLEAN \X BOOLEAN
    BY <2>1
  <2> QED
    BY <2>1, <2>2 DEF Flags
<1>2. Init => Kinds
  BY PartsNat DEF Init, Kinds, PC, Stages, Waits, JobStatus, Sight, Reasons
<1> QED
  BY <1>1, <1>2 DEF TInv

LEMMA FlagsNext == Flags /\ [Next]_vars => Flags'
<1> SUFFICES ASSUME Flags, [Next]_vars PROVE Flags'
  OBVIOUS
<1> USE DEF Flags, Goes, BeginWait, EndBatch, PauseAt, FailConfig, runVars, loopVars, stageVars,
            depVars, jobVars, seenVars
<1>1. CASE Wake /\ UNCHANGED cancelled
  BY <1>1 DEF Wake
<1>2. CASE Stage /\ UNCHANGED cancelled
  <2>0. UNCHANGED <<cancelled, warned, exits, died, blind, cut, wrong, downs>>
    BY <1>2 DEF Stage
  <2>1. /\ pausing' \in BOOLEAN /\ late' \in BOOLEAN /\ stageErr' \in BOOLEAN
    <3>1. CASE StageNothing \/ StageRead \/ RegisterPart \/ RegisterPartFails
      BY <3>1 DEF StageNothing, StageRead, StageGoes, RegisterPart, RegisterPartFails
    <3>2. CASE BatchRegistered \/ RoundDone \/ StageCancelled \/ BatchPurged \/ StageFails
      BY <3>2 DEF BatchRegistered, RoundDone, StageCancelled, BatchPurged, StageGoes, StageFails
    <3>3. ASSUME NEW p \in Part, CheckPart(p) PROVE <2>1!1
      BY <3>3 DEF CheckPart
    <3>4. ASSUME NEW p \in Part, PurgePart(p) PROVE <2>1!1
      BY <3>4 DEF PurgePart
    <3> QED
      BY <1>2, <3>1, <3>2, <3>3, <3>4 DEF Stage
  <2> QED
    BY <2>0, <2>1
<1>3. CASE RunConfig /\ UNCHANGED cancelled
  <2>0. UNCHANGED <<cancelled, stageErr>>
    BY <1>3 DEF RunConfig
  <2> SUFFICES /\ pausing' \in BOOLEAN /\ late' \in BOOLEAN /\ warned' \in BOOLEAN
               /\ exits' \in BOOLEAN /\ died' \in BOOLEAN /\ blind' \in BOOLEAN
               /\ cut' \in BOOLEAN /\ wrong' \in BOOLEAN /\ downs' \in BOOLEAN \X BOOLEAN
    BY <2>0
  <2>1. CASE DeployConfig \/ DeployConfigFails \/ WaitCancelled \/ WatchCancelled
    BY <2>1 DEF DeployConfig, DeployConfigFails, WaitCancelled, WatchCancelled
  <2>2. CASE RegisterEval \/ RegisterEvalFails \/ PurgeEval \/ Teardown
    BY <2>2 DEF RegisterEval, RegisterEvalFails, PurgeEval, Teardown
  <2>3. CASE LookJob
    <3>0. UNCHANGED <<late, warned, exits, died, blind, wrong, downs>>
      BY <2>3 DEF LookJob, ReadOutput
    <3>1. CASE ReadOutput /\ UNCHANGED <<pausing, late>>
      <4>1. PICK n \in 0 .. Len(log) : cut' = (n < Len(log))
        BY <3>1 DEF ReadOutput
      <4> QED
        BY <3>0, <3>1, <4>1
    <3>2. CASE UNCHANGED cut /\ (UNCHANGED pausing \/ pausing' = TRUE)
      BY <3>0, <3>2
    <3> QED
      BY <2>3, <3>1, <3>2 DEF LookJob
  <2>4. ASSUME NEW s, LookWait(s) \/ LookWatch(s)
        PROVE  /\ pausing' \in BOOLEAN /\ late' \in BOOLEAN
               /\ UNCHANGED <<warned, exits, died, blind, cut>>
               /\ wrong' \in BOOLEAN /\ downs' \in BOOLEAN \X BOOLEAN
    <3>1. Observe(s)
      BY <2>4 DEF LookWait, LookWatch
    <3>2. wrong' \in BOOLEAN /\ downs' \in BOOLEAN \X BOOLEAN
      <4>1. CASE s = "error"
        BY <3>1, <4>1 DEF Observe
      <4>2. CASE s # "error"
        <5>1. wrong' = (s = "absent" /\ dep # "absent") /\ downs' = <<downs[2], ~Serving>>
          BY <3>1, <4>2 DEF Observe
        <5>2. downs[2] \in BOOLEAN
          OBVIOUS
        <5> QED
          BY <5>1, <5>2
      <4> QED
        BY <4>1, <4>2
    <3> QED
      BY <2>4, <3>2 DEF LookWait, LookWatch
  <2>5. ASSUME NEW s, NoteExits(s)
        PROVE  /\ UNCHANGED <<pausing, late, exits, died, cut, wrong, downs>>
               /\ warned' \in BOOLEAN /\ blind' \in BOOLEAN
    BY <2>5 DEF NoteExits
  <2> QED
    BY <1>3, <2>1, <2>2, <2>3, <2>4, <2>5 DEF RunConfig
<1>4. CASE Expire \/ Cancel
  BY <1>4 DEF Expire, Cancel
<1>5. CASE EvalJobEnds \/ \E p \in Part : StageJobEnds(p)
  BY <1>5 DEF EvalJobEnds, StageJobEnds
<1>6. CASE /\ (NomadStep /\ UNCHANGED blind) \/ (UserStop /\ UNCHANGED died)
           /\ UNCHANGED <<pc, cancelled, loopVars, runVars, stageVars, jobVars, seenVars>>
  BY <1>6 DEF NomadStep, UserStop, Measured
<1>7. CASE UNCHANGED vars
  BY <1>7 DEF vars
<1> QED
  BY <1>1, <1>2, <1>3, <1>4, <1>5, <1>6, <1>7 DEF Next, Execute, Environment

(* A step of stageDataset keeps the kinds.                                 *)
LEMMA StageKinds == Kinds /\ Stage => Kinds'
<1> SUFFICES ASSUME Kinds, Stage PROVE Kinds'
  OBVIOUS
<1>0. /\ UNCHANGED <<dataset, saved, reason, dep, job, log, looks>>
      /\ NumParts \in Nat /\ base \in 0 .. NumParts /\ next \in 0 .. NumParts
      /\ End \in 0 .. NumParts
  BY PartsNat, EndInRange DEF Stage, Kinds, depVars, jobVars, seenVars
<1> USE DEF Kinds, Goes, StageGoes, loopVars, BeginWait, EndBatch, PauseAt
<1>1. CASE StageNothing \/ StageRead
  BY <1>0, <1>1 DEF StageNothing, StageRead, PC, Stages, Waits
<1>2. CASE RegisterPart
  <2>1. next \in Part /\ next + 1 \in 0 .. NumParts
    BY <1>0, <1>2 DEF RegisterPart, Part
  <2> QED
    BY <1>0, <1>2, <2>1 DEF RegisterPart, JobStatus
<1>3. CASE RegisterPartFails
  <2>1. next \in Part
    BY <1>0, <1>3 DEF RegisterPartFails, Part
  <2>2. stage' \in [Part -> JobStatus] /\ excused' \in SUBSET Part
    BY <1>3, <2>1 DEF RegisterPartFails, JobStatus
  <2> QED
    BY <1>0, <1>3, <2>2 DEF RegisterPartFails, PC, Stages, Waits
<1>4. CASE BatchRegistered
  BY <1>0, <1>4 DEF BatchRegistered, PC, Stages, Waits
<1>5. CASE RoundDone \/ StageCancelled
  BY <1>0, <1>5 DEF RoundDone, StageCancelled, PC, Stages, Waits
<1>6. CASE BatchPurged
  BY <1>0, <1>6 DEF BatchPurged, PC, Stages, Waits
<1>7. CASE StageFails
  BY <1>0, <1>7 DEF StageFails, PC, Stages, Waits
<1>8. ASSUME NEW p \in Part, CheckPart(p) PROVE Kinds'
  BY <1>0, <1>8 DEF CheckPart, PC, Stages, Waits
<1>9. ASSUME NEW p \in Part, PurgePart(p) PROVE Kinds'
  BY <1>0, <1>9 DEF PurgePart, JobStatus
<1> QED
  BY <1>1, <1>2, <1>3, <1>4, <1>5, <1>6, <1>7, <1>8, <1>9 DEF Stage

(* A step of runConfig keeps the kinds.                                    *)
LEMMA ConfigKinds == Kinds /\ RunConfig => Kinds'
<1> SUFFICES ASSUME Kinds, RunConfig PROVE Kinds'
  OBVIOUS
<1>0. UNCHANGED stageVars
  BY DEF RunConfig
<1> USE DEF Kinds, Goes, FailConfig, runVars, loopVars, stageVars, depVars, jobVars, seenVars,
            PC, Stages, Waits, Reasons, BeginWait
<1>1. CASE DeployConfig \/ DeployConfigFails
  BY <1>0, <1>1 DEF DeployConfig, DeployConfigFails, Sight
<1>2. CASE WaitCancelled \/ WatchCancelled
  BY <1>0, <1>2 DEF WaitCancelled, WatchCancelled
<1>3. CASE RegisterEval \/ RegisterEvalFails
  BY <1>0, <1>3 DEF RegisterEval, RegisterEvalFails, JobStatus
<1>4. CASE LookJob
  BY <1>0, <1>4 DEF LookJob, ReadOutput, PauseAt
<1>5. CASE PurgeEval \/ Teardown
  BY <1>0, <1>5 DEF PurgeEval, Teardown, JobStatus, Sight
<1>6. ASSUME NEW s, LookWait(s) PROVE Kinds'
  <2>1. misses' \in 0 .. 2 /\ (misses' >= 2 => s = "absent")
    BY <1>6 DEF LookWait, WaitMisses
  <2>2. looks' \in 0 .. 2
    BY <1>6 DEF LookWait, Observe
  <2> QED
    BY <1>0, <1>6, <2>1, <2>2 DEF LookWait, PauseAt
<1>7. ASSUME NEW s, LookWatch(s) PROVE Kinds'
  <2>1. misses' \in 0 .. 2
    BY <1>7 DEF LookWatch, WatchMisses
  <2>2. looks' \in 0 .. 2
    BY <1>7 DEF LookWatch, Observe
  <2> QED
    BY <1>0, <1>7, <2>1, <2>2 DEF LookWatch
<1>8. ASSUME NEW s, NoteExits(s) PROVE Kinds'
  BY <1>0, <1>8 DEF NoteExits
<1> QED
  BY <1>1, <1>2, <1>3, <1>4, <1>5, <1>6, <1>7, <1>8 DEF RunConfig

LEMMA KindsNext == Kinds /\ [Next]_vars => Kinds'
<1> SUFFICES ASSUME Kinds, [Next]_vars PROVE Kinds'
  OBVIOUS
<1>1. CASE Stage
  BY <1>1, StageKinds
<1>2. CASE RunConfig
  BY <1>2, ConfigKinds
<1> USE DEF Kinds, runVars, loopVars, stageVars, depVars, jobVars, seenVars
<1>3. CASE Wake \/ Expire \/ Cancel
  BY <1>3 DEF Wake, Expire, Cancel
<1>4. ASSUME NEW p \in Part, StageJobEnds(p) PROVE Kinds'
  BY <1>4 DEF StageJobEnds, JobStatus
<1>5. CASE EvalJobEnds
  BY <1>5 DEF EvalJobEnds, JobStatus
<1>6. CASE /\ NomadStep \/ UserStop
           /\ UNCHANGED <<pc, cancelled, loopVars, runVars, stageVars, jobVars, seenVars>>
  BY <1>6 DEF NomadStep, UserStop, Serving, Sight
<1>7. CASE UNCHANGED vars
  BY <1>7 DEF vars
<1> QED
  BY <1>1, <1>2, <1>3, <1>4, <1>5, <1>6, <1>7 DEF Next, Execute, Environment

LEMMA TNext == TInv /\ [Next]_vars => TInv'
  BY FlagsNext, KindsNext DEF TInv

(* Types hold of every behaviour; in particular neither counter of missing *)
(* deployments passes the 2 at which its wait is given up.                 *)
THEOREM TypeCorrect == Spec => []TypeOK
<1>1. Spec => []TInv
  BY TInit, TNext, PTL DEF Spec
<1>2. TInv => TypeOK
  BY DEF TInv, Flags, Kinds, TypeOK
<1> QED
  BY <1>1, <1>2, PTL

-----------------------------------------------------------------------------
(* The counters of missing deployments.                                    *)

Before == Stages \union {"staged", "unstaged", "deploy"}
Given == {"removed", "stopped"}

(* Nothing has been given up while a wait goes on.                         *)
NotGivenUp == pc \in Before \union Waits \union {"register"} => reason = "none"

(* A miss is either an omission, which is not repeated, or an observation  *)
(* of a deployment that was down.                                          *)
MissIsSeen == pc \in Waits /\ misses >= 1 => wrong \/ downs[2]

(* Every look at a deployment that has been purged is a miss.              *)
LooksAreMisses ==
  /\ looks >= 1 => dep = "absent"
  /\ pc \in Before \union {"register"} => looks = 0
  /\ pc \in Waits => looks <= misses

GoneInv == NotGivenUp /\ MissIsSeen /\ GoneIsReal /\ LooksAreMisses

(* What a look shows when it does not show the deployment serving.         *)
LEMMA SightsMean ==
  ASSUME Kinds, NEW s \in Sights
  PROVE  /\ s \in {"ended", "stopped"} => s = dep
         /\ s = "absent" => dep = "absent" \/ ~wrong
         /\ dep = "absent" => s \in {"absent", "error"}
  BY DEF Kinds, Sights, Sight

(* One look, in either of the two loops.                                   *)
LEMMA LookKeeps ==
  ASSUME TInv, GoneInv, NEW s \in Sights, Observe(s), pc \in Waits,
         misses' = WaitMisses(s) \/ misses' = WatchMisses(s)
  PROVE  /\ misses' >= 1 => wrong' \/ downs'[2]
         /\ misses' >= 2 => downs'[1] \/ downs'[2]
         /\ looks' <= misses'
         /\ looks' >= 1 => dep = "absent"
         /\ s = "up" => looks' = 0
<1>1. misses \in 0 .. 1 /\ looks \in 0 .. 2 /\ looks <= misses
  BY DEF TInv, Kinds, GoneInv, LooksAreMisses
<1>2. CASE s = "error"
  <2>1. UNCHANGED <<wrong, downs, looks, misses>>
    BY <1>2 DEF Observe, seenVars, WaitMisses, WatchMisses
  <2> QED
    BY <1>1, <1>2, <2>1 DEF GoneInv, MissIsSeen, LooksAreMisses
<1>3. CASE s # "error"
  <2>1. /\ wrong' = (s = "absent" /\ dep # "absent")
        /\ downs' = <<downs[2], ~Serving>>
        /\ looks' = IF dep = "absent" /\ looks < 2 THEN looks + 1 ELSE looks
    BY <1>3 DEF Observe
  <2>2. downs'[1] = downs[2] /\ downs'[2] = ~Serving
    BY <2>1
  <2>3. CASE s \in {"absent", "ended", "stopped"} /\ misses' = misses + 1
    <3>1. wrong' \/ downs'[2]
      BY <2>1, <2>2, <2>3, SightsMean DEF Serving, TInv
    <3>2. misses' >= 2 => wrong \/ downs[2]
      BY <1>1, <2>3 DEF GoneInv, MissIsSeen
    <3>3. wrong => downs'[2]
      BY <2>2, <2>3, SightsMean DEF Serving, TInv
    <3>4. looks' <= misses' /\ (looks' >= 1 => dep = "absent")
      BY <1>1, <2>1, <2>3 DEF GoneInv, LooksAreMisses
    <3> QED
      BY <2>2, <2>3, <3>1, <3>2, <3>3, <3>4
  <2>4. CASE s \notin {"absent", "error"} /\ misses' = 0
    <3>1. dep # "absent" /\ looks' = looks /\ looks = 0
      BY <1>1, <2>1, <2>4, SightsMean DEF GoneInv, LooksAreMisses, TInv
    <3> QED
      BY <2>4, <3>1
  <2> QED
    BY <1>3, <2>3, <2>4 DEF WaitMisses, WatchMisses
<1> QED
  BY <1>2, <1>3

LEMMA GoneInit == Init => GoneInv
  BY DEF Init, GoneInv, NotGivenUp, MissIsSeen, GoneIsReal, LooksAreMisses, Stages, Waits, Before

LEMMA GoneNext == TInv /\ GoneInv /\ [Next]_vars => GoneInv'
<1> SUFFICES ASSUME TInv, GoneInv, [Next]_vars PROVE GoneInv'
  OBVIOUS
<1>k. Kinds
  BY DEF TInv
<1> USE DEF GoneInv, NotGivenUp, MissIsSeen, GoneIsReal, LooksAreMisses
<1>1. CASE UNCHANGED <<pc, misses, reason, dep, seenVars>>
  BY <1>1 DEF seenVars
<1>2. CASE Stage
  <2>1. UNCHANGED <<reason, dep, seenVars>> /\ pc \in Stages /\ pc' \in Before
    BY <1>k, <1>2 DEF Stage, depVars, seenVars, Stages, Before, Goes, StageGoes, StageNothing, StageRead,
       RegisterPart, RegisterPartFails, BatchRegistered, RoundDone, StageCancelled, EndBatch,
       PauseAt, BatchPurged, StageFails, CheckPart, PurgePart
  <2> QED
    BY <2>1 DEF seenVars, Before, Stages, Waits
<1>3. CASE RunConfig
  <2> USE DEF Goes, FailConfig, runVars, depVars, BeginWait
  <2>1. CASE DeployConfig
    BY <1>k, <2>1 DEF DeployConfig, Kinds, Before, Waits, Stages, seenVars
  <2>2. CASE DeployConfigFails
    BY <1>k, <2>2 DEF DeployConfigFails, Kinds, Before, Waits, Stages, seenVars
  <2>3. CASE WaitCancelled \/ WatchCancelled
    BY <2>3 DEF WaitCancelled, WatchCancelled, Before, Waits, Stages, seenVars
  <2>4. CASE RegisterEval
    BY <2>4 DEF RegisterEval, Before, Waits, Stages, seenVars
  <2>5. CASE RegisterEvalFails
    BY <2>5 DEF RegisterEvalFails, Before, Waits, Stages, seenVars
  <2>6. CASE LookJob
    BY <2>6 DEF LookJob, ReadOutput, PauseAt, Before, Waits, Stages, seenVars
  <2>7. CASE PurgeEval
    BY <2>7 DEF PurgeEval, Before, Waits, Stages, seenVars
  <2>8. CASE Teardown
    BY <1>k, <2>8 DEF Teardown, Before, Waits, Stages, seenVars
  <2>9. ASSUME NEW s, LookWait(s) PROVE GoneInv'
    <3>1. /\ s \in Sights /\ Observe(s) /\ pc \in Waits /\ dep' = dep
          /\ misses' = WaitMisses(s)
      BY <2>9 DEF LookWait, Waits
    <3>2. /\ misses' >= 1 => wrong' \/ downs'[2]
          /\ misses' >= 2 => downs'[1] \/ downs'[2]
          /\ looks' <= misses'
          /\ looks' >= 1 => dep = "absent"
          /\ s = "up" => looks' = 0
      BY <3>1, LookKeeps
    <3>3. reason = "none"
      BY <3>1
    <3>4. \/ pc' = "exits" /\ reason' = "removed" /\ misses' >= 2
          \/ pc' = "exits" /\ reason' \notin Given
          \/ pc' = "register" /\ reason' = reason /\ s = "up"
          \/ pc' = "wait" /\ reason' = reason
      BY <2>9 DEF LookWait, PauseAt, Given
    <3> QED
      BY <3>1, <3>2, <3>3, <3>4 DEF Before, Waits, Stages, Given
  <2>10. ASSUME NEW s, LookWatch(s) PROVE GoneInv'
    <3>1. /\ s \in Sights /\ Observe(s) /\ pc \in Waits /\ dep' = dep
          /\ misses' = WatchMisses(s)
      BY <2>10 DEF LookWatch, Waits
    <3>2. /\ misses' >= 1 => wrong' \/ downs'[2]
          /\ misses' >= 2 => downs'[1] \/ downs'[2]
          /\ looks' <= misses'
          /\ looks' >= 1 => dep = "absent"
      BY <3>1, LookKeeps
    <3>3. reason = "none"
      BY <3>1
    <3>4. \/ pc' = "purge" /\ misses' >= 2
          \/ pc' = "watchJob" /\ reason' = reason
      BY <2>10 DEF LookWatch
    <3> QED
      BY <3>1, <3>2, <3>3, <3>4 DEF Before, Waits, Stages
  <2>11. ASSUME NEW s, NoteExits(s) PROVE GoneInv'
    BY <2>11 DEF NoteExits, Before, Waits, Stages, seenVars
  <2> QED
    BY <1>3, <2>1, <2>2, <2>3, <2>4, <2>5, <2>6, <2>7, <2>8, <2>9, <2>10, <2>11 DEF RunConfig
<1>4. CASE /\ NomadStep \/ UserStop
           /\ UNCHANGED <<pc, cancelled, loopVars, runVars, stageVars, jobVars, seenVars>>
  <2>1. UNCHANGED <<pc, misses, reason, seenVars>> /\ (dep = "absent" => dep' = "absent")
    BY <1>4 DEF NomadStep, UserStop, Serving, loopVars, runVars
  <2> QED
    BY <2>1 DEF seenVars
<1>5. CASE Wake \/ Expire \/ Cancel \/ EvalJobEnds \/ \E p \in Part : StageJobEnds(p)
  BY <1>1, <1>5 DEF Wake, Expire, Cancel, EvalJobEnds, StageJobEnds, loopVars, runVars, depVars,
     seenVars
<1>6. CASE UNCHANGED vars
  BY <1>1, <1>6 DEF vars, loopVars, runVars, depVars
<1> QED
  BY <1>2, <1>3, <1>4, <1>5, <1>6 DEF Next, Execute, Environment

(* A run is given up for a missing deployment only if it was down at one   *)
(* of the last two listings, however often listings fail or omit it        *)
(* ("two in a row means the job was purged", waitHealthy and watchEval).   *)
THEOREM NotGivenUpForAMiss == Spec => []GoneIsReal
<1>1. Spec => [](TInv /\ GoneInv)
  BY TInit, TNext, GoneInit, GoneNext, PTL DEF Spec
<1>2. TInv /\ GoneInv => GoneIsReal
  BY DEF GoneInv
<1> QED
  BY <1>1, <1>2, PTL

(* Once the deployment has been purged, the second listing ends the wait:  *)
(* a failed listing between the two does not start the count anew.         *)
THEOREM PurgeIsNoticed == Spec => []GoneIsNoticed
<1>1. Spec => [](TInv /\ GoneInv)
  BY TInit, TNext, GoneInit, GoneNext, PTL DEF Spec
<1>2. TInv /\ GoneInv => GoneIsNoticed
  BY DEF TInv, Kinds, GoneInv, LooksAreMisses, GoneIsNoticed
<1> QED
  BY <1>1, <1>2, PTL

-----------------------------------------------------------------------------
(* The exits of the model server.                                          *)

(* A death is still to be read from the allocation when the exits are,     *)
(* and the allocation is still there, unless a user purged it.             *)
DeathShows == Measured /\ died => (exits /\ dep # "absent") \/ blind

LEMMA ExitsInit == Init => DeathShows /\ ExitsReported
  BY DEF Init, DeathShows, ExitsReported

LEMMA ExitsNext == DeathShows /\ ExitsReported /\ [Next]_vars => DeathShows' /\ ExitsReported'
<1> SUFFICES ASSUME DeathShows, ExitsReported, [Next]_vars PROVE DeathShows' /\ ExitsReported'
  OBVIOUS
<1> USE DEF DeathShows, ExitsReported, Measured
<1>1. CASE UNCHANGED <<pc, result, warned, depVars>>
  BY <1>1 DEF depVars
<1>2. CASE Stage
  <2>1. /\ UNCHANGED <<warned, dep, exits, died, blind>>
        /\ pc \in Stages /\ pc' \in Stages \union {"staged", "unstaged"}
    BY <1>2 DEF Stage, depVars, Stages, Goes, StageGoes, StageNothing, StageRead,
       RegisterPart, RegisterPartFails, BatchRegistered, RoundDone, StageCancelled, EndBatch,
       PauseAt, BatchPurged, StageFails, CheckPart, PurgePart
  <2> QED
    BY <2>1 DEF Stages
<1>3. CASE RunConfig
  <2>1. CASE DeployConfig \/ DeployConfigFails \/ WaitCancelled \/ WatchCancelled \/ RegisterEval
             \/ RegisterEvalFails
             \/ \E s \in {"absent", "starting", "up", "ended", "stopped", "error"} :
                  LookWait(s) \/ LookWatch(s)
    <3>1. /\ UNCHANGED <<exits, died, blind>>
          /\ dep' = dep \/ dep' = "starting"
          /\ pc \notin {"teardown", "saved"}
          /\ pc' = "saved" => FALSE
          /\ pc' = "teardown" => result' = "failed"
      BY <2>1 DEF DeployConfig, DeployConfigFails, WaitCancelled, WatchCancelled, RegisterEval,
         RegisterEvalFails, LookWait, LookWatch, FailConfig, Goes, depVars, PauseAt
    <3> QED
      BY <3>1
  <2>2. CASE LookJob \/ PurgeEval
    <3>1. /\ UNCHANGED <<dep, exits, died, blind>>
          /\ pc \in {"watchJob", "purge"} /\ pc' \in {"watch", "purge", "exits"}
      BY <2>2 DEF LookJob, ReadOutput, PauseAt, FailConfig, PurgeEval, Goes, depVars
    <3> QED
      BY <3>1
  <2>3. CASE Teardown
    BY <2>3 DEF Teardown, Goes, runVars
  <2>4. ASSUME NEW s, NoteExits(s) PROVE DeathShows' /\ ExitsReported'
    BY <2>4 DEF NoteExits, Goes
  <2> QED
    BY <1>3, <2>1, <2>2, <2>3, <2>4 DEF RunConfig
<1>4. CASE /\ (NomadStep /\ UNCHANGED blind) \/ (UserStop /\ UNCHANGED died)
           /\ UNCHANGED <<pc, cancelled, loopVars, runVars, stageVars, jobVars, seenVars>>
  <2>1. UNCHANGED <<pc, result, warned>>
    BY <1>4 DEF runVars
  <2>2. CASE NomadStep /\ UNCHANGED blind
    <3>1. Measured => /\ UNCHANGED <<exits, died>> \/ exits' = TRUE \/ died' = FALSE
                      /\ dep' # "absent"
      BY <2>2 DEF NomadStep, Serving
    <3>2. ~Measured => (died' => died)
      BY <2>2 DEF NomadStep
    <3> QED
      BY <2>1, <2>2, <3>1, <3>2
  <2>3. CASE UserStop /\ UNCHANGED died
    BY <2>1, <2>3 DEF UserStop
  <2> QED
    BY <1>4, <2>2, <2>3
<1>5. CASE Wake \/ Expire \/ Cancel \/ EvalJobEnds \/ \E p \in Part : StageJobEnds(p)
  BY <1>1, <1>5 DEF Wake, Expire, Cancel, EvalJobEnds, StageJobEnds, runVars
<1>6. CASE UNCHANGED vars
  BY <1>1, <1>6 DEF vars, runVars
<1> QED
  BY <1>2, <1>3, <1>4, <1>5, <1>6 DEF Next, Execute, Environment

(* A measurement during which the server died carries the warning: its     *)
(* exits are read before the teardown removes them (noteServerExits).      *)
THEOREM DeathsAreReported == Spec => []ExitsReported
  BY ExitsInit, ExitsNext, PTL DEF Spec

-----------------------------------------------------------------------------
(* The staging of the dataset.                                             *)

InBatch == {"stageRegister", "stagePoll", "stagePurge"}

(* The jobs of the batch are those of the parts base, ..., next - 1, and   *)
(* between two batches there are none.                                     *)
BatchIs ==
  /\ pc = "stage" => base = 0 /\ next = 0
  /\ pc = "stageRegister" => base <= next /\ next <= End /\ mine = base .. next - 1
  /\ pc = "stagePoll" => next = End /\ mine = base .. End - 1
  /\ pc = "stagePurge" => mine \subseteq base .. End - 1 /\ (~stageErr => next = End)
  /\ pc \notin InBatch => mine = {}

(* What has been waited for is on the share.                               *)
WaitedFor ==
  /\ \A p \in Part : stage[p] = "complete" => p \in share
  /\ pc \in InBatch => 0 .. base - 1 \subseteq share
  /\ pc = "stagePoll" => mine \ pending \subseteq share
  /\ pc = "stagePurge" /\ ~stageErr => base .. End - 1 \subseteq share
  /\ pc = "staged" /\ dataset = "kept" => Part \subseteq share

(* A staging job that exists is one of the batch, or an error hides it.    *)
JobsHeld == \A p \in Part : stage[p] # "absent" => p \in mine \union excused

StageInv == BatchIs /\ WaitedFor /\ JobsHeld

LEMMA StageInit == Init => StageInv
<1> SUFFICES ASSUME Init PROVE StageInv
  OBVIOUS
<1>1. BatchIs /\ JobsHeld
  BY DEF Init, BatchIs, JobsHeld, InBatch
<1>2. WaitedFor
  BY DEF Init, WaitedFor, InBatch
<1> QED
  BY <1>1, <1>2 DEF StageInv

LEMMA StageNext == TInv /\ StageInv /\ [Next]_vars => StageInv'
<1> SUFFICES ASSUME TInv, StageInv, [Next]_vars PROVE StageInv'
  OBVIOUS
<1>0. /\ Kinds /\ NumParts \in Nat /\ Parallel \in Nat \ {0}
      /\ base \in 0 .. NumParts /\ next \in 0 .. NumParts
      /\ End \in 0 .. NumParts /\ End >= base
      /\ BatchIs /\ WaitedFor /\ JobsHeld
  BY PartsNat, EndInRange, ParallelAssumption DEF TInv, Kinds, StageInv
<1>s. stage \in [Part -> JobStatus] /\ stageErr \in BOOLEAN /\ mine \subseteq Part
  BY DEF TInv, Flags, Kinds
<1>1. CASE UNCHANGED <<dataset, base, next, mine, pending, stageErr, stage, share, excused>>
           /\ \/ pc' = pc
              \/ pc \notin Stages \union {"staged"} /\ pc' \notin Stages \union {"staged"}
  BY <1>0, <1>1 DEF StageInv, BatchIs, WaitedFor, JobsHeld, InBatch, End, Stages
<1>2. CASE Stage
  <2> USE DEF Goes, StageGoes, EndBatch, PauseAt, InBatch
  <2>1. CASE StageNothing \/ StageRead
    <3>1. UNCHANGED <<dataset, base, next, mine, stage, share, excused>> /\ End' = End
          /\ pc = "stage"
      BY <1>2, <2>1 DEF Stage, StageNothing, StageRead, End
    <3>2. pc' \in {"stageRegister", "stageFailed"} \/ (pc' = "staged" /\ dataset = "none")
      BY <2>1 DEF StageNothing, StageRead
    <3>3. mine = {} /\ base = 0 /\ next = 0 /\ 0 .. base - 1 = {} /\ base .. next - 1 = {}
      BY <1>0, <3>1 DEF BatchIs
    <3> QED
      BY <1>0, <3>1, <3>2, <3>3 DEF StageInv, BatchIs, WaitedFor, JobsHeld
  <2>2. CASE RegisterPart
    <3>1. next \in Part /\ End' = End
      BY <1>0, <2>2 DEF RegisterPart, Part, End
    <3>2. BatchIs'
      BY <1>0, <2>2, <3>1 DEF RegisterPart, BatchIs
    <3>3. WaitedFor' /\ JobsHeld'
      BY <1>0, <1>s, <2>2, <3>1 DEF RegisterPart, WaitedFor, JobsHeld
    <3> QED
      BY <3>2, <3>3 DEF StageInv
  <2>3. CASE RegisterPartFails
    <3>1. next \in Part /\ End' = End
      BY <1>0, <2>3 DEF RegisterPartFails, Part, End
    <3>2. BatchIs'
      BY <1>0, <2>3, <3>1 DEF RegisterPartFails, BatchIs
    <3>3. WaitedFor' /\ JobsHeld'
      BY <1>0, <1>s, <2>3, <3>1 DEF RegisterPartFails, WaitedFor, JobsHeld
    <3> QED
      BY <3>2, <3>3 DEF StageInv
  <2>4. CASE BatchRegistered
    BY <1>0, <2>4 DEF BatchRegistered, StageInv, BatchIs, WaitedFor, JobsHeld, End
  <2>5. CASE RoundDone \/ StageCancelled
    <3>1. End' = End
      BY <2>5 DEF RoundDone, StageCancelled, End
    <3> QED
      BY <1>0, <2>5, <3>1 DEF RoundDone, StageCancelled, StageInv, BatchIs, WaitedFor, JobsHeld
  <2>6. CASE BatchPurged
    <3>1. CASE stageErr
      BY <1>0, <2>6, <3>1 DEF BatchPurged, StageInv, BatchIs, WaitedFor, JobsHeld
    <3>2. CASE ~stageErr
      <4>1. /\ base' = End /\ next = End /\ mine = {} /\ 0 .. End - 1 \subseteq share
            /\ UNCHANGED <<next, mine, stageErr, stage, share, excused>>
        BY <1>0, <2>6, <3>2 DEF BatchPurged, BatchIs, WaitedFor
      <4>2. CASE End < NumParts
        <5>1. pc' = "stageRegister" /\ End' \in 0 .. NumParts /\ End' >= End
          BY <1>0, <2>6, <3>2, <4>1, <4>2 DEF BatchPurged, End
        <5> QED
          BY <1>0, <4>1, <5>1 DEF StageInv, BatchIs, WaitedFor, JobsHeld
      <4>3. CASE ~(End < NumParts)
        <5>1. pc' = "staged" /\ End = NumParts
          BY <1>0, <2>6, <3>2, <4>3 DEF BatchPurged
        <5> QED
          BY <1>0, <4>1, <5>1 DEF StageInv, BatchIs, WaitedFor, JobsHeld, Part
      <4> QED
        BY <4>2, <4>3
    <3> QED
      BY <3>1, <3>2
  <2>7. CASE StageFails
    BY <1>0, <2>7 DEF StageFails, StageInv, BatchIs, WaitedFor, JobsHeld
  <2>8. ASSUME NEW p \in Part, CheckPart(p) PROVE StageInv'
    <3>1. UNCHANGED <<base, next, mine, stage, share, excused>> /\ End' = End /\ pc = "stagePoll"
      BY <2>8 DEF CheckPart, End
    <3>2. \/ pc' = "stagePurge" /\ stageErr'
          \/ pc' = pc /\ (pending' = pending \/ (stage[p] = "complete" /\ pending' = pending \ {p}))
      BY <2>8 DEF CheckPart
    <3> QED
      BY <1>0, <3>1, <3>2 DEF StageInv, BatchIs, WaitedFor, JobsHeld
  <2>9. ASSUME NEW p \in Part, PurgePart(p) PROVE StageInv'
    <3>1. /\ End' = End /\ UNCHANGED <<pc, base, next, stageErr, share>>
          /\ pc = "stagePurge" /\ mine' = mine \ {p}
      BY <2>9 DEF PurgePart, End
    <3>2. \A q \in Part : stage'[q] # "absent" => q \in mine' \union excused'
      BY <1>0, <1>s, <2>9 DEF PurgePart, JobsHeld
    <3>3. \A q \in Part : stage'[q] = "complete" => q \in share'
      BY <1>0, <1>s, <2>9, <3>1 DEF PurgePart, WaitedFor
    <3> QED
      BY <1>0, <3>1, <3>2, <3>3 DEF StageInv, BatchIs, WaitedFor, JobsHeld
  <2> QED
    BY <1>2, <2>1, <2>2, <2>3, <2>4, <2>5, <2>6, <2>7, <2>8, <2>9 DEF Stage
<1>3. CASE RunConfig
  <2>1. /\ UNCHANGED stageVars
        /\ pc \notin Stages \union {"staged"} /\ pc' \notin Stages \union {"staged"}
    BY <1>3 DEF RunConfig, Goes, DeployConfig, DeployConfigFails, WaitCancelled, WatchCancelled,
       RegisterEval, RegisterEvalFails, LookWait, LookWatch, LookJob, ReadOutput, FailConfig,
       PauseAt, PurgeEval, NoteExits, Teardown, Stages
  <2> QED
    BY <1>1, <2>1 DEF stageVars
<1>4. ASSUME NEW p \in Part, StageJobEnds(p) PROVE StageInv'
  <2>1. UNCHANGED <<pc, dataset, base, next, mine, pending, stageErr, excused>> /\ End' = End
        /\ share \subseteq share' /\ stage[p] = "live"
    BY <1>4 DEF StageJobEnds, End
  <2>2. \A q \in Part : stage'[q] # "absent" => stage[q] # "absent"
    BY <1>s, <1>4 DEF StageJobEnds
  <2>3. \A q \in Part : stage'[q] = "complete" => q \in share'
    BY <1>0, <1>s, <1>4 DEF StageJobEnds, WaitedFor
  <2> QED
    BY <1>0, <2>1, <2>2, <2>3 DEF StageInv, BatchIs, WaitedFor, JobsHeld
<1>5. CASE Wake \/ Expire \/ Cancel \/ EvalJobEnds
             \/ (UNCHANGED pc /\ UNCHANGED stageVars)
  BY <1>1, <1>5 DEF Wake, Expire, Cancel, EvalJobEnds, stageVars
<1>6. CASE UNCHANGED vars
  BY <1>1, <1>6 DEF vars, stageVars
<1> QED
  BY <1>2, <1>3, <1>4, <1>5, <1>6 DEF Next, Execute, Environment

(* At most stageParallel staging jobs exist at a time, and none is left    *)
(* when stageDataset returns, except where a call had an error.            *)
THEOREM StagingIsCleanedUp == Spec => []StagingLeavesNothing
<1>1. Spec => [](TInv /\ StageInv)
  BY TInit, TNext, StageInit, StageNext, PTL DEF Spec
<1>2. TInv /\ StageInv => StagingLeavesNothing
  <2> SUFFICES ASSUME TInv, StageInv PROVE StagingLeavesNothing
    OBVIOUS
  <2> DEFINE left == {p \in Part : stage[p] # "absent"} \ excused
  <2>1. left \subseteq mine
    BY DEF StageInv, JobsHeld
  <2>2. /\ base \in 0 .. NumParts /\ next \in 0 .. NumParts /\ NumParts \in Nat
        /\ End \in 0 .. NumParts /\ End >= base /\ End <= base + Parallel /\ Parallel \in Nat
    BY PartsNat, EndInRange, ParallelAssumption DEF TInv, Kinds, End
  <2>3. mine \subseteq base .. End - 1
    BY <2>2 DEF StageInv, BatchIs, InBatch
  <2>4. IsFiniteSet(base .. End - 1) /\ Cardinality(base .. End - 1) <= Parallel
    <3>1. base \in Int /\ End - 1 \in Int
      BY <2>2
    <3>2. IsFiniteSet(base .. End - 1)
          /\ Cardinality(base .. End - 1) = IF base > End - 1 THEN 0 ELSE (End - 1) - base + 1
      BY <3>1, FS_Interval
    <3> QED
      BY <2>2, <3>2
  <2>5. left \in SUBSET (base .. End - 1)
    BY <2>1, <2>3
  <2>6. IsFiniteSet(left) /\ Cardinality(left) <= Cardinality(base .. End - 1)
    BY <2>4, <2>5, FS_Subset
  <2>7. Cardinality(left) <= Parallel
    <3>1. Cardinality(left) \in Nat /\ Cardinality(base .. End - 1) \in Nat
      BY <2>4, <2>6, FS_CardinalityType
    <3> QED
      BY <2>2, <2>4, <2>6, <3>1
  <2>8. pc \in StagingOver => left = {}
    BY <2>1 DEF StageInv, BatchIs, InBatch, StagingOver
  <2> QED
    BY <2>7, <2>8 DEF StagingLeavesNothing
<1> QED
  BY <1>1, <1>2, PTL

(* Every position of the dataset is in a part.                             *)
LEMMA PartsCover ==
  ASSUME NEW i \in 1 .. Size
  PROVE  \E p \in Part : i \in Content(p)
<1>1. Size \in Nat \ {0} /\ Chunk \in Nat \ {0}
  BY SizeAssumption, ChunkAssumption
<1> DEFINE p == (i - 1) \div Chunk
           n == Size + Chunk - 1
<1>2. p \in Nat /\ p * Chunk <= i - 1 /\ i - 1 < (p + 1) * Chunk
  <2>1. i - 1 \in Nat
    OBVIOUS
  <2> DEFINE j == i - 1
  <2>2. /\ j \div Chunk \in Nat
        /\ (j \div Chunk) * Chunk <= j
        /\ j < ((j \div Chunk) + 1) * Chunk
    <3> HIDE DEF j
    <3> QED
      BY <1>1, <2>1, SMTT(30) DEF j
  <2> QED
    BY <2>2
<1>3. NumParts \in Nat /\ n < (NumParts + 1) * Chunk
  BY <1>1, SMTT(30) DEF NumParts
<1>4. p < NumParts
  BY <1>1, <1>2, <1>3, SMTT(30)
<1>5. p \in Part /\ i \in Content(p)
  BY <1>1, <1>2, <1>3, <1>4 DEF Part, Content
<1> QED
  BY <1>5

(* When stageDataset succeeds, the parts on the share are the dataset,     *)
(* whatever its size, the size of a part and the number of jobs at a time. *)
THEOREM StagingIsWhole == Spec => []StagedWhole
<1>1. Spec => [](TInv /\ StageInv)
  BY TInit, TNext, StageInit, StageNext, PTL DEF Spec
<1>2. TInv /\ StageInv => StagedWhole
  <2> SUFFICES ASSUME TInv, StageInv, pc = "staged", dataset = "kept"
               PROVE  UNION {Content(p) : p \in share} = 1 .. Size
    BY DEF StagedWhole
  <2>1. share = Part
    BY DEF StageInv, WaitedFor, TInv, Kinds
  <2>2. \A p \in Part : Content(p) \subseteq 1 .. Size
    BY DEF Content
  <2> QED
    BY <2>1, <2>2, PartsCover
<1> QED
  BY <1>1, <1>2, PTL

-----------------------------------------------------------------------------
(* The output of the eval job.  What Normalize and TextFrom compute is     *)
(* recursive: induction over it is done with the least number for which    *)
(* something goes wrong.                                                   *)

Line == Seq({"noise", "head", "tail"})
LogEntry == [mark: {"P", "F", "raw"}, text: Line]

(* A set of numbers that is not empty has a least one.                     *)
LEMMA LeastNumber ==
  ASSUME NEW T, T \subseteq Nat, T # {}
  PROVE  \E x \in T : \A y \in T : x <= y
<1>1. IsWellFoundedOn(OpToRel(<, Nat), Nat)
  BY NatLessThanWellFounded
<1>2. PICK x \in T : \A y \in T : <<y, x>> \notin OpToRel(<, Nat)
  BY <1>1, WFMin
<1>3. \A y \in T : ~(y < x)
  BY <1>2 DEF OpToRel
<1> QED
  BY <1>3

(* What Normalize does with the next entry.                                *)
Joined(lines, entry) ==
  LET line == lines[Len(lines)] \o entry.text
      done == SubSeq(lines, 1, Len(lines) - 1)
  IN  IF entry.mark = "P" THEN Append(done, line) ELSE done \o <<line, <<>> >>

(* f is what Normalize has after each of the first n entries.              *)
Joins(entries, n, f) ==
  f = [i \in 0 .. n |-> IF i = 0 THEN << <<>> >> ELSE Joined(f[i - 1], entries[i])]

(* f is the text from entry m on, after each of the first n entries.       *)
Adds(entries, m, n, f) ==
  f = [i \in 0 .. n |-> IF i < m THEN <<>> ELSE f[i - 1] \o entries[i].text]

(* Both recursions define a function, whatever they go through.            *)
LEMMA JoinsExist ==
  ASSUME NEW entries, NEW n \in Nat
  PROVE  \E f : Joins(entries, n, f)
<1> DEFINE T == {m \in Nat : ~\E f : Joins(entries, m, f)}
<1>1. SUFFICES ASSUME T # {} PROVE FALSE
  OBVIOUS
<1>2. PICK m \in T : \A k \in T : m <= k
  BY <1>1, LeastNumber
<1>3. m # 0
  <2>1. Joins(entries, 0, [i \in 0 .. 0 |-> << <<>> >>])
    BY DEF Joins
  <2> QED
    BY <2>1
<1>4. PICK f : Joins(entries, m - 1, f)
  BY <1>2, <1>3
<1> DEFINE g == [i \in 0 .. m |-> IF i = m THEN Joined(f[m - 1], entries[m]) ELSE f[i]]
<1>5. Joins(entries, m, g)
  <2>1. ASSUME NEW i \in 0 .. m
        PROVE  g[i] = IF i = 0 THEN << <<>> >> ELSE Joined(g[i - 1], entries[i])
    <3>1. CASE i = m
      <4>1. g[m - 1] = f[m - 1] /\ g[m] = Joined(f[m - 1], entries[m])
        BY <1>3
      <4> QED
        BY <3>1, <4>1, <1>3
    <3>2. CASE i # m
      <4>1. g[i] = f[i] /\ i \in 0 .. m - 1
        BY <3>2
      <4>2. f[i] = IF i = 0 THEN << <<>> >> ELSE Joined(f[i - 1], entries[i])
        BY <1>4, <4>1 DEF Joins
      <4>3. i # 0 => g[i - 1] = f[i - 1]
        BY <3>2, <4>1
      <4> HIDE DEF g
      <4> QED
        BY <4>1, <4>2, <4>3
    <3> QED
      BY <3>1, <3>2
  <2> HIDE DEF g
  <2>2. g = [i \in 0 .. m |-> g[i]]
    BY DEF g
  <2> QED
    BY <2>1, <2>2 DEF Joins
<1> QED
  BY <1>5

LEMMA AddsExist ==
  ASSUME NEW entries, NEW m \in Nat \ {0}, NEW n \in Nat
  PROVE  \E f : Adds(entries, m, n, f)
<1> DEFINE T == {k \in Nat : ~\E f : Adds(entries, m, k, f)}
<1>1. SUFFICES ASSUME T # {} PROVE FALSE
  OBVIOUS
<1>2. PICK k \in T : \A j \in T : k <= j
  BY <1>1, LeastNumber
<1>3. k # 0
  <2>1. Adds(entries, m, 0, [i \in 0 .. 0 |-> <<>>])
    BY DEF Adds
  <2> QED
    BY <2>1
<1>4. PICK f : Adds(entries, m, k - 1, f)
  BY <1>2, <1>3
<1> DEFINE g == [i \in 0 .. k |-> IF i < k THEN f[i] ELSE IF i < m THEN <<>>
                                  ELSE f[k - 1] \o entries[k].text]
<1>5. Adds(entries, m, k, g)
  <2>1. ASSUME NEW i \in 0 .. k
        PROVE  g[i] = IF i < m THEN <<>> ELSE g[i - 1] \o entries[i].text
    <3>1. CASE i = k
      <4>1. g[k - 1] = f[k - 1] /\ g[k] = IF k < m THEN <<>> ELSE f[k - 1] \o entries[k].text
        BY <1>3
      <4> HIDE DEF g
      <4> QED
        BY <3>1, <4>1
    <3>2. CASE i # k
      <4>1. g[i] = f[i] /\ i \in 0 .. k - 1
        BY <3>2
      <4>2. f[i] = IF i < m THEN <<>> ELSE f[i - 1] \o entries[i].text
        BY <1>4, <4>1 DEF Adds
      <4>3. ~(i < m) => g[i - 1] = f[i - 1]
        BY <3>2, <4>1
      <4> HIDE DEF g
      <4> QED
        BY <4>1, <4>2, <4>3
    <3> QED
      BY <3>1, <3>2
  <2>2. g = [i \in 0 .. k |-> g[i]]
    OBVIOUS
  <2> HIDE DEF g
  <2> QED
    BY <2>1, <2>2 DEF Adds
<1> QED
  BY <1>5

(* ... and how far the second one goes does not matter.                    *)
LEMMA AddsAgree ==
  ASSUME NEW entries, NEW m \in Nat \ {0}, NEW n \in Nat, NEW k \in 0 .. n,
         NEW f, Adds(entries, m, n, f), NEW g, Adds(entries, m, k, g)
  PROVE  f[k] = g[k]
<1> DEFINE T == {i \in 0 .. k : f[i] # g[i]}
<1>1. SUFFICES ASSUME T # {} PROVE FALSE
  OBVIOUS
<1>2. PICK i \in T : \A j \in T : i <= j
  <2>1. T \subseteq Nat
    OBVIOUS
  <2> HIDE DEF T
  <2> QED
    BY <1>1, <2>1, LeastNumber
<1>0. i \in 0 .. k /\ i \in 0 .. n /\ n \in Nat /\ k \in Nat
  OBVIOUS
<1>3. /\ f[i] = IF i < m THEN <<>> ELSE f[i - 1] \o entries[i].text
      /\ g[i] = IF i < m THEN <<>> ELSE g[i - 1] \o entries[i].text
  <2>1. \A j \in 0 .. n : f[j] = IF j < m THEN <<>> ELSE f[j - 1] \o entries[j].text
    BY Zenon DEF Adds
  <2>2. \A j \in 0 .. k : g[j] = IF j < m THEN <<>> ELSE g[j - 1] \o entries[j].text
    BY Zenon DEF Adds
  <2> QED
    BY <1>0, <2>1, <2>2, Zenon
<1>4. ~(i < m) => f[i - 1] = g[i - 1]
  BY <1>0, <1>2
<1>5. f[i] = g[i]
  BY <1>3, <1>4, Zenon
<1> QED
  BY <1>2, <1>5

(* TextFrom by its last entry.                                             *)
LEMMA TextIs ==
  ASSUME NEW entries, NEW m \in Nat \ {0}, NEW n \in Nat
  PROVE  \E f : Adds(entries, m, n, f) /\ TextFrom(entries, m, n) = f[n]
<1>1. \E f : Adds(entries, m, n, f)
  BY AddsExist
<1>2. TextFrom(entries, m, n) = (CHOOSE f : Adds(entries, m, n, f))[n]
  BY DEF TextFrom, Adds
<1> QED
  BY <1>1, <1>2

LEMMA TextGrows ==
  ASSUME NEW entries, NEW m \in Nat \ {0}, NEW n \in Nat
  PROVE  TextFrom(entries, m, n) =
           IF n < m THEN <<>> ELSE TextFrom(entries, m, n - 1) \o entries[n].text
<1>1. PICK f : Adds(entries, m, n, f) /\ TextFrom(entries, m, n) = f[n]
  BY TextIs
<1>2. f[n] = IF n < m THEN <<>> ELSE f[n - 1] \o entries[n].text
  <2>1. \A i \in 0 .. n : f[i] = IF i < m THEN <<>> ELSE f[i - 1] \o entries[i].text
    BY <1>1, Zenon DEF Adds
  <2>2. n \in 0 .. n
    OBVIOUS
  <2> QED
    BY <2>1, <2>2, Zenon
<1>3. CASE n < m
  BY <1>1, <1>2, <1>3
<1>4. CASE ~(n < m)
  <2>1. n - 1 \in Nat /\ n - 1 \in 0 .. n
    BY <1>4
  <2>2. PICK g : Adds(entries, m, n - 1, g) /\ TextFrom(entries, m, n - 1) = g[n - 1]
    BY <2>1, TextIs
  <2>3. f[n - 1] = g[n - 1]
    BY <1>1, <2>1, <2>2, AddsAgree
  <2> QED
    BY <1>1, <1>2, <1>4, <2>2, <2>3
<1> QED
  BY <1>3, <1>4

(* Normalize is its recursion.                                             *)
LEMMA NormalizeIs ==
  ASSUME NEW entries, Len(entries) \in Nat
  PROVE  \E f : Joins(entries, Len(entries), f) /\ Normalize(entries) = f[Len(entries)]
<1>1. \E f : Joins(entries, Len(entries), f)
  BY JoinsExist
<1>2. Normalize(entries) = (CHOOSE f : Joins(entries, Len(entries), f))[Len(entries)]
  BY DEF Normalize, Joins, Joined
<1> QED
  BY <1>1, <1>2

(* An entry continues the last line; if it is not marked P, it ends it and *)
(* an empty one follows.                                                   *)
LEMMA JoinedIs ==
  ASSUME NEW lines \in Seq(Line), Len(lines) >= 1,
         NEW entry \in LogEntry
  PROVE  /\ Joined(lines, entry) \in Seq(Line)
         /\ \A j \in 1 .. Len(lines) - 1 : Joined(lines, entry)[j] = lines[j]
         /\ Joined(lines, entry)[Len(lines)] = lines[Len(lines)] \o entry.text
         /\ entry.mark = "P" => Len(Joined(lines, entry)) = Len(lines)
         /\ entry.mark # "P" => /\ Len(Joined(lines, entry)) = Len(lines) + 1
                                /\ Joined(lines, entry)[Len(lines) + 1] = <<>>
<1> DEFINE n == Len(lines)
           line == lines[n] \o entry.text
           done == SubSeq(lines, 1, n - 1)
<1>1. n \in Nat /\ n >= 1
  OBVIOUS
<1>2. line \in Line /\ <<>> \in Line
  <2>1. lines[n] \in Line /\ entry.text \in Line
    BY <1>1, ElementOfSeq DEF LogEntry
  <2> QED
    BY <2>1 DEF Line
<1>3. done \in Seq(Line) /\ Len(done) = n - 1 /\ \A j \in 1 .. n - 1 : done[j] = lines[j]
  <2>1. 1 \in 1 .. n + 1 /\ n - 1 \in 1 - 1 .. n
    BY <1>1
  <2>2. /\ done \in Seq(Line)
        /\ Len(done) = IF 1 <= n - 1 THEN (n - 1) - 1 + 1 ELSE 0
        /\ \A j \in 1 .. (n - 1) - 1 + 1 : done[j] = lines[1 + j - 1]
    <3> HIDE DEF Line
    <3> QED
      BY <2>1, SubSeqProperties
  <2>3. \A j \in 1 .. n - 1 : j \in 1 .. (n - 1) - 1 + 1 /\ 1 + j - 1 = j
    BY <1>1
  <2> HIDE DEF done, n
  <2> QED
    BY <1>1, <2>2, <2>3
<1>4. CASE entry.mark = "P"
  <2>1. Joined(lines, entry) = Append(done, line)
    BY <1>4 DEF Joined
  <2> HIDE DEF n, line, done, Line
  <2>2. /\ Append(done, line) \in Seq(Line) /\ Len(Append(done, line)) = n
        /\ Append(done, line)[n] = line
        /\ \A j \in 1 .. n - 1 : Append(done, line)[j] = done[j]
    BY <1>1, <1>2, <1>3, AppendProperties
  <2> QED
    BY <1>3, <1>4, <2>1, <2>2 DEF n, line
<1>5. CASE entry.mark # "P"
  <2>1. Joined(lines, entry) = done \o <<line, <<>> >>
    BY <1>5 DEF Joined
  <2> DEFINE ended == <<line, <<>> >>
  <2>2. ended \in Seq(Line) /\ Len(ended) = 2 /\ ended[1] = line /\ ended[2] = <<>>
    <3> HIDE DEF line, Line
    <3> QED
      BY <1>2
  <2> HIDE DEF n, line, done, Line, ended
  <2>3. /\ done \o ended \in Seq(Line) /\ Len(done \o ended) = n + 1
        /\ \A j \in 1 .. n + 1 :
             (done \o ended)[j] = IF j <= n - 1 THEN done[j] ELSE ended[j - (n - 1)]
    <3>1. /\ done \o ended \in Seq(Line) /\ Len(done \o ended) = Len(done) + Len(ended)
          /\ \A j \in 1 .. Len(done) + Len(ended) :
               (done \o ended)[j] = IF j <= Len(done) THEN done[j] ELSE ended[j - Len(done)]
      <4>1. done \in Seq(Line) /\ ended \in Seq(Line)
        BY <1>3, <2>2
      <4> QED
        BY <4>1, ConcatProperties
    <3>2. Len(done) + Len(ended) = n + 1
      BY <1>1, <1>3, <2>2
    <3> QED
      BY <1>3, <3>1, <3>2
  <2>4. (done \o ended)[n] = line /\ (done \o ended)[n + 1] = <<>>
    <3>1. n - (n - 1) = 1 /\ (n + 1) - (n - 1) = 2 /\ ~(n <= n - 1) /\ ~(n + 1 <= n - 1)
          /\ n \in 1 .. n + 1 /\ n + 1 \in 1 .. n + 1
      BY <1>1
    <3>2. \A j \in 1 .. n + 1 : ~(j <= n - 1) => (done \o ended)[j] = ended[j - (n - 1)]
      BY <2>3, Zenon
    <3>3. /\ (done \o ended)[n] = ended[n - (n - 1)]
          /\ (done \o ended)[n + 1] = ended[(n + 1) - (n - 1)]
      BY <3>1, <3>2, Zenon
    <3> QED
      BY <2>2, <3>1, <3>3, Zenon
  <2>5. \A j \in 1 .. n - 1 : (done \o ended)[j] = lines[j]
    BY <1>1, <1>3, <2>3
  <2>6. Joined(lines, entry) = done \o ended
    BY <2>1 DEF ended
  <2> QED
    BY <1>5, <2>3, <2>4, <2>5, <2>6 DEF n, line
<1> QED
  BY <1>4, <1>5

LEMMA JoinedLen ==
  ASSUME NEW lines \in Seq(Line), Len(lines) >= 1,
         NEW entry \in LogEntry
  PROVE  /\ Joined(lines, entry) \in Seq(Line) /\ Len(Joined(lines, entry)) >= 1
         /\ Len(lines) \in Nat
         /\ Len(Joined(lines, entry)) =
              IF entry.mark = "P" THEN Len(lines) ELSE Len(lines) + 1
<1>1. Len(lines) \in Nat
  OBVIOUS
<1> DEFINE more == Joined(lines, entry)
<1>2. /\ more \in Seq(Line)
      /\ entry.mark = "P" => Len(more) = Len(lines)
      /\ entry.mark # "P" => Len(more) = Len(lines) + 1
  BY JoinedIs
<1> HIDE DEF more
<1>3. Len(more) = IF entry.mark = "P" THEN Len(lines) ELSE Len(lines) + 1
  BY <1>2
<1>4. Len(more) >= 1
  BY <1>1, <1>3
<1> QED
  BY <1>1, <1>2, <1>3, <1>4 DEF more

(* The last line is being joined: it began with entry s.                   *)
Open(entries, n, lines, s) ==
  /\ s \in 1 .. n + 1 /\ Begins(entries, s)
  /\ \A k \in s .. n : entries[k].mark = "P"
  /\ lines[Len(lines)] = TextFrom(entries, s, n)

(* The next entry continues that line or ends it.                          *)
LEMMA OpenStep ==
  ASSUME NEW entries \in Seq(LogEntry),
         NEW n \in 0 .. Len(entries) - 1,
         NEW lines \in Seq(Line), Len(lines) >= 1, NEW s, Open(entries, n, lines, s)
  PROVE  LET more == Joined(lines, entries[n + 1])
         IN  /\ more[Len(lines)] = TextFrom(entries, s, n + 1)
             /\ entries[n + 1].mark = "P" => Open(entries, n + 1, more, s)
             /\ entries[n + 1].mark # "P" =>
                  IsLine(entries, s, n + 1) /\ Open(entries, n + 1, more, n + 2)
<1> DEFINE more == Joined(lines, entries[n + 1])
<1>1. /\ n \in Nat /\ Len(entries) \in Nat /\ n + 1 \in 1 .. Len(entries)
      /\ s \in 1 .. n + 1 /\ s \in Nat \ {0}
  BY DEF Open
<1>2. entries[n + 1] \in LogEntry
  BY <1>1, ElementOfSeq
<1>3. more[Len(lines)] = lines[Len(lines)] \o entries[n + 1].text
  BY <1>2, JoinedIs
<1>4. TextFrom(entries, s, n + 1) = TextFrom(entries, s, n) \o entries[n + 1].text
  <2>1. ~(n + 1 < s) /\ n + 1 - 1 = n
    BY <1>1
  <2>2. TextFrom(entries, s, n + 1) =
          IF n + 1 < s THEN <<>> ELSE TextFrom(entries, s, (n + 1) - 1) \o entries[n + 1].text
    <3>1. n + 1 \in Nat /\ s \in Nat \ {0}
      BY <1>1
    <3> QED
      BY <3>1, TextGrows, Zenon
  <2>3. (n + 1) - 1 = n
    BY <1>1
  <2>4. TextFrom(entries, s, n + 1) = TextFrom(entries, s, (n + 1) - 1) \o entries[n + 1].text
    BY <2>1, <2>2, Zenon
  <2> QED
    BY <2>3, <2>4, Zenon
<1>5. more[Len(lines)] = TextFrom(entries, s, n + 1)
  BY <1>3, <1>4 DEF Open
<1>6. CASE entries[n + 1].mark = "P"
  <2>1. Len(more) = Len(lines)
    BY <1>2, <1>6, JoinedIs
  <2>2. \A k \in s .. n + 1 : entries[k].mark = "P"
    BY <1>1, <1>6 DEF Open
  <2> HIDE DEF more
  <2> QED
    BY <1>1, <1>5, <1>6, <2>1, <2>2 DEF Open, more
<1>7. CASE entries[n + 1].mark # "P"
  <2>1. Len(more) = Len(lines) + 1 /\ more[Len(lines) + 1] = <<>>
    BY <1>2, <1>7, JoinedIs
  <2>2. TextFrom(entries, n + 2, n + 1) = <<>>
    <3>1. n + 2 \in Nat \ {0} /\ n + 1 \in Nat /\ n + 1 < n + 2
      BY <1>1
    <3> QED
      BY <3>1, TextGrows
  <2>3. IsLine(entries, s, n + 1)
    BY <1>1, <1>7 DEF IsLine, Open, Ends
  <2>4. Open(entries, n + 1, more, n + 2)
    <3>1. Begins(entries, n + 2)
      <4>1. (n + 2) - 1 = n + 1
        BY <1>1
      <4> QED
        BY <1>7, <4>1 DEF Begins
    <3>2. n + 2 \in 1 .. (n + 1) + 1 /\ (n + 2) .. (n + 1) = {}
      BY <1>1
    <3> HIDE DEF more
    <3> QED
      BY <2>1, <2>2, <3>1, <3>2 DEF Open
  <2> QED
    BY <1>5, <1>7, <2>3, <2>4
<1> QED
  BY <1>6, <1>7

(* After every entry some line is open.                                    *)
LEMMA OpenAlways ==
  ASSUME NEW entries \in Seq(LogEntry),
         NEW f, Joins(entries, Len(entries), f)
  PROVE  /\ f[0] = << <<>> >>
         /\ \A n \in 1 .. Len(entries) : f[n] = Joined(f[n - 1], entries[n])
         /\ \A n \in 0 .. Len(entries) :
              f[n] \in Seq(Line) /\ Len(f[n]) >= 1 /\ \E s : Open(entries, n, f[n], s)
<1> DEFINE N == Len(entries)
           Good(n) == f[n] \in Seq(Line) /\ Len(f[n]) >= 1 /\ \E s : Open(entries, n, f[n], s)
           T == {n \in 0 .. N : ~Good(n)}
<1>0. N \in Nat
  OBVIOUS
<1>1. f[0] = << <<>> >>
  BY <1>0 DEF Joins
<1>2. \A n \in 1 .. N : f[n] = Joined(f[n - 1], entries[n])
  BY <1>0 DEF Joins
<1>3. SUFFICES ASSUME T # {} PROVE FALSE
  BY <1>1, <1>2
<1>4. PICK n \in T : \A k \in T : n <= k
  <2>1. T \subseteq Nat
    BY <1>0
  <2> HIDE DEF T
  <2> QED
    BY <1>3, <2>1, LeastNumber
<1>5. CASE n = 0
  <2>1. << <<>> >> \in Seq(Line) /\ Len(<< <<>> >>) >= 1
    BY DEF Line
  <2>2. TextFrom(entries, 1, 0) = <<>>
    <3>1. 1 \in Nat \ {0} /\ 0 \in Nat /\ 0 < 1
      OBVIOUS
    <3> QED
      BY <3>1, TextGrows, Zenon
  <2>3. Open(entries, 0, << <<>> >>, 1)
    BY <2>2 DEF Open, Begins
  <2> QED
    <3>1. f[0] \in Seq(Line) /\ Len(f[0]) >= 1 /\ Open(entries, 0, f[0], 1)
      BY <1>1, <2>1, <2>3, Zenon
    <3>2. ~Good(0)
      BY <1>4, <1>5, Zenon
    <3> QED
      BY <3>1, <3>2, Zenon
<1>6. CASE n # 0
  <2>1. n - 1 \in 0 .. N - 1 /\ n \in 1 .. N /\ (n - 1) + 1 = n /\ Good(n - 1)
    <3> HIDE DEF Good, N
    <3>1. n \in 0 .. N
      BY <1>4
    <3>2. /\ n - 1 \in 0 .. N - 1 /\ n - 1 \in 0 .. N /\ n \in 1 .. N
          /\ (n - 1) + 1 = n /\ ~(n <= n - 1)
      BY <1>0, <1>6, <3>1
    <3>3. n - 1 \notin T
      BY <1>4, <3>2
    <3> QED
      BY <3>2, <3>3
  <2>2. PICK s : Open(entries, n - 1, f[n - 1], s)
    BY <2>1
  <2>3. entries[n] \in LogEntry
    BY <2>1, ElementOfSeq
  <2>4. f[n] = Joined(f[n - 1], entries[n])
    BY <1>2, <2>1
  <2>5. f[n] \in Seq(Line) /\ Len(f[n]) >= 1
    BY <2>1, <2>3, <2>4, JoinedLen
  <2>6. \E r : Open(entries, (n - 1) + 1, Joined(f[n - 1], entries[(n - 1) + 1]), r)
    <3> HIDE DEF N
    <3> QED
      BY <2>1, <2>2, OpenStep DEF N
  <2> QED
    BY <1>4, <2>1, <2>4, <2>5, <2>6
<1> QED
  BY <1>5, <1>6

(* The line that ends at n is the one that is open before it.              *)
LEMMA SameStart ==
  ASSUME NEW entries, Len(entries) \in Nat,
         NEW m, NEW n \in Nat, m \in 1 .. n, n <= Len(entries),
         IsLine(entries, m, n), NEW lines, NEW s, Open(entries, n - 1, lines, s)
  PROVE  s = m
<1>1. s \in 1 .. n /\ m \in 1 .. n
  BY DEF Open
<1>2. \A k \in s .. n - 1 : entries[k].mark = "P"
  BY DEF Open
<1>3. \A k \in m .. n - 1 : entries[k].mark = "P"
  BY DEF IsLine, Ends
<1>4. ~(s < m)
  <2> SUFFICES ASSUME s < m PROVE FALSE
    OBVIOUS
  <2>1. entries[m - 1].mark = "P"
    BY <1>1, <1>2
  <2> QED
    BY <1>1, <2>1 DEF IsLine, Begins
<1>5. ~(m < s)
  <2> SUFFICES ASSUME m < s PROVE FALSE
    OBVIOUS
  <2>1. entries[s - 1].mark = "P"
    BY <1>1, <1>3
  <2> QED
    BY <1>1, <2>1 DEF Open, Begins
<1> QED
  BY <1>1, <1>4, <1>5

(* The whole RESULT line is among the finished ones, and no other follows. *)
NoResult(line) == line = <<>> \/ line[1] # "head"
Found(lines, j) ==
  /\ j \in 1 .. Len(lines) - 1 /\ lines[j] = <<"head", "tail">>
  /\ \A i \in j + 1 .. Len(lines) - 1 : NoResult(lines[i])

(* It stays so as long as the lines that end are no RESULT lines.          *)
LEMMA FoundStep ==
  ASSUME NEW lines \in Seq(Line), Len(lines) >= 1, NEW j, Found(lines, j),
         NEW entry \in LogEntry,
         entry.mark # "P" => NoResult(Joined(lines, entry)[Len(lines)])
  PROVE  Found(Joined(lines, entry), j)
<1> DEFINE more == Joined(lines, entry)
<1>1. \A i \in 1 .. Len(lines) - 1 : more[i] = lines[i]
  BY JoinedIs
<1>2. Len(more) = IF entry.mark = "P" THEN Len(lines) ELSE Len(lines) + 1
  BY JoinedIs
<1>3. Len(lines) \in Nat /\ j \in 1 .. Len(lines) - 1
  BY DEF Found
<1>4. entry.mark # "P" => NoResult(more[Len(lines)])
  OBVIOUS
<1> HIDE DEF more
<1>5. more[j] = <<"head", "tail">> /\ j \in 1 .. Len(more) - 1
  BY <1>1, <1>2, <1>3 DEF Found
<1>6. ASSUME NEW i \in j + 1 .. Len(more) - 1 PROVE NoResult(more[i])
  <2>1. CASE i \in j + 1 .. Len(lines) - 1
    <3>1. more[i] = lines[i]
      BY <1>1, <1>3, <2>1
    <3> QED
      BY <2>1, <3>1 DEF Found
  <2>2. CASE i \notin j + 1 .. Len(lines) - 1
    <3>1. i = Len(lines) /\ entry.mark # "P"
      BY <1>2, <1>3, <2>2
    <3> QED
      BY <1>4, <3>1
  <2> QED
    BY <2>1, <2>2
<1> QED
  BY <1>5, <1>6 DEF Found, more

(* A log that has a result decodes, however podman has split its lines.    *)
LEMMA ResultDecodes ==
  ASSUME NEW entries \in Seq(LogEntry), HasResult(entries)
  PROVE  Decodes(Normalize(entries))
<1> DEFINE N == Len(entries)
<1>0. N \in Nat
  OBVIOUS
<1>1. PICK f : Joins(entries, N, f) /\ Normalize(entries) = f[N]
  BY <1>0, NormalizeIs
<1>2. PICK m, n \in 1 .. N :
        /\ IsLine(entries, m, n) /\ TextFrom(entries, m, n) = <<"head", "tail">>
        /\ \A k, e \in n + 1 .. N : IsLine(entries, k, e) => NoResult(TextFrom(entries, k, e))
  BY DEF HasResult, NoResult
<1>3. \A i \in 1 .. N : f[i] = Joined(f[i - 1], entries[i]) /\ entries[i] \in LogEntry
  BY <1>1, OpenAlways, ElementOfSeq
<1>4. \A i \in 0 .. N : f[i] \in Seq(Line) /\ Len(f[i]) >= 1 /\ \E s : Open(entries, i, f[i], s)
  BY <1>1, OpenAlways
<1>5. /\ n - 1 \in 0 .. N - 1 /\ n - 1 \in 0 .. N /\ (n - 1) + 1 = n /\ n + 1 = (n - 1) + 2
      /\ n \in Nat /\ n \in 1 .. N /\ m \in 1 .. n /\ n <= N
  BY <1>0, <1>2 DEF IsLine
<1>6. Open(entries, n - 1, f[n - 1], m)
  <2>1. PICK s : Open(entries, n - 1, f[n - 1], s)
    BY <1>4, <1>5
  <2>2. s = m
    BY <1>0, <1>2, <1>5, <2>1, SameStart
  <2> QED
    BY <2>1, <2>2
<1>7. /\ f[n][Len(f[n - 1])] = <<"head", "tail">>
      /\ entries[n].mark = "P" => Open(entries, n, f[n], m)
      /\ entries[n].mark # "P" => Open(entries, n, f[n], n + 1)
  <2>1. LET more == Joined(f[n - 1], entries[(n - 1) + 1])
        IN  /\ more[Len(f[n - 1])] = TextFrom(entries, m, (n - 1) + 1)
            /\ entries[(n - 1) + 1].mark = "P" => Open(entries, (n - 1) + 1, more, m)
            /\ entries[(n - 1) + 1].mark # "P" => Open(entries, (n - 1) + 1, more, (n - 1) + 2)
    BY <1>4, <1>5, <1>6, OpenStep
  <2> QED
    BY <1>2, <1>3, <1>5, <2>1
<1>8. CASE entries[n].mark = "P"
  <2>1. n = N
    BY <1>2, <1>8 DEF IsLine, Ends
  <2>2. Len(f[n]) = Len(f[n - 1]) /\ Len(f[n]) \in Nat /\ Len(f[n]) >= 1
    BY <1>3, <1>4, <1>5, <1>8, JoinedLen
  <2>3. f[N][Len(f[N])] = <<"head", "tail">> /\ Len(f[N]) \in 1 .. Len(f[N])
    BY <1>7, <2>1, <2>2
  <2>4. \A i \in 1 .. Len(f[N]) : i <= Len(f[N])
    OBVIOUS
  <2>5. Decodes(f[N])
    <3> DEFINE last == Len(f[N])
    <3>1. last \in 1 .. Len(f[N]) /\ f[N][last] = <<"head", "tail">>
      BY <2>3
    <3>2. f[N][last] # <<>> /\ f[N][last][1] = "head"
      BY <3>1
    <3> QED
      BY <2>4, <3>1, <3>2, Zenon DEF Decodes
  <2> QED
    BY <1>1, <2>5
<1>9. CASE entries[n].mark # "P"
  <2> DEFINE Good(i) == \E s, j : s > n /\ Open(entries, i, f[i], s) /\ Found(f[i], j)
             T == {i \in n .. N : ~Good(i)}
  <2>1. Good(n)
    <3>1. Len(f[n]) = Len(f[n - 1]) + 1 /\ Len(f[n - 1]) \in Nat /\ Len(f[n - 1]) >= 1
      BY <1>3, <1>4, <1>5, <1>9, JoinedLen
    <3>2. Found(f[n], Len(f[n - 1]))
      BY <1>7, <3>1 DEF Found
    <3>3. n + 1 > n
      BY <1>5
    <3> QED
      BY <1>7, <1>9, <3>2, <3>3, Zenon
  <2>2. ASSUME NEW i \in n + 1 .. N, Good(i - 1) PROVE Good(i)
    <3>1. /\ i - 1 \in 0 .. N - 1 /\ i - 1 \in 0 .. N /\ i \in 1 .. N
          /\ (i - 1) + 1 = i /\ i + 1 = (i - 1) + 2 /\ i + 1 > n
      BY <1>0, <1>5
    <3>2. PICK s, j : s > n /\ Open(entries, i - 1, f[i - 1], s) /\ Found(f[i - 1], j)
      BY <2>2
    <3>3. /\ f[i][Len(f[i - 1])] = TextFrom(entries, s, i)
          /\ entries[i].mark = "P" => Open(entries, i, f[i], s)
          /\ entries[i].mark # "P" => IsLine(entries, s, i) /\ Open(entries, i, f[i], i + 1)
      <4>1. LET more == Joined(f[i - 1], entries[(i - 1) + 1])
            IN  /\ more[Len(f[i - 1])] = TextFrom(entries, s, (i - 1) + 1)
                /\ entries[(i - 1) + 1].mark = "P" => Open(entries, (i - 1) + 1, more, s)
                /\ entries[(i - 1) + 1].mark # "P" =>
                     /\ IsLine(entries, s, (i - 1) + 1)
                     /\ Open(entries, (i - 1) + 1, more, (i - 1) + 2)
        BY <1>4, <3>1, <3>2, OpenStep
      <4> QED
        BY <1>3, <3>1, <4>1
    <3>4. entries[i].mark # "P" => NoResult(f[i][Len(f[i - 1])])
      <4>1. s \in 1 .. (i - 1) + 1
        BY <3>2 DEF Open
      <4>2. s \in n + 1 .. N /\ i \in n + 1 .. N
        BY <1>0, <1>5, <3>1, <3>2, <4>1
      <4> QED
        BY <1>2, <3>3, <4>2
    <3>5. Found(f[i], j)
      <4>1. /\ f[i - 1] \in Seq(Line) /\ Len(f[i - 1]) >= 1
            /\ entries[i] \in LogEntry
            /\ f[i] = Joined(f[i - 1], entries[i])
        BY <1>3, <1>4, <3>1
      <4>2. /\ Found(f[i - 1], j)
            /\ entries[i].mark # "P" => NoResult(Joined(f[i - 1], entries[i])[Len(f[i - 1])])
        BY <3>2, <3>4, <4>1, Zenon
      <4> QED
        BY <4>1, <4>2, FoundStep
    <3> QED
      BY <3>1, <3>2, <3>3, <3>5
  <2>3. Good(N)
    <3>1. SUFFICES ASSUME ~Good(N) PROVE FALSE
      OBVIOUS
    <3>2. N \in T /\ T \subseteq Nat
      BY <1>0, <1>5, <3>1
    <3>3. PICK i \in T : \A k \in T : i <= k
      <4> HIDE DEF T
      <4> QED
        BY <3>2, LeastNumber
    <3> HIDE DEF Good
    <3>4. i # n
      BY <2>1, <3>3
    <3>5. i \in n + 1 .. N /\ i - 1 \in n .. N /\ i - 1 \notin T
      BY <1>0, <1>5, <3>3, <3>4
    <3>6. Good(i - 1)
      BY <3>5
    <3> QED
      BY <2>2, <3>3, <3>5, <3>6
  <2>4. PICK s, j : s > n /\ Open(entries, N, f[N], s) /\ Found(f[N], j)
    BY <2>3
  <2>5. NoResult(f[N][Len(f[N])])
    <3>1. f[N][Len(f[N])] = TextFrom(entries, s, N) /\ s \in 1 .. N + 1 /\ Begins(entries, s)
          /\ \A k \in s .. N : entries[k].mark = "P"
      BY <2>4 DEF Open
    <3>2. CASE s = N + 1
      <4>1. TextFrom(entries, s, N) = <<>>
        <5>1. s \in Nat \ {0} /\ N < s
          BY <1>0, <3>2
        <5> QED
          BY <1>0, <5>1, TextGrows
      <4> QED
        BY <3>1, <4>1 DEF NoResult
    <3>3. CASE s # N + 1
      <4>1. s \in n + 1 .. N /\ N \in n + 1 .. N
        BY <1>0, <1>5, <2>4, <3>1, <3>3
      <4>2. IsLine(entries, s, N)
        <5>1. \A k \in s .. N - 1 : k # N /\ entries[k].mark = "P"
          BY <1>0, <3>1
        <5> QED
          BY <1>0, <3>1, <4>1, <5>1 DEF IsLine, Ends
      <4> QED
        BY <1>2, <3>1, <4>1, <4>2
    <3> QED
      BY <3>2, <3>3
  <2>6. Len(f[N]) \in Nat
    BY <1>0, <1>4
  <2>7. /\ j \in 1 .. Len(f[N]) /\ f[N][j] = <<"head", "tail">>
        /\ \A i \in 1 .. Len(f[N]) : f[N][i] # <<>> /\ f[N][i][1] = "head" => i <= j
    <3>1. j \in 1 .. Len(f[N]) - 1 /\ f[N][j] = <<"head", "tail">>
      BY <2>4 DEF Found
    <3>2. ASSUME NEW i \in 1 .. Len(f[N]), i > j PROVE NoResult(f[N][i])
      <4>1. CASE i = Len(f[N])
        BY <2>5, <4>1
      <4>2. CASE i # Len(f[N])
        <5>1. i \in j + 1 .. Len(f[N]) - 1
          BY <2>6, <3>1, <3>2, <4>2
        <5> QED
          BY <2>4, <5>1 DEF Found
      <4> QED
        BY <4>1, <4>2
    <3> QED
      BY <2>6, <3>1, <3>2 DEF NoResult
  <2> QED
    <3> DEFINE results == {i \in 1 .. Len(f[N]) : f[N][i] # <<>> /\ f[N][i][1] = "head"}
    <3>1. j \in results
      BY <2>7
    <3>2. \A i \in results : i <= j
      BY <2>7
    <3>3. Decodes(f[N])
      BY <2>7, <3>1, <3>2, Zenon DEF Decodes
    <3> QED
      BY <1>1, <3>3
<1> QED
  BY <1>8, <1>9

(* The log is one.                                                         *)
LEMMA LogIs == TInv => log \in Seq(LogEntry)
<1>1. \A l \in Logs : l \in Seq(LogEntry)
  BY LogsAssumption DEF LogEntry, Line
<1>2. <<>> \in Seq(LogEntry)
  OBVIOUS
<1>3. TInv => log \in Logs \/ log = <<>>
  BY DEF TInv, Kinds
<1> QED
  BY <1>1, <1>2, <1>3, Zenon

(* What was thrown away for its output had no result when it was read, and *)
(* nothing is printed after that.                                          *)
Over == {"purge", "exits", "teardown", "saved"}
NoResultFound ==
  reason = "output" =>
    pc \in Over /\ job # "live" /\ (cut \/ ~Decodes(Normalize(log)))

(* Initially nothing is thrown away.                                       *)
LEMMA NoResultFoundInit == Init => NoResultFound
  BY DEF Init, NoResultFound

(* Every step keeps that.                                                  *)
LEMMA NoResultFoundNext == TInv /\ NoResultFound /\ [Next]_vars => NoResultFound'
<1> SUFFICES ASSUME TInv, NoResultFound, [Next]_vars PROVE NoResultFound'
  OBVIOUS
<1> USE DEF NoResultFound, Over
<1>1. CASE UNCHANGED <<pc, reason, job, log, cut>>
  BY <1>1
<1>2. CASE Stage
  <2>1. pc \in Stages /\ UNCHANGED <<reason, job, log, cut>>
    BY <1>2 DEF Stage, jobVars, Stages, Goes, StageGoes, StageNothing, StageRead,
       RegisterPart, RegisterPartFails, BatchRegistered, RoundDone, StageCancelled, EndBatch,
       PauseAt, BatchPurged, StageFails, CheckPart, PurgePart
  <2> QED
    BY <2>1 DEF Stages
<1>3. CASE \/ DeployConfig \/ DeployConfigFails \/ WaitCancelled \/ WatchCancelled
           \/ RegisterEval \/ RegisterEvalFails
           \/ \E s \in {"absent", "starting", "up", "ended", "stopped", "error"} :
                LookWait(s) \/ LookWatch(s)
  <2>1. reason # "output" /\ reason' # "output"
    <3>1. reason # "output"
      BY <1>3 DEF DeployConfig, DeployConfigFails, WaitCancelled, WatchCancelled, RegisterEval,
         RegisterEvalFails, LookWait, LookWatch, Goes
    <3> QED
      BY <1>3, <3>1 DEF DeployConfig, DeployConfigFails, WaitCancelled, WatchCancelled,
         RegisterEval, RegisterEvalFails, LookWait, LookWatch, FailConfig, runVars
  <2> QED
    BY <2>1
<1>4. CASE LookJob
  <2>1. pc = "watchJob" /\ UNCHANGED <<job, log>>
    BY <1>4 DEF LookJob
  <2>2. CASE job = "complete" /\ ReadOutput
    <3>1. PICK n \in 0 .. Len(log) :
            /\ cut' = (n < Len(log))
            /\ IF Decodes(Normalize(SubSeq(log, 1, n)))
               THEN UNCHANGED reason ELSE pc' = "purge" /\ reason' = "output"
      BY <2>2 DEF ReadOutput, FailConfig
    <3>2. CASE n < Len(log)
      BY <2>1, <2>2, <3>1, <3>2
    <3>3. CASE ~(n < Len(log))
      <4>1. log \in Seq(LogEntry)
        BY LogIs
      <4>2. n = Len(log)
        BY <3>3, <4>1
      <4>3. SubSeq(log, 1, n) = log
        BY <4>1, <4>2, SubSeqFull
      <4> QED
        BY <2>1, <2>2, <3>1, <4>3
    <3> QED
      BY <3>2, <3>3
  <2>3. CASE reason' # "output"
    BY <2>3
  <2> QED
    BY <1>4, <2>1, <2>2, <2>3 DEF LookJob, FailConfig, runVars
<1>5. CASE PurgeEval
  BY <1>5 DEF PurgeEval, Goes, runVars
<1>6. CASE Teardown
  BY <1>6 DEF Teardown, Goes, runVars, jobVars
<1>7. ASSUME NEW s, NoteExits(s) PROVE NoResultFound'
  BY <1>7 DEF NoteExits, Goes, jobVars
<1>8. CASE EvalJobEnds
  BY <1>8 DEF EvalJobEnds, runVars
<1>9. CASE \/ Wake \/ Expire \/ Cancel \/ \E p \in Part : StageJobEnds(p)
           \/ /\ (NomadStep /\ UNCHANGED blind) \/ (UserStop /\ UNCHANGED died)
              /\ UNCHANGED <<pc, cancelled, loopVars, runVars, stageVars, jobVars, seenVars>>
  BY <1>1, <1>9 DEF Wake, Expire, Cancel, StageJobEnds, runVars, jobVars
<1>10. CASE UNCHANGED vars
  BY <1>1, <1>10 DEF vars, runVars, jobVars
<1> QED
  BY <1>2, <1>3, <1>4, <1>5, <1>6, <1>7, <1>8, <1>9, <1>10
     DEF Next, Execute, RunConfig, Environment

(* A measurement is thrown away for its output only if it was read in part *)
(* or has no result, for every log: any number of entries, lines split     *)
(* anywhere and any number of times, docker's and podman's mixed           *)
(* (normalizePodmanLogs, ParseEvalOutput).                                 *)
THEOREM OutputsAreUsed == Spec => []OutputIsUsed
<1>1. Spec => [](TInv /\ NoResultFound)
  BY TInit, TNext, NoResultFoundInit, NoResultFoundNext, PTL DEF Spec
<1>2. TInv /\ NoResultFound => OutputIsUsed
  <2> SUFFICES ASSUME TInv, NoResultFound, reason = "output", ~cut, HasResult(log) PROVE FALSE
    BY DEF OutputIsUsed
  <2>1. log \in Seq(LogEntry)
    BY LogIs
  <2>2. Decodes(Normalize(log))
    BY <2>1, ResultDecodes
  <2> QED
    BY <2>2 DEF NoResultFound
<1> QED
  BY <1>1, <1>2, PTL

-----------------------------------------------------------------------------
(* The runner is right about its waits: RunnerWaits implements BenchRunner *)
(* with one run of one configuration in progress.                          *)

(* The records of BenchRunner that RunnerWaits stands for.                 *)
RunStatus == {"running", "cancelled", "failed"}
Outcome == {"pending", "deploying", "evaluating", "complete", "failed", "skipped"}
MappedRecord == [status : RunStatus, results : [1 .. 1 -> Outcome],
           restore : SUBSET {}, restored : BOOLEAN, blamed : SUBSET {}]

LEMMA RecordIsMapped ==
  ASSUME NEW s \in RunStatus, NEW o \in Outcome
  PROVE  /\ RecordOf(s, o) \in MappedRecord
         /\ RecordOf(s, o).status = s /\ RecordOf(s, o).results = <<o>>
         /\ RecordOf(s, o).restore = {} /\ RecordOf(s, o).restored = FALSE
         /\ RecordOf(s, o).blamed = {}
  BY DEF MappedRecord, RunStatus, Outcome, RecordOf

LEMMA MappedExcept ==
  ASSUME NEW R \in MappedRecord
  PROVE  /\ \A t \in RunStatus :
              [R EXCEPT !.status = t] =
                [status |-> t, results |-> R.results,
                 restore |-> R.restore, restored |-> R.restored, blamed |-> R.blamed]
         /\ \A f \in [1 .. 1 -> Outcome] :
              [R EXCEPT !.results = f] =
                [status |-> R.status, results |-> f,
                 restore |-> R.restore, restored |-> R.restored, blamed |-> R.blamed]
  BY DEF MappedRecord, RunStatus, Outcome

(* Changes of a mapped record are mapped records.                          *)
LEMMA RecordIs ==
  ASSUME NEW s \in RunStatus, NEW o \in Outcome, NEW t \in RunStatus, NEW p \in Outcome
  PROVE  /\ [RecordOf(s, o) EXCEPT !.status = t] = RecordOf(t, o)
         /\ [RecordOf(s, o) EXCEPT !.results[1] = p] = RecordOf(s, p)
         /\ BR!AllSkipped(RecordOf(s, o)) = RecordOf(s, "skipped")
<1>0. \A x : <<x>> = [c \in 1 .. 1 |-> x]
  OBVIOUS
<1>1. PICK R : R = RecordOf(s, o)
  OBVIOUS
<1>2. /\ R \in MappedRecord /\ R.status = s /\ R.results = <<o>>
      /\ R.restore = {} /\ R.restored = FALSE /\ R.blamed = {}
  BY <1>1, RecordIsMapped
<1>3. [R EXCEPT !.status = t] = RecordOf(t, o)
  <2>1. [R EXCEPT !.status = t] =
          [status |-> t, results |-> R.results,
           restore |-> R.restore, restored |-> R.restored, blamed |-> R.blamed]
    BY <1>2, MappedExcept
  <2> QED
    BY <1>2, <2>1 DEF RecordOf
<1>4. ASSUME NEW q \in Outcome, NEW f, f = <<q>> PROVE [R EXCEPT !.results = f] = RecordOf(s, q)
  <2>1. f \in [1 .. 1 -> Outcome]
    BY <1>0, <1>4
  <2>2. [R EXCEPT !.results = f] =
          [status |-> R.status, results |-> f,
           restore |-> R.restore, restored |-> R.restored, blamed |-> R.blamed]
    BY <1>2, <2>1, MappedExcept
  <2> QED
    BY <1>2, <1>4, <2>2 DEF RecordOf
<1>5. [R EXCEPT !.results[1] = p] = RecordOf(s, p)
  <2>1. [R.results EXCEPT ![1] = p] = <<p>>
    BY <1>0, <1>2
  <2>2. [R EXCEPT !.results = [R.results EXCEPT ![1] = p]] = RecordOf(s, p)
    BY <1>4, <2>1
  <2> QED
    BY <2>2
<1>6. BR!AllSkipped(R) = RecordOf(s, "skipped")
  <2>1. [c \in BR!Cfg |-> "skipped"] = <<"skipped">>
    BY <1>0 DEF BR!Cfg
  <2>2. "skipped" \in Outcome
    BY DEF Outcome
  <2>3. [R EXCEPT !.results = [c \in BR!Cfg |-> "skipped"]] = RecordOf(s, "skipped")
    BY <1>4, <2>1, <2>2, Zenon
  <2> QED
    BY <2>3, Zenon DEF BR!AllSkipped
<1> QED
  BY <1>1, <1>3, <1>5, <1>6

(* ... and so are the save of one and a change of the deployment ...       *)
LEMMA DiskIs ==
  ASSUME NEW x, NEW y
  PROVE  [DiskOf(x) EXCEPT ![TheRun] = RecordOf("running", y)] = DiskOf(y)
<1>1. PICK f : f = DiskOf(x)
  OBVIOUS
<1>2. [f EXCEPT ![TheRun] = RecordOf("running", y)] = DiskOf(y)
  BY <1>1 DEF DiskOf
<1> QED
  BY <1>1, <1>2

LEMMA BenchIs ==
  ASSUME NEW x, NEW y
  PROVE  /\ BenchOf(x)[<<TheRun, 1>>] = BenchStatusOf(x)
         /\ [BenchOf(x) EXCEPT ![<<TheRun, 1>>] = BenchStatusOf(y)] = BenchOf(y)
<1>1. PICK f : f = BenchOf(x)
  OBVIOUS
<1>2. \A b \in {TheRun} \X (1 .. 1) : b = <<TheRun, 1>>
  OBVIOUS
<1>3. <<TheRun, 1>> \in {TheRun} \X (1 .. 1)
  OBVIOUS
<1>4. [f EXCEPT ![<<TheRun, 1>>] = BenchStatusOf(y)] = BenchOf(y)
  <2>1. ASSUME NEW S, \A b \in S : b = <<TheRun, 1>>, f = [b \in S |-> BenchStatusOf(x)]
        PROVE [f EXCEPT ![<<TheRun, 1>>] = BenchStatusOf(y)] = [b \in S |-> BenchStatusOf(y)]
    BY <2>1
  <2> QED
    BY <1>1, <1>2, <2>1 DEF BenchOf
<1>5. BenchOf(x)[<<TheRun, 1>>] = BenchStatusOf(x)
  <2>1. ASSUME NEW S, NEW b \in S PROVE [c \in S |-> BenchStatusOf(x)][b] = BenchStatusOf(x)
    OBVIOUS
  <2> QED
    BY <1>3, <2>1 DEF BenchOf
<1> QED
  BY <1>1, <1>4, <1>5

(* ... and of the eval jobs.                                               *)
LEMMA JobsAre ==
  /\ EvalJobsOf("absent") = {}
  /\ \A j \in JobStatus : EvalJobsOf("live") = EvalJobsOf(j) \union {<<TheRun, 1>>}
  /\ \A j \in JobStatus : EvalJobsOf("absent") = EvalJobsOf(j) \ {<<TheRun, 1>>}
  /\ \A j \in JobStatus \ {"absent"} : EvalJobsOf(j) = {<<TheRun, 1>>}
  BY DEF EvalJobsOf, JobStatus

(* What BenchRunner sees of a step.                                        *)
LEMMA Stutter ==
  ASSUME UNCHANGED <<RunnerPC, cancelled, status, result, saved, BenchOf(dep), EvalJobsOf(job)>>
  PROVE  UNCHANGED BR!vars
  BY DEF BR!vars, BR!execVars, BR!recVars, BR!jobVars, BR!ghosts

(* Where the run loop is.                                                  *)
PCMapped ==
  /\ pc \in Stages => RunnerPC = "stage"
  /\ pc = "staged" => RunnerPC = "list"
  /\ pc = "unstaged" => RunnerPC = "finish"
  /\ pc = "watchJob" => RunnerPC = "watch"
  /\ pc = "exits" => RunnerPC = "teardown"
  /\ pc \in {"wait", "watch", "deploy", "register", "purge", "teardown", "saved"} => RunnerPC = pc

LEMMA RunnerPCIs == PCMapped
  BY DEF PCMapped, RunnerPC, Stages

LEMMA RunnerPCWillBe == PCMapped'
  BY RunnerPCIs, PTL

LEMMA BenchStatusIs ==
  /\ BenchStatusOf("absent") = "absent" /\ BenchStatusOf("stopped") = "dead"
  /\ \A d \in {"starting", "up", "ended"} : BenchStatusOf(d) = "up"
  BY DEF BenchStatusOf

(* A request is a request.                                                 *)
LEMMA CancelIs ==
  ASSUME Cancel PROVE BR!Next
<1>1. cancelled' = TRUE /\ UNCHANGED <<RunnerPC, status, result, saved, dep, job>>
  BY DEF Cancel, RunnerPC, runVars, depVars, jobVars
<1>2. BR!Cancel(TheRun)
  BY <1>1 DEF BR!Cancel, BR!recVars, BR!jobVars, BR!ghosts
<1> QED
  BY <1>2 DEF BR!Next, BR!Request

(* A step of runConfig is a step of execute.                               *)
LEMMA InConfig ==
  ASSUME UNCHANGED cancelled,
         \/ BR!DeployConfig \/ BR!DeployConfigFails \/ BR!WaitHealthy \/ BR!WaitFails
         \/ BR!RegisterEval \/ BR!RegisterEvalFails \/ BR!EvalCompletes \/ BR!EvalFails
         \/ BR!PurgeEval \/ BR!Teardown
  PROVE  BR!Next
<1>1. BR!RunConfigs
  BY DEF BR!RunConfigs
<1>2. BR!ExecStep
  BY <1>1 DEF BR!ExecStep, BR!recVars
<1> QED
  BY <1>2 DEF BR!Next, BR!Execute

(* fail() changes nothing but the result.                                  *)
LEMMA FailIs ==
  ASSUME TInv, result' = "failed", UNCHANGED <<status, saved>>,
         NEW from, NEW to, RunnerPC = from, RunnerPC' = to
  PROVE  BR!FailConfig(from, to)
<1>1. RecordOf(status, result)' = [RecordOf(status, result) EXCEPT !.results[1] = "failed"]
  <2>1. status \in RunStatus /\ result \in Outcome /\ "failed" \in Outcome
    BY DEF TInv, Kinds, RunStatus, Outcome
  <2>2. [RecordOf(status, result) EXCEPT !.results[1] = "failed"] = RecordOf(status, "failed")
    BY <2>1, RecordIs
  <2> QED
    BY <2>2
<1> QED
  BY <1>1, Zenon DEF BR!FailConfig, BR!Goes

(* Staging decides the run's status only when it gives the run up.         *)
StillRunning == pc # "unstaged" => status = "running"

LEMMA StillRunningNext == TInv /\ StillRunning /\ [Next]_vars => StillRunning'
<1> SUFFICES ASSUME TInv, StillRunning, [Next]_vars PROVE StillRunning'
  OBVIOUS
<1> USE DEF StillRunning
<1>1. CASE Stage
  BY <1>1 DEF Stage, Goes, StageGoes, StageNothing, StageRead, RegisterPart, RegisterPartFails,
     BatchRegistered, RoundDone, StageCancelled, EndBatch, BatchPurged, StageFails,
     CheckPart, PurgePart
<1>2. CASE RunConfig
  <2>1. UNCHANGED status /\ pc # "unstaged"
    BY <1>2 DEF RunConfig, Goes, DeployConfig, DeployConfigFails, LookWait, WaitCancelled,
       RegisterEval, RegisterEvalFails, LookWatch, LookJob, ReadOutput, WatchCancelled,
       PurgeEval, NoteExits, Teardown, FailConfig, runVars
  <2> QED
    BY <2>1
<1>3. CASE Wake \/ Expire \/ Cancel \/ Environment \/ UNCHANGED vars
  <2>1. UNCHANGED <<pc, status>>
    BY <1>3 DEF Wake, Expire, Cancel, Environment, StageJobEnds, EvalJobEnds, runVars, vars
  <2> QED
    BY <2>1
<1> QED
  BY <1>1, <1>2, <1>3 DEF Next, Execute

(* A step of stageDataset is its end, for better or worse, or none.        *)
LEMMA StageMaps ==
  ASSUME TInv, Stage, UNCHANGED cancelled
  PROVE  [BR!Next]_(BR!vars)
<1>0. UNCHANGED <<saved, dep, job>>
  BY DEF Stage, depVars, jobVars
<1>p. PCMapped /\ PCMapped'
  BY RunnerPCIs, RunnerPCWillBe
<1>1. ASSUME pc \in Stages, pc' \in Stages, UNCHANGED <<status, result>> PROVE UNCHANGED BR!vars
  <2>1. UNCHANGED RunnerPC
    BY <1>1, <1>p DEF PCMapped
  <2> QED
    BY <1>0, <1>1, <2>1, Stutter
<1>2. ASSUME pc \in Stages, pc' = "staged", UNCHANGED <<status, result>> PROVE BR!Next
  <2>1. RunnerPC = "stage" /\ RunnerPC' = "list"
    BY <1>2, <1>p DEF PCMapped
  <2>2. BR!StageDone
    BY <1>0, <1>2, <2>1 DEF BR!StageDone, BR!Goes, BR!jobVars
  <2> QED
    BY <2>2 DEF BR!Next, BR!Execute, BR!ExecStep, BR!recVars
<1>3. CASE StageFails
  <2>1. RunnerPC = "stage" /\ RunnerPC' = "finish"
    BY <1>3, <1>p DEF PCMapped, StageFails, Goes, Stages
  <2>2. status' = (IF cancelled THEN "cancelled" ELSE "failed") /\ result' = "skipped"
    BY <1>3 DEF StageFails
  <2>3. RecordOf(status, result)' =
          [BR!AllSkipped(RecordOf(status, result)) EXCEPT
             !.status = IF cancelled THEN "cancelled" ELSE "failed"]
    <3>1. {status, status'} \subseteq RunStatus /\ {result, "skipped"} \subseteq Outcome
      BY <2>2 DEF TInv, Kinds, RunStatus, Outcome
    <3>2. BR!AllSkipped(RecordOf(status, result)) = RecordOf(status, "skipped")
      BY <3>1, RecordIs
    <3>3. [RecordOf(status, "skipped") EXCEPT !.status = status'] = RecordOf(status', "skipped")
      BY <3>1, RecordIs
    <3> QED
      BY <2>2, <3>2, <3>3, Zenon
  <2>4. BR!StageFails
    BY <1>0, <2>1, <2>3, Zenon DEF BR!StageFails, BR!Goes, BR!jobVars
  <2> QED
    BY <2>4 DEF BR!Next, BR!Execute, BR!ExecStep, BR!recVars
<1>4. \/ pc \in Stages /\ pc' \in Stages \union {"staged"} /\ UNCHANGED <<status, result>>
      \/ StageFails
  BY DEF TInv, Kinds, Stage, Goes, StageGoes, StageNothing, StageRead, RegisterPart,
     RegisterPartFails, BatchRegistered, RoundDone, StageCancelled, EndBatch, PauseAt,
     BatchPurged, CheckPart, PurgePart, Stages
<1> QED
  BY <1>1, <1>2, <1>3, <1>4

(* Between "deploying" and "evaluating" the record on disk is the one in   *)
(* memory again.                                                           *)
LEMMA SaveIs ==
  ASSUME status' = "running", saved' = result'
  PROVE  BR!Save(TheRun, RecordOf(status, result)')
<1>1. RecordOf(status, result)' = RecordOf("running", saved')
  OBVIOUS
<1>2. DiskOf(saved)' = [DiskOf(saved) EXCEPT ![TheRun] = RecordOf("running", saved')]
  BY DiskIs
<1> QED
  BY <1>1, <1>2, Zenon DEF BR!Save

LEMMA OutcomeIs ==
  ASSUME TInv, result' \in Outcome, UNCHANGED status
  PROVE  RecordOf(status, result)' = [RecordOf(status, result) EXCEPT !.results[1] = result']
<1>1. status \in RunStatus /\ result \in Outcome
  BY DEF TInv, Kinds, RunStatus, Outcome
<1> QED
  BY <1>1, RecordIs

LEMMA CurrentIs == BR!Current = <<TheRun, 1>>
  BY DEF BR!Current

LEMMA BenchUp ==
  ASSUME dep' = "starting"
  PROVE  BenchOf(dep)' = [BenchOf(dep) EXCEPT ![BR!Current] = "up"]
<1>1. BenchStatusOf("starting") = "up"
  BY BenchStatusIs
<1>2. [BenchOf(dep) EXCEPT ![<<TheRun, 1>>] = BenchStatusOf("starting")] = BenchOf("starting")
  BY BenchIs
<1> QED
  BY <1>1, <1>2, CurrentIs

(* The five groups of steps of runConfig.                                  *)
LEMMA DeployMaps ==
  ASSUME TInv, DeployConfig \/ DeployConfigFails, UNCHANGED cancelled
  PROVE  BR!Next
<1>p. PCMapped /\ PCMapped'
  BY RunnerPCIs, RunnerPCWillBe
<1>1. CASE DeployConfig
  <2>1. RunnerPC = "deploy" /\ RunnerPC' = "wait"
    BY <1>1, <1>p DEF PCMapped, DeployConfig, Goes
  <2>2. UNCHANGED <<status, result, saved, job>>
    BY <1>1 DEF DeployConfig, runVars, jobVars
  <2>3. BenchOf(dep)' = [BenchOf(dep) EXCEPT ![BR!Current] = "up"]
    BY <1>1, BenchUp DEF DeployConfig
  <2>4. BR!DeployConfig
    BY <2>1, <2>2, <2>3, Zenon DEF BR!DeployConfig, BR!Goes
  <2> QED
    BY <2>4, InConfig
<1>2. CASE DeployConfigFails
  <2>1. RunnerPC = "deploy" /\ RunnerPC' = "teardown"
    BY <1>2, <1>p DEF PCMapped, DeployConfigFails, FailConfig
  <2>2. result' = "failed" /\ UNCHANGED <<status, saved, job>>
    BY <1>2 DEF DeployConfigFails, FailConfig, jobVars
  <2>3. BR!FailConfig("deploy", "teardown")
    BY <2>1, <2>2, FailIs
  <2>4. \/ UNCHANGED BenchOf(dep)
        \/ BenchOf(dep)' = [BenchOf(dep) EXCEPT ![BR!Current] = "up"]
    BY <1>2, BenchUp DEF DeployConfigFails
  <2>5. "ambiguous" \in {"error", "ambiguous", "user"}
    OBVIOUS
  <2>6. BR!DeployConfigFails
    BY <2>2, <2>3, <2>4, <2>5, Zenon DEF BR!DeployConfigFails
  <2> QED
    BY <2>6, InConfig
<1> QED
  BY <1>1, <1>2

LEMMA WaitMaps ==
  ASSUME TInv, StillRunning, UNCHANGED cancelled, WaitCancelled \/ \E s : LookWait(s)
  PROVE  [BR!Next]_(BR!vars)
<1>p. PCMapped /\ PCMapped'
  BY RunnerPCIs, RunnerPCWillBe
<1>0. UNCHANGED <<dep, job>> /\ pc = "wait"
  BY DEF WaitCancelled, LookWait, depVars, jobVars
<1>1. RunnerPC = "wait" /\ status = "running"
  BY <1>0, <1>p DEF PCMapped, StillRunning
<1>2. ASSUME pc' = "exits", result' = "failed", UNCHANGED <<status, saved>> PROVE BR!Next
  <2>1. RunnerPC' = "teardown"
    BY <1>2, <1>p DEF PCMapped
  <2>2. BR!FailConfig("wait", "teardown")
    BY <1>1, <1>2, <2>1, FailIs
  <2>3. BR!WaitFails
    BY <1>0, <2>2 DEF BR!WaitFails
  <2> QED
    BY <2>3, InConfig
<1>3. ASSUME pc' = "register", result' = "evaluating", saved' = "evaluating", UNCHANGED status,
             dep = "up"
      PROVE  BR!Next
  <2>1. RunnerPC' = "register"
    BY <1>3, <1>p DEF PCMapped
  <2>2. RecordOf(status, result)' = [RecordOf(status, result) EXCEPT !.results[1] = "evaluating"]
    BY <1>3, OutcomeIs DEF Outcome
  <2>3. BR!Save(TheRun, RecordOf(status, result)')
    BY <1>1, <1>3, SaveIs
  <2>4. BenchOf(dep)[BR!Current] = "up"
    BY <1>3, BenchIs, BenchStatusIs, CurrentIs
  <2>5. BR!WaitHealthy
    BY <1>0, <1>1, <2>1, <2>2, <2>3, <2>4, Zenon DEF BR!WaitHealthy, BR!Goes
  <2> QED
    BY <2>5, InConfig
<1>4. ASSUME UNCHANGED <<pc, status, result, saved>> PROVE UNCHANGED BR!vars
  <2>1. UNCHANGED RunnerPC
    BY <1>4 DEF RunnerPC
  <2> QED
    BY <1>0, <1>4, <2>1, Stutter
<1>5. CASE WaitCancelled
  BY <1>2, <1>5 DEF WaitCancelled, FailConfig
<1>6. ASSUME NEW s, LookWait(s) PROVE [BR!Next]_(BR!vars)
  <2>1. s = "up" => dep = "up"
    BY <1>6 DEF LookWait, Sights
  <2>2. \/ pc' = "exits" /\ result' = "failed" /\ UNCHANGED <<status, saved>>
        \/ /\ s = "up" /\ pc' = "register" /\ result' = "evaluating" /\ saved' = "evaluating"
           /\ UNCHANGED status
        \/ UNCHANGED <<pc, status, result, saved>>
    BY <1>0, <1>6 DEF LookWait, FailConfig, PauseAt, runVars
  <2> QED
    BY <1>2, <1>3, <1>4, <2>1, <2>2
<1> QED
  BY <1>5, <1>6

LEMMA RegisterMaps ==
  ASSUME TInv, UNCHANGED cancelled, RegisterEval \/ RegisterEvalFails
  PROVE  BR!Next
<1>p. PCMapped /\ PCMapped'
  BY RunnerPCIs, RunnerPCWillBe
<1>0. UNCHANGED dep /\ job \in JobStatus
  BY DEF RegisterEval, RegisterEvalFails, depVars, TInv, Kinds
<1>1. job' = "live" => EvalJobsOf(job)' = EvalJobsOf(job) \union {BR!Current}
  BY <1>0, JobsAre, CurrentIs
<1>2. CASE RegisterEval
  <2>1. RunnerPC = "register" /\ RunnerPC' = "watch"
    BY <1>2, <1>p DEF PCMapped, RegisterEval, Goes
  <2>2. UNCHANGED <<status, result, saved>> /\ job' = "live"
    BY <1>2 DEF RegisterEval, runVars
  <2>3. BR!RegisterEval
    BY <1>0, <1>1, <2>1, <2>2, Zenon DEF BR!RegisterEval, BR!Goes
  <2> QED
    BY <2>3, InConfig
<1>3. CASE RegisterEvalFails
  <2>1. RunnerPC = "register" /\ RunnerPC' = "teardown"
    BY <1>3, <1>p DEF PCMapped, RegisterEvalFails, FailConfig
  <2>2. result' = "failed" /\ UNCHANGED <<status, saved>>
    BY <1>3 DEF RegisterEvalFails, FailConfig
  <2>3. BR!FailConfig("register", "teardown")
    BY <2>1, <2>2, FailIs
  <2>4. UNCHANGED job \/ job' = "live"
    BY <1>3 DEF RegisterEvalFails
  <2>5. "error" \in {"error", "ambiguous", "user"} /\ "ambiguous" \in {"error", "ambiguous",
     "user"}
    OBVIOUS
  <2>6. BR!RegisterEvalFails
    BY <1>0, <1>1, <2>3, <2>4, <2>5, Zenon DEF BR!RegisterEvalFails
  <2> QED
    BY <2>6, InConfig
<1> QED
  BY <1>2, <1>3

LEMMA WatchMaps ==
  ASSUME TInv, UNCHANGED cancelled, WatchCancelled \/ LookJob \/ \E s : LookWatch(s)
  PROVE  [BR!Next]_(BR!vars)
<1>p. PCMapped /\ PCMapped'
  BY RunnerPCIs, RunnerPCWillBe
<1>0. UNCHANGED <<dep, job>> /\ pc \in {"watch", "watchJob"}
  BY DEF WatchCancelled, LookJob, LookWatch, depVars, jobVars
<1>1. RunnerPC = "watch"
  BY <1>0, <1>p DEF PCMapped
<1>2. ASSUME pc' = "purge", result' = "failed", UNCHANGED <<status, saved>> PROVE BR!Next
  <2>1. RunnerPC' = "purge"
    BY <1>2, <1>p DEF PCMapped
  <2>2. BR!FailConfig("watch", "purge")
    BY <1>1, <1>2, <2>1, FailIs
  <2>3. BR!EvalFails
    BY <1>0, <2>2 DEF BR!EvalFails
  <2> QED
    BY <2>3, InConfig
<1>3. ASSUME pc' = "purge", result' = "complete", UNCHANGED <<status, saved>>, job = "complete"
      PROVE  BR!Next
  <2>1. RunnerPC' = "purge"
    BY <1>3, <1>p DEF PCMapped
  <2>2. RecordOf(status, result)' = [RecordOf(status, result) EXCEPT !.results[1] = "complete"]
    BY <1>3, OutcomeIs DEF Outcome
  <2>3. BR!Current \in EvalJobsOf(job)
    BY <1>3, JobsAre, CurrentIs DEF JobStatus
  <2>4. BR!EvalCompletes
    BY <1>0, <1>1, <1>3, <2>1, <2>2, <2>3, Zenon DEF BR!EvalCompletes, BR!Goes
  <2> QED
    BY <2>4, InConfig
<1>4. ASSUME pc' \in {"watch", "watchJob"}, UNCHANGED <<status, result,
   saved>> PROVE UNCHANGED BR!vars
  <2>1. RunnerPC' = "watch"
    BY <1>4, <1>p DEF PCMapped
  <2> QED
    BY <1>0, <1>1, <1>4, <2>1, Stutter
<1>5. \/ pc' = "purge" /\ result' = "failed" /\ UNCHANGED <<status, saved>>
      \/ pc' = "purge" /\ result' = "complete" /\ UNCHANGED <<status, saved>> /\ job = "complete"
      \/ pc' \in {"watch", "watchJob"} /\ UNCHANGED <<status, result, saved>>
  BY DEF WatchCancelled, LookJob, ReadOutput, LookWatch, FailConfig, PauseAt, runVars
<1> QED
  BY <1>2, <1>3, <1>4, <1>5

LEMMA EndMaps ==
  ASSUME TInv, UNCHANGED cancelled, PurgeEval \/ Teardown \/ \E s : NoteExits(s)
  PROVE  [BR!Next]_(BR!vars)
<1>p. PCMapped /\ PCMapped'
  BY RunnerPCIs, RunnerPCWillBe
<1>0. UNCHANGED <<status, result, saved>>
  BY DEF PurgeEval, Teardown, NoteExits, runVars
<1>f. BR!MayFail
  BY DEF BR!MayFail
<1>1. CASE PurgeEval
  <2>1. RunnerPC = "purge" /\ RunnerPC' = "teardown"
    BY <1>1, <1>p DEF PCMapped, PurgeEval, Goes
  <2>2. UNCHANGED dep /\ job \in JobStatus /\ (job' = "absent" \/ UNCHANGED job)
    BY <1>1 DEF PurgeEval, depVars, TInv, Kinds
  <2>3. EvalJobsOf(job)' = EvalJobsOf(job) \ {BR!Current} \/ UNCHANGED EvalJobsOf(job)
    BY <2>2, JobsAre, CurrentIs
  <2>4. BR!PurgeEval
    BY <1>0, <1>f, <2>1, <2>2, <2>3, Zenon DEF BR!PurgeEval, BR!Goes
  <2> QED
    BY <2>4, InConfig
<1>2. CASE Teardown
  <2>1. RunnerPC = "teardown" /\ RunnerPC' = "saved"
    BY <1>2, <1>p DEF PCMapped, Teardown, Goes
  <2>2. UNCHANGED job /\ (dep' = "absent" \/ UNCHANGED dep)
    BY <1>2 DEF Teardown, jobVars
  <2>3. BenchOf(dep)' = [BenchOf(dep) EXCEPT ![BR!Current] = "absent"] \/ UNCHANGED BenchOf(dep)
    BY <2>2, BenchIs, BenchStatusIs, CurrentIs
  <2>4. BR!Teardown
    BY <1>0, <1>f, <2>1, <2>2, <2>3, Zenon DEF BR!Teardown, BR!Goes, BR!PurgeBench
  <2> QED
    BY <2>4, InConfig
<1>3. ASSUME NEW s, NoteExits(s) PROVE UNCHANGED BR!vars
  <2>1. UNCHANGED <<RunnerPC, dep, job>>
    BY <1>3, <1>p DEF PCMapped, NoteExits, Goes, jobVars
  <2> QED
    BY <1>0, <2>1, Stutter
<1> QED
  BY <1>1, <1>2, <1>3

(* Nomad is not seen by BenchRunner, but the users are.                    *)
LEMMA EnvironmentMaps ==
  ASSUME TInv, Environment
  PROVE  [BR!Next]_(BR!vars)
<1>1. UNCHANGED <<RunnerPC, cancelled, status, result, saved>>
  BY DEF Environment, StageJobEnds, EvalJobEnds, runVars, RunnerPC
<1>2. CASE EvalJobEnds \/ \E p \in Part : StageJobEnds(p)
  <2>1. UNCHANGED <<dep, EvalJobsOf(job)>>
    BY <1>2 DEF EvalJobEnds, StageJobEnds, depVars, jobVars, EvalJobsOf
  <2> QED
    BY <1>1, <2>1, Stutter
<1>3. CASE NomadStep /\ UNCHANGED job
  <2>1. BenchStatusOf(dep) = "up" /\ BenchStatusOf(dep') = "up"
    BY <1>3, BenchStatusIs DEF NomadStep, Serving
  <2>2. UNCHANGED BenchOf(dep)
    BY <2>1 DEF BenchOf
  <2> QED
    BY <1>1, <1>3, <2>2, Stutter
<1>4. CASE UserStop /\ UNCHANGED job
  <2>1. \/ dep \in {"starting", "up", "ended"} /\ dep' = "stopped"
        \/ dep \in Sight \ {"absent"} /\ dep' = "absent"
    BY <1>4 DEF UserStop, TInv, Kinds
  <2>2. BenchStatusOf(dep) # "absent" /\ BenchStatusOf(dep') \in {"dead", "absent"}
    BY <2>1, BenchStatusIs DEF Sight
  <2>3. /\ BenchOf(dep)[<<TheRun, 1>>] # "absent"
        /\ \/ BenchOf(dep)' = [BenchOf(dep) EXCEPT ![<<TheRun, 1>>] = "absent"]
           \/ BenchOf(dep)' = [BenchOf(dep) EXCEPT ![<<TheRun, 1>>] = "dead"]
    BY <2>2, BenchIs
  <2>4. <<TheRun, 1>> \in BR!Bench /\ "user" \in {"error", "ambiguous", "user"}
    BY DEF BR!Bench, BR!Cfg
  <2>5. BR!UserStopBench(<<TheRun, 1>>)
    BY <1>1, <1>4, <2>3, <2>4, Zenon DEF BR!UserStopBench, BR!PurgeBench, BR!execVars,
       BR!recVars, BR!ghosts
  <2> QED
    BY <2>4, <2>5 DEF BR!Next, BR!Environment
<1> QED
  BY <1>2, <1>3, <1>4 DEF Environment, jobVars

LEMMA StepMaps ==
  ASSUME TInv, StillRunning, [Next]_vars
  PROVE  [BR!Next]_(BR!vars)
<1>1. CASE Stage /\ UNCHANGED cancelled
  BY <1>1, StageMaps
<1>2. CASE RunConfig /\ UNCHANGED cancelled
  BY <1>2, DeployMaps, WaitMaps, RegisterMaps, WatchMaps, EndMaps DEF RunConfig
<1>3. CASE Cancel
  BY <1>3, CancelIs
<1>4. CASE Environment
  BY <1>4, EnvironmentMaps
<1>5. CASE (Wake /\ UNCHANGED cancelled) \/ Expire \/ UNCHANGED vars
  <2>1. UNCHANGED <<RunnerPC, cancelled, status, result, saved, dep, job>>
    BY <1>5 DEF Wake, Expire, vars, runVars, depVars, jobVars, RunnerPC
  <2> QED
    BY <2>1, Stutter
<1> QED
  BY <1>1, <1>2, <1>3, <1>4, <1>5 DEF Next, Execute

(* What the polling loops, their deadlines and their pauses make of a wait *)
(* is what BenchRunner, whose theorems rest on it, takes for one step:     *)
(* every call, look and pause of stageDataset and runConfig is a step of   *)
(* BenchRunner or leaves its state alone.                                  *)
THEOREM WaitsImplementRunner == Spec => ImplementsRunner
<1>1. Init => StillRunning
  BY DEF Init, StillRunning
<1>2. Spec => [](TInv /\ StillRunning)
  BY <1>1, TInit, TNext, StillRunningNext, PTL DEF Spec
<1>3. TInv /\ StillRunning /\ [Next]_vars => [BR!Next]_(BR!vars)
  BY StepMaps
<1> QED
  BY <1>2, <1>3, PTL DEF Spec, ImplementsRunner
=============================================================================
