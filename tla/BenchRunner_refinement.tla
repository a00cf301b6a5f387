------------------------ MODULE BenchRunner_refinement ------------------------
(***************************************************************************)
(* BenchRunner implements RunLifecycle: every step of the runner, of       *)
(* Recover, of a user or of a restart begins or ends a run, withholds a    *)
(* deployment, hands some back, or leaves the abstract state alone.        *)
(***************************************************************************)
EXTENDS BenchRunner_proofs

(* Where no record is deleted, whatever has been started has a record.     *)
Recorded == \A r \in used : disk[r].status # "none"

RInv == IInv /\ Recorded

-----------------------------------------------------------------------------
(* The four kinds of steps that the abstract specification can see.        *)

AbstractlySame == UNCHANGED <<RunLife, Withheld>>

LEMMA Frame ==
  ASSUME UNCHANGED <<disk, used, stoppedBy>>
  PROVE  AbstractlySame
BY DEF AbstractlySame, RunLife, Withheld, Active

(* A save of a record that is in progress.                                 *)
LEMMA SaveStep ==
  ASSUME IInv, NEW r \in Run, Active(disk[r]), UNCHANGED <<used, stoppedBy>>,
         \A q \in Run : q # r => disk'[q] = disk[q],
         disk[r].blamed \subseteq disk'[r].blamed
  PROVE  /\ Active(disk'[r]) => Lifecycle!Next
         /\ (~Active(disk'[r]) /\ \A d \in Dep : stoppedBy[d] = r => d \in disk[r].blamed)
              => Lifecycle!Next
<1>1. r \in used /\ stoppedBy \in [Dep -> Run \union {NoRun}]
  BY DEF IInv, RecordsInv, TypeInv, TypeOK, Active, ActiveStatus
<1>2. CASE Active(disk'[r])
  <2> DEFINE S == {d \in Dep : stoppedBy[d] = r /\ d \in disk'[r].blamed}
  <2>1. RunLife' = RunLife
    BY <1>1, <1>2 DEF RunLife, Active
  <2>2. Withheld' = [d \in Dep |-> IF d \in S THEN NoRun ELSE Withheld[d]]
    BY <1>1 DEF Withheld
  <2>3. Lifecycle!HandBack(S)
    BY <2>1, <2>2 DEF Lifecycle!HandBack
  <2> QED BY <1>2, <2>3 DEF Lifecycle!Next
<1>3. CASE ~Active(disk'[r]) /\ \A d \in Dep : stoppedBy[d] = r => d \in disk[r].blamed
  <2>1. RunLife[r] = "active" /\ RunLife' = [RunLife EXCEPT ![r] = "over"]
    BY <1>1, <1>3 DEF RunLife, Active
  <2>2. Withheld' = Withheld /\ \A d \in Dep : Withheld[d] # r
    BY <1>1, <1>3, RunAssumption DEF Withheld
  <2>3. Lifecycle!End(r)
    BY <2>1, <2>2 DEF Lifecycle!End
  <2> QED BY <1>3, <2>3 DEF Lifecycle!Next
<1> QED BY <1>2, <1>3

(* The stop of a deployment by the run in progress.                        *)
LEMMA StopStep ==
  ASSUME Tolerable, IInv, NEW d \in Dep, StopFor(active, d), pc = "stop",
         UNCHANGED <<disk, used>>
  PROVE  Lifecycle!Next \/ AbstractlySame
<1>1. /\ active \in Run /\ active # NoRun /\ active \in used
      /\ stoppedBy \in [Dep -> Run \union {NoRun}]
  BY DEF IInv, TypeInv, TypeOK, Control, RecordsInv
<1>2. CASE dep[d] = "up"
  <2>1. stoppedBy[d] = NoRun /\ stoppedBy' = [stoppedBy EXCEPT ![d] = active]
    BY <1>2 DEF StopFor, IInv, PromiseInv
  <2>2. Active(disk[active]) /\ disk[active].blamed = {}
    BY <1>1 DEF IInv, ExecInv
  <2>3. RunLife' = RunLife /\ RunLife[active] = "active"
    BY <1>1, <2>2 DEF RunLife, Active
  <2>4. Withheld[d] = NoRun /\ Withheld' = [Withheld EXCEPT ![d] = active]
    BY <1>1, <2>1, <2>2 DEF Withheld
  <2>5. Lifecycle!Withhold(active, d)
    BY <2>3, <2>4 DEF Lifecycle!Withhold
  <2> QED BY <1>1, <2>5 DEF Lifecycle!Next
<1>3. CASE dep[d] # "up"
  BY <1>3, Frame DEF StopFor
<1> QED BY <1>2, <1>3

(* A launch of a deployment, by whomever.                                  *)
LEMMA LaunchStep ==
  ASSUME IInv, NEW d \in Dep, Launch(d), UNCHANGED <<disk, used>>
  PROVE  Lifecycle!Next
<1>1. stoppedBy \in [Dep -> Run \union {NoRun}] /\ stoppedBy' = [stoppedBy EXCEPT ![d] = NoRun]
  BY DEF IInv, TypeInv, TypeOK, Launch
<1>2. RunLife' = RunLife
  BY DEF RunLife, Active
<1>3. Withheld' = [e \in Dep |-> IF e \in {d} THEN NoRun ELSE Withheld[e]]
  BY <1>1 DEF Withheld
<1>4. Lifecycle!HandBack({d})
  BY <1>2, <1>3 DEF Lifecycle!HandBack
<1> QED BY <1>4 DEF Lifecycle!Next

LEMMA RelaunchStep ==
  ASSUME IInv, NEW d \in Dep, DeploySucceeds(d) \/ DeployFails(d), UNCHANGED <<disk, used>>
  PROVE  Lifecycle!Next \/ AbstractlySame
BY LaunchStep, Frame DEF DeploySucceeds, DeployFails

-----------------------------------------------------------------------------
(* Every step maps to a step or a stutter. *)

LEMMA ExecRefines ==
  ASSUME Tolerable, IInv, IInv', ExecStep
  PROVE  Lifecycle!Next \/ AbstractlySame
<1>1. UNCHANGED <<active, used>>
  BY DEF ExecStep
<1>2. pc # "clear" /\ active # NoRun /\ active \in Run
  <2>1. RunConfigs => pc \in MeasuringPC
    BY RunConfigsEffect DEF IInv
  <2> QED BY <2>1 DEF ExecStep, StopOthers, ListOthers, ListFails, StopDone, PurgeLeftover, StopOne,
         StopFails, AbortStop, Restore, RestoreDone, RestoreOne, RestoreFails, ExecBegin, StageDone,
         StageFails, LoopDone, Decide, FinishSave, Goes, IInv, TypeInv, TypeOK, Control,
         MeasuringPC, AtConfig
<1>3. Active(disk[active]) /\ disk[active].blamed \subseteq run.blamed
  BY <1>2 DEF IInv, ExecInv
<1>4. CASE UNCHANGED <<disk, stoppedBy>>
  BY <1>1, <1>4, Frame
<1>5. ASSUME UNCHANGED stoppedBy, disk' = [disk EXCEPT ![active] = run'], pc' # "clear"
      PROVE  Lifecycle!Next
  <2>1. disk \in [Run -> Record]
    BY DEF IInv, TypeInv, TypeOK
  <2>2. Active(disk'[active])
    BY <1>1, <1>2, <1>5 DEF IInv, ExecInv
  <2>3. disk[active].blamed \subseteq disk'[active].blamed
    <3>1. run.blamed \subseteq run'.blamed
      <4>1. run \in Record
        BY DEF IInv, TypeInv, TypeOK
      <4>2. CASE RunConfigs
        <5>1. run' = [run EXCEPT !.results = run'.results]
          BY <4>2, RunConfigsEffect DEF IInv
        <5> QED BY <4>1, <5>1 DEF Record
      <4>3. CASE StageFails
        BY <4>1, <4>3 DEF StageFails, AllSkipped, Record
      <4>4. CASE ListFails \/ \E d \in Dep : StopFails(d)
        <5>1. AllSkipped(run) \in Record /\ AllSkipped(run).blamed = run.blamed
          BY <4>1, RecordOps DEF AllSkipped, Record
        <5> QED BY <4>4, <5>1 DEF ListFails, StopFails, AbortStop, Record
      <4>5. CASE ~(RunConfigs \/ StageFails \/ ListFails \/ \E d \in Dep : StopFails(d))
        BY <4>1, <4>5 DEF ExecStep, StopOthers, ListOthers, StopDone, PurgeLeftover, StopOne,
              Restore, RestoreDone, RestoreOne, RestoreFails, ExecBegin, StageDone,
              LoopDone, Decide, FinishSave, Record
      <4> QED BY <4>2, <4>3, <4>4, <4>5
    <3> QED BY <1>2, <1>3, <1>5, <2>1, <3>1
  <2>4. \A q \in Run : q # active => disk'[q] = disk[q]
    BY <1>5, <2>1
  <2> QED BY <1>1, <1>2, <1>3, <1>5, <2>2, <2>3, <2>4, SaveStep
<1>6. CASE FinishSave /\ UNCHANGED stoppedBy
  <2>1. disk' = [disk EXCEPT ![active] = run] /\ disk \in [Run -> Record]
    BY <1>6, TolerableOps DEF FinishSave, IInv, TypeInv, TypeOK
  <2>2. pc = "finish" /\ run.status \in EndStatus /\ disk[active].blamed = run.blamed
    BY <1>2, <1>6 DEF FinishSave, Goes, IInv, ExecInv, AfterRestore
  <2>3. \A d \in Dep : stoppedBy[d] = active => d \in disk[active].blamed
    BY <1>2, <2>2 DEF IInv, PromiseInv, Kept, Owing, MeasuringPC, AtConfig, AfterRestore
  <2>4. ~Active(disk'[active]) /\ \A q \in Run : q # active => disk'[q] = disk[q]
    BY <1>2, <2>1, <2>2 DEF Active, ActiveStatus, EndStatus
  <2>5. disk[active].blamed \subseteq disk'[active].blamed
    BY <1>2, <2>1, <2>2
  <2> QED BY <1>1, <1>2, <1>3, <1>6, <2>3, <2>4, <2>5, SaveStep
<1>7. CASE StopOthers
  <2>1. CASE StopDone
    BY <1>5, <2>1, TolerableOps DEF StopDone, Goes
  <2>2. CASE ListOthers \/ ListFails \/ \E b \in Bench : PurgeLeftover(b)
    BY <1>4, <2>2 DEF ListOthers, ListFails, AbortStop, PurgeLeftover
  <2>3. ASSUME NEW d \in Dep, StopOne(d) \/ StopFails(d)
        PROVE  Lifecycle!Next \/ AbstractlySame
    BY <1>1, <1>4, <2>3, StopStep DEF StopOne, StopFails, AbortStop, Goes
  <2> QED BY <1>7, <2>1, <2>2, <2>3 DEF StopOthers
<1>8. CASE Restore
  <2>1. CASE RestoreDone
    BY <1>5, <2>1, TolerableOps DEF RestoreDone, Goes
  <2>2. ASSUME NEW d \in Dep, RestoreOne(d) \/ RestoreFails(d)
        PROVE  Lifecycle!Next \/ AbstractlySame
    BY <1>1, <2>2, RelaunchStep DEF RestoreOne, RestoreFails
  <2> QED BY <1>8, <2>1, <2>2 DEF Restore
<1>9. CASE RunConfigs /\ UNCHANGED stoppedBy
  <2>1. /\ pc' \in MeasuringPC
        /\ disk' = disk \/ disk' = [disk EXCEPT ![active] = run']
    BY <1>9, RunConfigsEffect DEF IInv
  <2> QED BY <1>4, <1>5, <1>9, <2>1 DEF MeasuringPC, AtConfig
<1>10. CASE (ExecBegin \/ StageDone \/ StageFails \/ LoopDone \/ Decide) /\ UNCHANGED stoppedBy
  BY <1>4, <1>5, <1>10, TolerableOps DEF ExecBegin, StageDone, StageFails, LoopDone, Decide, Goes
<1> QED BY <1>6, <1>7, <1>8, <1>9, <1>10 DEF ExecStep

LEMMA RecoverRefines ==
  ASSUME Tolerable, RInv, Recover
  PROVE  Lifecycle!Next \/ AbstractlySame
<1>1. UNCHANGED used /\ disk \in [Run -> Record] /\ rec \in Record
  BY DEF Recover, RInv, IInv, TypeInv, TypeOK
<1>2. ASSUME rpc \in {"relaunch", "mark"}
      PROVE  /\ rid \in Run /\ Active(disk[rid]) /\ Active(rec)
             /\ disk[rid].blamed \subseteq rec.blamed
             /\ disk[rid].restored = rec.restored
  <2>1. rid \in Run /\ rid \in used /\ Active(rec)
    BY <1>2 DEF RInv, IInv, RecordsInv, RecoverInv, Recovering
  <2>2. disk[rid] # NoRecord
    BY <2>1, NoRecordFields DEF RInv, Recorded
  <2> QED BY <1>2, <2>1, <2>2 DEF RInv, IInv, RecoverInv, Recovering
<1>3. CASE RecoverRestored
  <2>1. /\ rpc = "relaunch" /\ disk' = [disk EXCEPT ![rid] = rec'] /\ UNCHANGED stoppedBy
    BY <1>3, TolerableOps DEF RecoverRestored, RecGoes
  <2>2. rec'.blamed = rec.blamed /\ rec'.status = rec.status
    BY <1>1, <1>3 DEF RecoverRestored, Record
  <2>3. /\ Active(disk'[rid]) /\ disk[rid].blamed \subseteq disk'[rid].blamed
        /\ \A q \in Run : q # rid => disk'[q] = disk[q]
    BY <1>1, <1>2, <2>1, <2>2 DEF Active
  <2> QED BY <1>1, <1>2, <2>1, <2>3, SaveStep DEF RInv
<1>4. CASE RecoverMark
  <2>1. /\ rpc = "mark" /\ disk' = [disk EXCEPT ![rid] = rec'] /\ UNCHANGED stoppedBy
    BY <1>4, TolerableOps DEF RecoverMark, RecGoes
  <2>2. rec'.blamed = rec.blamed /\ rec'.status = "interrupted"
    BY <1>1, <1>4 DEF RecoverMark, Record
  <2>3. /\ ~Active(disk'[rid]) /\ disk[rid].blamed \subseteq disk'[rid].blamed
        /\ \A q \in Run : q # rid => disk'[q] = disk[q]
    BY <1>1, <1>2, <2>1, <2>2 DEF Active, ActiveStatus
  <2>4. disk[rid].restored /\ rid # active
    BY <1>2, <2>1, RunAssumption DEF RInv, IInv, RecoverInv
  <2>5. \A d \in Dep : stoppedBy[d] = rid => d \in disk[rid].blamed
    BY <1>2, <2>1, <2>4, RunAssumption DEF RInv, IInv, PromiseInv, Kept, OnDisk
  <2> QED BY <1>1, <1>2, <2>1, <2>3, <2>5, SaveStep DEF RInv
<1>5. ASSUME NEW d \in Dep, RecoverDeploy(d) \/ RecoverDeployFails(d)
      PROVE  Lifecycle!Next \/ AbstractlySame
  BY <1>1, <1>5, RelaunchStep DEF RecoverDeploy, RecoverDeployFails, RInv
<1>6. CASE UNCHANGED <<disk, stoppedBy>>
  BY <1>1, <1>6, Frame
<1> QED BY <1>3, <1>4, <1>5, <1>6
        DEF Recover, RecoverList, RecoverListFails, RecoverTake, RecoverSweep, RecoverPurge,
            RecoverPurgeJobs, RecoverDone

LEMMA StepRefines ==
  ASSUME Tolerable, "delete" \notin Env, RInv, IInv', [Next]_vars
  PROVE  Lifecycle!Next \/ AbstractlySame
<1>1. CASE ExecStep
  BY <1>1, ExecRefines DEF RInv
<1>2. CASE Recover
  BY <1>2, RecoverRefines
<1>3. ASSUME NEW r \in Run, Start(r) PROVE Lifecycle!Next
  <2>1. /\ rpc = "done" /\ active = NoRun /\ r \notin used /\ used' = used \union {r}
        /\ disk' = [disk EXCEPT ![r] = NewRecord("pending")] /\ UNCHANGED stoppedBy
        /\ disk \in [Run -> Record]
    BY <1>3, TolerableOps DEF Start, RInv, IInv, TypeInv, TypeOK
  <2>2. \A q \in Run : ~Active(disk[q])
    BY <2>1, RunAssumption DEF RInv, IInv, RecordsTellTheTruth
  <2>3. Active(disk'[r]) /\ \A q \in Run : q # r => disk'[q] = disk[q]
    BY <2>1 DEF Active, ActiveStatus, NewRecord
  <2>4. RunLife[r] = "unborn" /\ (\A q \in Run : RunLife[q] # "active")
    BY <2>1, <2>2 DEF RunLife
  <2>5. RunLife' = [RunLife EXCEPT ![r] = "active"]
    BY <2>1, <2>2, <2>3 DEF RunLife, Active
  <2>6. Withheld' = Withheld
    <3>1. \A d \in Dep : stoppedBy[d] # r /\ stoppedBy[d] \in Run \union {NoRun}
      BY <2>1, RunAssumption DEF RInv, IInv, PromiseInv, TypeInv, TypeOK
    <3> QED BY <2>1, <2>3, <3>1 DEF Withheld
  <2>7. Lifecycle!Begin(r)
    BY <2>4, <2>5, <2>6 DEF Lifecycle!Begin
  <2> QED BY <2>7 DEF Lifecycle!Next
<1>4. ASSUME NEW d \in Dep, UserLaunch(d) PROVE Lifecycle!Next
  BY <1>4, LaunchStep DEF UserLaunch, RInv
<1>5. ASSUME NEW r \in Run, DeleteRun(r) PROVE FALSE
  BY <1>5 DEF DeleteRun
<1>6. CASE UNCHANGED <<disk, used, stoppedBy>>
  BY <1>6, Frame
<1> QED BY <1>1, <1>2, <1>3, <1>4, <1>5, <1>6
        DEF Next, Request, Execute, FinishClear, Environment, Crash, Cancel, UserStop, UserStopBench,
            Settle, ghosts, vars

LEMMA RecordedStep ==
  ASSUME Tolerable, "delete" \notin Env, RInv, IInv', [Next]_vars
  PROVE  Recorded'
<1>1. disk \in [Run -> Record] /\ used \subseteq Run
  BY DEF RInv, IInv, TypeInv, TypeOK
<1>2. CASE ExecStep
  <2>1. \A r \in Run : disk'[r] # disk[r] => r = active
    BY <1>2, ExecWrites DEF RInv
  <2>2. UNCHANGED <<active, used>>
    BY <1>2 DEF ExecStep
  <2>3. active # NoRun => disk'[active].status # "none"
    BY <2>2 DEF IInv, ExecInv, Active, ActiveStatus, EndStatus
  <2>4. \A r \in Run : r # active => disk'[r] = disk[r]
    BY <2>1
  <2> QED BY <1>1, <2>2, <2>3, <2>4, RunAssumption DEF RInv, Recorded
<1>3. CASE Recover
  <2>1. UNCHANGED used
    BY <1>3 DEF Recover
  <2>2. CASE RecoverRestored
    <3>1. rec'.status # "none" /\ disk' = [disk EXCEPT ![rid] = rec']
      BY <2>2, TolerableOps DEF RecoverRestored, RecGoes, RInv, IInv, RecoverInv, Recovering, Active,
                                ActiveStatus, TypeInv, TypeOK, Record
    <3> QED BY <1>1, <2>1, <3>1 DEF RInv, Recorded
  <2>3. CASE RecoverMark
    <3>1. rec'.status # "none" /\ disk' = [disk EXCEPT ![rid] = rec']
      BY <2>3, TolerableOps DEF RecoverMark, RInv, IInv, TypeInv, TypeOK, Record
    <3> QED BY <1>1, <2>1, <3>1 DEF RInv, Recorded
  <2>4. CASE disk' = disk
    BY <2>1, <2>4 DEF RInv, Recorded
  <2> QED BY <1>3, <2>2, <2>3, <2>4
          DEF Recover, RecoverList, RecoverListFails, RecoverTake, RecoverSweep, RecoverPurge,
              RecoverPurgeJobs, RecoverDeploy, RecoverDeployFails, RecoverDone
<1>4. ASSUME NEW r \in Run, Start(r) PROVE Recorded'
  BY <1>1, <1>4 DEF Start, NewRecord, RInv, Recorded
<1>5. ASSUME NEW r \in Run, DeleteRun(r) PROVE FALSE
  BY <1>5 DEF DeleteRun
<1>6. CASE UNCHANGED <<disk, used>>
  BY <1>6 DEF RInv, Recorded
<1> QED BY <1>2, <1>3, <1>4, <1>5, <1>6
        DEF Next, Request, Execute, FinishClear, Environment, Crash, Cancel, UserLaunch, UserStop,
            UserStopBench, Settle, ghosts, vars

(* The runner keeps the promise RunLifecycle states: runs follow one       *)
(* another, only a run in progress withholds a deployment, and a run is    *)
(* over only when each has been relaunched or reported; restarts included. *)
THEOREM Refines ==
  ASSUME Tolerable, "delete" \notin Env
  PROVE  Spec => ImplementsLifecycle
<1>1. Init => RInv
  BY InitInv DEF RInv, Recorded, Init
<1>2. RInv /\ [Next]_vars => RInv'
  BY NextInv, RecordedStep DEF RInv
<1>3. Init => Lifecycle!Init
  BY RunAssumption DEF Init, Lifecycle!Init, RunLife, Withheld
<1>4. RInv /\ [Next]_vars => [Lifecycle!Next]_(Lifecycle!vars)
  BY NextInv, StepRefines DEF RInv, AbstractlySame, Lifecycle!vars
<1> QED BY <1>1, <1>2, <1>3, <1>4, PTL DEF Spec, ImplementsLifecycle, Lifecycle!Spec
===============================================================================
