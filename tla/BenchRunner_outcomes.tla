------------------------- MODULE BenchRunner_outcomes -------------------------
(***************************************************************************)
(* What a run leaves behind, in its record and in the cluster.  Each part  *)
(* has an inductive invariant of its own, which allows as much of the      *)
(* environment as its theorem does.                                        *)
(***************************************************************************)
EXTENDS BenchRunner_proofs

-----------------------------------------------------------------------------
(* Who saves what: execute its record, Recover the copy it works on.       *)

LEMMA ExecSaves ==
  ASSUME TypeInv, ExecStep
  PROVE  disk' = disk \/ disk' = [disk EXCEPT ![active] = run']
<1>1. CASE RunConfigs
  BY <1>1, RunConfigsEffect
<1>2. CASE ~RunConfigs
  BY <1>2 DEF ExecStep, StopOthers, ListOthers, ListFails, StopDone, PurgeLeftover, StopOne, StopFails,
              AbortStop, Restore, RestoreDone, RestoreOne, RestoreFails, ExecBegin, StageDone,
              StageFails, LoopDone, Decide, FinishSave, Save
<1> QED BY <1>1, <1>2

LEMMA RecoverSaves ==
  ASSUME Recover
  PROVE  \/ disk' = disk
         \/ rpc \in {"relaunch", "mark"} /\ disk' = [disk EXCEPT ![rid] = rec']
BY DEF Recover, RecoverList, RecoverListFails, RecoverTake, RecoverSweep, RecoverPurge,
       RecoverPurgeJobs, RecoverDeploy, RecoverDeployFails, RecoverRestored, RecoverMark,
       RecoverDone, RecGoes, Save

-----------------------------------------------------------------------------
(* A record with an end status is settled.  Nothing is assumed of the      *)
(* environment: each goroutine sees to it that what it saves is settled,   *)
(* so it does not matter in which order they save, or what fails.          *)

Answered(record) == \A c \in Cfg : record.results[c] \in CfgEnd

Settled(record) ==
  record.status \in EndStatus =>
    /\ Answered(record)
    /\ record.status = "complete" => \A c \in Cfg : record.results[c] # "skipped"
    /\ record.restore # {} => record.restored

(* The configurations before n have been measured, have failed or, if the  *)
(* run is cancelled, have been skipped.                                    *)
MeasuredBefore(n) ==
  \A c \in Cfg : c < n => /\ run.results[c] \in CfgEnd
                          /\ run.results[c] = "skipped" => cancelled

ExecSettled ==
  /\ Settled(run)
  /\ pc \notin {"idle", "finish", "clear"} => Active(run)
  /\ pc \in BeforeStop => run.restore = {}
  /\ pc \in BeforeStop \union {"stop"} => cfg = 1 /\ ~stopErr
  /\ pc \in MeasuringPC => ~stopErr /\ MeasuredBefore(cfg)
  /\ pc \in {"purge", "teardown", "saved"} => run.results[cfg] \in {"complete", "failed"}
  /\ pc \in {"restore", "decide"} =>
       /\ Answered(run)
       /\ \A c \in Cfg : run.results[c] = "skipped" => cancelled \/ stopErr
  /\ pc = "decide" => run.restored

RecoverSettled ==
  /\ rpc \in {"next"} \union Recovering => \A r \in rlist : Active(rsnap[r])
  /\ rpc \in Recovering => Active(rec) /\ Answered(rec)
  /\ rpc = "mark" => rec.restored

SettledInv ==
  /\ TypeInv
  /\ \A r \in Run : Settled(disk[r])
  /\ ExecSettled
  /\ RecoverSettled

LEMMA ActiveSettled == ASSUME NEW record, Active(record) PROVE Settled(record)
BY DEF Active, Settled, ActiveStatus, EndStatus

LEMMA NoneSettled == Settled(NoRecord)
BY NoRecordFields DEF Settled, EndStatus

LEMMA AbortSettled ==
  ASSUME TypeInv, Active(run), NEW from, NEW D \in SUBSET Dep, AbortStop(from, D)
  PROVE  ExecSettled'
<1>1. run \in Record
  BY DEF TypeInv, TypeOK
<1>2. /\ AllSkipped(run) \in Record /\ AllSkipped(run).status = run.status
      /\ Answered(AllSkipped(run))
  BY <1>1, RecordOps DEF AllSkipped, Record, Answered, CfgEnd
<1>3. run' = [AllSkipped(run) EXCEPT !.blamed = AllSkipped(run).blamed \union D]
  BY DEF AbortStop
<1>4. run'.status = run.status /\ Answered(run')
  BY <1>2, <1>3 DEF Record, Answered
<1>5. Active(run')
  BY <1>4 DEF Active
<1> QED BY <1>4, <1>5, ActiveSettled
        DEF AbortStop, Goes, ExecSettled, Answered, BeforeStop, MeasuringPC, AtConfig

LEMMA StopOthersSettled ==
  ASSUME TypeInv, ExecSettled, StopOthers, UNCHANGED cancelled
  PROVE  ExecSettled'
<1>1. run \in Record
  BY DEF TypeInv, TypeOK
<1>2. pc \in {"list", "stop"} /\ Active(run)
  BY DEF StopOthers, ListOthers, ListFails, StopDone, PurgeLeftover, StopOne, StopFails,
         AbortStop, Goes, ExecSettled
<1> USE <1>1, <1>2 DEF Goes
<1>3. CASE ListFails \/ \E d \in Dep : StopFails(d)
  BY <1>3, AbortSettled DEF ListFails, StopFails
<1>4. CASE ListOthers \/ \E b \in Bench : PurgeLeftover(b)
  BY <1>4 DEF ListOthers, PurgeLeftover, ExecSettled, BeforeStop, MeasuringPC, AtConfig
<1>5. CASE StopDone
  <2>1. MeasuredBefore(cfg)'
    BY <1>5 DEF StopDone, ExecSettled, MeasuredBefore, Cfg
  <2> QED BY <1>5, <2>1 DEF StopDone, ExecSettled, BeforeStop, MeasuringPC, AtConfig
<1>6. ASSUME NEW d \in Dep, StopOne(d) PROVE ExecSettled'
  BY <1>6, ActiveSettled DEF StopOne, ExecSettled, BeforeStop, MeasuringPC, AtConfig, Active, Record
<1> QED BY <1>3, <1>4, <1>5, <1>6 DEF StopOthers

LEMMA RunConfigsSettled ==
  ASSUME TypeInv, TypeInv', ExecSettled, RunConfigs, UNCHANGED cancelled
  PROVE  ExecSettled'
<1>1. run \in Record /\ run' \in Record /\ cfg \in 1 .. NumConfigs + 1
      /\ (pc \in AtConfig => cfg \in Cfg)
  BY DEF TypeInv, TypeOK, Control
<1>2. /\ pc \in MeasuringPC /\ pc' \in MeasuringPC /\ UNCHANGED stopErr
      /\ run' = [run EXCEPT !.results = run'.results]
  BY RunConfigsEffect
<1>3. run'.status = run.status
  BY <1>1, <1>2 DEF Record
<1>4. Active(run) /\ ~stopErr /\ MeasuredBefore(cfg)
  BY <1>2 DEF ExecSettled, MeasuringPC, AtConfig
<1>5. Active(run') /\ Settled(run')
  BY <1>3, <1>4, ActiveSettled DEF Active
<1>6. SUFFICES /\ MeasuredBefore(cfg)'
               /\ pc' \in {"purge", "teardown", "saved"} =>
                    run'.results[cfg'] \in {"complete", "failed"}
  BY <1>2, <1>4, <1>5, <1>6
     DEF ExecSettled, BeforeStop, MeasuringPC, AtConfig
<1> USE <1>1, <1>4 DEF Goes, AtConfig
(* A step that marks nothing but the configuration in progress.            *)
<1>7. ASSUME UNCHANGED cfg, NEW s \in CfgStatus,
             run' = [run EXCEPT !.results[cfg] = s] \/ run' = run
      PROVE  MeasuredBefore(cfg)'
  <2>1. \A c \in Cfg : c < cfg => c # cfg
    BY DEF Cfg
  <2>2. \A c \in Cfg : c # cfg => run'.results[c] = run.results[c]
    BY <1>7 DEF Record
  <2> QED BY <1>7, <2>1, <2>2 DEF MeasuredBefore
<1>8. \A s \in CfgStatus : cfg \in Cfg /\ run' = [run EXCEPT !.results[cfg] = s] =>
        run'.results[cfg] = s
  BY DEF Record
<1>9. {"skipped", "deploying", "evaluating", "complete", "failed"} \subseteq CfgStatus
  BY DEF CfgStatus, CfgEnd
<1>10. CASE SkipConfig
  <2>1. \A c \in Cfg : c < cfg => run'.results[c] = run.results[c]
    BY <1>10 DEF SkipConfig, Cfg, Record
  <2>2. cancelled /\ run'.results[cfg] = "skipped" /\ cfg' = cfg + 1
    BY <1>8, <1>9, <1>10 DEF SkipConfig
  <2>3. MeasuredBefore(cfg)'
    BY <2>1, <2>2 DEF MeasuredBefore, CfgEnd, Cfg
  <2> QED BY <1>10, <2>3 DEF SkipConfig
<1>11. CASE BeginConfig
  BY <1>7, <1>9, <1>11 DEF BeginConfig
<1>12. CASE DeployConfig \/ RegisterEval \/ SaveProgress
  BY <1>7, <1>9, <1>12 DEF DeployConfig, RegisterEval, SaveProgress
<1>13. CASE DeployConfigFails \/ WaitFails \/ RegisterEvalFails \/ EvalFails
  BY <1>7, <1>8, <1>9, <1>13 DEF DeployConfigFails, WaitFails, RegisterEvalFails, EvalFails, FailConfig
<1>14. CASE WaitHealthy
  BY <1>7, <1>9, <1>14 DEF WaitHealthy
<1>15. CASE EvalCompletes
  BY <1>7, <1>8, <1>9, <1>15 DEF EvalCompletes
<1>16. CASE PurgeEval \/ Teardown
  BY <1>7, <1>9, <1>16 DEF PurgeEval, Teardown, ExecSettled
<1>17. CASE SaveConfig
  <2>1. run.results[cfg] \in {"complete", "failed"} /\ run' = run /\ cfg' = cfg + 1
    BY <1>17 DEF SaveConfig, ExecSettled
  <2>2. MeasuredBefore(cfg)'
    BY <2>1 DEF MeasuredBefore, CfgEnd, Cfg
  <2> QED BY <1>17, <2>2 DEF SaveConfig
<1> QED BY <1>10, <1>11, <1>12, <1>13, <1>14, <1>15, <1>16, <1>17 DEF RunConfigs

LEMMA RestoreSettled ==
  ASSUME TypeInv, ExecSettled, Restore, UNCHANGED cancelled
  PROVE  ExecSettled'
<1>1. run \in Record
  BY DEF TypeInv, TypeOK
<1>2. pc = "restore" /\ pc' \in {"restore", "decide"} /\ UNCHANGED <<stopErr, cfg>>
      /\ (pc' = "decide" => run'.restored)
  BY <1>1 DEF Restore, RestoreDone, RestoreOne, RestoreFails, Goes, Record
<1>3. run'.status = run.status /\ run'.results = run.results
  BY <1>1 DEF Restore, RestoreDone, RestoreOne, RestoreFails, Record
<1>4. Active(run')
  BY <1>2, <1>3 DEF ExecSettled, Active
<1> QED BY <1>2, <1>3, <1>4, ActiveSettled
        DEF ExecSettled, Answered, BeforeStop, MeasuringPC, AtConfig

LEMMA ExecStepSettled ==
  ASSUME TypeInv, TypeInv', ExecSettled, ExecStep
  PROVE  ExecSettled'
<1>1. run \in Record /\ cfg \in 1 .. NumConfigs + 1 /\ UNCHANGED cancelled
  BY DEF TypeInv, TypeOK, ExecStep
<1> USE <1>1 DEF Goes, BeforeStop, MeasuringPC, AtConfig
<1>2. CASE StopOthers
  BY <1>2, StopOthersSettled
<1>3. CASE Restore
  BY <1>3, RestoreSettled
<1>4. CASE RunConfigs
  BY <1>4, RunConfigsSettled
<1>5. CASE ExecBegin
  <2>1. /\ run'.status = "running" /\ run'.restore = run.restore
        /\ UNCHANGED <<cfg, stopErr>> /\ pc = "begin" /\ pc' = "stage"
    BY <1>5 DEF ExecBegin, Record
  <2> QED BY <2>1, ActiveSettled DEF ExecSettled, Active, ActiveStatus
<1>6. CASE StageDone
  BY <1>6 DEF StageDone, ExecSettled
<1>7. CASE StageFails
  <2>1. /\ AllSkipped(run) \in Record /\ Answered(AllSkipped(run))
        /\ AllSkipped(run).restore = run.restore
    BY RecordOps DEF AllSkipped, Record, Answered, CfgEnd
  <2>2. /\ run'.status \in {"cancelled", "failed"} /\ Answered(run')
        /\ run'.restore = {}
    BY <1>7, <2>1 DEF StageFails, Record, ExecSettled, Answered
  <2> QED BY <1>7, <2>2 DEF StageFails, ExecSettled, Settled
<1>8. CASE LoopDone
  <2>1. \A c \in Cfg : c < cfg
    BY <1>8, ConfigAssumption DEF LoopDone, Cfg
  <2>2. run' = run /\ pc = "loop" /\ pc' = "restore"
    BY <1>8 DEF LoopDone
  <2> QED BY <2>1, <2>2 DEF ExecSettled, MeasuredBefore, Answered
<1>9. CASE Decide
  <2>1. /\ run'.results = run.results /\ run'.restored = run.restored
        /\ run'.status = IF stopErr THEN "failed" ELSE IF cancelled THEN "cancelled" ELSE "complete"
    BY <1>9 DEF Decide, Record
  <2> QED BY <1>9, <2>1 DEF Decide, ExecSettled, Settled, Answered
<1>10. CASE FinishSave
  BY <1>10 DEF FinishSave, ExecSettled
<1> QED BY <1>2, <1>3, <1>4, <1>5, <1>6, <1>7, <1>8, <1>9, <1>10 DEF ExecStep

LEMMA RecoverStepSettled ==
  ASSUME SettledInv, TypeInv', Recover
  PROVE  SettledInv'
<1>1. /\ rec \in Record /\ rec' \in Record /\ disk \in [Run -> Record]
      /\ rsnap \in [Run -> Record] /\ rlist \subseteq Run
  BY DEF SettledInv, TypeInv, TypeOK
<1>2. UNCHANGED execVars
  BY DEF Recover
<1>3. ExecSettled'
  BY <1>2 DEF SettledInv, ExecSettled, execVars, MeasuredBefore
<1> USE <1>1 DEF RecGoes, Recovering, SettledInv
<1>4. SUFFICES /\ RecoverSettled'
               /\ rpc \in {"relaunch", "mark"} /\ disk' = [disk EXCEPT ![rid] = rec']
                    => Settled(rec')
  <2>1. \A r \in Run : Settled(disk'[r])
    BY <1>4, RecoverSaves
  <2> QED BY <1>3, <1>4, <2>1
<1> USE DEF RecoverSettled
<1>5. CASE RecoverList
  BY <1>5 DEF RecoverList
<1>6. CASE RecoverListFails
  BY <1>6 DEF RecoverListFails
<1>7. ASSUME NEW r \in Run, RecoverTake(r)
      PROVE  RecoverSettled' /\ rpc = "next"
  <2>1. rec'.status = rsnap[r].status /\ Answered(rec')
    BY <1>7 DEF RecoverTake, Interrupt, Record, Answered, CfgStatus, CfgEnd
  <2> QED BY <1>7, <2>1 DEF RecoverTake, Active
<1>8. CASE RecoverSweep
  BY <1>8 DEF RecoverSweep
<1>9. ASSUME NEW b \in Bench, RecoverPurge(b)
      PROVE  RecoverSettled' /\ rpc = "purge"
  BY <1>9 DEF RecoverPurge
<1>10. CASE RecoverPurgeJobs
  BY <1>10 DEF RecoverPurgeJobs
<1>11. ASSUME NEW d \in Dep, RecoverDeploy(d)
       PROVE  RecoverSettled' /\ Settled(rec')
  BY <1>11, ActiveSettled DEF RecoverDeploy
<1>12. ASSUME NEW d \in Dep, RecoverDeployFails(d)
       PROVE  RecoverSettled' /\ Settled(rec')
  <2>1. rec'.status = rec.status /\ rec'.results = rec.results
    BY <1>12 DEF RecoverDeployFails, Record
  <2>2. Active(rec') /\ Answered(rec')
    BY <1>12, <2>1 DEF RecoverDeployFails, Active, Answered
  <2> QED BY <1>12, <2>2, ActiveSettled DEF RecoverDeployFails
<1>13. CASE RecoverRestored
  <2>1. rec'.status = rec.status /\ rec'.results = rec.results /\ rec'.restored
    BY <1>13 DEF RecoverRestored, Record
  <2>2. Active(rec') /\ Answered(rec')
    BY <1>13, <2>1 DEF RecoverRestored, Active, Answered
  <2> QED BY <1>13, <2>1, <2>2, ActiveSettled DEF RecoverRestored
<1>14. CASE RecoverMark
  <2>1. rec'.status = "interrupted" /\ rec'.results = rec.results /\ rec'.restored
    BY <1>14 DEF RecoverMark, Record
  <2> QED BY <1>14, <2>1 DEF RecoverMark, Settled, Answered
<1>15. CASE RecoverDone
  BY <1>15 DEF RecoverDone
<1> QED BY <1>5, <1>6, <1>7, <1>8, <1>9, <1>10, <1>11, <1>12, <1>13, <1>14, <1>15 DEF Recover

LEMMA SettledNext == SettledInv /\ [Next]_vars => SettledInv'
<1> SUFFICES ASSUME SettledInv, [Next]_vars PROVE SettledInv'
  OBVIOUS
<1>1. TypeInv' /\ TypeInv /\ disk \in [Run -> Record] /\ ExecSettled /\ RecoverSettled
  BY NextType DEF SettledInv, TypeInv, TypeOK
<1>2. CASE ExecStep
  <2>1. ExecSettled'
    BY <1>1, <1>2, ExecStepSettled
  <2>2. \A r \in Run : Settled(disk'[r])
    BY <1>1, <1>2, <2>1, ExecSaves DEF SettledInv, ExecSettled
  <2>3. RecoverSettled'
    BY <1>1, <1>2 DEF ExecStep, recVars, RecoverSettled
  <2> QED BY <1>1, <2>1, <2>2, <2>3 DEF SettledInv
<1>3. CASE Recover
  BY <1>1, <1>3, RecoverStepSettled
<1>4. ASSUME NEW r \in Run, Start(r) PROVE SettledInv'
  <2>1. /\ disk' = [disk EXCEPT ![r] = run'] /\ pc' = "begin" /\ cfg' = 1 /\ ~stopErr'
        /\ run' = NewRecord("pending") /\ UNCHANGED recVars
    BY <1>4 DEF Start
  <2>2. Active(run') /\ run'.restore = {}
    BY <2>1 DEF NewRecord, Active, ActiveStatus
  <2>3. ExecSettled'
    BY <2>1, <2>2, ActiveSettled DEF ExecSettled, BeforeStop, MeasuringPC, AtConfig
  <2>4. \A q \in Run : Settled(disk'[q])
    BY <1>1, <2>1, <2>2, ActiveSettled DEF SettledInv
  <2> QED BY <1>1, <2>1, <2>3, <2>4 DEF SettledInv, RecoverSettled, recVars
<1>5. ASSUME NEW r \in Run, Cancel(r) PROVE SettledInv'
  <2>1. ExecSettled'
    BY <1>1, <1>5 DEF Cancel, ExecSettled, MeasuredBefore
  <2> QED BY <1>1, <1>5, <2>1 DEF Cancel, recVars, SettledInv, RecoverSettled
<1>6. ASSUME NEW r \in Run, DeleteRun(r) PROVE SettledInv'
  <2>1. \A q \in Run : Settled(disk'[q])
    BY <1>1, <1>6, NoneSettled DEF DeleteRun, SettledInv
  <2> QED BY <1>1, <1>6, <2>1 
      DEF DeleteRun, execVars, recVars, SettledInv, ExecSettled, RecoverSettled, MeasuredBefore
<1>7. CASE FinishClear
  <2>1. ExecSettled'
    BY <1>7, NoneSettled
       DEF FinishClear, NoExecution, ExecSettled, BeforeStop, MeasuringPC, AtConfig
  <2> QED BY <1>1, <1>7, <2>1 DEF FinishClear, recVars, SettledInv, RecoverSettled
<1>8. CASE Crash
  <2>1. ExecSettled'
    BY <1>8, NoneSettled
       DEF Crash, NoExecution, ExecSettled, BeforeStop, MeasuringPC, AtConfig
  <2> QED BY <1>1, <1>8, <2>1 DEF Crash, SettledInv, RecoverSettled, Recovering
<1>9. CASE UNCHANGED <<execVars, recVars, disk>>
  BY <1>1, <1>9 DEF execVars, recVars, SettledInv, ExecSettled, RecoverSettled, MeasuredBefore
<1> QED BY <1>2, <1>3, <1>4, <1>5, <1>6, <1>7, <1>8, <1>9
        DEF Next, Request, Execute, Environment, UserLaunch, UserStop, UserStopBench, Settle, vars

(* A record with an end status has an outcome for every configuration, a   *)
(* complete one skipped none of them, and what the run had stopped it has  *)
(* tried to relaunch: whatever fails, whenever the process is restarted    *)
(* and even where Recover runs beside a run that was started early.        *)
THEOREM EndedRecordsAreSettled == Spec => []EndedIsSettled
<1>1. Init => SettledInv
  BY InitType, NoneSettled
     DEF Init, SettledInv, ExecSettled, RecoverSettled, BeforeStop, MeasuringPC, AtConfig, Recovering
<1>2. SettledInv => EndedIsSettled
  BY DEF SettledInv, Settled, Answered, EndedIsSettled
<1> QED BY <1>1, <1>2, SettledNext, PTL DEF Spec

-----------------------------------------------------------------------------
(* A measurement that has been saved stays.  Execute saves a record that   *)
(* has at least the measurements on disk, and so does Recover, since only  *)
(* it writes while it works on its copy: no run is started beside it.      *)

Keeps(old, new) ==
  \A c \in Cfg : old.results[c] = "complete" => new.results[c] = "complete"

(* The configurations from here on have no measurement yet.                *)
Unmeasured ==
  CASE pc \in BeforeStop \union {"stop"} -> 1
    [] pc \in {"loop", "deploy", "wait", "register", "watch"} -> cfg
    [] pc \in {"purge", "teardown", "saved"} -> cfg + 1
    [] OTHER -> NumConfigs + 1

ExecKeeps ==
  active # NoRun =>
    /\ rpc = "done"
    /\ active \in used
    /\ Keeps(disk[active], run)
    /\ \A c \in Cfg : c >= Unmeasured => run.results[c] # "complete"
    /\ pc \in BeforeStop \union {"stop"} => cfg = 1

RecoverKeeps ==
  /\ rpc \in {"next"} \union Recovering =>
       /\ rlist \subseteq used
       /\ \A r \in rlist : Keeps(disk[r], rsnap[r])
  /\ rpc \in Recovering => rid \in used /\ rid \notin rlist /\ Keeps(disk[rid], rec)

KeptInv ==
  /\ TypeInv
  /\ \A r \in Run : r \notin used => disk[r] = NoRecord
  /\ ExecKeeps
  /\ RecoverKeeps

LEMMA NoneKept == \A new : Keeps(NoRecord, new)
BY DEF NoRecord, NewRecord, Keeps

(* What a step of execute does to the measurements of its record.          *)
LEMMA ExecStepKeeps ==
  ASSUME TypeInv, TypeInv', ExecKeeps, ExecStep
  PROVE  /\ Keeps(run, run')
         /\ \A c \in Cfg : c >= Unmeasured' => run'.results[c] # "complete"
         /\ pc' \in BeforeStop \union {"stop"} => cfg' = 1
<1>1. /\ run \in Record /\ run' \in Record /\ cfg \in 1 .. NumConfigs + 1 /\ active # NoRun
      /\ (pc \in AtConfig => cfg \in Cfg)
  <2>1. pc # "idle"
    <3>1. CASE RunConfigs
      BY <3>1, RunConfigsEffect DEF MeasuringPC, AtConfig
    <3>2. CASE ~RunConfigs
      BY <3>2 DEF ExecStep, StopOthers, ListOthers, ListFails, StopDone, PurgeLeftover, StopOne,
            StopFails, AbortStop, Restore, RestoreDone, RestoreOne, RestoreFails, ExecBegin,
            StageDone, StageFails, LoopDone, Decide, FinishSave, Goes
    <3> QED BY <3>1, <3>2
  <2> QED BY <2>1 DEF TypeInv, TypeOK, Control
<1>2. /\ \A c \in Cfg : c >= Unmeasured => run.results[c] # "complete"
      /\ pc \in BeforeStop \union {"stop"} => cfg = 1
  BY <1>1 DEF ExecKeeps
<1>3. \A c \in Cfg : c >= 1 /\ c < NumConfigs + 1 /\ c \in Nat
  BY ConfigAssumption DEF Cfg
<1> USE <1>1, <1>2, <1>3, ConfigAssumption DEF Goes, BeforeStop
(* The steps that leave the measurements alone.                            *)
<1>4. ASSUME run'.results = run.results, Unmeasured' >= Unmeasured,
             Unmeasured \in Nat, Unmeasured' \in Nat
      PROVE  /\ Keeps(run, run')
             /\ \A c \in Cfg : c >= Unmeasured' => run'.results[c] # "complete"
  BY <1>4 DEF Keeps
(* Those that skip everything, before anything has been measured.          *)
<1>5. ASSUME \A c \in Cfg : run'.results[c] = "skipped", pc \in BeforeStop \union {"stop"}
      PROVE  /\ Keeps(run, run')
             /\ \A c \in Cfg : c >= Unmeasured' => run'.results[c] # "complete"
  BY <1>5 DEF Keeps, Unmeasured
<1>6. \A c \in Cfg : AllSkipped(run).results[c] = "skipped"
  BY DEF AllSkipped, Record
<1>7. CASE StageFails
  <2>1. \A c \in Cfg : run'.results[c] = "skipped"
    BY <1>6, <1>7, RecordOps DEF StageFails, Record
  <2> QED BY <1>5, <1>7, <2>1 DEF StageFails
<1>8. CASE ListFails \/ \E d \in Dep : StopFails(d)
  <2>1. \A c \in Cfg : run'.results[c] = "skipped"
    BY <1>6, <1>8, RecordOps DEF ListFails, StopFails, AbortStop, Record
  <2> QED BY <1>5, <1>8, <2>1 DEF ListFails, StopFails, AbortStop
<1>9. CASE ExecBegin \/ StageDone \/ ListOthers \/ StopDone \/ LoopDone \/ Decide \/ FinishSave
  <2>1. run'.results = run.results /\ UNCHANGED cfg
    BY <1>9 DEF ExecBegin, StageDone, ListOthers, StopDone, LoopDone, Decide, FinishSave, Record
  <2>2. Unmeasured' >= Unmeasured /\ Unmeasured \in Nat /\ Unmeasured' \in Nat
    BY <1>9, <2>1 DEF ExecBegin, StageDone, ListOthers, StopDone, LoopDone, Decide, FinishSave, Unmeasured
  <2> QED BY <1>4, <1>9, <2>1, <2>2
          DEF ExecBegin, StageDone, ListOthers, StopDone, LoopDone, Decide, FinishSave
<1>10. CASE (\E b \in Bench : PurgeLeftover(b)) \/ (\E d \in Dep : StopOne(d))
  <2>1. run'.results = run.results /\ UNCHANGED <<cfg, pc>> /\ pc = "stop"
    BY <1>10 DEF PurgeLeftover, StopOne, Record
  <2> QED BY <1>4, <2>1 DEF Unmeasured
<1>11. CASE Restore
  <2>1. run'.results = run.results /\ pc = "restore" /\ pc' \in {"restore", "decide"}
    BY <1>11 DEF Restore, RestoreDone, RestoreOne, RestoreFails, Record
  <2> QED BY <1>4, <2>1 DEF Unmeasured
<1>12. CASE RunConfigs
  <2>1. pc' \in MeasuringPC
    BY <1>12, RunConfigsEffect
  <2>2. ASSUME NEW s \in CfgStatus, run' = [run EXCEPT !.results[cfg] = s],
               pc \in {"loop", "deploy", "wait", "register", "watch"}, cfg \in Cfg,
               s = "complete" => Unmeasured' = cfg + 1,
               Unmeasured' \in {cfg, cfg + 1}
        PROVE  /\ Keeps(run, run')
               /\ \A c \in Cfg : c >= Unmeasured' => run'.results[c] # "complete"
    <3>1. run'.results[cfg] = s /\ \A c \in Cfg : c # cfg => run'.results[c] = run.results[c]
      BY <2>2 DEF Record
    <3>2. run.results[cfg] # "complete" /\ Unmeasured = cfg
      BY <2>2 DEF Unmeasured
    <3> QED BY <2>2, <3>1, <3>2 DEF Keeps
  <2>3. {"skipped", "deploying", "evaluating", "complete", "failed"} \subseteq CfgStatus
    BY DEF CfgStatus, CfgEnd
  <2> USE <1>12, <2>1, <2>2, <2>3 DEF MeasuringPC, AtConfig
  <2>4. CASE SkipConfig
    BY <2>4 DEF SkipConfig, Unmeasured
  <2>5. CASE BeginConfig
    BY <2>5 DEF BeginConfig, Unmeasured, Cfg
  <2>6. CASE DeployConfigFails \/ WaitFails \/ RegisterEvalFails \/ EvalFails
    BY <2>6 DEF DeployConfigFails, WaitFails, RegisterEvalFails, EvalFails, FailConfig, Unmeasured
  <2>7. CASE WaitHealthy
    BY <2>7 DEF WaitHealthy, Unmeasured
  <2>8. CASE EvalCompletes
    BY <2>8 DEF EvalCompletes, Unmeasured
  <2>9. CASE DeployConfig \/ RegisterEval \/ SaveProgress \/ PurgeEval \/ Teardown \/ SaveConfig
    <3>1. Unmeasured' >= Unmeasured /\ Unmeasured \in Nat /\ Unmeasured' \in Nat /\ run' = run
      BY <2>9 DEF DeployConfig, RegisterEval, SaveProgress, PurgeEval, Teardown, SaveConfig, Unmeasured
    <3> QED BY <1>4, <3>1
  <2> QED BY <2>4, <2>5, <2>6, <2>7, <2>8, <2>9 DEF RunConfigs
<1> QED BY <1>7, <1>8, <1>9, <1>10, <1>11, <1>12 DEF ExecStep, StopOthers

(* What a step of Recover does to the measurements it works on.            *)
LEMMA RecoverStepKeeps ==
  ASSUME KeptInv, Recover
  PROVE  /\ RecoverKeeps'
         /\ \A r \in Run : Keeps(disk[r], disk'[r])
         /\ \A r \in Run : r \notin used => disk'[r] = NoRecord
<1>1. /\ rec \in Record /\ disk \in [Run -> Record] /\ rsnap \in [Run -> Record]
      /\ rlist \subseteq Run /\ UNCHANGED used
      /\ \A r \in Run : r \notin used => disk[r] = NoRecord
  BY DEF KeptInv, TypeInv, TypeOK, Recover
<1>2. RecoverKeeps
  BY DEF KeptInv
<1>3. ASSUME disk' = disk
      PROVE  /\ \A r \in Run : Keeps(disk[r], disk'[r])
             /\ \A r \in Run : r \notin used => disk'[r] = NoRecord
  BY <1>1, <1>3 DEF Keeps
<1> USE <1>1, <1>2, <1>3 DEF RecGoes, Recovering, RecoverKeeps
<1>4. CASE RecoverList
  <2>1. \A r \in rlist' : Keeps(disk'[r], rsnap'[r])
    BY <1>4 DEF RecoverList, Keeps
  <2>2. rlist' \subseteq used
    BY <1>4, NoRecordFields DEF RecoverList
  <2> QED BY <1>4, <2>1, <2>2 DEF RecoverList
<1>5. CASE RecoverListFails
  BY <1>5 DEF RecoverListFails
<1>6. ASSUME NEW r \in Run, RecoverTake(r) PROVE RecoverKeeps' /\ disk' = disk
  <2>1. \A c \in Cfg : rsnap[r].results[c] = "complete" => rec'.results[c] = "complete"
    BY <1>6 DEF RecoverTake, Interrupt, Record
  <2>2. Keeps(disk[r], rec')
    BY <1>6, <2>1 DEF RecoverTake, Keeps
  <2> QED BY <1>6, <2>2 DEF RecoverTake
<1>7. CASE RecoverSweep
  BY <1>7 DEF RecoverSweep
<1>8. ASSUME NEW b \in Bench, RecoverPurge(b) PROVE RecoverKeeps' /\ disk' = disk
  BY <1>8 DEF RecoverPurge
<1>9. CASE RecoverPurgeJobs
  BY <1>9 DEF RecoverPurgeJobs
<1>10. ASSUME NEW d \in Dep, RecoverDeploy(d) \/ RecoverDeployFails(d)
       PROVE  RecoverKeeps' /\ disk' = disk
  <2>1. rec'.results = rec.results
    BY <1>10 DEF RecoverDeploy, RecoverDeployFails, Record
  <2> QED BY <1>10, <2>1 DEF RecoverDeploy, RecoverDeployFails, Keeps
<1>11. CASE RecoverRestored \/ RecoverMark
  <2>1. /\ rec'.results = rec.results /\ rpc \in Recovering
        /\ UNCHANGED <<rlist, rsnap, rid>>
        /\ disk' = disk \/ disk' = [disk EXCEPT ![rid] = rec']
    BY <1>11 DEF RecoverRestored, RecoverMark, Save, Record
  <2>2. Keeps(disk[rid], rec') /\ Keeps(rec', rec')
    BY <2>1 DEF Keeps
  <2>3. \A r \in Run : Keeps(disk[r], disk'[r])
    BY <1>3, <2>1, <2>2 DEF Keeps
  <2>4. \A r \in Run : r # rid => disk'[r] = disk[r]
    BY <2>1
  <2>5. Keeps(disk'[rid], rec')
    BY <2>1, <2>2 DEF Keeps
  <2>6. RecoverKeeps'
    BY <1>11, <2>1, <2>4, <2>5 DEF RecoverRestored, RecoverMark
  <2> QED BY <2>1, <2>3, <2>4, <2>6
<1>12. CASE RecoverDone
  BY <1>12 DEF RecoverDone
<1> QED BY <1>4, <1>5, <1>6, <1>7, <1>8, <1>9, <1>10, <1>11, <1>12
        DEF Recover, RecoverList, RecoverListFails, RecoverSweep, RecoverPurgeJobs, RecoverDone

LEMMA KeptNext ==
  ASSUME "early" \notin Env, KeptInv, [Next]_vars
  PROVE  /\ KeptInv'
         /\ \A r \in Run : Keeps(disk[r], disk'[r]) \/ disk'[r].status = "none"
<1>1. /\ TypeInv' /\ TypeInv /\ disk \in [Run -> Record]
      /\ active \in Run \union {NoRun} /\ used \subseteq Run
      /\ rlist \subseteq Run
      /\ (pc = "idle" <=> active = NoRun)
  BY NextType DEF KeptInv, TypeInv, TypeOK, Control
<1>2. ExecKeeps /\ RecoverKeeps /\ \A r \in Run : r \notin used => disk[r] = NoRecord
  BY DEF KeptInv
<1>3. \A r \in Run : disk'[r] = disk[r] => Keeps(disk[r], disk'[r])
  BY DEF Keeps
<1> USE <1>1, <1>2, <1>3, RunAssumption
<1>4. CASE ExecStep
  <2>1. /\ Keeps(run, run')
        /\ \A c \in Cfg : c >= Unmeasured' => run'.results[c] # "complete"
        /\ pc' \in BeforeStop \union {"stop"} => cfg' = 1
    BY <1>4, ExecStepKeeps
  <2>2. UNCHANGED <<active, used, recVars>> /\ (disk' = disk \/ disk' = [disk EXCEPT ![active] = run'])
    BY <1>4, ExecSaves DEF ExecStep
  <2>3. CASE active = NoRun
    <3>1. \A r \in Run : disk'[r] = disk[r]
      BY <2>2, <2>3
    <3> QED BY <2>2, <2>3, <3>1 DEF KeptInv, ExecKeeps, RecoverKeeps, recVars
  <2>4. CASE active # NoRun
    <3>1. active \in Run /\ rpc = "done" /\ active \in used /\ Keeps(disk[active], run)
      BY <2>4 DEF ExecKeeps
    <3>2. Keeps(disk[active], run') /\ Keeps(run', run')
      BY <2>1, <3>1 DEF Keeps
    <3>3. /\ \A r \in Run : r # active => disk'[r] = disk[r]
          /\ disk'[active] \in {disk[active], run'}
      BY <2>2, <3>1
    <3>4. ExecKeeps'
      BY <2>1, <2>2, <3>1, <3>2, <3>3 DEF ExecKeeps, recVars
    <3>5. RecoverKeeps'
      BY <2>2, <3>1 DEF RecoverKeeps, recVars, Recovering
    <3>6. \A r \in Run : Keeps(disk[r], disk'[r])
      BY <3>2, <3>3
    <3> QED BY <2>2, <3>1, <3>3, <3>4, <3>5, <3>6 DEF KeptInv
  <2> QED BY <2>3, <2>4
<1>5. CASE Recover
  <2>1. rpc # "done" /\ active = NoRun
    BY <1>5 DEF Recover, RecoverList, RecoverListFails, RecoverTake, RecoverSweep, RecoverPurge,
         RecoverPurgeJobs, RecoverDeploy, RecoverDeployFails, RecoverRestored, RecoverMark,
         RecoverDone, RecGoes, ExecKeeps
  <2>2. UNCHANGED <<active, used>>
    BY <1>5 DEF Recover, execVars
  <2> QED BY <1>5, <2>1, <2>2, RecoverStepKeeps DEF KeptInv, ExecKeeps
<1>6. ASSUME NEW r \in Run, Start(r)
      PROVE  /\ KeptInv'
             /\ \A q \in Run : Keeps(disk[q], disk'[q]) \/ disk'[q].status = "none"
  <2>1. /\ rpc = "done" /\ r \notin used /\ active' = r /\ used' = used \union {r}
        /\ run' = NewRecord("pending") /\ disk' = [disk EXCEPT ![r] = run']
        /\ pc' = "begin" /\ cfg' = 1 /\ UNCHANGED recVars
    BY <1>6 DEF Start
  <2>2. disk'[r] = run' /\ \A q \in Run : q # r => disk'[q] = disk[q]
    BY <2>1
  <2>3. Keeps(disk[r], run') /\ Keeps(run', run') /\ \A c \in Cfg : run'.results[c] # "complete"
    BY <2>1, NoneKept DEF Keeps, NewRecord
  <2>4. ExecKeeps'
    BY <2>1, <2>2, <2>3 DEF ExecKeeps, recVars
  <2>5. RecoverKeeps'
    BY <2>1 DEF RecoverKeeps, recVars, Recovering
  <2> QED BY <2>1, <2>2, <2>3, <2>4, <2>5 DEF KeptInv
<1>7. ASSUME NEW r \in Run, Cancel(r)
      PROVE  KeptInv' /\ UNCHANGED disk
  BY <1>7 DEF Cancel, recVars, ghosts, KeptInv, ExecKeeps, RecoverKeeps, Unmeasured
<1>8. ASSUME NEW r \in Run, DeleteRun(r)
      PROVE  /\ KeptInv'
             /\ \A q \in Run : Keeps(disk[q], disk'[q]) \/ disk'[q].status = "none"
  <2>1. /\ disk'[r] = NoRecord /\ \A q \in Run : q # r => disk'[q] = disk[q]
        /\ active # r /\ UNCHANGED <<execVars, recVars, used>>
    BY <1>8 DEF DeleteRun
  <2>2. ExecKeeps'
    BY <2>1 DEF ExecKeeps, execVars, recVars, Unmeasured
  <2>3. RecoverKeeps'
    BY <2>1, NoneKept DEF RecoverKeeps, recVars
  <2> QED BY <2>1, <2>2, <2>3, NoRecordFields DEF KeptInv
<1>9. CASE FinishClear
  BY <1>9 DEF FinishClear, NoExecution, recVars, ghosts, KeptInv, ExecKeeps, RecoverKeeps
<1>10. CASE Crash
  BY <1>10 DEF Crash, NoExecution, KeptInv, ExecKeeps, RecoverKeeps, Recovering
<1>11. CASE UNCHANGED <<execVars, recVars, disk, used>>
  BY <1>11 DEF execVars, recVars, KeptInv, ExecKeeps, RecoverKeeps, Unmeasured
<1> QED BY <1>4, <1>5, <1>6, <1>7, <1>8, <1>9, <1>10, <1>11
        DEF Next, Request, Execute, Environment, UserLaunch, UserStop, UserStopBench, Settle, vars,
            ghosts, FinishClear, Crash

(* A saved measurement is in the record until the record is deleted: no    *)
(* error path of execute, which marks configurations skipped or failed,    *)
(* and no late save of Recover, which works on a copy it read before,      *)
(* takes it back, whichever calls and saves fail.                          *)
THEOREM MeasurementsStay == ASSUME "early" \notin Env PROVE Spec => ResultsKept
<1>1. Init => KeptInv
  BY InitType DEF Init, KeptInv, ExecKeeps, RecoverKeeps, Recovering
<1>2. KeptInv /\ [Next]_vars => KeptInv'
  BY KeptNext
<1>3. KeptInv /\ [Next]_vars =>
        [\A r \in Run, c \in Cfg :
           disk[r].results[c] = "complete" =>
             disk'[r].status = "none" \/ disk'[r].results[c] = "complete"]_vars
  BY KeptNext DEF Keeps
<1> QED BY <1>1, <1>2, <1>3, PTL DEF Spec, ResultsKept

-----------------------------------------------------------------------------
(* An end status is final: whoever saves a record finds it unfinished on   *)
(* disk (in progress, or deleted).                                         *)

Unfinished(record) == record.status \notin EndStatus

Ongoing ==
  /\ active # NoRun /\ pc # "clear" => Unfinished(disk[active])
  /\ rpc \in {"next"} \union Recovering => \A r \in rlist : Unfinished(disk[r])
  /\ rpc \in Recovering => Unfinished(disk[rid])

FinalInv == SettledInv /\ KeptInv /\ Ongoing

LEMMA UnfinishedOps ==
  /\ \A record : Active(record) => Unfinished(record)
  /\ Unfinished(NoRecord)
BY NoRecordFields DEF Unfinished, Active, ActiveStatus, EndStatus

(* What execute saves with an end status is what FinishSave saves.         *)
LEMMA ExecStepEnds ==
  ASSUME TypeInv, TypeInv', ExecSettled, ExecStep
  PROVE  /\ active \in Run /\ pc # "clear"
         /\ pc' # "clear" => disk' = disk \/ Active(run')
<1>1. pc \notin {"idle", "clear"} /\ (pc' = "finish" => disk' = disk)
  <2>1. CASE RunConfigs
    BY <2>1, RunConfigsEffect DEF MeasuringPC, AtConfig
  <2>2. CASE ~RunConfigs
    BY <2>2 DEF ExecStep, StopOthers, ListOthers, ListFails, StopDone, PurgeLeftover, StopOne,
          StopFails, AbortStop, Restore, RestoreDone, RestoreOne, RestoreFails, ExecBegin,
          StageDone, StageFails, LoopDone, Decide, FinishSave, Goes
  <2> QED BY <2>1, <2>2
<1>2. active \in Run /\ active' = active
  BY <1>1 DEF TypeInv, TypeOK, Control, ExecStep
<1>3. pc' # "idle"
  BY <1>2, RunAssumption DEF TypeInv, Control
<1>4. ExecSettled'
  BY ExecStepSettled
<1> QED BY <1>1, <1>2, <1>3, <1>4 DEF ExecSettled

LEMMA RecoverOngoing ==
  ASSUME FinalInv, Recover
  PROVE  /\ Ongoing'
         /\ \A r \in Run : disk'[r] # disk[r] => Unfinished(disk[r])
<1>1. /\ disk \in [Run -> Record] /\ rec \in Record /\ rlist \subseteq Run
      /\ RecoverSettled /\ RecoverKeeps /\ ExecKeeps /\ Ongoing
  BY DEF FinalInv, SettledInv, KeptInv, TypeInv, TypeOK
<1>2. active = NoRun /\ active' = NoRun
  BY <1>1 DEF Recover, RecoverList, RecoverListFails, RecoverTake, RecoverSweep, RecoverPurge,
       RecoverPurgeJobs, RecoverDeploy, RecoverDeployFails, RecoverRestored, RecoverMark,
       RecoverDone, RecGoes, ExecKeeps, execVars
<1> USE <1>1, <1>2 DEF RecGoes, Recovering, Ongoing, RecoverKeeps, RecoverSettled
<1>3. CASE RecoverList
  BY <1>3, UnfinishedOps DEF RecoverList
<1>4. CASE RecoverListFails \/ RecoverSweep \/ RecoverPurgeJobs \/ RecoverDone
  BY <1>4 DEF RecoverListFails, RecoverSweep, RecoverPurgeJobs, RecoverDone
<1>5. ASSUME NEW r \in Run, RecoverTake(r) PROVE Ongoing' /\ disk' = disk
  BY <1>5 DEF RecoverTake
<1>6. ASSUME NEW b \in Bench, RecoverPurge(b) PROVE Ongoing' /\ disk' = disk
  BY <1>6 DEF RecoverPurge
<1>7. ASSUME NEW d \in Dep, RecoverDeploy(d) \/ RecoverDeployFails(d)
      PROVE  Ongoing' /\ disk' = disk
  BY <1>7 DEF RecoverDeploy, RecoverDeployFails
<1>8. CASE RecoverRestored \/ RecoverMark
  <2>1. /\ rpc \in Recovering /\ UNCHANGED <<rlist, rid>>
        /\ disk' = disk \/ disk' = [disk EXCEPT ![rid] = rec']
        /\ rpc' \in Recovering => Active(rec')
        /\ rpc' \in {"mark", "next"}
    BY <1>8 DEF RecoverRestored, RecoverMark, Save, Record, Active
  <2>2. \A r \in Run : r # rid => disk'[r] = disk[r]
    BY <2>1
  <2>3. rpc' \in Recovering => Unfinished(disk'[rid])
    BY <2>1, UnfinishedOps
  <2> QED BY <2>1, <2>2, <2>3
<1> QED BY <1>3, <1>4, <1>5, <1>6, <1>7, <1>8
        DEF Recover, RecoverList, RecoverListFails, RecoverSweep, RecoverPurgeJobs, RecoverDone

LEMMA FinalNext ==
  ASSUME "early" \notin Env, FinalInv, [Next]_vars
  PROVE  /\ FinalInv'
         /\ \A r \in Run : disk'[r] # disk[r] => Unfinished(disk[r]) \/ disk'[r].status = "none"
<1>1. /\ SettledInv' /\ KeptInv' /\ TypeInv /\ TypeInv' /\ ExecSettled
      /\ disk \in [Run -> Record] /\ active \in Run \union {NoRun} /\ rlist \subseteq Run
      /\ ExecKeeps /\ RecoverKeeps /\ Ongoing
      /\ \A r \in Run : r \notin used => disk[r] = NoRecord
  BY SettledNext, KeptNext DEF FinalInv, SettledInv, KeptInv, TypeInv, TypeOK
<1> USE <1>1, RunAssumption DEF FinalInv
<1>2. CASE ExecStep
  <2>1. /\ active \in Run /\ pc # "clear" /\ UNCHANGED <<active, recVars>>
        /\ disk' = disk \/ disk' = [disk EXCEPT ![active] = run']
        /\ pc' # "clear" => disk' = disk \/ Active(run')
    BY <1>2, ExecSaves, ExecStepEnds DEF ExecStep
  <2>2. rpc = "done" /\ rpc' = "done"
    BY <2>1 DEF ExecKeeps, recVars
  <2>3. \A r \in Run : disk'[r] # disk[r] => r = active
    BY <2>1
  <2>4. pc' # "clear" => Unfinished(disk'[active])
    BY <2>1, UnfinishedOps DEF Ongoing
  <2>5. Ongoing'
    BY <2>1, <2>2, <2>4 DEF Ongoing, Recovering
  <2> QED BY <2>1, <2>3, <2>5 DEF Ongoing
<1>3. CASE Recover
  BY <1>3, RecoverOngoing
<1>4. ASSUME NEW r \in Run, Start(r)
      PROVE  Ongoing' /\ \A q \in Run : disk'[q] # disk[q] => Unfinished(disk[q])
  <2>1. /\ rpc = "done" /\ r \notin used /\ active' = r /\ rpc' = "done"
        /\ run' = NewRecord("pending") /\ disk' = [disk EXCEPT ![r] = run']
    BY <1>4 DEF Start, recVars
  <2>2. Unfinished(run') /\ Unfinished(disk[r])
    BY <2>1, UnfinishedOps DEF NewRecord, Unfinished, EndStatus
  <2> QED BY <2>1, <2>2 DEF Ongoing, Recovering
<1>5. ASSUME NEW r \in Run, Cancel(r) PROVE Ongoing' /\ disk' = disk
  BY <1>5 DEF Cancel, recVars, Ongoing
<1>6. ASSUME NEW r \in Run, DeleteRun(r)
      PROVE  Ongoing' /\ \A q \in Run : disk'[q] # disk[q] => disk'[q].status = "none"
  <2>1. \A q \in Run : disk'[q] = disk[q] \/ disk'[q] = NoRecord
    BY <1>6 DEF DeleteRun
  <2>2. UNCHANGED <<active, pc, rpc, rlist, rid>> /\ (rpc \in Recovering => rid \in Run)
    BY <1>6 DEF DeleteRun, execVars, recVars, RecoverKeeps, KeptInv, TypeInv, TypeOK
  <2> QED BY <2>1, <2>2, UnfinishedOps, NoRecordFields DEF Ongoing
<1>7. CASE FinishClear \/ Crash
  BY <1>7 DEF FinishClear, Crash, NoExecution, recVars, Ongoing, Recovering
<1>8. CASE UNCHANGED <<execVars, recVars, disk>>
  BY <1>8 DEF execVars, recVars, Ongoing
<1> QED BY <1>2, <1>3, <1>4, <1>5, <1>6, <1>7, <1>8
        DEF Next, Request, Execute, Environment, UserLaunch, UserStop, UserStopBench, Settle, vars,
            FinishClear, Crash

(* A record that says complete, cancelled, interrupted or failed says so   *)
(* until it is deleted: neither a late save of execute nor Recover, which  *)
(* works on an older copy of it, takes it back, whatever fails.            *)
THEOREM EndStays == ASSUME "early" \notin Env PROVE Spec => EndIsFinal
<1>1. Init => FinalInv
  BY InitType, NoneSettled, UnfinishedOps
     DEF Init, FinalInv, SettledInv, ExecSettled, RecoverSettled, BeforeStop, MeasuringPC, AtConfig,
         Recovering, KeptInv, ExecKeeps, RecoverKeeps, Ongoing
<1>2. FinalInv /\ [Next]_vars => FinalInv'
  BY FinalNext
<1>3. FinalInv /\ [Next]_vars =>
        [\A r \in Run : disk[r].status \in EndStatus =>
                          disk'[r].status \in {disk[r].status, "none"}]_vars
  BY FinalNext DEF Unfinished
<1> QED BY <1>1, <1>2, <1>3, PTL DEF Spec, EndIsFinal

-----------------------------------------------------------------------------
(* A record in progress has somebody who will end it: execute, until it    *)
(* has saved the end status, or Recover.  Only saves and listings must not *)
(* fail: a run may even be started beside Recover, which then may take it  *)
(* for an interrupted one, or find it ended, without leaving it behind.    *)

(* Recover is going to mark the record of r, if it is in progress.         *)
Covered(r) ==
  \/ rpc = "list"
  \/ rpc \in {"next"} \union Recovering /\ r \in rlist
  \/ rpc \in Recovering /\ r = rid

TruthInv ==
  /\ TypeInv
  /\ pc = "finish" => ~Active(run)
  /\ \A r \in Run : Active(disk[r]) => (r = active /\ pc # "clear") \/ Covered(r)

LEMMA ExecTruth ==
  ASSUME "disk" \notin Env, TruthInv, TypeInv', ExecStep
  PROVE  TruthInv'
<1>1. /\ run \in Record /\ run' \in Record /\ disk \in [Run -> Record]
      /\ UNCHANGED <<active, rpc, rlist, rid>>
  BY DEF TruthInv, TypeInv, TypeOK, ExecStep, recVars
<1>2. disk' = disk \/ disk' = [disk EXCEPT ![active] = run']
  BY ExecSaves DEF TruthInv
<1>3. \A r \in Run : r # active => disk'[r] = disk[r]
  BY <1>1, <1>2
<1>4. SUFFICES /\ pc' = "finish" => ~Active(run')
               /\ pc' = "clear" => active \in Run /\ ~Active(disk'[active])
               /\ pc # "clear"
  BY <1>1, <1>2, <1>3, <1>4 DEF TruthInv, Covered
<1> USE <1>1 DEF Goes
<1>5. CASE RunConfigs
  BY <1>5, RunConfigsEffect DEF TruthInv, MeasuringPC, AtConfig
<1>6. CASE StageFails
  BY <1>6 DEF StageFails, Record, Active, ActiveStatus
<1>7. CASE Decide
  BY <1>7 DEF Decide, Record, Active, ActiveStatus
<1>8. CASE FinishSave
  <2>1. active \in Run /\ disk' = [disk EXCEPT ![active] = run] /\ ~Active(run)
    BY <1>8 DEF FinishSave, Save, TruthInv, TypeInv, TypeOK, Control
  <2> QED BY <1>8, <2>1 DEF FinishSave
<1>9. CASE ~(RunConfigs \/ StageFails \/ Decide \/ FinishSave)
  BY <1>9 DEF ExecStep, StopOthers, ListOthers, ListFails, StopDone, PurgeLeftover, StopOne,
        StopFails, AbortStop, Restore, RestoreDone, RestoreOne, RestoreFails, ExecBegin,
        StageDone, LoopDone
<1> QED BY <1>5, <1>6, <1>7, <1>8, <1>9

LEMMA RecoverTruth ==
  ASSUME "disk" \notin Env, TruthInv, TypeInv', Recover
  PROVE  TruthInv'
<1>1. /\ rec \in Record /\ disk \in [Run -> Record]
      /\ UNCHANGED <<active, pc, run>>
      /\ \A r \in Run : Active(disk[r]) => (r = active /\ pc # "clear") \/ Covered(r)
  BY DEF TruthInv, TypeInv, TypeOK, Recover, execVars
<1>2. SUFFICES \A r \in Run : Active(disk'[r]) => (r = active /\ pc # "clear") \/ Covered(r)'
  BY <1>1, <1>2 DEF TruthInv
<1> USE <1>1 DEF RecGoes, Recovering, Covered
<1>3. CASE RecoverList
  BY <1>3 DEF RecoverList
<1>4. CASE RecoverListFails
  BY <1>4 DEF RecoverListFails
<1>5. CASE \E q \in Run : RecoverTake(q)
  BY <1>5 DEF RecoverTake
<1>6. CASE RecoverSweep \/ RecoverPurgeJobs \/ RecoverDone
  BY <1>6 DEF RecoverSweep, RecoverPurgeJobs, RecoverDone
<1>7. CASE \E b \in Bench : RecoverPurge(b)
  BY <1>7 DEF RecoverPurge
<1>8. CASE \E d \in Dep : RecoverDeploy(d) \/ RecoverDeployFails(d)
  BY <1>8 DEF RecoverDeploy, RecoverDeployFails
<1>9. CASE RecoverRestored
  <2>1. rpc' = "mark" /\ UNCHANGED <<rlist, rid>> /\ \A r \in Run : r # rid => disk'[r] = disk[r]
    BY <1>9 DEF RecoverRestored, Save
  <2> QED BY <1>9, <2>1 DEF RecoverRestored
<1>10. CASE RecoverMark
  <2>1. ~Active(rec')
    BY <1>10 DEF RecoverMark, Record, Active, ActiveStatus
  <2>2. rpc' = "next" /\ UNCHANGED <<rlist, rid>>
        /\ \A r \in Run : disk'[r] = IF r = rid THEN rec' ELSE disk[r]
    BY <1>10 DEF RecoverMark, Save
  <2> QED BY <1>10, <2>1, <2>2 DEF RecoverMark
<1> QED BY <1>3, <1>4, <1>5, <1>6, <1>7, <1>8, <1>9, <1>10 DEF Recover

LEMMA TruthNext == ASSUME "disk" \notin Env, TruthInv, [Next]_vars PROVE TruthInv'
<1>1. TypeInv' /\ TypeInv /\ disk \in [Run -> Record]
  BY NextType DEF TruthInv, TypeInv, TypeOK
<1> USE <1>1 DEF TruthInv, Covered, recVars
<1>2. ASSUME NEW r \in Run, Start(r) PROVE TruthInv'
  <2>1. /\ active = NoRun /\ active' = r /\ pc' = "begin" /\ UNCHANGED recVars
        /\ \A q \in Run : q # r => disk'[q] = disk[q]
    BY <1>2 DEF Start
  <2> QED BY <2>1, RunAssumption
<1>3. ASSUME NEW r \in Run, Cancel(r) PROVE TruthInv'
  BY <1>3 DEF Cancel
<1>4. ASSUME NEW r \in Run, DeleteRun(r) PROVE TruthInv'
  BY <1>4, NoRecordFields DEF DeleteRun, execVars
<1>5. CASE FinishClear
  BY <1>5, RunAssumption DEF FinishClear, NoExecution
<1>6. CASE Crash
  BY <1>6 DEF Crash, NoExecution
<1>7. CASE UNCHANGED <<execVars, recVars, disk>>
  BY <1>7 DEF execVars
<1> QED BY <1>2, <1>3, <1>4, <1>5, <1>6, <1>7, ExecTruth, RecoverTruth
        DEF Next, Request, Execute, Environment, UserLaunch, UserStop, UserStopBench, Settle, vars

(* No restart leaves a record that says "running" for ever: after Recover  *)
(* only the run that is being executed is in progress on disk.             *)
THEOREM RecordsHold == ASSUME "disk" \notin Env PROVE Spec => []RecordsTellTheTruth
<1>1. Init => TruthInv
  BY InitType DEF Init, TruthInv, Covered
<1>2. TruthInv => RecordsTellTheTruth
  BY DEF TruthInv, Covered, RecordsTellTheTruth, Recovering
<1> QED BY <1>1, <1>2, TruthNext, PTL DEF Spec

-----------------------------------------------------------------------------
(* What runs register in the cluster is gone before the next configuration *)
(* is measured.  Here the environment must be orderly: stopped jobs may    *)
(* lag, users may do what they like with any deployment, and a restart may *)
(* hit between any two steps, but calls, listings and saves succeed, no    *)
(* record is deleted and no run is started before Recover is done.         *)
Orderly == Env \subseteq {"lag", "unsaved", "user"}

(* Where a bench deployment may be: it is the one of the configuration, or *)
(* Recover is on its way to purge it, which it is as long as some record   *)
(* is in progress.                                                         *)
BenchLeft ==
  CASE pc \in {"wait", "register", "watch", "purge", "teardown"} -> {Current}
    [] rpc = "list"  -> IF \E r \in Run : Active(disk[r]) THEN Bench ELSE {}
    [] rpc = "next"  -> IF rlist # {} THEN Bench ELSE {}
    [] rpc = "sweep" -> Bench
    [] rpc = "purge" -> rtodo
    [] OTHER -> {}

(* Where an eval job may be; Recover purges these with one call.           *)
JobsLeft ==
  CASE pc \in {"watch", "purge"} -> {Current}
    [] rpc = "list" -> IF \E r \in Run : Active(disk[r]) THEN Bench ELSE {}
    [] rpc = "next" -> IF rlist # {} THEN Bench ELSE {}
    [] rpc \in {"sweep", "purge"} -> Bench
    [] OTHER -> {}

(* The records that make Recover sweep the cluster.                        *)
Sweeping ==
  /\ active # NoRun =>
       /\ rpc = "done"
       /\ pc # "clear" => Active(disk[active])
       /\ pc \notin {"finish", "clear"} => Active(run)
  /\ rpc \in {"next"} \union Recovering => \A r \in rlist : Active(disk[r])
  /\ rpc \in Recovering => rid \in Run /\ rid \notin rlist
  /\ rpc \in {"sweep", "purge"} => Active(disk[rid])

Swept ==
  /\ \A b \in Bench : bench[b] # "absent" => b \in BenchLeft
  /\ evalJobs \subseteq JobsLeft

LeftInv == TypeInv /\ Sweeping /\ Swept

LEMMA OrderlyOps ==
  ASSUME Orderly
  PROVE  /\ ~MayFail
         /\ \A r, record : Save(r, record) => disk' = [disk EXCEPT ![r] = record]
         /\ \A e \in {"error", "ambiguous", "skip", "disk", "delete", "early"} : e \notin Env
BY DEF Orderly, MayFail, Save

(* A bench deployment can only be the one that has been left if no step    *)
(* but the deployment of a configuration creates one.                      *)
LEMMA PurgeOps ==
  ASSUME TypeInv, NEW b, PurgeBench(b)
  PROVE  \A a \in Bench : bench'[a] # "absent" => a # b /\ bench[a] # "absent"
BY DEF TypeInv, TypeOK, PurgeBench

LEMMA ConfigSweeps ==
  ASSUME Orderly, LeftInv, TypeInv', RunConfigs, active # NoRun, UNCHANGED <<active, recVars>>
  PROVE  Swept'
<1>1. /\ rpc = "done" /\ UNCHANGED rpc
      /\ bench \in [Bench -> BenchStatus] /\ evalJobs \subseteq Bench
      /\ \A b \in Bench : bench[b] # "absent" => b \in BenchLeft
      /\ evalJobs \subseteq JobsLeft
  BY DEF LeftInv, TypeInv, TypeOK, Sweeping, Swept, recVars
<1> USE <1>1, OrderlyOps DEF Goes, BenchLeft, JobsLeft, Swept
<1>2. CASE SkipConfig \/ BeginConfig \/ SaveConfig
  BY <1>2 DEF SkipConfig, BeginConfig, SaveConfig
<1>3. CASE DeployConfig
  BY <1>3 DEF DeployConfig, Current
<1>4. CASE DeployConfigFails
  BY <1>4 DEF DeployConfigFails, FailConfig
<1>5. CASE WaitHealthy \/ WaitFails
  BY <1>5 DEF WaitHealthy, WaitFails, FailConfig, Current
<1>6. CASE RegisterEval
  BY <1>6 DEF RegisterEval, Current
<1>7. CASE RegisterEvalFails
  BY <1>7 DEF RegisterEvalFails, FailConfig, Current
<1>8. CASE SaveProgress \/ EvalCompletes \/ EvalFails
  BY <1>8 DEF SaveProgress, EvalCompletes, EvalFails, FailConfig, Current
<1>9. CASE PurgeEval
  BY <1>9 DEF PurgeEval, Current
<1>10. CASE Teardown
  <2>1. \A a \in Bench : bench'[a] # "absent" => a # Current /\ bench[a] # "absent"
    BY <1>10, PurgeOps DEF Teardown, LeftInv
  <2> QED BY <1>10, <2>1 DEF Teardown
<1> QED BY <1>2, <1>3, <1>4, <1>5, <1>6, <1>7, <1>8, <1>9, <1>10 DEF RunConfigs

LEMMA ExecSweeps ==
  ASSUME Orderly, LeftInv, TypeInv', ExecStep
  PROVE  LeftInv'
<1>1. /\ run \in Record /\ disk \in [Run -> Record] /\ active \in Run \union {NoRun}
      /\ (pc = "idle" <=> active = NoRun)
      /\ Sweeping /\ Swept /\ TypeInv
  BY DEF LeftInv, TypeInv, TypeOK, Control
<1>2. UNCHANGED <<active, recVars>>
  BY DEF ExecStep
<1> USE <1>1, <1>2, OrderlyOps DEF Goes
<1>3. active # NoRun /\ active \in Run /\ rpc = "done" /\ rpc' = "done" /\ pc # "clear"
  <2>1. CASE RunConfigs
    BY <2>1, RunConfigsEffect DEF MeasuringPC, AtConfig, Sweeping, recVars
  <2>2. CASE ~RunConfigs
    BY <2>2 DEF ExecStep, StopOthers, ListOthers, ListFails, StopDone, PurgeLeftover, StopOne,
          StopFails, AbortStop, Restore, RestoreDone, RestoreOne, RestoreFails, ExecBegin,
          StageDone, StageFails, LoopDone, Decide, FinishSave, Sweeping, recVars
  <2> QED BY <2>1, <2>2
<1>4. Active(disk[active]) /\ (pc # "finish" => Active(run))
  BY <1>3 DEF Sweeping
(* The record on disk is in progress until finish saves an end status.     *)
<1>5. Sweeping'
  <2>1. SUFFICES /\ pc' # "clear" => Active(disk'[active])
                 /\ pc' \notin {"finish", "clear"} => Active(run')
    BY <1>3, <2>1 DEF Sweeping, Recovering, recVars
  <2>2. disk'[active] \in {disk[active], run'}
    BY <1>3, ExecSaves
  <2>3. CASE pc' \notin {"finish", "clear"}
    <3>1. Active(run')
      <4>1. CASE RunConfigs
        <5>1. run' = [run EXCEPT !.results = run'.results] /\ pc \in MeasuringPC
          BY <4>1, RunConfigsEffect
        <5> QED BY <1>4, <5>1 DEF Active, Record, MeasuringPC, AtConfig
      <4>2. CASE ExecBegin
        BY <4>2 DEF ExecBegin, Record, Active, ActiveStatus
      <4>3. CASE StopOthers
        BY <1>4, <4>3, RecordOps DEF StopOthers, ListOthers, ListFails, StopDone, PurgeLeftover, StopOne,
              StopFails, AbortStop, Active, Record
      <4>4. CASE Restore
        BY <1>4, <4>4 DEF Restore, RestoreDone, RestoreOne, RestoreFails, Active, Record
      <4>5. CASE StageDone \/ LoopDone
        BY <1>4, <4>5 DEF StageDone, LoopDone
      <4>6. CASE StageFails \/ Decide \/ FinishSave
        BY <2>3, <4>6 DEF StageFails, Decide, FinishSave
      <4> QED BY <4>1, <4>2, <4>3, <4>4, <4>5, <4>6 DEF ExecStep
    <3> QED BY <1>4, <2>2, <2>3, <3>1
  <2>4. CASE pc' = "finish"
    <3>1. disk' = disk
      <4>1. ~RunConfigs
        BY <2>4, RunConfigsEffect DEF MeasuringPC, AtConfig
      <4> QED BY <2>4, <4>1
           DEF ExecStep, StopOthers, ListOthers, ListFails, StopDone, PurgeLeftover, StopOne,
            StopFails, AbortStop, Restore, RestoreDone, RestoreOne, RestoreFails, ExecBegin,
            StageDone, StageFails, LoopDone, Decide, FinishSave
    <3> QED BY <1>4, <2>4, <3>1
  <2>5. CASE pc' = "clear"
    BY <2>5
  <2> QED BY <2>3, <2>4, <2>5
<1>6. CASE RunConfigs
  BY <1>3, <1>5, <1>6, ConfigSweeps DEF LeftInv
(* Outside runConfig nothing is registered, and nothing is left.           *)
<1>7. CASE ~RunConfigs
  <2> DEFINE Configured == {"wait", "register", "watch", "purge", "teardown"}
  <2>1. pc \notin Configured /\ pc' \notin Configured
    BY <1>7 DEF ExecStep, StopOthers, ListOthers, ListFails, StopDone, PurgeLeftover, StopOne,
          StopFails, AbortStop, Restore, RestoreDone, RestoreOne, RestoreFails, ExecBegin,
          StageDone, StageFails, LoopDone, Decide, FinishSave
  <2>2. BenchLeft = {} /\ JobsLeft = {} /\ BenchLeft' = {} /\ JobsLeft' = {}
    BY <1>3, <2>1 DEF BenchLeft, JobsLeft
  <2>3. evalJobs' = evalJobs /\ \A b \in Bench : bench'[b] # "absent" => bench[b] # "absent"
    <3>1. ASSUME NEW b \in Bench, PurgeLeftover(b)
          PROVE  evalJobs' = evalJobs /\ \A a \in Bench : bench'[a] # "absent" => bench[a] # "absent"
      BY <3>1, PurgeOps DEF PurgeLeftover
    <3> QED BY <1>7, <3>1
        DEF ExecStep, StopOthers, ListOthers, ListFails, StopDone, StopOne, StopFails, Restore,
            ExecBegin, StageDone, StageFails, LoopDone, Decide, FinishSave, jobVars
  <2> QED BY <1>5, <2>2, <2>3 DEF LeftInv, Swept
<1> QED BY <1>6, <1>7

LEMMA RecoverSweeps ==
  ASSUME Orderly, LeftInv, TypeInv', Recover
  PROVE  LeftInv'
<1>1. /\ rec \in Record /\ disk \in [Run -> Record] /\ rlist \subseteq Run
      /\ bench \in [Bench -> BenchStatus] /\ evalJobs \subseteq Bench
      /\ (pc = "idle" <=> active = NoRun)
      /\ Sweeping /\ Swept /\ TypeInv
  BY DEF LeftInv, TypeInv, TypeOK, Control
<1>2. UNCHANGED execVars
  BY DEF Recover
<1>3. rpc # "done" /\ active = NoRun /\ active' = NoRun /\ pc = "idle" /\ pc' = "idle"
  <2>1. rpc # "done"
    BY DEF Recover, RecoverList, RecoverListFails, RecoverTake, RecoverSweep, RecoverPurge,
           RecoverPurgeJobs, RecoverDeploy, RecoverDeployFails, RecoverRestored, RecoverMark,
           RecoverDone, RecGoes
  <2> QED BY <1>1, <1>2, <2>1 DEF Sweeping, execVars
<1>4. SUFFICES Sweeping' /\ Swept'
  BY <1>4 DEF LeftInv
<1> USE <1>1, <1>3, OrderlyOps DEF RecGoes, Recovering, Sweeping, Swept, BenchLeft, JobsLeft
<1>5. CASE RecoverList
  BY <1>5 DEF RecoverList, jobVars
<1>6. CASE RecoverListFails
  BY <1>6 DEF RecoverListFails
<1>7. ASSUME NEW r \in Run, RecoverTake(r) PROVE Sweeping' /\ Swept'
  BY <1>7 DEF RecoverTake, jobVars
<1>8. CASE RecoverSweep
  BY <1>8 DEF RecoverSweep, jobVars
<1>9. ASSUME NEW b \in Bench, RecoverPurge(b) PROVE Sweeping' /\ Swept'
  <2>1. \A a \in Bench : bench'[a] # "absent" => a # b /\ bench[a] # "absent"
    BY <1>9, PurgeOps DEF RecoverPurge
  <2> QED BY <1>9, <2>1 DEF RecoverPurge
<1>10. CASE RecoverPurgeJobs
  BY <1>10 DEF RecoverPurgeJobs
<1>11. ASSUME NEW d \in Dep, RecoverDeploy(d) \/ RecoverDeployFails(d)
       PROVE  Sweeping' /\ Swept'
  BY <1>11 DEF RecoverDeploy, RecoverDeployFails
<1>12. CASE RecoverRestored \/ RecoverMark
  <2>1. \A r \in Run : r # rid => disk'[r] = disk[r]
    BY <1>12 DEF RecoverRestored, RecoverMark
  <2> QED BY <1>12, <2>1 DEF RecoverRestored, RecoverMark, jobVars
<1>13. CASE RecoverDone
  BY <1>13 DEF RecoverDone, jobVars
<1> QED BY <1>5, <1>6, <1>7, <1>8, <1>9, <1>10, <1>11, <1>12, <1>13 DEF Recover

(* The crash of a run in progress: its record is what Recover finds.       *)
LEMMA CrashSweeps ==
  ASSUME LeftInv, TypeInv', Crash
  PROVE  LeftInv'
<1>1. /\ disk' = disk /\ bench' = bench /\ evalJobs' = evalJobs
      /\ active' = NoRun /\ pc' = "idle" /\ rpc' = "list"
      /\ active \in Run \union {NoRun} /\ (pc = "idle" <=> active = NoRun)
      /\ evalJobs \subseteq Bench /\ rlist \subseteq Run
      /\ Sweeping /\ Swept
  BY DEF Crash, NoExecution, jobVars, LeftInv, TypeInv, TypeOK, Control
<1>2. Sweeping'
  BY <1>1 DEF Sweeping, Recovering
<1>3. ASSUME NEW b \in Bench, b \in BenchLeft \union JobsLeft
      PROVE  \E r \in Run : Active(disk[r])
  BY <1>1, <1>3 DEF BenchLeft, JobsLeft, Sweeping, Recovering
<1>4. Swept'
  BY <1>1, <1>3 DEF Swept, BenchLeft, JobsLeft, Active
<1> QED BY <1>2, <1>4 DEF LeftInv

LEMMA LeftNext == ASSUME Orderly, LeftInv, [Next]_vars PROVE LeftInv'
<1>1. /\ TypeInv' /\ TypeInv /\ disk \in [Run -> Record] /\ Sweeping /\ Swept
      /\ (pc = "idle" <=> active = NoRun)
  BY NextType DEF LeftInv, TypeInv, TypeOK, Control
<1> USE <1>1, OrderlyOps
<1>2. CASE ExecStep
  BY <1>2, ExecSweeps
<1>3. CASE Recover
  BY <1>3, RecoverSweeps
<1>4. CASE Crash
  BY <1>4, CrashSweeps
<1>5. CASE FinishClear
  BY <1>5, RunAssumption
     DEF FinishClear, NoExecution, recVars, jobVars, LeftInv, Sweeping, Swept, BenchLeft, JobsLeft,
         Recovering
<1>6. ASSUME NEW r \in Run, Start(r) PROVE LeftInv'
  <2>1. /\ rpc = "done" /\ rpc' = "done" /\ active' = r /\ pc = "idle" /\ pc' = "begin"
        /\ run' = NewRecord("pending") /\ disk'[r] = run' /\ UNCHANGED <<bench, evalJobs>>
    BY <1>6 DEF Start, recVars, jobVars
  <2>2. Active(run') /\ Active(disk'[r])
    BY <2>1 DEF NewRecord, Active, ActiveStatus
  <2>3. Sweeping'
    BY <2>1, <2>2 DEF Sweeping, Recovering
  <2>4. Swept'
    BY <2>1 DEF Swept, BenchLeft, JobsLeft
  <2> QED BY <2>3, <2>4 DEF LeftInv
<1>7. ASSUME NEW r \in Run, Cancel(r) PROVE LeftInv'
  BY <1>7 DEF Cancel, recVars, jobVars, LeftInv, Sweeping, Swept, BenchLeft, JobsLeft, Current
<1>8. ASSUME NEW r \in Run, DeleteRun(r) PROVE FALSE
  BY <1>8 DEF DeleteRun
<1>9. ASSUME NEW b \in Bench, UserStopBench(b) PROVE LeftInv'
  <2>1. \A a \in Bench : bench'[a] # "absent" => bench[a] # "absent"
    BY <1>9 DEF UserStopBench, PurgeBench, TypeInv, TypeOK
  <2> QED BY <1>9, <2>1
       DEF UserStopBench, execVars, recVars, LeftInv, Sweeping, Swept, BenchLeft, JobsLeft, Current
<1>10. CASE UNCHANGED <<execVars, recVars, disk, bench, evalJobs>>
  BY <1>10 DEF execVars, recVars, LeftInv, Sweeping, Swept, BenchLeft, JobsLeft, Current
<1> QED BY <1>2, <1>3, <1>4, <1>5, <1>6, <1>7, <1>8, <1>9, <1>10
        DEF Next, Request, Execute, Environment, UserLaunch, UserStop, Settle, vars, jobVars

LEMMA LeftInvariance == ASSUME Orderly PROVE Spec => []LeftInv
<1>1. Init => LeftInv
  BY InitType, NoRecordFields DEF Init, LeftInv, Sweeping, Swept, Recovering
<1>2. LeftInv /\ [Next]_vars => LeftInv'
  BY LeftNext
<1> QED BY <1>1, <1>2, PTL DEF Spec

(* A configuration is measured alone: no other bench deployment and no     *)
(* other eval job is registered, of this run or of one that a restart has  *)
(* cut off.                                                                *)
THEOREM MeasuredAlone == ASSUME Orderly PROVE Spec => []AloneOnBox
<1>1. LeftInv => AloneOnBox
  <2> SUFFICES ASSUME LeftInv, Measuring
               PROVE  /\ \A b \in Bench \ {Current} : bench[b] = "absent"
                      /\ evalJobs \subseteq {Current}
    BY DEF AloneOnBox
  <2>1. rpc = "done"
    BY DEF Measuring, LeftInv, Sweeping, TypeInv, Control
  <2> QED BY <2>1 DEF LeftInv, Swept, BenchLeft, JobsLeft
<1> QED BY <1>1, LeftInvariance, PTL

(* When no run is in progress and Recover has returned, nothing that a run *)
(* registered is left, however often the process has been restarted.       *)
THEOREM NothingIsLeft == ASSUME Orderly PROVE Spec => []NoLeftovers
<1>1. LeftInv => NoLeftovers
  BY DEF LeftInv, Swept, BenchLeft, JobsLeft, NoLeftovers, Quiet, TypeInv, Control
<1> QED BY <1>1, LeftInvariance, PTL
===============================================================================
