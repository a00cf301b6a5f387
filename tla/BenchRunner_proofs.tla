------------------------- MODULE BenchRunner_proofs -------------------------
(***************************************************************************)
(* Proofs about BenchRunner, for any set of runs and deployments, any      *)
(* number of configurations and of restarts.                               *)
(***************************************************************************)
EXTENDS BenchRunner, TLAPS

AtConfig == {"deploy", "wait", "register", "watch", "purge", "teardown", "saved"}

(* What TypeOK needs to be inductive: a run is executed exactly if one is  *)
(* active, and inside runConfig the index of the loop is in range.         *)
Control ==
  /\ pc = "idle" <=> active = NoRun
  /\ pc \in AtConfig => cfg \in Cfg

TypeInv == TypeOK /\ Control

-----------------------------------------------------------------------------
(* The operators on records return records. *)

LEMMA RecordOps ==
  ASSUME NEW record \in Record
  PROVE  /\ AllSkipped(record) \in Record
         /\ Interrupt(record) \in Record
         /\ AllSkipped(record) = [record EXCEPT !.results = AllSkipped(record).results]
         /\ \A s \in {"none"} \union ActiveStatus \union EndStatus :
              /\ NewRecord(s) \in Record
              /\ [record EXCEPT !.status = s] \in Record
         /\ \A c \in 1 .. NumConfigs + 1, s \in CfgStatus :
              [record EXCEPT !.results[c] = s] \in Record
         /\ \A D \in SUBSET Dep :
              /\ [record EXCEPT !.restore = D] \in Record
              /\ [record EXCEPT !.blamed = D] \in Record
         /\ [record EXCEPT !.restored = TRUE] \in Record
<1>1. AllSkipped(record) \in Record
  BY DEF AllSkipped, Record, CfgStatus, CfgEnd
<1>2. Interrupt(record) \in Record
  BY DEF Interrupt, Record, CfgStatus, CfgEnd
<1>3. AllSkipped(record) = [record EXCEPT !.results = AllSkipped(record).results]
  BY DEF AllSkipped, Record
<1>4. \A s \in {"none"} \union ActiveStatus \union EndStatus : NewRecord(s) \in Record
  BY DEF NewRecord, Record, CfgStatus
<1>5. \A s \in {"none"} \union ActiveStatus \union EndStatus :
        [record EXCEPT !.status = s] \in Record
  BY DEF Record
<1>6. \A c \in 1 .. NumConfigs + 1, s \in CfgStatus :
        [record EXCEPT !.results[c] = s] \in Record
  BY DEF Record
<1>7. \A D \in SUBSET Dep : /\ [record EXCEPT !.restore = D] \in Record
                            /\ [record EXCEPT !.blamed = D] \in Record
  BY DEF Record
<1>8. [record EXCEPT !.restored = TRUE] \in Record
  BY DEF Record
<1> QED BY <1>1, <1>2, <1>3, <1>4, <1>5, <1>6, <1>7, <1>8

LEMMA SaveOps ==
  ASSUME NEW r, NEW record \in Record, disk \in [Run -> Record], Save(r, record)
  PROVE  disk' \in [Run -> Record]
BY DEF Save

LEMMA JobOps ==
  ASSUME TypeOK
  PROVE  /\ \A d : StopDep(d) => dep' \in [Dep -> DepStatus]
         /\ \A r \in Run : \A d : StopFor(r, d) =>
              /\ dep' \in [Dep -> DepStatus]
              /\ stoppedBy' \in [Dep -> Run \union {NoRun}]
         /\ \A d : Launch(d) \/ DeploySucceeds(d) \/ DeployFails(d) =>
              /\ dep' \in [Dep -> DepStatus]
              /\ stoppedBy' \in [Dep -> Run \union {NoRun}]
         /\ \A b : PurgeBench(b) => bench' \in [Bench -> BenchStatus]
<1>1. \A d : StopDep(d) => dep' \in [Dep -> DepStatus]
  BY DEF TypeOK, StopDep, DepStatus
<1>2. \A r \in Run : \A d : StopFor(r, d) => stoppedBy' \in [Dep -> Run \union {NoRun}]
  BY DEF TypeOK, StopFor
<1>3. \A d : Launch(d) \/ DeploySucceeds(d) \/ DeployFails(d) =>
        /\ dep' \in [Dep -> DepStatus]
        /\ stoppedBy' \in [Dep -> Run \union {NoRun}]
  BY DEF TypeOK, Launch, DeploySucceeds, DeployFails, DepStatus
<1>4. \A b : PurgeBench(b) => bench' \in [Bench -> BenchStatus]
  BY DEF TypeOK, PurgeBench, BenchStatus
<1> QED BY <1>1, <1>2, <1>3, <1>4 DEF StopFor

-----------------------------------------------------------------------------
(* TypeInv is inductive. *)

LEMMA InitType == Init => TypeInv
<1> SUFFICES ASSUME Init PROVE TypeInv OBVIOUS
<1>1. NoRecord \in Record
  BY DEF NoRecord, NewRecord, Record, CfgStatus
<1>2. /\ cfg \in 1 .. NumConfigs + 1
      /\ crashes \in 0 .. MaxCrash
  BY ConfigAssumption, CrashAssumption DEF Init
<1>3. /\ dep \in [Dep -> DepStatus]
      /\ bench \in [Bench -> BenchStatus]
      /\ stoppedBy \in [Dep -> Run \union {NoRun}]
      /\ disk \in [Run -> Record] /\ rsnap \in [Run -> Record]
  BY <1>1 DEF Init, DepStatus, BenchStatus
<1>4. TypeOK
  BY <1>1, <1>2, <1>3 DEF Init, TypeOK, PC, RPC
<1> QED BY <1>4 DEF TypeInv, Control, Init, AtConfig

LEMMA StopOthersType ==
  TypeInv /\ StopOthers /\ UNCHANGED <<active, cancelled, recVars, used, crashes>> => TypeInv'
<1> SUFFICES ASSUME TypeInv, StopOthers, UNCHANGED <<active, cancelled, recVars, used, crashes>>
             PROVE  TypeInv'
  OBVIOUS
<1> USE DEF TypeInv, Control, TypeOK, recVars, jobVars, Goes, PC, AtConfig
<1>1. \A D \in SUBSET Dep :
        [AllSkipped(run) EXCEPT !.blamed = AllSkipped(run).blamed \union D] \in Record
  BY DEF AllSkipped, Record, CfgStatus, CfgEnd
<1>2. CASE ListOthers
  BY <1>2 DEF ListOthers, Listed
<1>3. CASE ListFails
  BY <1>1, <1>3 DEF ListFails, AbortStop, Record
<1>4. CASE StopDone
  BY <1>4, SaveOps DEF StopDone
<1>5. ASSUME NEW b \in Bench, PurgeLeftover(b) PROVE TypeInv'
  BY <1>5, JobOps DEF PurgeLeftover
<1>6. ASSUME NEW d \in Dep, StopOne(d) PROVE TypeInv'
  <2>1. active \in Run
    BY <1>6 DEF StopOne
  <2>2. run' \in Record
    BY <1>6 DEF StopOne, Record
  <2> QED BY <1>6, <2>1, <2>2, JobOps DEF StopOne
<1>7. ASSUME NEW d \in Dep, StopFails(d) PROVE TypeInv'
  <2>1. active \in Run
    BY <1>7 DEF StopFails, AbortStop
  <2>2. run' \in Record /\ run.restore \in SUBSET Dep
    BY <1>1, <1>7 DEF StopFails, AbortStop, Record
  <2>3. dep' \in [Dep -> DepStatus] /\ stoppedBy' \in [Dep -> Run \union {NoRun}]
    BY <1>7, <2>1, JobOps DEF StopFails
  <2> QED BY <1>7, <2>1, <2>2, <2>3 DEF StopFails, AbortStop
<1> QED BY <1>2, <1>3, <1>4, <1>5, <1>6, <1>7 DEF StopOthers

LEMMA RunConfigsType ==
  TypeInv /\ RunConfigs /\ UNCHANGED <<active, cancelled, recVars, used, crashes, stoppedBy, fresh>>
    => TypeInv'
<1> SUFFICES ASSUME TypeInv, RunConfigs,
                    UNCHANGED <<active, cancelled, recVars, used, crashes, stoppedBy, fresh>>
             PROVE  TypeInv'
  OBVIOUS
<1> USE ConfigAssumption DEF TypeInv, Control, TypeOK, recVars, jobVars, Goes, PC, AtConfig
<1>1. UNCHANGED <<todo, stopErr, dep>>
  BY DEF RunConfigs
<1>2. \A s \in CfgStatus : [run EXCEPT !.results[cfg] = s] \in Record
  BY RecordOps DEF Cfg
<1>3. {"skipped", "deploying", "evaluating", "complete", "failed"} \subseteq CfgStatus
  BY DEF CfgStatus, CfgEnd
<1>4. cfg \in Cfg => cfg + 1 \in 1 .. NumConfigs + 1
  BY DEF Cfg
<1>5. pc \in AtConfig => Current \in Bench
  BY DEF Current, Bench
<1>6. CASE SkipConfig
  BY <1>1, <1>2, <1>3, <1>4, <1>6 DEF SkipConfig
<1>7. CASE BeginConfig
  BY <1>1, <1>2, <1>3, <1>7, SaveOps DEF BeginConfig
<1>8. CASE DeployConfig
  BY <1>1, <1>8 DEF DeployConfig, BenchStatus
<1>9. CASE DeployConfigFails
  BY <1>1, <1>2, <1>3, <1>9 DEF DeployConfigFails, FailConfig, BenchStatus
<1>10. CASE WaitHealthy
  BY <1>1, <1>2, <1>3, <1>10, SaveOps DEF WaitHealthy
<1>11. CASE WaitFails
  BY <1>1, <1>2, <1>3, <1>11 DEF WaitFails, FailConfig
<1>12. CASE RegisterEval
  BY <1>1, <1>5, <1>12 DEF RegisterEval
<1>13. CASE RegisterEvalFails
  BY <1>1, <1>2, <1>3, <1>5, <1>13 DEF RegisterEvalFails, FailConfig
<1>14. CASE SaveProgress
  BY <1>1, <1>14, SaveOps DEF SaveProgress
<1>15. CASE EvalCompletes
  BY <1>1, <1>2, <1>3, <1>15 DEF EvalCompletes
<1>16. CASE EvalFails
  BY <1>1, <1>2, <1>3, <1>16 DEF EvalFails, FailConfig
<1>17. CASE PurgeEval
  BY <1>1, <1>17 DEF PurgeEval
<1>18. CASE Teardown
  BY <1>1, <1>18, JobOps DEF Teardown
<1>19. CASE SaveConfig
  BY <1>1, <1>4, <1>19, SaveOps DEF SaveConfig
<1> QED BY <1>6, <1>7, <1>8, <1>9, <1>10, <1>11, <1>12, <1>13, <1>14, <1>15, <1>16, <1>17,
           <1>18, <1>19 DEF RunConfigs

LEMMA RestoreType ==
  TypeInv /\ Restore /\ UNCHANGED <<active, cancelled, recVars, used, crashes>> => TypeInv'
<1> SUFFICES ASSUME TypeInv, Restore, UNCHANGED <<active, cancelled, recVars, used, crashes>>
             PROVE  TypeInv'
  OBVIOUS
<1> USE DEF TypeInv, Control, TypeOK, recVars, Goes, PC, AtConfig
<1>1. UNCHANGED <<cfg, stopErr, bench, evalJobs, fresh>>
  BY DEF Restore
<1>2. CASE RestoreDone
  BY <1>1, <1>2, RecordOps, SaveOps DEF RestoreDone
<1>3. ASSUME NEW d \in Dep, RestoreOne(d) PROVE TypeInv'
  BY <1>1, <1>3, JobOps DEF RestoreOne
<1>4. ASSUME NEW d \in Dep, RestoreFails(d) PROVE TypeInv'
  <2>1. run' \in Record
    BY <1>4 DEF RestoreFails, Record
  <2> QED BY <1>1, <1>4, <2>1, JobOps DEF RestoreFails
<1> QED BY <1>2, <1>3, <1>4 DEF Restore

LEMMA ExecStepType == TypeInv /\ ExecStep => TypeInv'
<1> SUFFICES ASSUME TypeInv, ExecStep PROVE TypeInv'
  OBVIOUS
<1>1. UNCHANGED <<active, cancelled, recVars, used, crashes>>
  BY DEF ExecStep
<1>2. CASE StopOthers
  BY <1>1, <1>2, StopOthersType
<1>3. CASE Restore
  BY <1>1, <1>3, RestoreType
<1>4. CASE /\ \/ ExecBegin \/ StageDone \/ StageFails
              \/ RunConfigs \/ LoopDone \/ Decide \/ FinishSave
           /\ UNCHANGED <<stoppedBy, fresh>>
  <2> USE <1>1, <1>4 DEF TypeInv, Control, TypeOK, recVars, jobVars, Goes, PC, AtConfig
  <2>1. CASE ExecBegin
    BY <2>1, RecordOps, SaveOps DEF ExecBegin, ActiveStatus
  <2>2. CASE StageDone
    BY <2>2 DEF StageDone
  <2>3. CASE StageFails
    <3>1. run' \in Record
      BY <2>3, RecordOps DEF StageFails, EndStatus
    <3> QED BY <2>3, <3>1 DEF StageFails
  <2>4. CASE RunConfigs
    BY <2>4, RunConfigsType
  <2>5. CASE LoopDone
    <3>1. run.restore \in SUBSET Dep
      BY DEF Record
    <3> QED BY <2>5, <3>1 DEF LoopDone
  <2>6. CASE Decide
    <3>1. run' \in Record
      BY <2>6, RecordOps DEF Decide, EndStatus
    <3> QED BY <2>6, <3>1 DEF Decide
  <2>7. CASE FinishSave
    BY <2>7, SaveOps DEF FinishSave
  <2> QED BY <2>1, <2>2, <2>3, <2>4, <2>5, <2>6, <2>7
<1> QED BY <1>2, <1>3, <1>4 DEF ExecStep

LEMMA NoneType ==
  /\ NoRecord \in Record
  /\ 1 \in 1 .. NumConfigs + 1
BY ConfigAssumption DEF NoRecord, NewRecord, Record, CfgStatus

LEMMA RecoverType == TypeInv /\ Recover => TypeInv'
<1> SUFFICES ASSUME TypeInv, Recover PROVE TypeInv'
  OBVIOUS
<1>1. UNCHANGED <<execVars, fresh, used, crashes>>
  BY DEF Recover
<1> USE <1>1 DEF TypeInv, Control, TypeOK, execVars, jobVars, RecGoes, RPC
<1>2. CASE RecoverList
  BY <1>2 DEF RecoverList
<1>3. CASE RecoverListFails
  BY <1>3 DEF RecoverListFails
<1>4. ASSUME NEW r \in Run, RecoverTake(r) PROVE TypeInv'
  BY <1>4, RecordOps DEF RecoverTake
<1>5. CASE RecoverSweep
  BY <1>5 DEF RecoverSweep
<1>6. ASSUME NEW b \in Bench, RecoverPurge(b) PROVE TypeInv'
  BY <1>6, JobOps DEF RecoverPurge
<1>7. CASE RecoverPurgeJobs
  <2>1. rec.restore \in SUBSET Dep
    BY DEF Record
  <2> QED BY <1>7, <2>1 DEF RecoverPurgeJobs
<1>8. ASSUME NEW d \in Dep, RecoverDeploy(d) PROVE TypeInv'
  BY <1>8, JobOps DEF RecoverDeploy
<1>9. ASSUME NEW d \in Dep, RecoverDeployFails(d) PROVE TypeInv'
  <2>1. rec' \in Record
    BY <1>9 DEF RecoverDeployFails, Record
  <2> QED BY <1>9, <2>1, JobOps DEF RecoverDeployFails
<1>10. CASE RecoverRestored
  BY <1>10, RecordOps, SaveOps DEF RecoverRestored
<1>11. CASE RecoverMark
  BY <1>11, RecordOps, SaveOps DEF RecoverMark, EndStatus
<1>12. CASE RecoverDone
  BY <1>12, NoneType DEF RecoverDone, NoRecovery
<1> QED BY <1>2, <1>3, <1>4, <1>5, <1>6, <1>7, <1>8, <1>9, <1>10, <1>11, <1>12 DEF Recover

LEMMA NextType == TypeInv /\ [Next]_vars => TypeInv'
<1> SUFFICES ASSUME TypeInv, [Next]_vars PROVE TypeInv'
  OBVIOUS
<1>1. CASE ExecStep
  BY <1>1, ExecStepType
<1>2. CASE Recover
  BY <1>2, RecoverType
<1> USE DEF TypeInv, Control, TypeOK, execVars, recVars, jobVars, ghosts, PC, RPC, AtConfig
<1>3. CASE FinishClear
  BY <1>3, NoneType DEF FinishClear, NoExecution
<1>4. CASE Crash
  <2>1. crashes' \in 0 .. MaxCrash
    BY <1>4, CrashAssumption DEF Crash
  <2>2. rsnap' \in [Run -> Record]
    BY <1>4, NoneType DEF Crash, NoRecovery
  <2> QED BY <1>4, <2>1, <2>2, NoneType DEF Crash, NoExecution, NoRecovery
<1>5. ASSUME NEW r \in Run, Start(r) PROVE TypeInv'
  <2>1. run' \in Record
    BY <1>5, NoneType, RecordOps DEF Start, ActiveStatus
  <2> QED BY <1>5, <2>1, NoneType, RunAssumption DEF Start
<1>6. ASSUME NEW r \in Run, Cancel(r) PROVE TypeInv'
  BY <1>6 DEF Cancel
<1>7. ASSUME NEW r \in Run, DeleteRun(r) PROVE TypeInv'
  BY <1>7, NoneType DEF DeleteRun
<1>8. CASE Environment
  <2>1. ASSUME NEW d \in Dep, UserLaunch(d) PROVE TypeInv'
    BY <2>1, JobOps DEF UserLaunch
  <2>2. ASSUME NEW d \in Dep, UserStop(d) PROVE TypeInv'
    BY <2>2, JobOps DEF UserStop, DepStatus
  <2>3. ASSUME NEW d \in Dep, Settle(d) PROVE TypeInv'
    BY <2>3 DEF Settle, DepStatus
  <2>4. ASSUME NEW b \in Bench, UserStopBench(b) PROVE TypeInv'
    BY <2>4, JobOps DEF UserStopBench, BenchStatus
  <2> QED BY <1>8, <2>1, <2>2, <2>3, <2>4 DEF Environment
<1>9. CASE UNCHANGED vars
  BY <1>9 DEF vars
<1> QED BY <1>1, <1>2, <1>3, <1>4, <1>5, <1>6, <1>7, <1>8, <1>9 DEF Next, Request, Execute

LEMMA TypeInvariant == Spec => []TypeInv
BY InitType, NextType, PTL DEF Spec

(* Every variable keeps its type, whatever the environment does.           *)
THEOREM TypeCorrect == Spec => []TypeOK
<1>1. TypeInv => TypeOK
  BY DEF TypeInv
<1> QED BY <1>1, TypeInvariant, PTL

-----------------------------------------------------------------------------
(* The inductive invariant behind the promise.  It needs an environment in *)
(* which a stopped job is dead at once, no restart hits while Restore is   *)
(* unsaved, saves succeed, and no run is started before Recover is done;   *)
(* calls may fail in either way, listings may omit jobs, users may do what *)
(* they like, and records may be deleted.                                  *)
Tolerable == Env \intersect {"lag", "unsaved", "disk", "early"} = {}

BeforeStop == {"begin", "stage", "list"}
MeasuringPC == {"loop"} \union AtConfig
AfterRestore == {"decide", "finish", "clear"}
Recovering == {"sweep", "purge", "relaunch", "mark"}

(* What the execute goroutine knows, and what of it the disk knows.        *)
ExecInv ==
  active # NoRun =>
    /\ disk[active].blamed \subseteq run.blamed
    /\ pc \in BeforeStop \union {"stop"} => ~stopErr /\ run.blamed = {}
    /\ pc \in BeforeStop => run.restore = {}
    /\ pc \in MeasuringPC =>
         ~stopErr /\ run.blamed = {} /\ disk[active].restore = run.restore
    /\ pc = "restore" /\ ~stopErr =>
         /\ disk[active].restore = run.restore
         /\ todo \union run.blamed \subseteq run.restore
    /\ pc \notin AfterRestore => ~run.restored /\ ~disk[active].restored
    /\ pc \in AfterRestore => disk[active].blamed = run.blamed
    /\ pc \notin {"finish", "clear"} => Active(run)
    /\ pc # "clear" => Active(disk[active])
    /\ pc = "finish" => run.status \in EndStatus
    /\ pc = "clear" => disk[active].status \in EndStatus

(* Recover runs alone, on records that are unchanged since it listed them  *)
(* or deleted, and no record that is in progress is missing from its list. *)
RecoverInv ==
  /\ rpc # "done" => active = NoRun
  /\ rpc \in Recovering => rid \in Run /\ rid \notin rlist /\ Active(rec)
  /\ rpc \in {"next"} \union Recovering =>
       /\ \A r \in rlist : Active(rsnap[r]) /\ disk[r] \in {rsnap[r], NoRecord}
       /\ \A r \in Run : Active(disk[r]) =>
            r \in rlist \/ (rpc \in Recovering /\ r = rid)
  /\ rpc \in Recovering => disk[rid] = NoRecord \/
       /\ Active(disk[rid])
       /\ disk[rid].restore = rec.restore
       /\ disk[rid].blamed \subseteq rec.blamed
       /\ disk[rid].restored = rec.restored
  /\ rpc = "relaunch" => ~rec.restored
  /\ rpc = "mark" => rec.restored

(* Where the promise to relaunch d is kept while the run r owes it.        *)
Owing ==
  CASE pc = "stop" \/ pc \in MeasuringPC -> run.restore
    [] pc = "restore" -> todo \union run.blamed
    [] pc \in AfterRestore -> run.blamed
    [] OTHER -> {}

OnDisk(r, d) ==
  /\ Active(disk[r]) /\ ~disk[r].restored
  /\ d \in disk[r].restore
  /\ rpc = "relaunch" /\ rid = r => d \in rtodo \union rec.blamed

Kept(d) ==
  LET r == stoppedBy[d]
  IN  r # NoRun => \/ d \in disk[r].blamed
                   \/ r # active /\ OnDisk(r, d)
                   \/ r = active /\ d \in Owing

PromiseInv ==
  /\ \A d \in Dep : dep[d] # "stopping"
  /\ \A d \in Dep : stoppedBy[d] # NoRun => dep[d] # "up" /\ stoppedBy[d] \in used
  /\ \A d \in Dep : Kept(d)

RecordsInv ==
  /\ \A r \in Run : disk[r].status = "none" => disk[r] = NoRecord
  /\ \A r \in Run : disk[r].status # "none" => r \in used
  /\ active # NoRun => active \in used
  /\ rpc \in {"next"} \union Recovering => rlist \subseteq used
  /\ rpc \in Recovering => rid \in used

IInv == TypeInv /\ ExecInv /\ RecoverInv /\ PromiseInv /\ RecordsInv /\ RecordsTellTheTruth

-----------------------------------------------------------------------------
(* IInv is inductive in a tolerable environment. *)

(* Without lag and without failing saves these operators are functions.    *)
LEMMA TolerableOps ==
  ASSUME Tolerable
  PROVE  /\ \A r, record : Save(r, record) => disk' = [disk EXCEPT ![r] = record]
         /\ \A d : StopDep(d) => dep' = [dep EXCEPT ![d] = IF Exists(d) THEN "dead" ELSE @]
         /\ "early" \notin Env /\ "disk" \notin Env /\ "unsaved" \notin Env
BY DEF Tolerable, Save, StopDep

LEMMA NoRecordFields ==
  /\ NoRecord.status = "none" /\ ~Active(NoRecord)
  /\ NoRecord.restore = {} /\ NoRecord.blamed = {} /\ NoRecord.restored = FALSE
BY DEF NoRecord, NewRecord, Active, ActiveStatus

LEMMA InitInv == Init => IInv
<1> SUFFICES ASSUME Init PROVE IInv
  OBVIOUS
<1> USE NoRecordFields DEF Init
<1>1. TypeInv
  BY InitType
<1>2. ExecInv
  BY DEF ExecInv
<1>3. RecoverInv
  BY DEF RecoverInv, Recovering
<1>4. PromiseInv
  BY DEF PromiseInv, Kept
<1>5. RecordsInv /\ RecordsTellTheTruth
  BY DEF RecordsInv, RecordsTellTheTruth, Recovering
<1> QED BY <1>1, <1>2, <1>3, <1>4, <1>5 DEF IInv

(* While a run is executed Recover is done, and its invariant is idle.     *)
LEMMA RecoverIdle ==
  ASSUME IInv, active # NoRun, UNCHANGED <<recVars, used>>,
         \A r \in Run : r # active => disk'[r] = disk[r]
  PROVE  RecoverInv' /\ rpc = "done"
BY DEF IInv, RecoverInv, recVars, Recovering

(* A step of execute writes no record but its own.                         *)
LEMMA RecordsKept ==
  ASSUME IInv, active # NoRun, UNCHANGED <<active, recVars, used>>,
         run' \in Record, run'.status # "none",
         disk' = disk \/ disk' = [disk EXCEPT ![active] = run']
  PROVE  /\ active \in Run
         /\ \A r \in Run : r # active => disk'[r] = disk[r]
         /\ disk'[active] \in {disk[active], run'}
         /\ RecoverInv' /\ RecordsInv' /\ RecordsTellTheTruth'
<1>1. active \in Run /\ disk \in [Run -> Record]
  BY DEF IInv, TypeInv, TypeOK
<1>2. /\ \A r \in Run : r # active => disk'[r] = disk[r]
      /\ disk'[active] \in {disk[active], run'}
  BY <1>1
<1>3. RecoverInv' /\ rpc = "done"
  BY <1>2, RecoverIdle
<1>4. RecordsInv'
  <2>1. \A r \in Run : disk'[r].status = "none" => disk'[r] = NoRecord
    BY <1>1, <1>2 DEF IInv, RecordsInv
  <2>2. \A r \in Run : disk'[r].status # "none" => r \in used
    BY <1>1, <1>2 DEF IInv, RecordsInv
  <2> QED BY <1>3, <2>1, <2>2 DEF IInv, RecordsInv, recVars, Recovering, NoRecord, NewRecord
<1>5. RecordsTellTheTruth'
  BY <1>1, <1>2, <1>3 DEF IInv, RecordsTellTheTruth, recVars, Active
<1> QED BY <1>1, <1>2, <1>3, <1>4, <1>5

(* A step that leaves the deployments alone keeps the promise if execute   *)
(* forgets nothing it owes.                                                *)
LEMMA PromiseKept ==
  ASSUME IInv, active \in Run, UNCHANGED <<active, recVars, used, dep, stoppedBy>>,
         \A r \in Run : r # active => disk'[r] = disk[r],
         disk[active].blamed \subseteq disk'[active].blamed,
         Owing \subseteq Owing'
  PROVE  PromiseInv'
<1>1. \A d \in Dep : stoppedBy[d] \in Run \union {NoRun}
  BY DEF IInv, TypeInv, TypeOK
<1>2. ASSUME NEW d \in Dep PROVE Kept(d)'
  <2>1. Kept(d)
    BY DEF IInv, PromiseInv
  <2>2. CASE stoppedBy[d] = active
    BY <2>1, <2>2 DEF Kept
  <2>3. CASE stoppedBy[d] # active /\ stoppedBy[d] # NoRun
    BY <1>1, <2>1, <2>3 DEF Kept, OnDisk, recVars
  <2>4. CASE stoppedBy[d] = NoRun
    BY <2>4 DEF Kept
  <2> QED BY <2>2, <2>3, <2>4
<1> QED BY <1>2 DEF IInv, PromiseInv

(* What the loop over the configurations may touch: the results of the     *)
(* record, the index, and what has been registered for a configuration.    *)
LEMMA RunConfigsEffect ==
  ASSUME TypeInv, RunConfigs
  PROVE  /\ pc \in MeasuringPC /\ pc' \in MeasuringPC
         /\ run' = [run EXCEPT !.results = run'.results]
         /\ disk' = disk \/ disk' = [disk EXCEPT ![active] = run']
         /\ UNCHANGED <<todo, stopErr, dep>>
<1> USE DEF MeasuringPC, AtConfig, Goes, Save, Record, TypeInv, TypeOK
<1>1. UNCHANGED <<todo, stopErr, dep>>
  BY DEF RunConfigs
<1>2. CASE SkipConfig
  BY <1>1, <1>2 DEF SkipConfig
<1>3. CASE BeginConfig
  BY <1>1, <1>3 DEF BeginConfig
<1>4. CASE DeployConfig \/ DeployConfigFails
  BY <1>1, <1>4 DEF DeployConfig, DeployConfigFails, FailConfig
<1>5. CASE WaitHealthy \/ WaitFails
  BY <1>1, <1>5 DEF WaitHealthy, WaitFails, FailConfig
<1>6. CASE RegisterEval \/ RegisterEvalFails
  BY <1>1, <1>6 DEF RegisterEval, RegisterEvalFails, FailConfig
<1>7. CASE SaveProgress
  BY <1>1, <1>7 DEF SaveProgress
<1>8. CASE EvalCompletes \/ EvalFails
  BY <1>1, <1>8 DEF EvalCompletes, EvalFails, FailConfig
<1>9. CASE PurgeEval \/ Teardown
  BY <1>1, <1>9 DEF PurgeEval, Teardown
<1>10. CASE SaveConfig
  BY <1>1, <1>10 DEF SaveConfig
<1> QED BY <1>2, <1>3, <1>4, <1>5, <1>6, <1>7, <1>8, <1>9, <1>10 DEF RunConfigs

(* The steps of execute outside stopOthers and restore.                    *)
LEMMA LoopInv ==
  ASSUME Tolerable, IInv, TypeInv',
         \/ ExecBegin \/ StageDone \/ StageFails
         \/ RunConfigs \/ LoopDone \/ Decide \/ FinishSave,
         UNCHANGED <<active, cancelled, recVars, used, crashes, stoppedBy, fresh>>
  PROVE  IInv'
<1> DEFINE Saved == disk' = disk \/ disk' = [disk EXCEPT ![active] = run']
<1>1. run \in Record /\ run' \in Record /\ TypeInv /\ disk \in [Run -> Record]
  BY DEF IInv, TypeInv, TypeOK
<1>2. SUFFICES /\ active # NoRun /\ run'.status # "none" /\ Saved /\ dep' = dep
               /\ ExecInv'
               /\ disk[active].blamed \subseteq disk'[active].blamed
               /\ Owing \subseteq Owing'
  <2>1. RecoverInv' /\ RecordsInv' /\ RecordsTellTheTruth'
    BY <1>1, <1>2, RecordsKept
  <2>2. PromiseInv'
    BY <1>1, <1>2, RecordsKept, PromiseKept
  <2> QED BY <1>2, <2>1, <2>2 DEF IInv
<1> USE <1>1, TolerableOps
    DEF IInv, TypeInv, Control, Goes, ExecInv, BeforeStop, MeasuringPC, AtConfig, AfterRestore,
        Owing, Active, ActiveStatus, EndStatus
<1>3. CASE ExecBegin
  <2>1. run' = [run EXCEPT !.status = "running"] /\ disk' = [disk EXCEPT ![active] = run']
    BY <1>3 DEF ExecBegin
  <2>2. /\ run'.status = "running" /\ run'.restore = run.restore
        /\ run'.blamed = run.blamed /\ run'.restored = run.restored
    BY <2>1 DEF Record
  <2>3. active \in Run /\ disk'[active] = run'
    BY <1>3, <2>1 DEF ExecBegin, TypeOK
  <2> QED BY <1>3, <2>1, <2>2, <2>3 DEF ExecBegin, jobVars
<1>4. CASE StageDone
  BY <1>4 DEF StageDone, jobVars
<1>5. CASE StageFails
  <2>1. /\ run'.status \in {"cancelled", "failed"}
        /\ run'.blamed = run.blamed
    BY <1>5 DEF StageFails, AllSkipped, Record
  <2> QED BY <1>5, <2>1 DEF StageFails, jobVars
<1>6. CASE RunConfigs
  <2>1. /\ pc \in MeasuringPC /\ pc' \in MeasuringPC
        /\ run' = [run EXCEPT !.results = run'.results] /\ Saved
        /\ UNCHANGED <<todo, stopErr, dep>>
    BY <1>6, RunConfigsEffect
  <2>2. /\ run'.status = run.status /\ run'.restore = run.restore
        /\ run'.blamed = run.blamed /\ run'.restored = run.restored
    BY <2>1 DEF Record
  <2>3. active \in Run /\ disk'[active] \in {disk[active], run'}
    BY <2>1 DEF TypeOK
  <2> QED BY <1>6, <2>1, <2>2, <2>3
<1>7. CASE LoopDone
  BY <1>7 DEF LoopDone, jobVars
<1>8. CASE Decide
  <2>1. /\ run'.status \in {"failed", "cancelled", "complete"}
        /\ run'.blamed = run.blamed
    BY <1>8 DEF Decide, Record
  <2> QED BY <1>8, <2>1 DEF Decide, jobVars
<1>9. CASE FinishSave
  <2>1. active \in Run /\ disk' = [disk EXCEPT ![active] = run]
    BY <1>9 DEF FinishSave, TypeOK
  <2> QED BY <1>9, <2>1 DEF FinishSave, jobVars
<1> QED BY <1>3, <1>4, <1>5, <1>6, <1>7, <1>8, <1>9

LEMMA StopOthersInv ==
  ASSUME Tolerable, IInv, TypeInv', StopOthers,
         UNCHANGED <<active, cancelled, recVars, used, crashes>>
  PROVE  IInv'
<1>1. run \in Record /\ run' \in Record /\ disk \in [Run -> Record]
  BY DEF IInv, TypeInv, TypeOK
<1>2. pc \in {"list", "stop"} /\ active # NoRun /\ active \in Run /\ active \in used
  BY DEF StopOthers, ListOthers, ListFails, StopDone, PurgeLeftover, StopOne, StopFails,
         AbortStop, Goes, IInv, TypeInv, Control, TypeOK, RecordsInv
<1>3. /\ Active(run) /\ ~run.restored /\ run.blamed = {} /\ ~stopErr
      /\ pc = "list" => run.restore = {}
      /\ Active(disk[active]) /\ ~disk[active].restored /\ disk[active].blamed = {}
  BY <1>2 DEF IInv, ExecInv, BeforeStop, AfterRestore
<1> USE <1>1, <1>2, <1>3, TolerableOps DEF Goes
<1>4. SUFFICES ASSUME run'.status = run.status,
                      disk' = disk \/ disk' = [disk EXCEPT ![active] = run']
               PROVE  ExecInv' /\ PromiseInv'
  <2>1. disk' = disk \/ disk' = [disk EXCEPT ![active] = run']
    BY DEF StopOthers, ListOthers, ListFails, StopDone, PurgeLeftover, StopOne, StopFails,
           AbortStop, Save
  <2>2. run'.status = run.status
    BY DEF StopOthers, ListOthers, ListFails, StopDone, PurgeLeftover, StopOne, StopFails,
           AbortStop, AllSkipped, Record
  <2>3. RecoverInv' /\ RecordsInv' /\ RecordsTellTheTruth'
    BY <2>1, <2>2, RecordsKept DEF Active, ActiveStatus
  <2> QED BY <1>4, <2>1, <2>2, <2>3 DEF IInv
<1>5. \A r \in Run : r # active => disk'[r] = disk[r]
  BY <1>4
<1> USE DEF BeforeStop, MeasuringPC, AtConfig, AfterRestore, Active
<1>6. ASSUME Owing \subseteq Owing', disk[active].blamed \subseteq disk'[active].blamed,
             UNCHANGED <<dep, stoppedBy>>
      PROVE  PromiseInv'
  BY <1>5, <1>6, PromiseKept
<1>7. CASE ListOthers
  BY <1>6, <1>7 DEF ListOthers, jobVars, ExecInv, Owing
<1>8. ASSUME NEW D \in SUBSET Dep, AbortStop("list", D) \/ AbortStop("stop", D)
      PROVE  /\ ExecInv' /\ Owing' = run.restore \union D
             /\ disk' = disk
  <2>1. /\ AllSkipped(run) \in Record /\ AllSkipped(run).blamed = run.blamed
        /\ AllSkipped(run).restore = run.restore /\ AllSkipped(run).restored = run.restored
    BY RecordOps DEF AllSkipped, Record
  <2>2. run' = [AllSkipped(run) EXCEPT !.blamed = AllSkipped(run).blamed \union D]
    BY <1>8 DEF AbortStop
  <2>3. /\ run'.restore = run.restore /\ run'.restored = run.restored
        /\ run'.blamed = D
    BY <2>1, <2>2 DEF Record
  <2> QED BY <1>4, <1>8, <2>3 DEF AbortStop, ExecInv, Owing
<1>9. CASE ListFails
  <2>1. AbortStop("list", {}) /\ UNCHANGED <<jobVars, stoppedBy>> /\ pc = "list"
    BY <1>9 DEF ListFails, AbortStop
  <2> QED BY <1>6, <1>8, <2>1 DEF jobVars, Owing
<1>10. CASE StopDone
  BY <1>4, <1>6, <1>10 DEF StopDone, jobVars, ExecInv, Owing
<1>11. ASSUME NEW b \in Bench, PurgeLeftover(b) PROVE ExecInv' /\ PromiseInv'
  BY <1>6, <1>11 DEF PurgeLeftover, ExecInv, Owing
(* The stop of one deployment: run owes it from now on.                    *)
<1>12. ASSUME NEW d \in Dep, StopFor(active, d), disk' = disk,
              pc = "stop", Owing' = run.restore \union {d}
       PROVE  PromiseInv'
  <2>1. /\ dep' = [dep EXCEPT ![d] = IF Exists(d) THEN "dead" ELSE @]
        /\ stoppedBy' = IF dep[d] = "up" THEN [stoppedBy EXCEPT ![d] = active] ELSE stoppedBy
    BY <1>12 DEF StopFor
  <2>2. dep \in [Dep -> DepStatus] /\ stoppedBy \in [Dep -> Run \union {NoRun}]
    BY DEF IInv, TypeInv, TypeOK
  <2>3. \A e \in Dep : dep'[e] # "stopping"
    BY <2>1, <2>2 DEF IInv, PromiseInv
  <2>4. \A e \in Dep : stoppedBy'[e] # NoRun => dep'[e] # "up" /\ stoppedBy'[e] \in used'
    BY <2>1, <2>2 DEF IInv, PromiseInv, Exists
  <2>5. ASSUME NEW e \in Dep PROVE Kept(e)'
    <3>1. CASE e = d /\ dep[d] = "up"
      BY <1>12, <2>1, <2>2, <3>1 DEF Kept
    <3>2. CASE ~(e = d /\ dep[d] = "up")
      <4>1. stoppedBy'[e] = stoppedBy[e]
        BY <2>1, <2>2, <3>2
      <4>2. Kept(e) /\ Owing = run.restore
        BY <1>12 DEF IInv, PromiseInv, Owing
      <4> QED BY <1>12, <4>1, <4>2 DEF Kept, OnDisk, recVars
    <3> QED BY <3>1, <3>2
  <2> QED BY <2>3, <2>4, <2>5 DEF PromiseInv
<1>13. ASSUME NEW d \in Dep, StopOne(d) PROVE ExecInv' /\ PromiseInv'
  <2>1. /\ run'.restore = run.restore \union {d} /\ run'.restored = run.restored
        /\ run'.blamed = run.blamed /\ pc = "stop" /\ pc' = "stop"
        /\ disk' = disk /\ stopErr' = stopErr
    BY <1>13 DEF StopOne, Record
  <2>2. ExecInv'
    BY <1>4, <2>1 DEF ExecInv
  <2>3. PromiseInv'
    BY <1>12, <1>13, <2>1 DEF StopOne, Owing
  <2> QED BY <2>2, <2>3
<1>14. ASSUME NEW d \in Dep, StopFails(d) PROVE ExecInv' /\ PromiseInv'
  <2>1. AbortStop("stop", {d}) /\ pc = "stop"
    BY <1>14 DEF StopFails, AbortStop
  <2>2. ExecInv' /\ Owing' = run.restore \union {d} /\ disk' = disk
    BY <1>8, <2>1
  <2>3. CASE UNCHANGED <<dep, stoppedBy>>
    BY <1>6, <2>1, <2>2, <2>3 DEF Owing
  <2>4. CASE StopFor(active, d)
    BY <1>12, <2>1, <2>2, <2>4
  <2> QED BY <1>14, <2>2, <2>3, <2>4 DEF StopFails
<1> QED BY <1>7, <1>8, <1>9, <1>10, <1>11, <1>13, <1>14 DEF StopOthers

(* A relaunch of d, by either goroutine: nobody owes d any more, whether d *)
(* was up already or is up now; after a failure d may be owed as before.   *)
LEMMA RelaunchOps ==
  ASSUME IInv, NEW d \in Dep, DeploySucceeds(d) \/ DeployFails(d)
  PROVE  /\ \A e \in Dep : dep'[e] # "stopping"
         /\ \A e \in Dep : stoppedBy'[e] # NoRun =>
              dep'[e] # "up" /\ stoppedBy'[e] = stoppedBy[e] /\ stoppedBy'[e] \in used
         /\ DeploySucceeds(d) => stoppedBy'[d] = NoRun
<1>1. dep \in [Dep -> DepStatus] /\ stoppedBy \in [Dep -> Run \union {NoRun}]
  BY DEF IInv, TypeInv, TypeOK
<1>2. CASE UNCHANGED <<dep, stoppedBy>>
  BY <1>1, <1>2 DEF IInv, PromiseInv, DeploySucceeds, Exists, Launch, DepStatus
<1>3. CASE Launch(d)
  BY <1>1, <1>3 DEF Launch, IInv, PromiseInv
<1> QED BY <1>2, <1>3 DEF DeploySucceeds, DeployFails

LEMMA RestoreInv ==
  ASSUME Tolerable, IInv, TypeInv', Restore,
         UNCHANGED <<active, cancelled, recVars, used, crashes>>
  PROVE  IInv'
<1>1. run \in Record /\ run' \in Record /\ disk \in [Run -> Record]
  BY DEF IInv, TypeInv, TypeOK
<1>2. pc = "restore" /\ active # NoRun /\ active \in Run /\ UNCHANGED stopErr
  BY DEF Restore, RestoreDone, RestoreOne, RestoreFails, Goes, IInv, TypeInv, Control, TypeOK
<1>3. /\ Active(run) /\ Active(disk[active]) /\ ~disk[active].restored
      /\ ~run.restored
      /\ disk[active].blamed \subseteq run.blamed
      /\ ~stopErr => disk[active].restore = run.restore /\ todo \union run.blamed \subseteq run.restore
  BY <1>2 DEF IInv, ExecInv, AfterRestore
<1>4. Owing = todo \union run.blamed
  BY <1>2 DEF Owing, MeasuringPC, AtConfig, AfterRestore
<1> USE <1>1, <1>2, <1>3, <1>4, TolerableOps DEF Goes
<1>5. SUFFICES ASSUME \A r \in Run : r # active => disk'[r] = disk[r],
                      run'.status = run.status
               PROVE  ExecInv' /\ PromiseInv'
  <2>1. disk' = disk \/ disk' = [disk EXCEPT ![active] = run']
    BY DEF Restore, RestoreDone, RestoreOne, RestoreFails
  <2>2. run'.status = run.status
    BY DEF Restore, RestoreDone, RestoreOne, RestoreFails, Record
  <2>3. /\ \A r \in Run : r # active => disk'[r] = disk[r]
        /\ RecoverInv' /\ RecordsInv' /\ RecordsTellTheTruth'
    BY <2>1, <2>2, RecordsKept DEF Active, ActiveStatus
  <2> QED BY <1>5, <2>2, <2>3 DEF IInv
<1> USE DEF BeforeStop, MeasuringPC, AtConfig, AfterRestore, Active
<1>6. CASE RestoreDone
  <2>1. /\ run' = [run EXCEPT !.restored = TRUE] /\ disk' = [disk EXCEPT ![active] = run']
        /\ pc' = "decide" /\ todo = {} /\ UNCHANGED <<dep, stoppedBy>>
    BY <1>6 DEF RestoreDone
  <2>2. run'.blamed = run.blamed
    BY <2>1 DEF Record
  <2>3. ExecInv'
    BY <1>5, <2>1, <2>2 DEF ExecInv
  <2>4. PromiseInv'
    BY <1>5, <2>1, <2>2, PromiseKept DEF Owing
  <2> QED BY <2>3, <2>4
<1>7. ASSUME NEW d \in Dep, disk' = disk, pc' = "restore", todo' = todo \ {d},
             d \in todo,
             \/ DeploySucceeds(d) /\ run'.blamed = run.blamed
             \/ DeployFails(d) /\ run'.blamed = run.blamed \union {d},
             run'.restore = run.restore, run'.restored = run.restored
      PROVE  ExecInv' /\ PromiseInv'
  <2>1. ExecInv'
    BY <1>5, <1>7 DEF ExecInv
  <2>2. Owing' = (todo \ {d}) \union run'.blamed
    BY <1>7 DEF Owing
  <2>3. ASSUME NEW e \in Dep PROVE Kept(e)'
    <3>1. Kept(e)
      BY DEF IInv, PromiseInv
    <3>2. stoppedBy'[e] # NoRun => /\ stoppedBy'[e] = stoppedBy[e]
                                   /\ e = d => d \in run'.blamed
      BY <1>7, RelaunchOps
    <3> QED BY <1>7, <2>2, <3>1, <3>2 DEF Kept, OnDisk, recVars
  <2> QED BY <1>7, <2>1, <2>3, RelaunchOps DEF PromiseInv
<1>8. ASSUME NEW d \in Dep, RestoreOne(d) PROVE ExecInv' /\ PromiseInv'
  BY <1>7, <1>8 DEF RestoreOne
<1>9. ASSUME NEW d \in Dep, RestoreFails(d) PROVE ExecInv' /\ PromiseInv'
  <2>1. /\ run'.blamed = run.blamed \union {d}
        /\ run'.restore = run.restore /\ run'.restored = run.restored
    BY <1>9 DEF RestoreFails, Record
  <2> QED BY <1>7, <1>9, <2>1 DEF RestoreFails
<1> QED BY <1>6, <1>8, <1>9 DEF Restore

LEMMA ExecStepInv ==
  ASSUME Tolerable, IInv, TypeInv', ExecStep
  PROVE  IInv'
<1>1. UNCHANGED <<active, cancelled, recVars, used, crashes>>
  BY DEF ExecStep
<1>2. CASE StopOthers
  BY <1>1, <1>2, StopOthersInv
<1>3. CASE Restore
  BY <1>1, <1>3, RestoreInv
<1> QED BY <1>1, <1>2, <1>3, LoopInv DEF ExecStep

(* The steps of Recover.  No run is in progress, so a deployment that a    *)
(* run stopped is owed by what that run left on disk.                      *)
LEMMA RecoverStepInv ==
  ASSUME Tolerable, IInv, TypeInv', Recover
  PROVE  IInv'
<1>1. /\ rec \in Record /\ rec' \in Record /\ disk \in [Run -> Record]
      /\ rsnap \in [Run -> Record] /\ rlist \subseteq Run
      /\ stoppedBy \in [Dep -> Run \union {NoRun}]
  BY DEF IInv, TypeInv, TypeOK
<1>2. UNCHANGED <<active, used>> /\ UNCHANGED execVars
  BY DEF Recover, execVars
<1>3. rpc # "done" /\ active = NoRun
  BY DEF Recover, RecoverList, RecoverListFails, RecoverTake, RecoverSweep, RecoverPurge,
         RecoverPurgeJobs, RecoverDeploy, RecoverDeployFails, RecoverRestored, RecoverMark,
         RecoverDone, RecGoes, IInv, RecoverInv
<1>4. ExecInv'
  BY <1>2, <1>3 DEF ExecInv
<1> USE <1>1, <1>2, <1>3, TolerableOps, NoRecordFields DEF RecGoes
<1>5. SUFFICES RecoverInv' /\ PromiseInv' /\ RecordsInv' /\ RecordsTellTheTruth'
  BY <1>4, <1>5 DEF IInv
<1>6. /\ \A r \in Run : disk[r].status = "none" => disk[r] = NoRecord
      /\ \A r \in Run : disk[r].status # "none" => r \in used
      /\ rpc \in {"next"} \union Recovering => rlist \subseteq used
      /\ rpc \in Recovering => rid \in used /\ rid \in Run
  BY DEF IInv, RecordsInv, RecoverInv
<1>7. /\ \A d \in Dep : dep[d] # "stopping"
      /\ \A d \in Dep : stoppedBy[d] # NoRun => dep[d] # "up" /\ stoppedBy[d] \in used
      /\ \A d \in Dep : stoppedBy[d] # NoRun =>
           d \in disk[stoppedBy[d]].blamed \/ OnDisk(stoppedBy[d], d)
  BY DEF IInv, PromiseInv, Kept
(* Whoever touches no deployment only has to keep what is on disk.         *)
<1>8. ASSUME UNCHANGED <<dep, stoppedBy>>,
             \A r \in Run, d \in Dep : d \in disk[r].blamed \/ OnDisk(r, d) =>
                                       d \in disk'[r].blamed \/ OnDisk(r, d)'
      PROVE  PromiseInv'
  <2>1. \A d \in Dep : Kept(d)'
    BY <1>7, <1>8 DEF Kept
  <2> QED BY <1>7, <1>8, <2>1 DEF PromiseInv
<1> USE DEF Active, ActiveStatus, EndStatus, Recovering
<1>9. CASE RecoverList
  <2>1. RecoverInv'
    BY <1>9 DEF RecoverList, RecoverInv
  <2>2. PromiseInv'
    BY <1>8, <1>9 DEF RecoverList, OnDisk, jobVars
  <2>3. RecordsInv' /\ RecordsTellTheTruth'
    BY <1>6, <1>9 DEF RecoverList, RecordsInv, RecordsTellTheTruth
  <2> QED BY <2>1, <2>2, <2>3
<1>10. CASE RecoverListFails
  BY <1>10 DEF RecoverListFails
<1>11. ASSUME NEW r \in Run, RecoverTake(r)
       PROVE  RecoverInv' /\ PromiseInv' /\ RecordsInv' /\ RecordsTellTheTruth'
  <2>1. /\ rec'.status = rsnap[r].status /\ rec'.restore = rsnap[r].restore
        /\ rec'.blamed = rsnap[r].blamed /\ rec'.restored = rsnap[r].restored
    BY <1>11 DEF RecoverTake, Interrupt, Record
  <2>2. RecoverInv'
    BY <1>11, <2>1 DEF RecoverTake, RecoverInv, IInv
  <2>3. PromiseInv'
    BY <1>8, <1>11 DEF RecoverTake, OnDisk, jobVars
  <2>4. RecordsInv' /\ RecordsTellTheTruth'
    BY <1>6, <1>11 DEF RecoverTake, RecordsInv, RecordsTellTheTruth
  <2> QED BY <2>2, <2>3, <2>4
<1>12. CASE RecoverSweep
  <2>1. RecoverInv'
    BY <1>12 DEF RecoverSweep, RecoverInv, IInv
  <2>2. PromiseInv'
    BY <1>8, <1>12 DEF RecoverSweep, OnDisk, jobVars
  <2>3. RecordsInv' /\ RecordsTellTheTruth'
    BY <1>6, <1>12 DEF RecoverSweep, RecordsInv, RecordsTellTheTruth
  <2> QED BY <2>1, <2>2, <2>3
<1>13. ASSUME NEW b \in Bench, RecoverPurge(b)
       PROVE  RecoverInv' /\ PromiseInv' /\ RecordsInv' /\ RecordsTellTheTruth'
  <2>1. RecoverInv'
    BY <1>13 DEF RecoverPurge, RecoverInv, IInv
  <2>2. PromiseInv'
    BY <1>8, <1>13 DEF RecoverPurge, OnDisk
  <2>3. RecordsInv' /\ RecordsTellTheTruth'
    BY <1>6, <1>13 DEF RecoverPurge, RecordsInv, RecordsTellTheTruth
  <2> QED BY <2>1, <2>2, <2>3
<1>14. CASE RecoverPurgeJobs
  <2>1. /\ rpc = "purge" /\ rpc' = (IF rec.restored THEN "mark" ELSE "relaunch")
        /\ rtodo' = (IF rec.restored THEN {} ELSE rec.restore)
        /\ UNCHANGED <<rlist, rsnap, rid, rec, disk, dep, bench, stoppedBy>>
    BY <1>14 DEF RecoverPurgeJobs
  <2>2. RecoverInv'
    BY <2>1 DEF RecoverInv, IInv
  <2>3. PromiseInv'
    <3>1. ASSUME NEW r \in Run, NEW d \in Dep, OnDisk(r, d) PROVE OnDisk(r, d)'
      <4>1. rid = r => disk[rid].restore = rec.restore
        BY <2>1, <3>1 DEF IInv, RecoverInv, OnDisk
      <4> QED BY <2>1, <3>1, <4>1 DEF OnDisk
    <3> QED BY <1>8, <2>1, <3>1
  <2>4. RecordsInv' /\ RecordsTellTheTruth'
    BY <1>6, <2>1 DEF RecordsInv, RecordsTellTheTruth
  <2> QED BY <2>2, <2>3, <2>4
<1>15. ASSUME NEW d \in Dep, rpc = "relaunch", d \in rtodo, rtodo' = rtodo \ {d},
              \/ DeploySucceeds(d) /\ rec' = rec
              \/ DeployFails(d) /\ rec' = [rec EXCEPT !.blamed = @ \union {d}],
              UNCHANGED <<rpc, rlist, rsnap, rid, disk>>
       PROVE  RecoverInv' /\ PromiseInv' /\ RecordsInv' /\ RecordsTellTheTruth'
  <2>1. /\ \/ DeploySucceeds(d) /\ rec'.blamed = rec.blamed
           \/ rec'.blamed = rec.blamed \union {d}
        /\ rec'.status = rec.status /\ rec'.restore = rec.restore
        /\ rec'.restored = rec.restored
    BY <1>15 DEF Record
  <2>2. RecoverInv'
    BY <1>15, <2>1 DEF RecoverInv, IInv
  <2>3. ASSUME NEW e \in Dep PROVE Kept(e)'
    <3>1. stoppedBy'[e] # NoRun => /\ stoppedBy'[e] = stoppedBy[e]
                                   /\ e = d => d \in rec'.blamed
      BY <1>15, <2>1, RelaunchOps
    <3> QED BY <1>7, <1>15, <2>1, <3>1 DEF Kept, OnDisk
  <2>4. PromiseInv'
    BY <1>15, <2>3, RelaunchOps DEF PromiseInv
  <2>5. RecordsInv' /\ RecordsTellTheTruth'
    BY <1>6, <1>15 DEF RecordsInv, RecordsTellTheTruth
  <2> QED BY <2>2, <2>4, <2>5
<1>16. ASSUME NEW d \in Dep, RecoverDeploy(d) \/ RecoverDeployFails(d)
       PROVE  RecoverInv' /\ PromiseInv' /\ RecordsInv' /\ RecordsTellTheTruth'
  BY <1>15, <1>16 DEF RecoverDeploy, RecoverDeployFails
<1>17. CASE RecoverRestored
  <2>1. /\ rpc = "relaunch" /\ rpc' = "mark" /\ rtodo = {} /\ disk' = [disk EXCEPT ![rid] = rec']
        /\ UNCHANGED <<rlist, rsnap, rid, rtodo, dep, stoppedBy>>
    BY <1>17 DEF RecoverRestored, jobVars
  <2>2. /\ rec'.blamed = rec.blamed /\ rec'.status = rec.status
        /\ rec'.restore = rec.restore /\ rec'.restored
    BY <1>17 DEF RecoverRestored, Record
  <2>3. disk'[rid] = rec' /\ \A r \in Run : r # rid => disk'[r] = disk[r]
    BY <1>6, <2>1
  <2>4. RecoverInv'
    BY <1>6, <2>1, <2>2, <2>3 DEF RecoverInv, IInv
  <2>5. PromiseInv'
    <3>1. disk[rid].blamed \subseteq rec.blamed
      BY <2>1 DEF IInv, RecoverInv
    <3> QED BY <1>6, <1>8, <2>1, <2>2, <2>3, <3>1 DEF OnDisk
  <2>6. RecordsInv' /\ RecordsTellTheTruth'
    <3>1. rec'.status # "none"
      BY <2>1, <2>2 DEF IInv, RecoverInv
    <3> QED BY <1>6, <2>1, <2>3, <3>1 DEF RecordsInv, RecordsTellTheTruth
  <2> QED BY <2>4, <2>5, <2>6
<1>18. CASE RecoverMark
  <2>1. /\ rpc = "mark" /\ rpc' = "next" /\ disk' = [disk EXCEPT ![rid] = rec']
        /\ UNCHANGED <<rlist, rsnap, rid, rtodo, dep, stoppedBy>>
    BY <1>18 DEF RecoverMark, jobVars
  <2>2. rec'.blamed = rec.blamed /\ rec'.status = "interrupted"
    BY <1>18 DEF RecoverMark, Record
  <2>3. disk'[rid] = rec' /\ \A r \in Run : r # rid => disk'[r] = disk[r]
    BY <1>6, <2>1
  <2>4. RecoverInv'
    BY <1>6, <2>1, <2>2, <2>3 DEF RecoverInv, IInv
  <2>5. PromiseInv'
    <3>1. /\ disk[rid].blamed \subseteq rec.blamed
          /\ Active(disk[rid]) => disk[rid].restored
      BY <2>1 DEF IInv, RecoverInv
    <3> QED BY <1>6, <1>8, <2>1, <2>2, <2>3, <3>1 DEF OnDisk
  <2>6. RecordsInv' /\ RecordsTellTheTruth'
    BY <1>6, <2>1, <2>2, <2>3 DEF RecordsInv, RecordsTellTheTruth
  <2> QED BY <2>4, <2>5, <2>6
<1>19. CASE RecoverDone
  <2>1. RecoverInv'
    BY <1>19 DEF RecoverDone, RecoverInv
  <2>2. PromiseInv'
    BY <1>8, <1>19 DEF RecoverDone, OnDisk, jobVars
  <2>3. RecordsInv'
    BY <1>6, <1>19 DEF RecoverDone, RecordsInv
  <2>4. RecordsTellTheTruth'
    BY <1>19 DEF RecoverDone, RecordsTellTheTruth, RecoverInv, IInv
  <2> QED BY <2>1, <2>2, <2>3, <2>4
<1> QED BY <1>9, <1>10, <1>11, <1>12, <1>13, <1>14, <1>16, <1>17, <1>18, <1>19 DEF Recover

(* The requests, the users, Nomad, the end of a run and a restart.         *)
LEMMA StartInv ==
  ASSUME Tolerable, IInv, TypeInv', NEW r \in Run, Start(r)
  PROVE  IInv'
<1>1. /\ disk \in [Run -> Record] /\ stoppedBy \in [Dep -> Run \union {NoRun}]
      /\ r # NoRun
  BY RunAssumption DEF IInv, TypeInv, TypeOK
<1>2. /\ rpc = "done" /\ rpc' = "done" /\ active = NoRun /\ active' = r /\ r \notin used
      /\ run' = NewRecord("pending") /\ disk' = [disk EXCEPT ![r] = run']
      /\ used' = used \union {r} /\ pc' = "begin" /\ stopErr' = FALSE
      /\ UNCHANGED <<rlist, rid, rec, rtodo, rsnap, dep, stoppedBy>>
  BY TolerableOps DEF Start, recVars, jobVars
<1>3. disk'[r] = run' /\ \A q \in Run : q # r => disk'[q] = disk[q]
  BY <1>1, <1>2
<1>4. /\ run'.status = "pending" /\ run'.restore = {} /\ run'.blamed = {}
      /\ run'.restored = FALSE
  BY <1>2 DEF NewRecord
<1>5. ExecInv'
  BY <1>1, <1>2, <1>3, <1>4
     DEF ExecInv, BeforeStop, MeasuringPC, AtConfig, AfterRestore, Active, ActiveStatus
<1>6. RecoverInv'
  BY <1>2 DEF RecoverInv, Recovering
<1>7. \A d \in Dep : stoppedBy[d] # r
  BY <1>1, <1>2 DEF IInv, PromiseInv
<1>8. \A d \in Dep : Kept(d)'
  BY <1>1, <1>2, <1>3, <1>7 DEF IInv, PromiseInv, Kept, OnDisk
<1>9. PromiseInv'
  BY <1>2, <1>8 DEF IInv, PromiseInv
<1>10. RecordsInv' /\ RecordsTellTheTruth'
  BY <1>2, <1>3, <1>4, RunAssumption DEF IInv, RecordsInv, RecordsTellTheTruth, Recovering
<1> QED BY <1>5, <1>6, <1>9, <1>10 DEF IInv

LEMMA DeleteInv ==
  ASSUME IInv, TypeInv', NEW r \in Run, DeleteRun(r)
  PROVE  IInv'
<1>1. /\ disk \in [Run -> Record] /\ stoppedBy \in [Dep -> Run \union {NoRun}]
      /\ r # NoRun /\ rlist \subseteq Run /\ active \in Run \union {NoRun}
  BY RunAssumption DEF IInv, TypeInv, TypeOK
<1>2. /\ UNCHANGED <<active, pc, run, todo, stopErr, rpc, rlist, rid, rec, rtodo, rsnap, dep, used>>
      /\ active # r
  BY DEF DeleteRun, execVars, recVars, jobVars
<1>3. /\ disk'[r] = NoRecord /\ \A q \in Run : q # r => disk'[q] = disk[q]
      /\ \A d \in Dep : stoppedBy'[d] # NoRun => stoppedBy'[d] = stoppedBy[d] /\ stoppedBy[d] # r
  BY <1>1 DEF DeleteRun
<1>4. ExecInv'
  BY <1>1, <1>2, <1>3 DEF IInv, ExecInv
<1>5. RecoverInv'
  BY <1>1, <1>2, <1>3, NoRecordFields DEF IInv, RecoverInv, Recovering, Active
<1>6. \A d \in Dep : Kept(d)'
  BY <1>1, <1>2, <1>3 DEF IInv, PromiseInv, Kept, OnDisk, Owing
<1>7. PromiseInv'
  BY <1>2, <1>3, <1>6 DEF IInv, PromiseInv
<1>8. RecordsInv' /\ RecordsTellTheTruth'
  BY <1>2, <1>3, NoRecordFields DEF IInv, RecordsInv, RecordsTellTheTruth, Recovering, Active
<1> QED BY <1>4, <1>5, <1>7, <1>8 DEF IInv

LEMMA EnvironmentInv ==
  ASSUME Tolerable, IInv, TypeInv', Environment
  PROVE  IInv'
<1>1. dep \in [Dep -> DepStatus] /\ stoppedBy \in [Dep -> Run \union {NoRun}]
  BY DEF IInv, TypeInv, TypeOK
<1>2. UNCHANGED <<execVars, recVars, disk, used>>
  BY DEF Environment, UserLaunch, UserStop, UserStopBench, Settle, ghosts
<1>3. ExecInv' /\ RecoverInv' /\ RecordsInv' /\ RecordsTellTheTruth'
  BY <1>2 DEF IInv, ExecInv, RecoverInv, RecordsInv, RecordsTellTheTruth, execVars, recVars
<1>4. SUFFICES /\ \A d \in Dep : dep'[d] # "stopping"
               /\ \A d \in Dep : stoppedBy'[d] # NoRun =>
                                   dep'[d] # "up" /\ stoppedBy'[d] = stoppedBy[d]
  <2>1. \A d \in Dep : Kept(d)'
    BY <1>2, <1>4 DEF IInv, PromiseInv, Kept, OnDisk, Owing, execVars, recVars
  <2>2. PromiseInv'
    BY <1>2, <1>4, <2>1 DEF IInv, PromiseInv
  <2> QED BY <1>3, <2>2 DEF IInv
<1>5. \A d \in Dep : dep[d] # "stopping" /\ (stoppedBy[d] # NoRun => dep[d] # "up")
  BY DEF IInv, PromiseInv
<1>6. ASSUME NEW d \in Dep, UserLaunch(d)
      PROVE  /\ \A e \in Dep : dep'[e] # "stopping"
             /\ \A e \in Dep : stoppedBy'[e] # NoRun =>
                                 dep'[e] # "up" /\ stoppedBy'[e] = stoppedBy[e]
  BY <1>1, <1>5, <1>6 DEF UserLaunch, Launch
<1>7. ASSUME NEW d \in Dep, UserStop(d)
      PROVE  /\ \A e \in Dep : dep'[e] # "stopping"
             /\ \A e \in Dep : stoppedBy'[e] # NoRun =>
                                 dep'[e] # "up" /\ stoppedBy'[e] = stoppedBy[e]
  BY <1>1, <1>5, <1>7, TolerableOps DEF UserStop, ghosts
<1>8. ASSUME NEW d \in Dep, Settle(d) PROVE FALSE
  BY <1>5, <1>8 DEF Settle
<1>9. ASSUME NEW b \in Bench, UserStopBench(b)
      PROVE  UNCHANGED <<dep, stoppedBy>>
  BY <1>9 DEF UserStopBench, ghosts
<1> QED BY <1>5, <1>6, <1>7, <1>8, <1>9 DEF Environment

(* With the execution gone, what it owed must be found on disk.            *)
LEMMA GoneInv ==
  ASSUME IInv, TypeInv', FinishClear \/ (Crash /\ Tolerable)
  PROVE  IInv'
<1>1. /\ active' = NoRun /\ UNCHANGED <<disk, dep, stoppedBy, used>>
      /\ stoppedBy \in [Dep -> Run \union {NoRun}] /\ active \in Run \union {NoRun}
  BY DEF FinishClear, Crash, NoExecution, jobVars, ghosts, IInv, TypeInv, TypeOK
<1>2. ASSUME NEW r \in Run, r = active, r # NoRun, NEW d \in Dep, stoppedBy[d] = r
      PROVE  d \in disk[r].blamed \/ OnDisk(r, d)'
  <2>1. /\ disk[r].blamed \subseteq run.blamed
        /\ pc \in MeasuringPC => disk[r].restore = run.restore
        /\ pc = "restore" /\ ~stopErr =>
             /\ disk[r].restore = run.restore
             /\ todo \union run.blamed \subseteq run.restore
        /\ pc \notin AfterRestore => ~disk[r].restored /\ Active(disk[r])
        /\ pc \in AfterRestore => disk[r].blamed = run.blamed
    BY <1>2 DEF IInv, ExecInv, AfterRestore
  <2>2. d \in disk[r].blamed \/ d \in Owing
    BY <1>2 DEF IInv, PromiseInv, Kept
  <2>3. CASE FinishClear
    BY <2>1, <2>2, <2>3 DEF FinishClear, AfterRestore, Owing, MeasuringPC, AtConfig
  <2>4. CASE Crash /\ Tolerable
    <3>1. pc # "stop" /\ (pc = "restore" => ~stopErr) /\ rpc' # "relaunch"
      BY <2>4, TolerableOps DEF Crash, RestoreUnsaved
    <3>2. CASE pc \in MeasuringPC \/ pc = "restore"
      <4>1. d \in disk[r].blamed \/ d \in disk[r].restore
        BY <2>1, <2>2, <3>1, <3>2 DEF Owing, MeasuringPC, AtConfig
      <4>2. Active(disk[r]) /\ ~disk[r].restored
        BY <2>1, <3>2 DEF AfterRestore, MeasuringPC, AtConfig
      <4>3. disk'[r] = disk[r]
        BY <1>1
      <4> QED BY <1>1, <2>4, <3>1, <4>1, <4>2, <4>3 DEF OnDisk, Active
    <3>3. CASE pc \notin MeasuringPC /\ pc # "restore"
      BY <2>1, <2>2, <3>1, <3>3 DEF Owing
    <3> QED BY <3>2, <3>3
  <2> QED BY <2>3, <2>4
<1>3. ASSUME NEW r, NEW d, OnDisk(r, d) PROVE OnDisk(r, d)'
  BY <1>1, <1>3 DEF FinishClear, Crash, OnDisk, recVars, Active
<1>4. \A d \in Dep : Kept(d)'
  <2>1. \A d \in Dep : Kept(d)
    BY DEF IInv, PromiseInv
  <2> QED BY <1>1, <1>2, <1>3, <2>1, RunAssumption DEF Kept
<1>5. ExecInv' /\ PromiseInv'
  BY <1>1, <1>4 DEF ExecInv, IInv, PromiseInv
<1>6. CASE FinishClear
  <2>1. /\ active # NoRun /\ disk[active].status \in EndStatus
        /\ UNCHANGED <<rpc, rlist, rsnap, rid, rec, rtodo>>
    BY <1>6 DEF FinishClear, IInv, TypeInv, Control, ExecInv, recVars
  <2>2. RecordsTellTheTruth'
    BY <1>1, <2>1 DEF IInv, RecordsTellTheTruth, Active, ActiveStatus, EndStatus
  <2> QED BY <1>1, <1>5, <2>1, <2>2 DEF IInv, RecoverInv, RecordsInv
<1>7. CASE Crash
  BY <1>1, <1>5, <1>7 DEF Crash, IInv, RecoverInv, RecordsInv, RecordsTellTheTruth, Recovering
<1> QED BY <1>6, <1>7

LEMMA NextInv == Tolerable /\ IInv /\ [Next]_vars => IInv'
<1> SUFFICES ASSUME Tolerable, IInv, [Next]_vars PROVE IInv'
  OBVIOUS
<1>1. TypeInv'
  BY NextType DEF IInv
<1>2. ASSUME NEW r \in Run, Cancel(r) PROVE IInv'
  BY <1>1, <1>2 DEF Cancel, recVars, jobVars, ghosts, IInv, ExecInv, RecoverInv, PromiseInv, Kept,
                    OnDisk, Owing, RecordsInv, RecordsTellTheTruth
<1>3. CASE UNCHANGED vars
  BY <1>1, <1>3 DEF vars, execVars, recVars, jobVars, ghosts, IInv, ExecInv, RecoverInv, PromiseInv,
                    Kept, OnDisk, Owing, RecordsInv, RecordsTellTheTruth
<1> QED BY <1>1, <1>2, <1>3, ExecStepInv, RecoverStepInv, StartInv, DeleteInv, EnvironmentInv, GoneInv
        DEF Next, Request, Execute

LEMMA Invariance == ASSUME Tolerable PROVE Spec => []IInv
<1>1. Init => IInv
  BY InitInv
<1>2. IInv /\ [Next]_vars => IInv'
  BY NextInv
<1> QED BY <1>1, <1>2, PTL DEF Spec

(* No deployment is lost: once the run is over and Recover has returned,   *)
(* whatever a run stopped is up again or named in the Error of its record. *)
THEOREM PromiseHolds == ASSUME Tolerable PROVE Spec => []RestorePromise
<1>1. IInv => RestorePromise
  <2> SUFFICES ASSUME IInv, Quiet, NEW d \in Dep, stoppedBy[d] # NoRun
               PROVE  d \in disk[stoppedBy[d]].blamed
    BY DEF RestorePromise
  <2>1. Kept(d) /\ stoppedBy[d] \in Run
    BY DEF IInv, PromiseInv, TypeInv, TypeOK
  <2>2. ~Active(disk[stoppedBy[d]])
    BY <2>1 DEF IInv, RecordsTellTheTruth, Quiet
  <2> QED BY <2>1, <2>2 DEF Kept, OnDisk, Quiet
<1> QED BY <1>1, Invariance, PTL

-----------------------------------------------------------------------------
(* Execute writes the record of its run only, and finds it in progress.    *)

LEMMA ExecWrites ==
  ASSUME Tolerable, IInv, ExecStep, NEW r \in Run, disk'[r] # disk[r]
  PROVE  r = active /\ Active(disk[r])
<1>1. disk \in [Run -> Record]
  BY DEF IInv, TypeInv, TypeOK
<1>2. pc # "clear" /\ active # NoRun /\ (disk' = disk \/ \E R : disk' = [disk EXCEPT ![active] = R])
  <2>1. CASE RunConfigs
    BY <2>1, RunConfigsEffect
       DEF IInv, TypeInv, Control, MeasuringPC, AtConfig
  <2>2. CASE ~RunConfigs
    BY <2>2 DEF ExecStep, StopOthers, ListOthers, ListFails, StopDone, PurgeLeftover, StopOne, StopFails,
           AbortStop, Restore, RestoreDone, RestoreOne, RestoreFails, ExecBegin, StageDone,
           StageFails, LoopDone, Decide, FinishSave, Save, Goes, IInv, TypeInv, Control
  <2> QED BY <2>1, <2>2
<1>3. r = active
  BY <1>1, <1>2
<1> QED BY <1>2, <1>3 DEF IInv, ExecInv

-----------------------------------------------------------------------------
(* The box is free while configurations are measured.  This needs complete *)
(* listings and no run beside Recover, and nothing else: calls may fail,   *)
(* stopped jobs may lag, saves may fail and restarts hit at any time.      *)

LEMMA Names == ASSUME NEW d \in Dep, NEW b \in Bench PROVE d # b
BY NameAssumption DEF Bench, Cfg

BoxInv ==
  /\ TypeInv
  /\ active # NoRun => rpc = "done"
  /\ pc = "stop" => \A d \in Dep : dep[d] = "up" => d \in fresh \union todo
  /\ pc \in MeasuringPC => \A d \in Dep : dep[d] = "up" => d \in fresh

LEMMA BoxStopOthers ==
  ASSUME "skip" \notin Env, BoxInv, TypeInv', StopOthers, UNCHANGED <<active, rpc>>
  PROVE  BoxInv'
<1>1. dep \in [Dep -> DepStatus]
  BY DEF BoxInv, TypeInv, TypeOK
<1> USE DEF BoxInv, Goes, MeasuringPC, AtConfig
<1>2. CASE ListOthers
  BY <1>2 DEF ListOthers, Listed, Exists, jobVars
<1>3. CASE ListFails \/ \E d \in Dep : StopFails(d)
  BY <1>3 DEF ListFails, StopFails, AbortStop
<1>4. CASE StopDone
  BY <1>4 DEF StopDone, jobVars
<1>5. ASSUME NEW b \in Bench, PurgeLeftover(b) PROVE BoxInv'
  BY <1>5, Names DEF PurgeLeftover
<1>6. ASSUME NEW d \in Dep, StopOne(d) PROVE BoxInv'
  <2>1. dep'[d] # "up" /\ \A e \in Dep : e # d => dep'[e] = dep[e]
    BY <1>1, <1>6 DEF StopOne, StopFor, StopDep, Exists
  <2> QED BY <1>6, <2>1 DEF StopOne
<1> QED BY <1>2, <1>3, <1>4, <1>5, <1>6 DEF StopOthers

LEMMA BoxExecStep ==
  ASSUME "skip" \notin Env, BoxInv, TypeInv', ExecStep
  PROVE  BoxInv'
<1>1. UNCHANGED <<active, rpc>>
  BY DEF ExecStep, recVars
<1>2. CASE StopOthers
  BY <1>1, <1>2, BoxStopOthers
<1>3. CASE Restore
  BY <1>1, <1>3
     DEF Restore, RestoreDone, RestoreOne, RestoreFails, BoxInv, MeasuringPC, AtConfig, Goes
<1>4. CASE RunConfigs /\ UNCHANGED fresh
  BY <1>1, <1>4, RunConfigsEffect DEF BoxInv, MeasuringPC, AtConfig
<1>5. CASE ExecBegin \/ StageDone \/ StageFails \/ LoopDone \/ Decide \/ FinishSave
  BY <1>1, <1>5 DEF ExecBegin, StageDone, StageFails, LoopDone, Decide, FinishSave, BoxInv,
                    MeasuringPC, AtConfig, Goes
<1> QED BY <1>2, <1>3, <1>4, <1>5 DEF ExecStep

LEMMA BoxNext ==
  ASSUME "skip" \notin Env, "early" \notin Env, BoxInv, [Next]_vars
  PROVE  BoxInv'
<1>1. TypeInv'
  BY NextType DEF BoxInv
<1>2. /\ dep \in [Dep -> DepStatus]
      /\ pc = "idle" <=> active = NoRun
  BY DEF BoxInv, TypeInv, TypeOK, Control
<1> USE <1>1, <1>2 DEF BoxInv, MeasuringPC, AtConfig
<1>3. CASE ExecStep
  BY <1>3, BoxExecStep
<1>4. CASE FinishClear
  BY <1>4 DEF FinishClear, NoExecution
<1>5. CASE Recover
  <2>1. rpc # "done" /\ active = NoRun
    BY <1>5 DEF Recover, RecoverList, RecoverListFails, RecoverTake, RecoverSweep, RecoverPurge,
         RecoverPurgeJobs, RecoverDeploy, RecoverDeployFails, RecoverRestored, RecoverMark,
         RecoverDone, RecGoes
  <2> QED BY <1>5, <2>1 DEF Recover, execVars
<1>6. ASSUME NEW r \in Run, Start(r) PROVE BoxInv'
  BY <1>6 DEF Start, recVars
<1>7. ASSUME NEW r \in Run, Cancel(r) \/ DeleteRun(r) PROVE BoxInv'
  BY <1>7 DEF Cancel, DeleteRun, execVars, recVars, jobVars, ghosts
<1>8. ASSUME NEW d \in Dep, UserLaunch(d) PROVE BoxInv'
  BY <1>8 DEF UserLaunch, Launch, execVars, recVars
<1>9. ASSUME NEW d \in Dep, UserStop(d) \/ Settle(d) PROVE BoxInv'
  BY <1>9 DEF UserStop, StopDep, Settle, Exists, execVars, recVars, ghosts
<1>10. CASE (\E b \in Bench : UserStopBench(b)) \/ UNCHANGED vars
  BY <1>10 DEF UserStopBench, vars, execVars, recVars, jobVars, ghosts
<1>11. CASE Crash
  BY <1>11 DEF Crash, NoExecution
<1> QED BY <1>3, <1>4, <1>5, <1>6, <1>7, <1>8, <1>9, <1>10, <1>11
        DEF Next, Request, Environment, Execute

(* While a configuration is measured, no deployment of a user is up that   *)
(* was there when the run stopped the others: none of the failures of a    *)
(* cluster call lets the measurement begin beside one.                     *)
THEOREM BoxFree ==
  ASSUME "skip" \notin Env, "early" \notin Env
  PROVE  Spec => []BoxIsFree
<1>1. Init => BoxInv
  BY InitType DEF Init, BoxInv, MeasuringPC, AtConfig
<1>2. BoxInv /\ [Next]_vars => BoxInv'
  BY BoxNext
<1>3. BoxInv => BoxIsFree
  BY DEF BoxInv, BoxIsFree, Measuring, MeasuringPC, AtConfig
<1> QED BY <1>1, <1>2, <1>3, PTL DEF Spec
=============================================================================
