---------------------------- MODULE BenchRunner ----------------------------
(***************************************************************************)
(* The benchmark runner (internal/bench/runner.go) with the run records it *)
(* keeps on disk (internal/bench/store.go), the Nomad jobs it drives, the  *)
(* users of the deployments page, and restarts of the process.             *)
(*                                                                         *)
(* Two goroutines share the records and the cluster: execute, the run      *)
(* loop started by Start, and Recover, started by server.New.  A step is   *)
(* one cluster call, one save of the record or one critical section, with  *)
(* the computation up to the next one: between any two of them the other   *)
(* goroutine, a user or a crash may come in.                               *)
(***************************************************************************)
EXTENDS Naturals, FiniteSets

CONSTANTS
  Run,         \* identifiers of benchmark runs
  Dep,         \* names of the users' deployments
  NumConfigs,  \* how many configurations the suite has
  NoRun,       \* r.active = "" and "nobody" in the ghost variables
  MaxCrash,    \* bound: how often the process restarts
  Env          \* what the environment may do, a subset of EnvNames

(***************************************************************************)
(* error      a cluster call fails and has no effect                       *)
(* ambiguous  a cluster call fails after having taken effect               *)
(* skip       ListManaged omits a job whose lookup fails                   *)
(* lag        a job stopped without purge is not dead at once              *)
(* unsaved    a restart also hits while Restore exists only in memory      *)
(* disk       saving or listing records fails                              *)
(* user       deployments are launched, stopped and purged by users        *)
(* delete     records are deleted                                          *)
(* early      a run is started before Recover has returned                 *)
(***************************************************************************)
EnvNames == {"error", "ambiguous", "skip", "lag", "unsaved", "disk", "user",
             "delete", "early"}

ASSUME RunAssumption == NoRun \notin Run
ASSUME ConfigAssumption == NumConfigs \in Nat
ASSUME CrashAssumption == MaxCrash \in Nat
ASSUME EnvAssumption == Env \subseteq EnvNames
(* The deployment of a configuration has a name no user deployment has.    *)
ASSUME NameAssumption == Dep \intersect (Run \X (1 .. NumConfigs)) = {}

VARIABLES
  (* r.mu's data and the context of the run: lost in a crash *)
  active,     \* the run in progress, or NoRun
  cancelled,  \* ctx.Err() # nil
  (* the goroutine running execute *)
  pc,         \* the call it makes next
  run,        \* its in-memory record
  cfg,        \* index of the run loop
  todo,       \* what is left of the listing, or of Restore
  stopErr,    \* stopOthers returned an error
  (* the goroutine running Recover *)
  rpc, rlist, rsnap, rid, rec, rtodo,
  (* the data directory *)
  disk,       \* disk[r]: the saved record of run r
  (* Nomad *)
  dep,        \* dep[d]: status of the job of deployment d
  bench,      \* bench[b]: status of the bench- deployment of a configuration
  evalJobs,   \* registered ams-bench- jobs
  (* observers, read by no action of the runner *)
  stoppedBy,  \* stoppedBy[d]: the run that stopped d and has not relaunched it
  fresh,      \* deployments users launched since execute listed the others
  used,       \* identifiers handed out
  crashes     \* restarts so far

execVars == <<active, cancelled, pc, run, cfg, todo, stopErr>>
recVars  == <<rpc, rlist, rsnap, rid, rec, rtodo>>
jobVars  == <<dep, bench, evalJobs>>
ghosts   == <<stoppedBy, fresh, used, crashes>>
vars     == <<execVars, recVars, disk, jobVars, ghosts>>

-----------------------------------------------------------------------------
(* Data *)

Cfg == 1 .. NumConfigs
Bench == Run \X Cfg

ActiveStatus == {"pending", "running"}
EndStatus == {"complete", "cancelled", "interrupted", "failed"}
CfgEnd == {"complete", "failed", "skipped"}
CfgStatus == {"pending", "deploying", "evaluating"} \union CfgEnd

(* blamed: the deployments that Error names as not stopped or relaunched.  *)
(* Status "none": there is no such file.                                   *)
Record == [status: {"none"} \union ActiveStatus \union EndStatus,
           results: [Cfg -> CfgStatus],
           restore: SUBSET Dep,
           restored: BOOLEAN,
           blamed: SUBSET Dep]

NewRecord(status) ==
  [status |-> status, results |-> [c \in Cfg |-> "pending"],
   restore |-> {}, restored |-> FALSE, blamed |-> {}]
NoRecord == NewRecord("none")

Active(record) == record.status \in ActiveStatus

AllSkipped(record) == [record EXCEPT !.results = [c \in Cfg |-> "skipped"]]

(* Mutant: Recover marks every measured result failed, finished ones too.  *)
InterruptAll(record) ==
  [record EXCEPT !.results = [c \in Cfg |->
     IF record.results[c] = "pending" THEN "skipped" ELSE "failed"]]

(* Recover's loop over the results of a run it finds in progress.          *)
Interrupt(record) ==
  [record EXCEPT !.results = [c \in Cfg |->
     CASE record.results[c] = "pending" -> "skipped"
       [] record.results[c] \in {"deploying", "evaluating"} -> "failed"
       [] OTHER -> record.results[c]]]

(* SaveRun, whose errors the runner only logs. *)
Save(r, record) ==
  \/ disk' = [disk EXCEPT ![r] = record]
  \/ "disk" \in Env /\ UNCHANGED disk

-----------------------------------------------------------------------------
(* The cluster, as the runner uses it *)

DepStatus == {"absent", "up", "stopping", "dead"}
BenchStatus == {"absent", "up", "dead"}

(* Deploy refuses a name whose job is there and not dead; an ended job     *)
(* that is not dead yet is in the way, too.                                *)
Exists(d) == dep[d] \in {"up", "stopping"}

(* Nomad's Deregister without purge. *)
StopDep(d) ==
  \E s \in {"dead"} \union (IF "lag" \in Env THEN {"stopping"} ELSE {}) :
    dep' = [dep EXCEPT ![d] = IF Exists(d) THEN s ELSE @]

(* A stop by the run r: from now on r owes the relaunch of d. *)
StopFor(r, d) ==
  /\ StopDep(d)
  /\ stoppedBy' = IF dep[d] = "up" THEN [stoppedBy EXCEPT ![d] = r] ELSE stoppedBy

Launch(d) ==
  /\ dep' = [dep EXCEPT ![d] = "up"]
  /\ stoppedBy' = [stoppedBy EXCEPT ![d] = NoRun]

PurgeBench(b) == bench' = [bench EXCEPT ![b] = "absent"]

(* A call that has no result the runner looks at: it may fail silently.    *)
MayFail == Env \intersect {"error", "ambiguous"} # {}

(* The outcomes of restore's Deploy(d): "already exists" counts as success *)
(* and changes nothing; any other error is to be noted.                    *)
DeploySucceeds(d) ==
  \/ Exists(d) /\ UNCHANGED <<dep, stoppedBy>>
  \/ ~Exists(d) /\ Launch(d)

DeployFails(d) ==
  \/ "error" \in Env /\ UNCHANGED <<dep, stoppedBy>>
  \/ "ambiguous" \in Env /\ ~Exists(d) /\ Launch(d)

-----------------------------------------------------------------------------
Init ==
  /\ active = NoRun /\ cancelled = FALSE
  /\ pc = "idle" /\ run = NoRecord /\ cfg = 1 /\ todo = {} /\ stopErr = FALSE
  /\ rpc = "list" /\ rlist = {} /\ rid = NoRun /\ rec = NoRecord /\ rtodo = {}
  /\ disk = [r \in Run |-> NoRecord]
  /\ rsnap = disk
  /\ dep \in [Dep -> {"absent", "up", "dead"}]
  /\ bench = [b \in Bench |-> "absent"] /\ evalJobs = {}
  /\ stoppedBy = [d \in Dep |-> NoRun]
  /\ fresh = {} /\ used = {} /\ crashes = 0

-----------------------------------------------------------------------------
(* The requests: Start, Cancel, and deleting a record *)

(* If the first SaveRun fails, Start returns the error: nothing happened.  *)
Start(r) ==
  /\ rpc = "done" \/ "early" \in Env
  /\ active = NoRun
  /\ r \notin used
  /\ run' = NewRecord("pending")
  /\ disk' = [disk EXCEPT ![r] = run']
  /\ active' = r /\ cancelled' = FALSE /\ pc' = "begin"
  /\ cfg' = 1 /\ todo' = {} /\ stopErr' = FALSE
  /\ used' = used \union {r}
  /\ UNCHANGED <<recVars, jobVars, stoppedBy, fresh, crashes>>

(* Refused unless the run is the active one; otherwise only r.cancel().    *)
Cancel(r) ==
  /\ active = r
  /\ cancelled' = TRUE
  /\ UNCHANGED <<active, pc, run, cfg, todo, stopErr, recVars, disk, jobVars, ghosts>>

(* The record of a run that is not active may go at any time; whoever      *)
(* deletes it gives up what it promised.                                   *)
DeleteRun(r) ==
  /\ "delete" \in Env
  /\ active # r
  /\ disk[r].status # "none"
  /\ disk' = [disk EXCEPT ![r] = NoRecord]
  /\ stoppedBy' = [d \in Dep |-> IF stoppedBy[d] = r THEN NoRun ELSE stoppedBy[d]]
  /\ UNCHANGED <<execVars, recVars, jobVars, fresh, used, crashes>>

-----------------------------------------------------------------------------
(* execute: the run loop.  What no step of it changes is stated once, with *)
(* Execute below; likewise for the groups of steps.                        *)

Goes(from, to) == pc = from /\ pc' = to
Current == <<active, cfg>>

ExecBegin ==
  /\ Goes("begin", "stage")
  /\ run' = [run EXCEPT !.status = "running"]
  /\ Save(active, run')
  /\ UNCHANGED <<cfg, todo, stopErr, jobVars>>

(* stageDataset returns: no uploaded dataset, or every part is on the share. *)
StageDone == Goes("stage", "list") /\ UNCHANGED <<run, cfg, todo, stopErr, disk, jobVars>>

(* Mutant: the results are left pending when staging fails.                *)
StageFailsUnmarked ==
  /\ Goes("stage", "finish")
  /\ run' = [run EXCEPT !.status = IF cancelled THEN "cancelled" ELSE "failed"]
  /\ UNCHANGED <<cfg, todo, stopErr, disk, jobVars>>

(* stageDataset failed or was cancelled: nothing is stopped, nothing restored. *)
StageFails ==
  /\ Goes("stage", "finish")
  /\ run' = [AllSkipped(run) EXCEPT !.status = IF cancelled THEN "cancelled" ELSE "failed"]
  /\ UNCHANGED <<cfg, todo, stopErr, disk, jobVars>>

(* stopOthers: the leftover bench deployments, and the others unless dead. *)
Listed == {d \in Dep : Exists(d)} \union {b \in Bench : bench[b] # "absent"}

ListOthers ==
  /\ Goes("list", "stop")
  /\ \E missed \in SUBSET Listed :
       /\ missed = {} \/ "skip" \in Env
       /\ todo' = Listed \ missed
  /\ fresh' = {}
  /\ UNCHANGED <<run, cfg, stopErr, disk, jobVars, stoppedBy>>

(* Mutant: execute goes on to measure although a deployment did not stop.  *)
ContinueStop(from, blamed) ==
  /\ Goes(from, "loop")
  /\ run' = [run EXCEPT !.blamed = @ \union blamed]
  /\ todo' = {}
  /\ UNCHANGED <<cfg, stopErr, disk, fresh>>

(* The error path of execute: all configurations skipped, then restore.    *)
AbortStop(from, blamed) ==
  /\ Goes(from, "restore")
  /\ run' = [AllSkipped(run) EXCEPT !.blamed = @ \union blamed]
  /\ stopErr' = TRUE
  /\ todo' = run.restore
  /\ UNCHANGED <<cfg, disk, fresh>>

ListFails ==
  /\ "error" \in Env
  /\ AbortStop("list", {})
  /\ UNCHANGED <<jobVars, stoppedBy>>

PurgeLeftover(b) ==
  /\ pc = "stop"
  /\ b \in todo
  /\ PurgeBench(b) \/ (MayFail /\ UNCHANGED bench)
  /\ todo' = todo \ {b}
  /\ UNCHANGED <<pc, run, cfg, stopErr, disk, dep, evalJobs, stoppedBy, fresh>>

StopOne(d) ==
  /\ pc = "stop"
  /\ d \in todo
  /\ StopFor(active, d)
  /\ run' = [run EXCEPT !.restore = @ \union {d}]
  /\ todo' = todo \ {d}
  /\ UNCHANGED <<pc, cfg, stopErr, disk, bench, evalJobs, fresh>>

StopFails(d) ==
  /\ d \in todo
  /\ \/ "error" \in Env /\ UNCHANGED <<dep, stoppedBy>>
     \/ "ambiguous" \in Env /\ StopFor(active, d)
  /\ AbortStop("stop", {d})
  /\ UNCHANGED <<bench, evalJobs>>

(* Mutant: Restore is not saved before the measurements begin.             *)
StopDoneUnsaved ==
  /\ Goes("stop", "loop")
  /\ todo = {}
  /\ UNCHANGED <<run, cfg, todo, stopErr, disk, jobVars, stoppedBy, fresh>>

(* Everything is stopped: only now is Restore saved. *)
StopDone ==
  /\ Goes("stop", "loop")
  /\ todo = {}
  /\ Save(active, run)
  /\ UNCHANGED <<run, cfg, todo, stopErr, jobVars, stoppedBy, fresh>>

StopOthers ==
  \/ ListOthers \/ ListFails \/ StopDone
  \/ \E b \in Bench : PurgeLeftover(b)
  \/ \E d \in Dep : StopOne(d) \/ StopFails(d)

(* The loop over the configurations *)

(* Mutant: the loop runs past the last configuration. *)
SkipConfigPastEnd ==
  /\ cancelled
  /\ Goes("loop", "loop")
  /\ run' = [run EXCEPT !.results[cfg] = "skipped"]
  /\ cfg' = cfg + 1
  /\ UNCHANGED <<disk, bench, evalJobs>>

SkipConfig ==
  /\ cfg \in Cfg /\ cancelled
  /\ Goes("loop", "loop")
  /\ run' = [run EXCEPT !.results[cfg] = "skipped"]
  /\ cfg' = cfg + 1
  /\ UNCHANGED <<disk, bench, evalJobs>>

BeginConfig ==
  /\ cfg \in Cfg /\ ~cancelled
  /\ Goes("loop", "deploy")
  /\ run' = [run EXCEPT !.results[cfg] = "deploying"]
  /\ Save(active, run')
  /\ UNCHANGED <<cfg, bench, evalJobs>>

DeployConfig ==
  /\ Goes("deploy", "wait")
  /\ bench' = [bench EXCEPT ![Current] = "up"]
  /\ UNCHANGED <<run, cfg, disk, evalJobs>>

(* fail(): the result is marked failed; the deferred calls come next.      *)
FailConfig(from, to) ==
  /\ Goes(from, to)
  /\ run' = [run EXCEPT !.results[cfg] = "failed"]
  /\ UNCHANGED <<cfg, disk>>

(* Invalid parameters, no free port, or Nomad refuses the job.             *)
DeployConfigFails ==
  /\ FailConfig("deploy", "teardown")
  /\ \/ UNCHANGED bench
     \/ "ambiguous" \in Env /\ bench' = [bench EXCEPT ![Current] = "up"]
  /\ UNCHANGED evalJobs

WaitHealthy ==
  /\ Goes("wait", "register")
  /\ bench[Current] = "up"
  /\ run' = [run EXCEPT !.results[cfg] = "evaluating"]
  /\ Save(active, run')
  /\ UNCHANGED <<cfg, bench, evalJobs>>

(* The allocation failed, the deployment went away, the deadline passed, or *)
(* the run was cancelled.                                                   *)
WaitFails == FailConfig("wait", "teardown") /\ UNCHANGED <<bench, evalJobs>>

RegisterEval ==
  /\ Goes("register", "watch")
  /\ evalJobs' = evalJobs \union {Current}
  /\ UNCHANGED <<run, cfg, disk, bench>>

(* The purge of the eval job is deferred only after this call succeeded.   *)
RegisterEvalFails ==
  /\ FailConfig("register", "teardown")
  /\ \/ "error" \in Env /\ UNCHANGED evalJobs
     \/ "ambiguous" \in Env /\ evalJobs' = evalJobs \union {Current}
  /\ UNCHANGED bench

SaveProgress ==
  /\ Goes("watch", "watch")
  /\ Save(active, run)
  /\ UNCHANGED <<run, cfg, bench, evalJobs>>

EvalCompletes ==
  /\ Goes("watch", "purge")
  /\ Current \in evalJobs
  /\ run' = [run EXCEPT !.results[cfg] = "complete"]
  /\ UNCHANGED <<cfg, disk, bench, evalJobs>>

(* Mutant: the eval is watched without a deadline.                         *)
EvalFailsOnlyCancelled ==
  cancelled /\ FailConfig("watch", "purge") /\ UNCHANGED <<bench, evalJobs>>

(* The eval failed or its output is unusable, the deployment stopped, the  *)
(* deadline passed, or the run was cancelled.                              *)
EvalFails == FailConfig("watch", "purge") /\ UNCHANGED <<bench, evalJobs>>

(* The deferred calls, last one first. *)
PurgeEval ==
  /\ Goes("purge", "teardown")
  /\ evalJobs' = evalJobs \ {Current} \/ (MayFail /\ UNCHANGED evalJobs)
  /\ UNCHANGED <<run, cfg, disk, bench>>

(* Mutant: the deployment of a configuration is not torn down.             *)
TeardownMissing == Goes("teardown", "saved") /\ UNCHANGED <<run, cfg, disk, bench, evalJobs>>

Teardown ==
  /\ Goes("teardown", "saved")
  /\ PurgeBench(Current) \/ (MayFail /\ UNCHANGED bench)
  /\ UNCHANGED <<run, cfg, disk, evalJobs>>

SaveConfig ==
  /\ Goes("saved", "loop")
  /\ Save(active, run)
  /\ cfg' = cfg + 1
  /\ UNCHANGED <<run, bench, evalJobs>>

RunConfigs ==
  /\ \/ SkipConfig \/ BeginConfig
     \/ DeployConfig \/ DeployConfigFails
     \/ WaitHealthy \/ WaitFails
     \/ RegisterEval \/ RegisterEvalFails
     \/ SaveProgress \/ EvalCompletes \/ EvalFails
     \/ PurgeEval \/ Teardown \/ SaveConfig
  /\ UNCHANGED <<todo, stopErr, dep>>

(* Mutant: execute ends without restore.                                   *)
LoopDoneUnrestored ==
  /\ cfg \notin Cfg
  /\ Goes("loop", "decide")
  /\ UNCHANGED <<run, cfg, todo, stopErr, disk, jobVars>>

LoopDone ==
  /\ cfg \notin Cfg
  /\ Goes("loop", "restore")
  /\ todo' = run.restore
  /\ UNCHANGED <<run, cfg, stopErr, disk, jobVars>>

(* restore *)

RestoreOne(d) ==
  /\ pc = "restore"
  /\ d \in todo
  /\ DeploySucceeds(d)
  /\ todo' = todo \ {d}
  /\ UNCHANGED <<pc, run, disk>>

RestoreFails(d) ==
  /\ pc = "restore"
  /\ d \in todo
  /\ DeployFails(d)
  /\ run' = [run EXCEPT !.blamed = @ \union {d}]
  /\ todo' = todo \ {d}
  /\ UNCHANGED <<pc, disk>>

RestoreDone ==
  /\ Goes("restore", "decide")
  /\ todo = {}
  /\ run' = [run EXCEPT !.restored = TRUE]
  /\ Save(active, run')
  /\ UNCHANGED <<todo, dep, stoppedBy>>

Restore ==
  /\ RestoreDone \/ \E d \in Dep : RestoreOne(d) \/ RestoreFails(d)
  /\ UNCHANGED <<cfg, stopErr, bench, evalJobs, fresh>>

(* How the run ended: the last look at the context. *)
Decide ==
  /\ Goes("decide", "finish")
  /\ run' = [run EXCEPT !.status = IF stopErr THEN "failed"
                                   ELSE IF cancelled THEN "cancelled" ELSE "complete"]
  /\ UNCHANGED <<cfg, todo, stopErr, disk, jobVars>>

(* finish: the last save, then r.active is cleared under the lock. *)
FinishSave ==
  /\ Goes("finish", "clear")
  /\ Save(active, run)
  /\ UNCHANGED <<run, cfg, todo, stopErr, jobVars>>

(* The goroutine and its context are gone; r.active is "". *)
NoExecution ==
  /\ active' = NoRun /\ cancelled' = FALSE
  /\ pc' = "idle" /\ run' = NoRecord /\ cfg' = 1 /\ todo' = {} /\ stopErr' = FALSE

FinishClear ==
  /\ pc = "clear"
  /\ NoExecution
  /\ UNCHANGED <<recVars, disk, jobVars, ghosts>>

ExecStep ==
  /\ \/ StopOthers \/ Restore
     \/ /\ \/ ExecBegin \/ StageDone \/ StageFails
           \/ RunConfigs \/ LoopDone \/ Decide \/ FinishSave
        /\ UNCHANGED <<stoppedBy, fresh>>
  /\ UNCHANGED <<active, cancelled, recVars, used, crashes>>

Execute == ExecStep \/ FinishClear

-----------------------------------------------------------------------------
(* Recover: once per process, beside everything else *)

RecGoes(from, to) == rpc = from /\ rpc' = to

NoRecovery ==
  /\ rlist' = {} /\ rid' = NoRun /\ rec' = NoRecord /\ rtodo' = {}
  /\ rsnap' = [r \in Run |-> NoRecord]

(* Mutants: Recover takes pending runs for untouched, or ended ones too.   *)
RecoverListRunning ==
  /\ RecGoes("list", "next")
  /\ rsnap' = disk
  /\ rlist' = {r \in Run : disk[r].status = "running"}
  /\ UNCHANGED <<rid, rec, rtodo, disk, jobVars, stoppedBy>>

RecoverListAll ==
  /\ RecGoes("list", "next")
  /\ rsnap' = disk
  /\ rlist' = {r \in Run : disk[r].status # "none"}
  /\ UNCHANGED <<rid, rec, rtodo, disk, jobVars, stoppedBy>>

RecoverList ==
  /\ RecGoes("list", "next")
  /\ rsnap' = disk
  /\ rlist' = {r \in Run : Active(disk[r])}
  /\ UNCHANGED <<rid, rec, rtodo, disk, jobVars, stoppedBy>>

RecoverListFails ==
  /\ "disk" \in Env
  /\ RecGoes("list", "done")
  /\ UNCHANGED <<rlist, rsnap, rid, rec, rtodo, disk, jobVars, stoppedBy>>

(* The next run of the listing, as it was when it was listed. *)
RecoverTake(r) ==
  /\ RecGoes("next", "sweep")
  /\ r \in rlist
  /\ rlist' = rlist \ {r}
  /\ rid' = r
  /\ rec' = Interrupt(rsnap[r])
  /\ UNCHANGED <<rsnap, rtodo, disk, jobVars, stoppedBy>>

(* Mutant: Recover forgets the bench deployments.                          *)
RecoverSweepNothing ==
  /\ RecGoes("sweep", "purge")
  /\ rtodo' = {}
  /\ UNCHANGED <<rlist, rsnap, rid, rec, disk, jobVars, stoppedBy>>

RecoverSweep ==
  /\ RecGoes("sweep", "purge")
  /\ \E missed \in SUBSET Bench :
       /\ missed = {} \/ Env \intersect {"skip", "error"} # {}
       /\ rtodo' = {b \in Bench : bench[b] # "absent"} \ missed
  /\ UNCHANGED <<rlist, rsnap, rid, rec, disk, jobVars, stoppedBy>>

RecoverPurge(b) ==
  /\ rpc = "purge"
  /\ b \in rtodo
  /\ PurgeBench(b) \/ (MayFail /\ UNCHANGED bench)
  /\ rtodo' = rtodo \ {b}
  /\ UNCHANGED <<rpc, rlist, rsnap, rid, rec, disk, dep, evalJobs, stoppedBy>>

(* Mutant: the test of Restored is the wrong way round.                    *)
RecoverPurgeJobsNegated ==
  /\ RecGoes("purge", IF rec.restored THEN "relaunch" ELSE "mark")
  /\ rtodo = {}
  /\ evalJobs' = {}
  /\ rtodo' = IF rec.restored THEN rec.restore ELSE {}
  /\ UNCHANGED <<rlist, rsnap, rid, rec, disk, dep, bench, stoppedBy>>

(* PurgeJobsWithPrefix; restore returns at once if Restored was saved.     *)
RecoverPurgeJobs ==
  /\ RecGoes("purge", IF rec.restored THEN "mark" ELSE "relaunch")
  /\ rtodo = {}
  /\ \E left \in SUBSET evalJobs : (left = {} \/ MayFail) /\ evalJobs' = left
  /\ rtodo' = IF rec.restored THEN {} ELSE rec.restore
  /\ UNCHANGED <<rlist, rsnap, rid, rec, disk, dep, bench, stoppedBy>>

RecoverDeploy(d) ==
  /\ rpc = "relaunch"
  /\ d \in rtodo
  /\ DeploySucceeds(d)
  /\ rtodo' = rtodo \ {d}
  /\ UNCHANGED <<rpc, rlist, rsnap, rid, rec, disk, bench, evalJobs>>

RecoverDeployFails(d) ==
  /\ rpc = "relaunch"
  /\ d \in rtodo
  /\ DeployFails(d)
  /\ rec' = [rec EXCEPT !.blamed = @ \union {d}]
  /\ rtodo' = rtodo \ {d}
  /\ UNCHANGED <<rpc, rlist, rsnap, rid, disk, bench, evalJobs>>

RecoverRestored ==
  /\ RecGoes("relaunch", "mark")
  /\ rtodo = {}
  /\ rec' = [rec EXCEPT !.restored = TRUE]
  /\ Save(rid, rec')
  /\ UNCHANGED <<rlist, rsnap, rid, rtodo, jobVars, stoppedBy>>

(* Mutant: the interrupted status is set and not saved.                    *)
RecoverMarkUnsaved ==
  /\ RecGoes("mark", "next")
  /\ rec' = [rec EXCEPT !.status = "interrupted"]
  /\ UNCHANGED <<rlist, rsnap, rid, rtodo, disk, jobVars, stoppedBy>>

RecoverMark ==
  /\ RecGoes("mark", "next")
  /\ rec' = [rec EXCEPT !.status = "interrupted"]
  /\ Save(rid, rec')
  /\ UNCHANGED <<rlist, rsnap, rid, rtodo, jobVars, stoppedBy>>

RecoverDone ==
  /\ RecGoes("next", "done")
  /\ rlist = {}
  /\ NoRecovery
  /\ UNCHANGED <<disk, jobVars, stoppedBy>>

Recover ==
  /\ \/ RecoverList \/ RecoverListFails
     \/ \E r \in Run : RecoverTake(r)
     \/ RecoverSweep
     \/ \E b \in Bench : RecoverPurge(b)
     \/ RecoverPurgeJobs
     \/ \E d \in Dep : RecoverDeploy(d) \/ RecoverDeployFails(d)
     \/ RecoverRestored \/ RecoverMark \/ RecoverDone
  /\ UNCHANGED <<execVars, fresh, used, crashes>>

-----------------------------------------------------------------------------
(* Users, Nomad and crashes *)

UserLaunch(d) ==
  /\ "user" \in Env
  /\ ~Exists(d)
  /\ Launch(d)
  /\ fresh' = fresh \union {d}
  /\ UNCHANGED <<execVars, recVars, disk, bench, evalJobs, used, crashes>>

UserStop(d) ==
  /\ "user" \in Env
  /\ dep[d] # "absent"
  /\ StopDep(d) \/ dep' = [dep EXCEPT ![d] = "absent"]
  /\ UNCHANGED <<execVars, recVars, disk, bench, evalJobs, ghosts>>

(* The bench- deployments are on the deployments page like any other.      *)
UserStopBench(b) ==
  /\ "user" \in Env
  /\ bench[b] # "absent"
  /\ PurgeBench(b) \/ bench' = [bench EXCEPT ![b] = "dead"]
  /\ UNCHANGED <<execVars, recVars, disk, dep, evalJobs, ghosts>>

Settle(d) ==
  /\ dep[d] = "stopping"
  /\ dep' = [dep EXCEPT ![d] = "dead"]
  /\ UNCHANGED <<execVars, recVars, disk, bench, evalJobs, ghosts>>

(* Deployments of this run have been stopped and Restore is not saved yet. *)
RestoreUnsaved == pc = "stop" \/ (pc = "restore" /\ stopErr)

(* The process ends and is started again: memory is lost, Recover starts.  *)
Crash ==
  /\ crashes < MaxCrash
  /\ RestoreUnsaved => "unsaved" \in Env
  /\ NoExecution
  /\ rpc' = "list" /\ NoRecovery
  /\ crashes' = crashes + 1
  /\ UNCHANGED <<disk, jobVars, stoppedBy, fresh, used>>

Request == \E r \in Run : Start(r) \/ Cancel(r) \/ DeleteRun(r)

Environment ==
  \/ \E d \in Dep : UserLaunch(d) \/ UserStop(d) \/ Settle(d)
  \/ \E b \in Bench : UserStopBench(b)

Next == Request \/ Execute \/ Recover \/ Environment \/ Crash

Spec == Init /\ [][Next]_vars

(* Both goroutines run: every call of theirs returns and every polling     *)
(* loop has a deadline.  A stopped job ends.  Nobody has to start, cancel  *)
(* or delete anything, and nothing has to crash.                           *)
Fairness ==
  /\ WF_vars(Execute)
  /\ WF_vars(Recover)
  /\ \A d \in Dep : WF_vars(Settle(d))

FairSpec == Spec /\ Fairness

-----------------------------------------------------------------------------
(* Properties *)

PC == {"idle", "begin", "stage", "list", "stop", "loop", "deploy", "wait", "register",
       "watch", "purge", "teardown", "saved", "restore", "decide", "finish", "clear"}
RPC == {"list", "next", "sweep", "purge", "relaunch", "mark", "done"}

(* Every variable has its type. *)
TypeOK ==
  /\ active \in Run \union {NoRun}
  /\ cancelled \in BOOLEAN
  /\ pc \in PC
  /\ run \in Record
  /\ cfg \in 1 .. NumConfigs + 1
  /\ todo \in SUBSET (Dep \union Bench)
  /\ stopErr \in BOOLEAN
  /\ rpc \in RPC
  /\ rlist \in SUBSET Run
  /\ rsnap \in [Run -> Record]
  /\ rid \in Run \union {NoRun}
  /\ rec \in Record
  /\ rtodo \in SUBSET (Dep \union Bench)
  /\ disk \in [Run -> Record]
  /\ dep \in [Dep -> DepStatus]
  /\ bench \in [Bench -> BenchStatus]
  /\ evalJobs \in SUBSET Bench
  /\ stoppedBy \in [Dep -> Run \union {NoRun}]
  /\ fresh \in SUBSET Dep
  /\ used \in SUBSET Run
  /\ crashes \in 0 .. MaxCrash

(* Neither goroutine has anything left to do. *)
Quiet == active = NoRun /\ rpc = "done"

(* The run in progress has stopped the others and is at a configuration.   *)
Measuring == pc \in {"loop", "deploy", "wait", "register", "watch", "purge", "teardown", "saved"}

(* "finally relaunch the deployments it stopped", "relaunched on startup"  *)
(* (README.md): when nothing is in progress, a deployment a run stopped    *)
(* and nobody relaunched is named in the Error of that run's record.       *)
RestorePromise ==
  Quiet => \A d \in Dep :
             stoppedBy[d] # NoRun => d \in disk[stoppedBy[d]].blamed

(* "every running deployment so the box is free" (stopOthers): while       *)
(* configurations are measured, the only user deployments that run are     *)
(* those users launched after the others had been listed.                  *)
BoxIsFree == Measuring => \A d \in Dep : dep[d] = "up" => d \in fresh

(* Once Recover has returned, a record says "in progress" only of the run  *)
(* that is being executed: no restart leaves a run running for ever.       *)
RecordsTellTheTruth ==
  rpc = "done" => \A r \in Run : Active(disk[r]) => r = active

(* A record that has reached an end status keeps it until it is deleted.   *)
EndIsFinal ==
  [][\A r \in Run : disk[r].status \in EndStatus =>
                      disk'[r].status \in {disk[r].status, "none"}]_vars

(* A saved measurement is never lost or rewritten, not by the error paths, *)
(* which mark every configuration skipped, nor by Recover.                 *)
ResultsKept ==
  [][\A r \in Run, c \in Cfg :
       disk[r].results[c] = "complete" =>
         disk'[r].status = "none" \/ disk'[r].results[c] = "complete"]_vars

(* One configuration at a time: no other bench deployment and no other     *)
(* eval job is registered while one is measured.                           *)
AloneOnBox ==
  Measuring => /\ \A b \in Bench \ {Current} : bench[b] = "absent"
               /\ evalJobs \subseteq {Current}

(* What runs leave in the cluster: nothing, crashes included.              *)
NoLeftovers ==
  Quiet => /\ \A b \in Bench : bench[b] = "absent"
           /\ evalJobs = {}

(* A record with an end status has an outcome for every configuration, a   *)
(* complete one has measured or failed every one of them, and whatever it  *)
(* had stopped it has tried to relaunch.                                   *)
EndedIsSettled ==
  \A r \in Run : disk[r].status \in EndStatus =>
    /\ \A c \in Cfg : disk[r].results[c] \in CfgEnd
    /\ disk[r].status = "complete" => \A c \in Cfg : disk[r].results[c] # "skipped"
    /\ disk[r].restore # {} => disk[r].restored

(* Cancel "stops the active run" (runner.go): the run named by an accepted *)
(* cancel is over some time later, as is any other run.                    *)
RunEnds == \A r \in Run : active = r ~> active # r

(* A record does not say "in progress" for ever. *)
RecordsSettle == \A r \in Run : Active(disk[r]) ~> ~Active(disk[r])

(* A deployment a run stopped is relaunched or reported, crash or not.     *)
DeploymentsComeBack ==
  \A d \in Dep, r \in Run :
    stoppedBy[d] = r ~> stoppedBy[d] # r \/ d \in disk[r].blamed

-----------------------------------------------------------------------------
(* The runner implements the promise of a run: a run begins with its first *)
(* save and is over with the save of an end status; it withholds what it   *)
(* stopped until that is up again or reported in its record.               *)
RunLife == [r \in Run |-> IF r \notin used THEN "unborn"
                        ELSE IF Active(disk[r]) THEN "active" ELSE "over"]
Withheld == [d \in Dep |-> IF stoppedBy[d] # NoRun /\ d \in disk[stoppedBy[d]].blamed
                         THEN NoRun ELSE stoppedBy[d]]

Lifecycle == INSTANCE RunLifecycle WITH life <- RunLife, heldBy <- Withheld

ImplementsLifecycle == Lifecycle!Spec

-----------------------------------------------------------------------------
(* What the documentation says and the code does not do *)

(* types.go: interrupted means that "the app restarted mid-run"; a run that *)
(* this process is executing has not been.                                  *)
InterruptedMeansRestarted ==
  active # NoRun => disk[active].status # "interrupted"
=============================================================================
