----------------------------- MODULE RunnerWaits -----------------------------
(***************************************************************************)
(* Where the benchmark runner waits for the cluster (internal/bench/       *)
(* runner.go): stageDataset with waitBatch, and runConfig with waitHealthy *)
(* and watchEval.  BenchRunner makes one step of each of these waits; here *)
(* every cluster call, every look of a polling loop and every pause        *)
(* between two looks is a step, and ImplementsRunner says that BenchRunner *)
(* is right about what comes of them.                                      *)
(***************************************************************************)
EXTENDS Integers, Sequences, FiniteSets

CONSTANTS
  Size,      \* length of the encoded dataset
  Chunk,     \* stageChunkBytes
  Parallel,  \* stageParallel
  Logs,      \* what a completed eval job may have printed: log entries
  Env        \* what may go wrong, a subset of EnvNames

(***************************************************************************)
(* error      a cluster call fails and has no effect                       *)
(* ambiguous  a cluster call fails after having taken effect               *)
(* omit       a listing omits the deployment, not twice in a row           *)
(* blind      a listing shows the deployment without its allocation        *)
(* partial    reading the output of a job fails after a part of it         *)
(***************************************************************************)
EnvNames == {"error", "ambiguous", "omit", "blind", "partial"}

ASSUME SizeAssumption == Size \in Nat \ {0}
ASSUME ChunkAssumption == Chunk \in Nat \ {0}
ASSUME ParallelAssumption == Parallel \in Nat \ {0}
ASSUME LogsAssumption ==
  \A l \in Logs : l \in Seq([mark: {"P", "F", "raw"}, text: Seq({"noise", "head", "tail"})])
ASSUME EnvAssumption == Env \subseteq EnvNames

VARIABLES
  (* the goroutine running execute *)
  pc,         \* the call it makes next, or where it is done
  pausing,    \* it is in the select of a polling loop
  late,       \* the deadline of the current wait has passed
  cancelled,  \* ctx.Err() # nil
  status,     \* run.Status
  result,     \* status of the result, in memory
  saved,      \* ... and on disk
  reason,     \* its error: why it failed
  warned,     \* its warning: the model server exited
  misses,     \* misses of waitHealthy, gone of watchEval
  (* stageDataset *)
  dataset,    \* "none" if the run uses no uploaded one, or "kept" or "deleted"
  base,       \* start: the first part of the batch
  next,       \* i: the part to register next
  mine,       \* jobIDs: the jobs of the batch
  pending,    \* of those, the ones waitBatch waits for
  round,      \* of those, the ones it has not looked at in this round
  stageErr,   \* the error stageDataset returns
  (* Nomad and the share *)
  stage,      \* stage[p]: the staging job of part p
  share,      \* parts on the model share
  dep,        \* the deployment under test
  exits,      \* its allocation has "Terminated" events
  job,        \* the eval job
  log,        \* what it printed
  (* observers, read by no action of the runner *)
  excused,    \* parts whose registration or purge returned an error
  wrong,      \* the last listing omitted a deployment that was there
  downs,      \* was the deployment down at the last two listings?
  looks,      \* listings of this wait since the deployment was purged, up to 2
  cut,        \* the output was read in part, and that part has no result
  died,       \* the allocation's server exited by itself during the wait
  blind       \* it could not be seen when the exits were read

loopVars  == <<pausing, late, misses>>
runVars   == <<status, result, saved, reason, warned>>
stageVars == <<dataset, base, next, mine, pending, round, stageErr, stage, share, excused>>
depVars   == <<dep, exits, died, blind>>
jobVars   == <<job, log, cut>>
seenVars  == <<wrong, downs, looks>>
vars == <<pc, cancelled, loopVars, runVars, stageVars, depVars, jobVars, seenVars>>

-----------------------------------------------------------------------------
(* Data *)

NumParts == (Size + Chunk - 1) \div Chunk
Part == 0 .. NumParts - 1

(* The positions of the encoded text that a part carries.                  *)
Content(p) == {i \in 1 .. Size : p * Chunk < i /\ i <= (p + 1) * Chunk}

(* Mutant: the last batch is taken to be as long as the others.            *)
EndUnclipped == base + Parallel

(* The first part that is not of the batch.                                *)
End == IF base + Parallel < NumParts THEN base + Parallel ELSE NumParts

Stages == {"stage", "stageRegister", "stagePoll", "stagePurge", "stageFailed"}
StagingOver == {"stageFailed", "staged", "unstaged"}
Waits == {"wait", "watch", "watchJob"}
PC == Stages \union {"staged", "unstaged"} \union Waits
        \union {"deploy", "register", "purge", "exits", "teardown", "saved"}

(* An entry of a log has a text and podman's mark: P if the next entry     *)
(* continues the line, F if it ends here; docker's lines are "raw".  A     *)
(* RESULT line consists of a head and a tail, which may be two entries.    *)

(* Mutant: every entry is taken for a line.                                *)
NormalizeEveryChunk(entries) == [n \in 1 .. Len(entries) |-> entries[n].text]

(* normalizePodmanLogs: the lines the entries stand for.                   *)
Normalize(entries) ==
  LET lines[n \in 0 .. Len(entries)] ==
        IF n = 0 THEN << <<>> >>
        ELSE LET before == lines[n - 1]
                 line == before[Len(before)] \o entries[n].text
                 done == SubSeq(before, 1, Len(before) - 1)
             IN  IF entries[n].mark = "P" THEN Append(done, line)
                                          ELSE done \o <<line, <<>> >>
  IN  lines[Len(entries)]

(* ParseEvalOutput: the last RESULT line, if it decodes.                   *)
Decodes(lines) ==
  LET results == {n \in 1 .. Len(lines) : lines[n] # <<>> /\ lines[n][1] = "head"}
  IN  \E n \in results : /\ \A m \in results : m <= n
                         /\ lines[n] = <<"head", "tail">>

-----------------------------------------------------------------------------
(* execute waits either in stageDataset or in runConfig, at "deploying".   *)
Init ==
  /\ \/ pc = "stage" /\ result = "pending"
     \/ pc = "deploy" /\ result = "deploying"
  /\ saved = result /\ status = "running" /\ reason = "none" /\ warned = FALSE
  /\ cancelled = FALSE /\ pausing = FALSE /\ late = FALSE /\ misses = 0
  /\ dataset \in {"none", "kept", "deleted"}
  /\ base = 0 /\ next = 0 /\ mine = {} /\ pending = {} /\ round = {} /\ stageErr = FALSE
  /\ stage = [p \in Part |-> "absent"] /\ share = {} /\ excused = {}
  /\ dep = "absent" /\ exits = FALSE /\ died = FALSE /\ blind = FALSE
  /\ job = "absent" /\ log = <<>> /\ cut = FALSE
  /\ wrong = FALSE /\ downs = <<FALSE, FALSE>> /\ looks = 0

-----------------------------------------------------------------------------
(* What the three polling loops have in common *)

Goes(from, to) == pc = from /\ pc' = to

(* A wait begins: its deadline is set, its counter is 0, it looks at once. *)
BeginWait == pausing' = FALSE /\ late' = FALSE /\ misses' = 0

PauseAt(place) == pc' = place /\ pausing' = TRUE /\ UNCHANGED late

(* The timer of the select. *)
Wake ==
  /\ pausing
  /\ pausing' = FALSE
  /\ round' = pending
  /\ UNCHANGED <<pc, late, misses, runVars, depVars, jobVars, seenVars,
                 dataset, base, next, mine, pending, stageErr, stage, share, excused>>

-----------------------------------------------------------------------------
(* stageDataset *)

StageGoes(from, to) == Goes(from, to) /\ UNCHANGED <<status, result, loopVars>>

(* No uploaded dataset is used. *)
StageNothing ==
  /\ dataset = "none"
  /\ StageGoes("stage", "staged")
  /\ UNCHANGED <<base, next, mine, pending, round, stageErr, stage, share, excused>>

(* ReadDataset; the dataset may have been deleted since the run began.     *)
StageRead ==
  /\ dataset # "none"
  /\ StageGoes("stage", IF dataset = "kept" THEN "stageRegister" ELSE "stageFailed")
  /\ stageErr' = (dataset = "deleted")
  /\ UNCHANGED <<base, next, mine, pending, round, stage, share, excused>>

RegisterPart ==
  /\ pc = "stageRegister" /\ next < End
  /\ stage' = [stage EXCEPT ![next] = "live"]
  /\ mine' = mine \union {next}
  /\ next' = next + 1
  /\ UNCHANGED <<pc, status, result, loopVars, base, pending, round, stageErr, share, excused>>

(* Mutant: the error path returns without the purge.                       *)
RegisterPartFailsUnpurged ==
  /\ next < End
  /\ StageGoes("stageRegister", "stageFailed")
  /\ stageErr' = TRUE
  /\ "error" \in Env
  /\ UNCHANGED <<base, next, mine, pending, round, stage, share, excused>>

(* The jobs registered before it are purged; the one in doubt is not.      *)
RegisterPartFails ==
  /\ next < End
  /\ StageGoes("stageRegister", "stagePurge")
  /\ stageErr' = TRUE
  /\ \/ "error" \in Env /\ UNCHANGED <<stage, excused>>
     \/ /\ "ambiguous" \in Env
        /\ stage' = [stage EXCEPT ![next] = "live"]
        /\ excused' = excused \union {next}
  /\ UNCHANGED <<base, next, mine, pending, round, share>>

BatchRegistered ==
  /\ next = End
  /\ Goes("stageRegister", "stagePoll")
  /\ BeginWait
  /\ pending' = mine /\ round' = mine
  /\ UNCHANGED <<status, result, base, next, mine, stageErr, stage, share, excused>>

(* waitBatch ends, with or without an error: the batch is purged.          *)
EndBatch(err) ==
  /\ pc' = "stagePurge"
  /\ stageErr' = err
  /\ pausing' = FALSE
  /\ UNCHANGED <<late, misses>>

(* Mutant: a status that could not be read counts as complete.             *)
CheckPartOptimistic(p) ==
  /\ pc = "stagePoll" /\ ~pausing
  /\ p \in round /\ \A q \in round : p <= q
  /\ round' = round \ {p}
  /\ \/ stage[p] = "failed" /\ EndBatch(TRUE) /\ UNCHANGED pending
     \/ /\ stage[p] = "complete" \/ "error" \in Env
        /\ pending' = pending \ {p}
        /\ UNCHANGED <<pc, stageErr, loopVars>>
     \/ stage[p] = "live" /\ UNCHANGED <<pc, stageErr, loopVars, pending>>
  /\ UNCHANGED <<status, result, base, next, mine, stage, share, excused>>

(* BatchStatus of the next job of the round.                               *)
CheckPart(p) ==
  /\ pc = "stagePoll" /\ ~pausing
  /\ p \in round /\ \A q \in round : p <= q
  /\ round' = round \ {p}
  /\ \/ stage[p] = "failed" /\ EndBatch(TRUE) /\ UNCHANGED pending
     \/ /\ stage[p] = "complete"
        /\ pending' = pending \ {p}
        /\ UNCHANGED <<pc, stageErr, loopVars>>
     \/ /\ stage[p] \notin {"complete", "failed"} \/ "error" \in Env
        /\ UNCHANGED <<pc, stageErr, loopVars, pending>>
  /\ UNCHANGED <<status, result, base, next, mine, stage, share, excused>>

RoundDone ==
  /\ pc = "stagePoll" /\ ~pausing /\ round = {}
  /\ \/ pending = {} /\ EndBatch(FALSE)
     \/ pending # {} /\ late /\ EndBatch(TRUE)
     \/ pending # {} /\ ~late /\ PauseAt("stagePoll") /\ UNCHANGED <<misses, stageErr>>
  /\ UNCHANGED <<status, result, base, next, mine, pending, round, stage, share, excused>>

StageCancelled ==
  /\ pc = "stagePoll" /\ pausing /\ cancelled
  /\ EndBatch(TRUE)
  /\ UNCHANGED <<status, result, base, next, mine, pending, round, stage, share, excused>>

(* purgeJobs, whose errors are only logged.                                *)
PurgePart(p) ==
  /\ pc = "stagePurge" /\ p \in mine
  /\ mine' = mine \ {p}
  /\ \/ stage' = [stage EXCEPT ![p] = "absent"] /\ UNCHANGED excused
     \/ "error" \in Env /\ excused' = excused \union {p} /\ UNCHANGED stage
  /\ UNCHANGED <<pc, status, result, loopVars, base, next, pending, round, stageErr, share>>

BatchPurged ==
  /\ mine = {}
  /\ StageGoes("stagePurge", IF stageErr THEN "stageFailed"
                             ELSE IF End < NumParts THEN "stageRegister" ELSE "staged")
  /\ base' = IF stageErr THEN base ELSE End
  /\ UNCHANGED <<next, mine, pending, round, stageErr, stage, share, excused>>

(* Mutant: the results stay pending.                                       *)
StageFailsUnmarked ==
  /\ Goes("stageFailed", "unstaged")
  /\ status' = IF cancelled THEN "cancelled" ELSE "failed"
  /\ UNCHANGED <<result, loopVars, base, next, mine, pending, round, stageErr, stage,
                 share, excused>>

(* execute, when stageDataset returned an error: nothing is measured.      *)
StageFails ==
  /\ Goes("stageFailed", "unstaged")
  /\ status' = IF cancelled THEN "cancelled" ELSE "failed"
  /\ result' = "skipped"
  /\ UNCHANGED <<loopVars, base, next, mine, pending, round, stageErr, stage, share, excused>>

Stage ==
  /\ \/ StageNothing \/ StageRead
     \/ RegisterPart \/ RegisterPartFails \/ BatchRegistered
     \/ RoundDone \/ StageCancelled \/ BatchPurged \/ StageFails
     \/ \E p \in Part : CheckPart(p) \/ PurgePart(p)
  /\ UNCHANGED <<dataset, saved, reason, warned, depVars, jobVars, seenVars>>

-----------------------------------------------------------------------------
(* runConfig: deploy, and what a listing shows *)

(* fail(): the error is noted; the deferred calls come next.               *)
FailConfig(to, why) ==
  /\ pc' = to
  /\ result' = "failed" /\ reason' = why
  /\ UNCHANGED <<status, saved, warned>>

DeployConfig ==
  /\ Goes("deploy", "wait")
  /\ BeginWait
  /\ dep' = "starting"
  /\ UNCHANGED <<runVars, exits, died, blind, jobVars, seenVars>>

DeployConfigFails ==
  /\ pc = "deploy"
  /\ FailConfig("teardown", "deploy")
  /\ \/ UNCHANGED dep
     \/ "ambiguous" \in Env /\ dep' = "starting"
  /\ UNCHANGED <<loopVars, exits, died, blind, jobVars, seenVars>>

Serving == dep \in {"starting", "up"}

(* What ListManaged may show of the deployment.  "absent": it is not in    *)
(* the listing; "error": there is no listing.                              *)
Sights ==
  {dep} \union (IF "error" \in Env THEN {"error"} ELSE {})
        \union (IF "omit" \in Env /\ ~wrong THEN {"absent"} ELSE {})
        \union (IF "blind" \in Env /\ dep \in {"up", "ended"} THEN {"starting"} ELSE {})

(* Observed at a listing that shows s. *)
Observe(s) ==
  IF s = "error" THEN UNCHANGED seenVars
  ELSE /\ wrong' = (s = "absent" /\ dep # "absent")
       /\ downs' = <<downs[2], ~Serving>>
       /\ looks' = IF dep = "absent" /\ looks < 2 THEN looks + 1 ELSE looks

(* Mutants: the counter of waitHealthy is not reset when the deployment is *)
(* seen, or is reset by a listing that failed.                             *)
WaitMissesSticky(s) == IF s = "absent" THEN misses + 1 ELSE misses
WaitMissesForgotten(s) == IF s = "absent" THEN misses + 1 ELSE 0

WaitMisses(s) ==
  CASE s = "absent" -> misses + 1
    [] s = "error"  -> misses
    [] OTHER        -> 0

(* One look of waitHealthy.  A listing that shows it healthy ends the wait *)
(* and the record is saved.  Of the allocations that ended, the failed     *)
(* ones end it and so does a dead job; a lost or complete one of a job     *)
(* that is not dead yet does not.                                          *)
LookWait(s) ==
  /\ pc = "wait" /\ ~pausing
  /\ s \in Sights
  /\ Observe(s)
  /\ misses' = WaitMisses(s)
  /\ \/ /\ s = "absent" /\ misses' >= 2
        /\ FailConfig("exits", "removed")
        /\ UNCHANGED <<pausing, late>>
     \/ /\ s = "up"
        /\ pc' = "register"
        /\ result' = "evaluating" /\ saved' = "evaluating"
        /\ UNCHANGED <<status, reason, warned, pausing, late>>
     \/ /\ s \in {"ended", "stopped"}
        /\ FailConfig("exits", "failed")
        /\ UNCHANGED <<pausing, late>>
     \/ /\ s # "up" /\ (s = "absent" => misses' < 2)
        /\ IF late THEN FailConfig("exits", "timeout") /\ UNCHANGED <<pausing, late>>
                   ELSE PauseAt("wait") /\ UNCHANGED runVars
  /\ UNCHANGED <<depVars, jobVars>>

WaitCancelled ==
  /\ pc = "wait" /\ pausing /\ cancelled
  /\ FailConfig("exits", "cancelled")
  /\ pausing' = FALSE
  /\ UNCHANGED <<late, misses, depVars, jobVars, seenVars>>

-----------------------------------------------------------------------------
(* runConfig: the eval job *)

RegisterEval ==
  /\ Goes("register", "watch")
  /\ BeginWait
  /\ job' = "live"
  /\ looks' = 0
  /\ UNCHANGED <<runVars, depVars, log, cut, wrong, downs>>

RegisterEvalFails ==
  /\ pc = "register"
  /\ FailConfig("exits", "register")
  /\ \/ "error" \in Env /\ UNCHANGED job
     \/ "ambiguous" \in Env /\ job' = "live"
  /\ UNCHANGED <<loopVars, depVars, log, cut, seenVars>>

(* deploymentStopped counts like a miss. *)
WatchMisses(s) ==
  CASE s \in {"absent", "ended", "stopped"} -> misses + 1
    [] s = "error" -> misses
    [] OTHER       -> 0

(* watchEval looks at the deployment first. *)
LookWatch(s) ==
  /\ pc = "watch" /\ ~pausing
  /\ s \in Sights
  /\ Observe(s)
  /\ misses' = WatchMisses(s)
  /\ IF misses' >= 2 THEN FailConfig("purge", "stopped")
                     ELSE pc' = "watchJob" /\ UNCHANGED runVars
  /\ UNCHANGED <<pausing, late, depVars, jobVars>>

(* The job is complete: ReadLogs returns all it printed, or, with an error, *)
(* the first n entries; an output without a result is a failure.            *)
ReadOutput ==
  \E n \in 0 .. Len(log) :
    /\ n < Len(log) => "partial" \in Env
    /\ cut' = (n < Len(log))
    /\ IF Decodes(Normalize(SubSeq(log, 1, n)))
       THEN pc' = "purge" /\ result' = "complete" /\ UNCHANGED <<status, saved, reason, warned>>
       ELSE FailConfig("purge", "output")

(* Mutant: watchEval has no deadline.                                      *)
LookJobForever ==
  /\ pc = "watchJob"
  /\ \/ job = "complete" /\ ReadOutput /\ UNCHANGED <<pausing, late>>
     \/ job = "failed" /\ FailConfig("purge", "eval") /\ UNCHANGED <<pausing, late, cut>>
     \/ /\ job = "live" \/ "error" \in Env
        /\ PauseAt("watch") /\ UNCHANGED runVars
        /\ UNCHANGED cut
  /\ UNCHANGED <<misses, depVars, job, log, seenVars>>

(* ... and then at the job.  While it runs, its progress is saved and the   *)
(* GPUs are sampled.                                                        *)
LookJob ==
  /\ pc = "watchJob"
  /\ \/ job = "complete" /\ ReadOutput /\ UNCHANGED <<pausing, late>>
     \/ job = "failed" /\ FailConfig("purge", "eval") /\ UNCHANGED <<pausing, late, cut>>
     \/ /\ job = "live" \/ "error" \in Env
        /\ IF late THEN FailConfig("purge", "timeout") /\ UNCHANGED <<pausing, late>>
                   ELSE PauseAt("watch") /\ UNCHANGED runVars
        /\ UNCHANGED cut
  /\ UNCHANGED <<misses, depVars, job, log, seenVars>>

WatchCancelled ==
  /\ pc = "watch" /\ pausing /\ cancelled
  /\ FailConfig("purge", "cancelled")
  /\ pausing' = FALSE
  /\ UNCHANGED <<late, misses, depVars, jobVars, seenVars>>

-----------------------------------------------------------------------------
(* runConfig: the deferred calls, last one first *)

(* A call whose error is only logged. *)
MayFail == Env \intersect {"error", "ambiguous"} # {}

(* Mutant: noteServerExits is not called when an eval has been watched.    *)
PurgeEvalOnly ==
  /\ Goes("purge", "teardown")
  /\ job' = "absent" \/ (MayFail /\ UNCHANGED job)
  /\ UNCHANGED <<loopVars, runVars, depVars, log, cut, seenVars>>

PurgeEval ==
  /\ Goes("purge", "exits")
  /\ job' = "absent" \/ (MayFail /\ UNCHANGED job)
  /\ UNCHANGED <<loopVars, runVars, depVars, log, cut, seenVars>>

(* noteServerExits: the deployment and its allocation must be in the       *)
(* listing; otherwise it returns without a warning.                        *)
NoteExits(s) ==
  /\ Goes("exits", "teardown")
  /\ s \in Sights
  /\ warned' = (s = dep /\ s # "absent" /\ exits)
  /\ blind' = (blind \/ s # dep)
  /\ UNCHANGED <<loopVars, status, result, saved, reason, dep, exits, died, jobVars, seenVars>>

Teardown ==
  /\ Goes("teardown", "saved")
  /\ dep' = "absent" \/ (MayFail /\ UNCHANGED dep)
  /\ UNCHANGED <<loopVars, runVars, exits, died, blind, jobVars, seenVars>>

RunConfig ==
  /\ \/ DeployConfig \/ DeployConfigFails
     \/ WaitCancelled \/ RegisterEval \/ RegisterEvalFails
     \/ LookJob \/ WatchCancelled
     \/ PurgeEval \/ Teardown
     \/ \E s \in {"absent", "starting", "up", "ended", "stopped", "error"} :
          LookWait(s) \/ LookWatch(s) \/ NoteExits(s)
  /\ UNCHANGED stageVars

Execute ==
  /\ Wake \/ Stage \/ RunConfig
  /\ UNCHANGED cancelled

-----------------------------------------------------------------------------
(* Time, requests, Nomad and users *)

Expire ==
  /\ pc \in Waits \union {"stagePoll"} /\ ~late
  /\ late' = TRUE
  /\ UNCHANGED <<pc, cancelled, pausing, misses, runVars, stageVars, depVars, jobVars, seenVars>>

Cancel ==
  /\ ~cancelled
  /\ cancelled' = TRUE
  /\ UNCHANGED <<pc, loopVars, runVars, stageVars, depVars, jobVars, seenVars>>

(* A staging job ends; if it succeeds, its part is on the share.           *)
StageJobEnds(p) ==
  /\ stage[p] = "live"
  /\ \/ stage' = [stage EXCEPT ![p] = "complete"] /\ share' = share \union {p}
     \/ stage' = [stage EXCEPT ![p] = "failed"] /\ UNCHANGED share
  /\ UNCHANGED <<dataset, base, next, mine, pending, round, stageErr, excused>>
  /\ UNCHANGED <<pc, cancelled, loopVars, runVars, depVars, jobVars, seenVars>>

EvalJobEnds ==
  /\ job = "live"
  /\ \/ job' = "complete" /\ log' \in Logs
     \/ job' = "failed" /\ UNCHANGED log
  /\ UNCHANGED <<pc, cancelled, loopVars, runVars, stageVars, depVars, cut, seenVars>>

(* Up to the reading of the exits, the server is the measured one.         *)
Measured == pc \notin {"teardown", "saved"}

(* The server becomes healthy; it exits and is restarted in place, or its  *)
(* allocation ends; Nomad replaces that allocation.                        *)
NomadStep ==
  \/ dep = "starting" /\ dep' = "up" /\ UNCHANGED <<exits, died>>
  \/ /\ \/ dep = "up" /\ dep' = "starting"
        \/ Serving /\ dep' = "ended"
     /\ exits' = TRUE
     /\ died' = (died \/ Measured)
  \/ /\ dep = "ended" /\ dep' = "starting"
     /\ exits' = FALSE
     /\ died' = (died /\ ~Measured)

(* Users stop or purge the deployment under test like any other.           *)
UserStop ==
  \/ dep \in {"starting", "up", "ended"} /\ dep' = "stopped" /\ exits' = TRUE /\ UNCHANGED blind
  \/ dep # "absent" /\ dep' = "absent" /\ blind' = TRUE /\ UNCHANGED exits

Environment ==
  \/ \E p \in Part : StageJobEnds(p)
  \/ EvalJobEnds
  \/ /\ \/ NomadStep /\ UNCHANGED blind
        \/ UserStop /\ UNCHANGED died
     /\ UNCHANGED <<pc, cancelled, loopVars, runVars, stageVars, jobVars, seenVars>>

Next == Execute \/ Expire \/ Cancel \/ Environment

Spec == Init /\ [][Next]_vars

(* execute is runnable and its calls return; time passes.                  *)
FairSpec == Spec /\ WF_vars(Execute) /\ WF_vars(Expire)

-----------------------------------------------------------------------------
(* Properties *)

Sight == {"absent", "starting", "up", "ended", "stopped"}
JobStatus == {"absent", "live", "complete", "failed"}
Reasons == {"none", "deploy", "removed", "failed", "timeout", "cancelled", "register",
            "stopped", "output", "eval"}

(* Every variable has its type. *)
TypeOK ==
  /\ pc \in PC
  /\ pausing \in BOOLEAN /\ late \in BOOLEAN /\ cancelled \in BOOLEAN
  /\ misses \in 0 .. 2
  /\ status \in {"running", "cancelled", "failed"}
  /\ {result, saved} \subseteq
       {"pending", "deploying", "evaluating", "complete", "failed", "skipped"}
  /\ reason \in Reasons /\ warned \in BOOLEAN
  /\ dataset \in {"none", "kept", "deleted"}
  /\ base \in 0 .. NumParts /\ next \in 0 .. NumParts
  /\ mine \in SUBSET Part /\ pending \in SUBSET Part /\ round \in SUBSET Part
  /\ stageErr \in BOOLEAN
  /\ stage \in [Part -> JobStatus] /\ share \in SUBSET Part /\ excused \in SUBSET Part
  /\ dep \in Sight /\ exits \in BOOLEAN /\ died \in BOOLEAN /\ blind \in BOOLEAN
  /\ job \in JobStatus /\ log \in Logs \union {<<>>} /\ cut \in BOOLEAN
  /\ wrong \in BOOLEAN /\ downs \in BOOLEAN \X BOOLEAN /\ looks \in 0 .. 2

(* When stageDataset returns without an error, the parts on the share are  *)
(* the whole encoded dataset: no part was taken for written because its    *)
(* status could not be read, or left out of the last batch.                *)
StagedWhole ==
  pc = "staged" /\ dataset = "kept" => UNION {Content(p) : p \in share} = 1 .. Size

(* Staging jobs carry a part of the dataset each: there are never more     *)
(* than stageParallel of them, and none is left when stageDataset returns, *)
(* however it returns, but those whose registration or purge had an error. *)
StagingLeavesNothing ==
  LET left == {p \in Part : stage[p] # "absent"} \ excused
  IN  Cardinality(left) <= Parallel /\ (pc \in StagingOver => left = {})

(* "one miss may be a transient error; two in a row means the job was      *)
(* purged" (waitHealthy), "Two sightings in a row" (watchEval): a run is   *)
(* given up for a missing deployment only if it was down at one of the     *)
(* last two listings.                                                      *)
GoneIsReal ==
  reason \in {"removed", "stopped"} /\ pc \in {"purge", "exits"} => downs[1] \/ downs[2]

(* ... and it is given up: once the deployment has been purged, two         *)
(* listings end the wait, whatever listings failed in between.             *)
GoneIsNoticed == looks = 2 => pc \notin Waits \union {"register"}

(* A line of the log: the entries from m to n; and its text.               *)
Ends(entries, n) == entries[n].mark # "P" \/ n = Len(entries)
Begins(entries, n) == n = 1 \/ entries[n - 1].mark # "P"
IsLine(entries, m, n) ==
  /\ m <= n /\ Begins(entries, m) /\ Ends(entries, n)
  /\ \A k \in m .. n - 1 : ~Ends(entries, k)
TextFrom(entries, m, n) ==
  LET text[k \in 0 .. n] == IF k < m THEN <<>> ELSE text[k - 1] \o entries[k].text
  IN  text[n]

(* The log has a whole RESULT line, and no line after it is another one.   *)
HasResult(entries) ==
  \E m, n \in 1 .. Len(entries) :
    /\ IsLine(entries, m, n) /\ TextFrom(entries, m, n) = <<"head", "tail">>
    /\ \A k, e \in n + 1 .. Len(entries) :
         LET text == TextFrom(entries, k, e)
         IN  IsLine(entries, k, e) => text = <<>> \/ text[1] # "head"

(* A measurement is thrown away for its output only if what could be read  *)
(* of it has no result: podman's splitting of long lines is undone.        *)
OutputIsUsed == reason = "output" => cut \/ ~HasResult(log)

(* "records a warning when the model server died during the config"        *)
(* (noteServerExits): a completed measurement during which the allocation's *)
(* server exited carries the warning, unless the allocation could not be   *)
(* seen when the exits were read: they are read before the teardown.       *)
ExitsReported ==
  pc \in {"teardown", "saved"} /\ result = "complete" /\ died => warned \/ blind

(* Every wait ends, whatever the cluster answers: the polling loops have a *)
(* deadline which the errors they swallow do not postpone.                 *)
WaitsEnd == <>(pc \in {"staged", "unstaged", "saved"})

-----------------------------------------------------------------------------
(* BenchRunner, with one run of one configuration in progress *)

TheRun == "run"
RunnerPC ==
  CASE pc \in Stages   -> "stage"
    [] pc = "staged"   -> "list"
    [] pc = "unstaged" -> "finish"
    [] pc = "watchJob" -> "watch"
    [] pc = "exits"    -> "teardown"
    [] OTHER           -> pc
RecordOf(s, outcome) ==
  [status |-> s, results |-> <<outcome>>, restore |-> {}, restored |-> FALSE, blamed |-> {}]
Nothing == RecordOf("none", "pending")
BenchStatusOf(d) == CASE d = "absent"  -> "absent"
                      [] d = "stopped" -> "dead"
                      [] OTHER         -> "up"
DiskOf(outcome) == [r \in {TheRun} |-> RecordOf("running", outcome)]
BenchOf(d) == [b \in {TheRun} \X (1 .. 1) |-> BenchStatusOf(d)]
EvalJobsOf(j) == IF j = "absent" THEN {} ELSE {<<TheRun, 1>>}

BR == INSTANCE BenchRunner WITH
  Run <- {TheRun}, Dep <- {}, NumConfigs <- 1, NoRun <- "nobody", MaxCrash <- 0,
  Env <- {"error", "ambiguous", "user"},
  active <- TheRun, pc <- RunnerPC, cfg <- 1, todo <- {}, stopErr <- FALSE,
  run <- RecordOf(status, result),
  rpc <- "done", rlist <- {}, rsnap <- [r \in {TheRun} |-> Nothing], rid <- "nobody", rec <- Nothing,
  rtodo <- {},
  disk <- DiskOf(saved), dep <- <<>>, bench <- BenchOf(dep), evalJobs <- EvalJobsOf(job),
  stoppedBy <- <<>>, fresh <- {}, used <- {TheRun}, crashes <- 0

(* What BenchRunner makes single steps is what the waits do: every step    *)
(* here is one of its steps, or none.                                      *)
ImplementsRunner == [][BR!Next]_BR!vars
=============================================================================
