# Verification of the AI model scheduler

TLA+ models of the concurrent and crash-prone parts of the scheduler, TLC runs
that check them on small instances, and TLAPS proofs that hold for every size.
Source paths below are relative to the repository.

## The system

The scheduler is a Go web app in front of a Nomad cluster (usually one GPU
box). It keeps almost nothing itself: deployments, downloads and probes are
Nomad jobs; benchmark suites, datasets and run records are JSON files.

| Component | State | Operations | Talks to |
|---|---|---|---|
| benchmark runner, `internal/bench/runner.go` | `active`, `cancel`, `done` under a mutex; the record of the run, in the goroutine `execute` | Start, Cancel, execute (stage, stop others, per configuration deploy/wait/eval/tear down, restore, finish), Recover | store, Nomad through `bench.Cluster` |
| store, `internal/bench/store.go` | files under the data directory, one mutex | save, get, list and delete suites, runs, datasets | the runner, the HTTP handlers |
| deployment service, `internal/deploy` | none | Deploy (check the listing, choose a port, register), Stop, SuggestPort | Nomad |
| Nomad client, `internal/nomadapi` | none | ListManaged, Register, Stop, Dispatch, WaitForBatch, logs, stats | Nomad |
| catalog, `internal/catalog` | entries, time of the last attempt, the scan in flight | Entries, Refresh | a Nomad batch job |
| downloads, `internal/downloads` | the status last seen of each download | Start, List, Logs, Remove | Nomad; calls the catalog when one completes |
| hardware, `internal/hardware` | cached GPUs, whether the stats agent is registered | Refresh, Entries, Stats | Nomad jobs |
| handlers and pages, `internal/server` | none | check and act on the above; edit suites | all of them |
| job specifications, `internal/jobspec`; results, `internal/bench/results.go` | none | pure functions | |
| eval script, `bench/bench.py` | runs inside a Nomad job | measure, reassemble the dataset | |

What is hard here:

- **Two goroutines and a crash.** `execute` stops the users' deployments and
  owes their relaunch; a restart of the process must find that debt on disk.
  `Recover` pays it, while the server already accepts requests.
- **Calls that fail after taking effect**, errors that are only logged, and
  listings that omit jobs (`ListManaged` skips a job whose lookup fails).
- **People.** While a run is on, users launch, stop and purge deployments, the
  bench ones included, cancel the run, and delete records.
- **Cached and checked values**: names and ports checked against an old
  listing, a catalog scan older than the download that asks for it.

`PROJECT.json` lists every such place with its line ("hazards").

### What makes each component correct

- Runner: every deployment it stopped is relaunched or reported; nothing else
  runs on the box during a measurement; a run ends; a record tells the truth,
  for ever once it has ended; saved measurements survive; nothing is left over.
- Deployment service: no two live deployments share a name or a port; a running
  one is not replaced.
- Catalog and downloads: scans neither overlap nor store in the wrong order;
  each completion is announced, and the catalog shows the model after it.
- Hardware: the cache never goes back to an older probe.
- Store: edits of a suite are not lost; a dataset is whole or absent.
- Results and staging: the parts of a dataset reassemble to the dataset; the
  best configuration of a metric is one that was measured.

## Modules

| Module | Role |
|---|---|
| `BenchRunner` | runner, run records, the jobs it drives, users, restarts |
| `RunLifecycle` | what a run promises, without saying how; `BenchRunner` implements it |
| `MCBenchRunner` | model values and symmetry for TLC |
| `BenchRunner_proofs` | inductive invariants and theorems |
| `BenchRunner_outcomes` | more of them: what runs leave in the records and in the cluster |
| `BenchRunner_refinement` | the proof that the runner implements `RunLifecycle` |
| `Deploy`, `MCDeploy`, `Deploy_proofs` | concurrent calls of the deployment service over the listing of the Nomad client |
| `Catalog` | the cache of models, its scans and who waits for them; has no specification of its own |
| `Downloads`, `MCDownloads`, `Downloads_proofs` | the downloads composed with `Catalog`, as `server.New` does |
| `RunnerWaits`, `MCRunnerWaits`, `RunnerWaits_proofs` | the waits of the runner: staging and the three polling loops, look by look; implements the steps `BenchRunner` makes of them |
| `Hardware`, `MCHardware`, `Hardware_proofs` | concurrent requests of the GPU service: the probe cache and the stats agent |
| `Suites`, `Suites_proofs` | the files of suites and datasets, the handlers that edit them, and a run that reads them |
| `Results` | operators: the metrics `bench.py` computes and the table `results.go` builds of them |
| `Comparison`, `MCSuites` | the table of the run in `Suites`: what its page shows at any moment; `Suites_proofs` is about it too |

### BenchRunner and the code

A step is one cluster call, one save of the record or one critical section,
with the computation up to the next; between two steps the other goroutine, a
user or a crash may come in. `pc` and `rpc` name the call the goroutines
`execute` and `Recover` make next.

| Variables | Code |
|---|---|
| `active`, `cancelled` | `Runner.active`, the run's context |
| `run`, `cfg`, `todo`, `stopErr` | locals of `execute`, `stopOthers`, `restore` |
| `rlist`, `rsnap`, `rid`, `rec`, `rtodo` | locals of `Recover`: the records as it listed them, the one it is at |
| `disk` | `runs/*.json`; status `"none"` is a missing file |
| `dep`, `bench`, `evalJobs` | Nomad jobs: users' deployments, `bench-` deployments, `ams-bench-` jobs |
| `stoppedBy`, `fresh`, `used`, `crashes` | observers, no action of the runner reads them (`used` keeps identifiers unique, `crashes` bounds the restarts) |

A record is abstracted to its status, the status of each result, `Restore` (as
a set of names), `Restored`, and `blamed`: the deployments its `Error` names as
not stopped or not relaunched. Actions follow the functions:

- `Start`, `Cancel`, `DeleteRun`: the requests, with the refusals as guards.
- `ExecBegin`, `StageDone`, `StageFails`: the head of `execute`. Staging is one step.
- `ListOthers` ... `StopDone`, `AbortStop`: `stopOthers`, one step per stop; its single save is `StopDone`; `AbortStop` is the error path in `execute`.
- `SkipConfig` ... `SaveConfig`: the loop and `runConfig`, the deferred calls in their order (purge the eval job, then the deployment). `waitHealthy` and `watchEval` are steps with the outcomes they can have; each has a deadline, so failing is always possible. `RunnerWaits` opens these steps, and staging.
- `LoopDone`, `RestoreOne`, `RestoreFails`, `RestoreDone`, `Decide`, `FinishSave`, `FinishClear`: `restore` and `finish`.
- `Recover*`: `Recover`, started by `server.New`, so in `Init` and after `Crash`.
- `UserLaunch`, `UserStop`, `UserStopBench`: the deployments page. `Settle`: a stopped job becomes dead.
- `Crash`: all memory is lost, the process starts again.

The constant `Env` says what the environment may do, so that each run and each
theorem names what it tolerates:

| Env | Meaning |
|---|---|
| `error`, `ambiguous` | a cluster call fails without effect, or after having taken effect |
| `skip` | a listing omits jobs |
| `lag` | a job stopped without purge is not dead at once |
| `unsaved` | a restart also hits while `Restore` exists only in memory |
| `disk` | saving or listing records fails |
| `user`, `delete` | users change deployments; records are deleted |
| `early` | a run is started before Recover has returned |

### Deploy and the code

The service keeps nothing and locks nothing, so the model is what lies between
the requests it sends to Nomad: `RequestDeploy` (a handler calls `Deploy`),
`ListStubs` and one `LookUp` per job (`ListManaged`), `Refuse` or `Accept` (the
checks and the choice of the port, on what was read), `Register`; and `Stop`.
`job` is Nomad's side: the port a job reserves, and the port its latest
allocation shows, which is an old one until Nomad has placed it (`Place`).
Observers: `unseen` collects, for a call, what was registered since it began
to list and what its listing omits or shows without its port; `excuse` keeps
that set for the deployment the call registered. `Env` names what may go wrong:
`omit` and `portless` (a lookup fails), `fail` (a request fails), `pending` (a
call begins while a deployment has not been placed).

### Catalog, Downloads and the code

| Variables | Code |
|---|---|
| `entries`, `fetched`, `inflight`, `due` | the fields of `Catalog`; `due`: the TTL has passed since `lastAttempt` |
| `phase`, `index`, `cut`, `err` | per flight, the goroutine of `startLocked` and the locals of `scan` |
| `wpc`, `on` | per goroutine that calls `Entries` or `Refresh`: where it is, its flight |
| `share`, `task` | the models on the share, the download jobs in Nomad |
| `seen` | `Service.seen` |
| `lpc`, `todo`, `found` | per List: stubs not looked up yet, statuses found |
| `base`, `whole`, `missed`, `blurred`, `calls`, `visits` | observers and bounds |

Actions of the catalog: `EntriesCached`, `CallRefresh`, `Join` (the critical
section of `Refresh`), `Wake`, `GiveUp` (the caller's context), `Answer`; of a
scan: `Read`, `Store`, `ScanFails`, `Clear` (the critical section after it),
`Close` (`f.done`). `Clear` and `Close` are two steps, so a new scan may begin
between them. `Read` may lose a part of the output, because `scan` takes a part
for all when the read fails after it. Actions of the downloads: `Start`,
`Remove`, `ListStubs`, `LookUp*`, and `Notify`, which starts a goroutine, that
is a waiter of the catalog, per completion; `calls` counts these announcements.
`blurred` collects the downloads that a List takes for open after they were
complete, because their status cannot be read or was read before. The share
only grows: models that
are deleted by hand are not modelled.

### RunnerWaits and the code

One configuration of one run, from the head of `execute` through
`stageDataset`, or from `runConfig` to its last deferred call. A step is one
cluster call, one look of a loop or one pause (`pausing`: in the `select`).

| Variables | Code |
|---|---|
| `pc`, `pausing`, `late`, `cancelled` | where the goroutine is; the deadline of the wait it is in; its context |
| `misses` | `misses` of `waitHealthy`, `gone` of `watchEval` |
| `base`, `next`, `mine`, `pending`, `round`, `stageErr` | `start`, `i`, `jobIDs` of `stageDataset`; `pending` of `waitBatch` and what it has not looked at in this round; the error |
| `status`, `result`, `reason`, `warned`, `saved` | the run's status, the result's status, error and warning; the status on disk |
| `stage`, `share`, `dep`, `exits`, `job`, `log` | Nomad: staging jobs, parts written, the deployment and the exits of its allocation, the eval job and its output |
| `excused`, `wrong`, `downs`, `looks`, `cut`, `died`, `blind` | observers |

The dataset is its positions `1 .. Size`, and a part the positions it carries.
A log is a sequence of entries with podman's mark; a `RESULT` line is a head
and a tail that may be two entries, and `Normalize` joins them. A listing may
show the deployment as it is, without its allocation (`blind`), or not at all
(`omit`), or fail. The code takes two misses in a row for a purge
(`runner.go:473-474`); correspondingly, `omit` never hits twice in a row.
`ExitsReported` speaks of the exits of the allocation that the listing shows:
those of one that Nomad has replaced are out of `TaskExits`' sight.
`ImplementsRunner` maps every step to a step of `BenchRunner`, or to none: a
wait is one step there, taken when it ends.

### Hardware and the code

| Variables | Code |
|---|---|
| `cache`, `fetched`, `ensured`, `recent` | `Service.gpus`, its age against `probeTTL`, `agentEnsured`, its age against `ensureAgentEvery` |
| `req` | per request: where it is, and the locals of `Entries`, `Refresh` and `Stats` |
| `probe`, `out`, `agent` | the dispatched probes, what they saw, the `ams-gpu-stats` job |
| `era` | which GPUs are in the box; every cached list knows the era it shows |
| `since`, `overlap`, `excused`, `faults` | observers and a bound |

`Check`, `Dispatch`, `Await`, `Store`, `Purge` and `Reload` are `Entries` and
`Refresh`, from one unlock or cluster call to the next; `Agent*` is
`ensureAgent`. `Store` may read a part of the output. A fault (a call that
fails, before or after its effect where that matters, a probe that fails, a
partial read, a restart) uses up one of `MaxFaults`.

### Suites, Results, Comparison and the code

`suites`, `content` and `meta` are the files; `req` holds the copy of a suite
that a handler has loaded and not saved yet, or the dataset between its two
files. Operations that write take `Store.mu`: one step, or two (`Write*`,
`Remove*`) between which no other writes; loads take no lock. `run` is the
newest run, its columns copied from the suite, its results one by one.
`Outcome` gives what a configuration may be measured to be; `MCSuites` makes
it of samples (fast, slow with an error, unanswered) through `RunEval`, so the
table is built of what the script computes. `Results` works with whole
numbers: milliseconds, percentages, rates rounded down.
`Comparison` shows the table at every moment, of unfinished runs too.

## Runs

| Run | Instance | Shows |
|---|---|---|
| `runner_safety` | 1 run, 2 deployments, 2 configurations, 1 crash; error, ambiguous, user, delete | `TypeOK`; `RestorePromise`: nothing a run stopped is forgotten; `BoxIsFree`: no old deployment is up during a measurement; `RecordsTellTheTruth`, `EndIsFinal`, `ResultsKept`: records |
| `runner_two_runs` | 2 runs, 1 deployment, 1 configuration, 2 crashes, fair | `AloneOnBox`, `NoLeftovers`; `RecordsSettle`, `DeploymentsComeBack` (liveness); `ImplementsLifecycle` (refinement) |
| `runner_any` | 1 run, 1 deployment, 2 configurations, 1 crash; skip, lag, unsaved, disk, delete, early, fair | `EndedIsSettled` and `RunEnds` hold even there |
| `restart_while_stopping` | 2 deployments; unsaved | finding: `RestorePromise` fails |
| `start_during_recover` | early | finding: a run this process executes is marked interrupted |
| `deploy_race` | 2 callers, 2 names, 2 ports and one out of range; omit, portless, fail | `TypeOK`; `ClashNeedsRace`: two deployments share a port, and `ReplacesOnlyUnseen`: a running one is replaced, only by a call that could not see the other |
| `port_of_pending` | 1 caller; pending | finding: two deployments get one port without any race |
| `downloads` | 1 download, 2 Lists, 1 page visit, 2 flights, fair | `TypeOK`; `OneScan`, `NeverOlder`, `ServedIsCurrent`: the catalog; `CompletionAnnounced`; `EveryCallAnswered` (liveness) |
| `waits` | 5 positions in parts of 2, batches of 2, 4 logs; all of `Env`, fair | `TypeOK`; `StagedWhole`, `StagingLeavesNothing`: staging; `GoneIsReal`, `GoneIsNoticed`: missing deployments; `OutputIsUsed`, `ExitsReported`; `WaitsEnd` (liveness); `ImplementsRunner` (refinement) |
| `hardware` | a dashboard and another client, an NVIDIA card joining an AMD one, 1 fault, fair | `TypeOK`; `RescanShowsCurrent`, `OlderOnlyByOverlap`: the cache; `ProbesArePurged`; `AgentHeals` (liveness) |
| `suites` | 2 clients, 1 suite, 1 dataset, 2 labels, 4 kinds of evaluation, 4 requests | `TypeOK` with distinct labels; `EditsLostOnlyByRace`; `DatasetWhole`; `TableIsRight` |
| `best_of_nothing` | 1 client, 2 labels, 2 requests | finding: a configuration that answered nothing is highlighted as the best |

**Bounds.** Two deployments are needed for one to be down while the stop of the
other fails, two configurations for one result to be saved while the next is
measured, two runs for one to meet the leftovers of another, two crashes for
Recover to be interrupted itself. `MaxCrash` bounds restarts; identifiers of
runs are used once, so `Run` bounds how many are started. Symmetry (of the
deployments) is used only where no liveness is checked. The runs stop when
identifiers and crashes are used up, so deadlock is not checked; that nothing
stops too early is what `RecordsSettle` says.

In `deploy_race`, two callers, two names and two ports are the fewest that can
clash; a third port is asked for to be refused. In `downloads`, two flights are
the fewest that can overlap, overtake each other or be mistaken for each other,
and two Lists the fewest that can bring back an old status. `MaxFlight`
and `MaxVisits` bound scans and visits. `MaxCalls` bounds how many announcements
of a download are followed into the catalog; a later one is only counted, so a
second one occurs in the run and stops nothing.
`EnoughFlights` says that no caller lacks a flight; the TTL passes only while a
page may still ask. When they are used up the
model stops, so deadlock is not checked there; it is in `deploy_race` and `hardware`.

In `waits`, 5 positions in parts of 2 make three parts, the last shorter, and
batches of 2 make two batches, the last shorter. The model ends with the
configuration, so deadlock is not checked; `WaitsEnd` says that it does not end
before. In `hardware`, two requests are the fewest that overlap, and the second
era changes which agent is wanted; each kind of fault occurs in some behaviour.
In `suites`, a lost edit takes three requests (create, edit, edit) and a run
beside a delete of its dataset four (create, upload, start, delete); the
same run with 5 requests has 816,067 states and no error. One suite and one
dataset are enough because no operation touches two.

**Fairness.** Weak fairness of `Execute` and of `Recover`: both goroutines are
always runnable, every client call returns, and both polling loops have a
deadline (`runner.go:497`, `runner.go:580`). The outcome within a step is not
fair: an eval may never complete. Weak fairness of `Settle`: Nomad kills
stopped tasks. Starting, cancelling, deleting, users and crashes are not fair.
In `downloads`, weak fairness of each scan and of each waiter, per goroutine:
`scan` waits at most 60 s (`catalog.go:148`), and critical sections are short.
That a waiter's context ends is not assumed.
In `waits`, weak fairness of `Execute` and of `Expire`: the loops look every
`Poll`, the clock runs; Nomad is not fair, a job may run for ever. In
`hardware`, per request and per probe: `Refresh` waits at most 60 s
(`hardware.go:97`) and probes end, the two ages grow, and a dashboard
goes on polling (`partialNodeStats`).

**Findings.** The four violation runs are places where a document or comment
promises what the code does not do; `PROJECT.json` quotes both.
`restart_while_stopping`, `start_during_recover` and `port_of_pending` are the
reason why `unsaved`, `early` and `pending` are separate in the `Env` of their
modules. In `best_of_nothing`, zeros of a series without an answer are taken
for measurements, except in the dataset rows, which ask for `Requests > 0`.

Four more divergences were met while modelling; no run is kept for them. A
cancel accepted after the last look at the context (`runner.go:205`) ends as a
complete run. A relaunch that meets a stopped job that is not dead yet takes it
for running (`runner.go:248`): this is `lag`, under which `RestorePromise`
fails. The refresh after a completed download may join a scan that has already
read the share (`catalog.go:110`), and the model appears only with the next.
A download is not announced exactly "once" (`downloads.go:39`, `:123`): a
completed one is announced again when a lookup fails and reads as pending, or
when an overtaken List brings back the old status (`downloads.go:131-138`), and
not at all when it is complete at the first look, for example after a restart,
since `seen` is kept in memory. `CompletionAnnounced` says that there are no other cases.

## Proofs

`BenchRunner_proofs` proves, for any sets of runs and deployments and any
number of configurations and restarts:

- `TypeCorrect`: `TypeOK`, in any environment. `TypeInv` adds what makes it
  inductive: a run is executed exactly if one is active, and inside `runConfig`
  the loop index is in range.
- `PromiseHolds` (`RestorePromise`), assuming `Tolerable`: no lag, no restart
  while `Restore` is unsaved, no failing disk, no start beside Recover. Each of lag,
  unsaved and early is a finding above; failing saves break the promise by
  nature. Calls may still fail either way, listings may be incomplete, users
  and deletes may interfere, and the process may restart anywhere else, during
  Recover included.
- `BoxFree` (`BoxIsFree`), assuming only complete listings and no start beside
  Recover.

The inductive invariant `IInv` says where the promise for a stopped deployment
is kept at every moment (`Kept`): in the Error of the record on disk, or in the
`Restore` of a record on disk that is in progress and not restored (and, once
Recover is relaunching, in what it has left to do or has noted as failed), or,
for the run being executed, in the set that the current step of `execute` still
works on (`Owing`). `ExecInv` relates the goroutine's record to the one on
disk, so that a crash finds the promise there; `RecoverInv` says that Recover
works on records that have not changed since it listed them. `BoxInv` is the
invariant of `BoxFree`: during `stopOthers` a deployment that is up is either
new or still to be stopped. Both were checked with TLC before they were proved.

`BenchRunner_refinement` proves `Refines`: `ImplementsLifecycle` under
`Tolerable` and without deletes, step by step from the same invariant. (Deleting
the record of a run in progress would end it and give up what it holds in one
step, which `RunLifecycle` does not allow.)

`BenchRunner_outcomes` proves the rest of what the runs check, each part from an
invariant of its own, so that it assumes no more of the environment than it
needs:

- `EndedRecordsAreSettled` (`EndedIsSettled`), in any environment. `SettledInv`
  says that each goroutine sees to it alone: while the loop is at a configuration,
  those before it have an outcome and none is skipped unless the run is
  cancelled (`MeasuredBefore`), and Recover works on records that were in
  progress when it listed them, with every result answered before it saves.
- `MeasurementsStay` (`ResultsKept`), unless a run is started beside Recover:
  what is complete on disk is complete in the copy of the goroutine that saves
  next (`KeptInv`), and no configuration is measured that was already.
- `EndStays` (`EndIsFinal`), unless a run is started beside Recover: whoever
  saves finds a record that is in progress or deleted (`Ongoing`), even when
  earlier saves have failed. It rests on `SettledInv` and `KeptInv`.
- `RecordsHold` (`RecordsTellTheTruth`), unless saves or listings fail: a record
  in progress has somebody who will end it, `execute` up to its last save or
  Recover (`TruthInv`), which holds even for a run started beside Recover.
- `MeasuredAlone` (`AloneOnBox`) and `NothingIsLeft` (`NoLeftovers`), assuming
  `Orderly`: calls succeed, listings are complete, saves succeed, no record is
  deleted, no run is started beside Recover. Restarts may hit anywhere, stops
  may lag, users do as they like. `LeftInv` says where a bench deployment or an
  eval job may be at every moment (`BenchLeft`, `JobsLeft`): it is the one of the
  configuration at hand, or, after a restart, some record is still in progress
  and Recover is on its way to purge it.

What these theorems and `PromiseHolds` and `BoxFree` exclude is excluded for a
reason: with any single one of the behaviours a theorem leaves out, and no other,
TLC finds its property violated within two runs and one restart.

These assumptions cannot be weakened: TLC finds `AloneOnBox` and `NoLeftovers`
violated with each of `error`, `ambiguous`, `skip`, `disk`, `delete` and `early`
alone, and `ResultsKept` with `early` alone. The invariants were checked with
TLC first: `SettledInv` in all of `Env`, `LeftInv` with two runs, two
configurations and two restarts.

`Deploy_proofs` proves, for any numbers of callers, names and ports:

- `TypeCorrect` (`TypeOK`), `ClashesAreRaces` (`ClashNeedsRace`) and
  `ReplacesOnlyMissed` (`ReplacesOnlyUnseen`), in any environment. The invariant
  is `Relies`: a live deployment that a call has not recorded in `unseen` is in
  its listing, with the port it still reserves or still to be looked up; and
  once the call has decided, it is not what the call is about to register, nor
  on the port it has chosen.
- `AlonePortsDiffer` (`PortsDisjoint`), assuming `Alone`: one caller, complete
  listings, nothing pending when a call begins.

`Downloads_proofs` proves, for any numbers of downloads, Lists, waiters and
flights: `TypeCorrect` (`TypeOK`), `ScansNeverOverlap` (`OneScan`),
`ServedAreCurrent` (`ServedIsCurrent`), `CacheNeverOlder` (`NeverOlder`) and
`CompletionsAreAnnounced` (`CompletionAnnounced`). Its invariant `IInv`:
`c.inflight` names the one flight that scans (`InflightScans`), which began
after all others (`LatestBase`) and has all they stored before it
(`NotYetStored`); so what it reads and stores holds all that those found
(`HasRead`, `HasStored`), and whoever is served is served by a flight that has
stored (`ServedByFlight`). For the announcements,
`Looked` says that what a List found complete has completed, and `SeenComplete`
that an announced download, unless it is in `blurred`, was announced once, is
complete in `seen`, and is held for open by no List.

`RunnerWaits_proofs` proves, for any sizes of dataset, part and batch and any
faults: `TypeCorrect`, `StagingIsWhole` (`StagedWhole`), `StagingIsCleanedUp`
(`StagingLeavesNothing`), `NotGivenUpForAMiss` (`GoneIsReal`), `PurgeIsNoticed`
(`GoneIsNoticed`), `DeathsAreReported` (`ExitsReported`), `OutputsAreUsed`
(`OutputIsUsed`) and `WaitsImplementRunner` (`ImplementsRunner`). `TInv` is split in
`Flags` (Booleans, for Zenon) and `Kinds` (the rest, for SMT), and bounds the
counters while a wait goes on. `GoneInv` says what `misses` means: one miss is
a sighting that was either wrong, and then the last, or of a deployment that
was down (`MissIsSeen`), and after a purge every look counts (`LooksAreMisses`).
`StageInv` says which parts the batch holds (`BatchIs`), that those no longer
pending are on the share (`WaitedFor`), and that only its jobs exist
(`JobsHeld`); `PartsCover` is the arithmetic that the parts make up the whole.
`NoResultFound` says that what was given up for its output had no result when it
was read, and the job prints nothing after that; that no log is given up that
has one is `ResultDecodes`, about what `Normalize` makes of entries split
anywhere. `WaitsImplementRunner` maps each step to one of `BenchRunner` (or
none) whose environment has errors, ambiguous calls and users, needing one more
invariant: the run's status changes only when staging fails (`StillRunning`). It
is about steps only, because `RunnerWaits` begins in the middle of a run of
`BenchRunner`.

`Hardware_proofs` proves, for any requests, boxes and faults: `TypeCorrect`,
`NoProbeIsLeft` (`ProbesArePurged`), `RescansAreCurrent`
(`RescanShowsCurrent`) and `OlderOnlyThen` (`OlderOnlyByOverlap`). The
invariant `Eras` says that nothing knows an era that is yet to come, and
(`Newer`) orders the eras of the cache, the probe and the rescan of a request
during which nobody else has stored.

`Suites_proofs` proves, for any clients, suites, datasets, labels and numbers
of requests: `TypeCorrect`, `DatasetsStayWhole` (`DatasetWhole`) and
`EditsAreExact` (`EditsLostOnlyByRace`). `Files` adds what the requests in
progress rely on; `Held` says that a request that has seen the current number
of writes of its suite holds the suite as stored. `TablesAreRight`
(`TableIsRight`) says that the table of a run is right for any number of
configurations and any metrics: `BestIdxIsBest` is the loop of `BuildTable`,
which compares each result only with the best so far; `ValueIsNumber` is why
they can be compared.

**Induction over data.** `ResultDecodes` and `BestIdxIsBest` are about recursive
functions. The induction theorems of the library take an operator as a
parameter, which the provers cannot instantiate; the lemma `LeastNumber` (a set
of numbers that is not empty has a least one, from the well-foundedness of `<`)
does instead: the least `n` at which something is wrong is not 0, and what is
right at `n - 1` is right at `n`. The same argument shows that a recursive
definition defines a function at all (`LoopRuns`, `JoinsExist`, `AddsExist`).

**What proving corrected.** Two definitions said something else than meant on
inputs that TLC's instances do not contain. `HasResult` looked for a later RESULT line at
the first entry of a line only, and so overlooked one whose first entry is
empty: `OutputIsUsed` would be false for such a log. Two arms of the `CASE` in
`Value` were true at once for a result without metrics, so that its value was
any of two. Both are corrected.

Only model-checked are the liveness properties (`RunEnds`, `RecordsSettle`,
`DeploymentsComeBack`, `WaitsEnd`, `AgentHeals`, `EveryCallAnswered`): they rest
on fairness, which this prover has no rules for. Every other property of a
passing run is proved.

Assumptions on constants: `NoRun` is not a run, `NumConfigs` and `MaxCrash` are
naturals, `Env` has only the names above, and no user deployment has the name
of a bench deployment. In `Deploy`, `NoName` is not a name and ports are
numbers, those of the range not 0. In `Downloads`, pages and announcements are
the only waiters and distinct, and there are as many flights as calls. In
`RunnerWaits`, sizes are positive and `Env` and the logs have their types; in
`Hardware`, there is a box, and the dashboard is one of the callers; in
`Suites`, `None` is not a dataset; in `Comparison`, what a result reports is
numbers, as the types of `types.go` say (`OutcomeAssumption`).

## Not modelled

All modules of the plan this development began with are written. What is left:

- Job specifications, YAML and CSV, configuration, templates and routing are
  pure formatting or input, compared by unit tests.
- In the eval script, waiting for the endpoint, streaming of a request, the
  checksum of a reassembled dataset and lm-eval itself.
- Node and allocation statistics, and the GPU sample that `Stats` reads.
- Nomad itself is external and appears by the effects the code relies on.
- The parameters of a deployment are abstracted to its name (in `Deploy`, its
  name and port), so the reduced parameters `stopOthers` falls back to
  (`runner.go:229`) are not visible.
- The record that `Start` returns is serialised while `execute` changes it
  (`api_bench.go:99`): a data race that affects one answer to a client.
