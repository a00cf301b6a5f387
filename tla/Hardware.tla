------------------------------ MODULE Hardware ------------------------------
(***************************************************************************)
(* The GPU service (internal/hardware): the probe cache of hardware.go,    *)
(* the stats agent of stats.go, and the requests that use them             *)
(* (internal/server/api_hardware.go, api_stats.go, and the runner's        *)
(* GPUStats).  Requests run side by side; the service's mutex is released  *)
(* around every cluster call, so a step is one critical section or one     *)
(* call.  The GPUs of the box are changed, and the app is restarted.       *)
(***************************************************************************)
EXTENDS Integers, Sequences

CONSTANTS
  Caller,     \* requests that may run at once
  Dashboard,  \* the one of them that polls the GPU stats
  Boxes,      \* Boxes[e]: vendors of the GPUs in the box in its era e
  MaxFaults   \* bound: calls that fail, probes that fail, restarts

Vendor == {"nvidia", "amd", "intel", "other"}

ASSUME BoxesAssumption == Boxes \in Seq(Seq(Vendor)) /\ Boxes # <<>>
ASSUME FaultsAssumption == MaxFaults \in Nat
ASSUME DashboardAssumption == Dashboard \in Caller

VARIABLES
  (* Service, behind s.mu *)
  cache,     \* s.gpus, with the era it shows (0: never probed)
  fetched,   \* s.fetched: "never", "fresh" or "expired" (older than probeTTL)
  ensured,   \* s.agentEnsured: "never", or the agent registered last
  recent,    \* s.agentEnsuredAt is less than ensureAgentEvery ago
  (* requests *)
  req,       \* req[c]: where request c is, and its local variables
  (* Nomad and the box *)
  era,       \* which GPUs are in the box
  probe,     \* probe[c]: the job dispatched by c
  out,       \* out[c]: the era that job has seen, 0 if none
  agent,     \* the ams-gpu-stats job: "absent", or which agent it is
  (* observers, read by no action of the service *)
  since,     \* since[c]: the era at which c asked for a rescan
  overlap,   \* overlap[c]: another refresh has stored while c was there
  excused,   \* callers whose last purge failed, or who died in a restart
  faults     \* faults so far

serviceVars == <<cache, fetched, ensured, recent>>
nomadVars   == <<probe, out, agent>>
ghosts      == <<since, overlap, excused>>
vars        == <<serviceVars, req, era, nomadVars, ghosts, faults>>

-----------------------------------------------------------------------------
(* Data *)

Era == 1 .. Len(Boxes)
Agent == {"absent", "plain", "cdi"}

(* What a probe of era e prints, or the first n lines of that.             *)
Gpus(e, n) == [list |-> SubSeq(Boxes[e], 1, n), of |-> e]
NoGpus == [list |-> <<>>, of |-> 0]
Cached == {NoGpus} \union UNION {{Gpus(e, n) : n \in 0 .. Len(Boxes[e])} : e \in Era}

Deployable(v) == v \in {"nvidia", "amd", "intel"}
Occurs(v, list) == \E n \in 1 .. Len(list) : list[n] = v

(* The agent Stats wants: none, or one with or without NVIDIA's CDI.       *)
AgentFor(list) ==
  CASE Occurs("nvidia", list)                     -> "cdi"
    [] \E v \in {"amd", "intel"} : Occurs(v, list) -> "plain"
    [] OTHER                                      -> "absent"

(* A request: list (Entries), rescan (Refresh, then Entries) or stats.     *)
(* inner: its Refresh was called by Entries; ok: what that Refresh or the  *)
(* request returns; held: the list Entries copied under the lock.          *)
Want == {"list", "rescan", "stats"}
PC == {"idle", "check", "dispatch", "wait", "store", "purge", "reload",
       "agentCheck", "agentRegister", "agentStore"}
Request == [pc : PC, want : Want, inner : BOOLEAN, ok : BOOLEAN, held : Cached]
NoRequest == [pc |-> "idle", want |-> "list", inner |-> TRUE, ok |-> FALSE, held |-> NoGpus]

Fault == faults < MaxFaults /\ faults' = faults + 1
NoFault == UNCHANGED faults

Init ==
  /\ cache = NoGpus /\ fetched = "never" /\ ensured = "never" /\ recent = FALSE
  /\ req = [c \in Caller |-> NoRequest]
  /\ era = 1
  /\ probe = [c \in Caller |-> "absent"] /\ out = [c \in Caller |-> 0]
  /\ agent \in Agent
  /\ since = [c \in Caller |-> 1] /\ overlap = [c \in Caller |-> FALSE]
  /\ excused = {} /\ faults = 0

-----------------------------------------------------------------------------
(* Entries and Refresh *)

At(c, pc) == req[c].pc = pc

(* Mutant: a rescan is answered from the cache while that is fresh.        *)
BeginCached(c, want) ==
  /\ At(c, "idle")
  /\ c = Dashboard => want = "stats"
  /\ req' = [req EXCEPT ![c] = [NoRequest EXCEPT !.pc = "check", !.want = want]]
  /\ since' = [since EXCEPT ![c] = IF want = "rescan" THEN era ELSE 1]
  /\ overlap' = [overlap EXCEPT ![c] = FALSE]
  /\ NoFault
  /\ UNCHANGED <<serviceVars, era, nomadVars, excused>>

(* The dashboard polls the stats, the others ask for anything.             *)
Begin(c, want) ==
  /\ At(c, "idle")
  /\ c = Dashboard => want = "stats"
  /\ req' = [req EXCEPT ![c] =
       [NoRequest EXCEPT !.pc = IF want = "rescan" THEN "dispatch" ELSE "check",
                         !.want = want, !.inner = (want # "rescan")]]
  /\ since' = [since EXCEPT ![c] = IF want = "rescan" THEN era ELSE 1]
  /\ overlap' = [overlap EXCEPT ![c] = FALSE]
  /\ NoFault
  /\ UNCHANGED <<serviceVars, era, nomadVars, excused>>

(* The request is over; what a rescan has shown is kept to be looked at.   *)
Over(c, answer) ==
  req' = [req EXCEPT ![c] =
    IF @.want = "rescan" THEN [@ EXCEPT !.pc = "idle", !.ok = (answer # NoGpus), !.held = answer]
                         ELSE NoRequest]

(* Mutant: the agent is wanted for any GPUs, also for none.                *)
ReturnToAgent(c, list) ==
  IF req[c].want = "stats"
  THEN req' = [req EXCEPT ![c].pc = "agentCheck", ![c].held = list]
  ELSE Over(c, list)

(* Entries returns list: the answer, or the input of the rest of Stats.    *)
Return(c, list) ==
  IF req[c].want = "stats" /\ AgentFor(list.list) # "absent"
  THEN req' = [req EXCEPT ![c].pc = "agentCheck", ![c].held = list]
  ELSE Over(c, list)

ReturnError(c) == Over(c, NoGpus)

(* The first critical section of Entries. *)
Check(c) ==
  /\ At(c, "check")
  /\ IF fetched = "fresh"
     THEN Return(c, cache)
     ELSE req' = [req EXCEPT ![c].held = cache, ![c].inner = TRUE, ![c].pc = "dispatch"]
  /\ NoFault
  /\ UNCHANGED <<serviceVars, era, nomadVars, ghosts>>

(* Refresh has failed: a request that has a list in hand serves that.      *)
RefreshFails(c) ==
  IF req[c].inner /\ req[c].held.of # 0 THEN Return(c, req[c].held) ELSE ReturnError(c)

(* The probe job is registered, which changes nothing, and dispatched.     *)
Dispatch(c) ==
  /\ At(c, "dispatch")
  /\ \/ /\ probe' = [probe EXCEPT ![c] = "live"] /\ out' = [out EXCEPT ![c] = 0]
        /\ excused' = excused \ {c}
        /\ req' = [req EXCEPT ![c].pc = "wait"]
        /\ NoFault
     \/ Fault /\ RefreshFails(c) /\ UNCHANGED <<probe, out, excused>>
  /\ UNCHANGED <<serviceVars, era, agent, since, overlap>>

Awaited(c, pc, ok) == req' = [req EXCEPT ![c].pc = pc, ![c].ok = ok]

(* WaitForBatch: the job ends, or time is up, or the client has gone.      *)
Await(c) ==
  /\ At(c, "wait")
  /\ \/ probe[c] = "complete" /\ Awaited(c, "store", TRUE) /\ NoFault
     \/ probe[c] = "failed" /\ Awaited(c, "purge", FALSE) /\ NoFault
     \/ Fault /\ Awaited(c, "purge", FALSE)
  /\ UNCHANGED <<serviceVars, era, nomadVars, ghosts>>

(* Its output replaces the cache under the lock.  A read that fails after  *)
(* a part of the output, be it no whole line, counts as success; one with  *)
(* no output at all does not.                                              *)
Store(c) ==
  /\ At(c, "store")
  /\ \/ \E n \in 0 .. Len(Boxes[out[c]]) :
          /\ (n = Len(Boxes[out[c]]) /\ NoFault) \/ Fault
          /\ cache' = Gpus(out[c], n) /\ fetched' = "fresh"
          /\ overlap' = [d \in Caller |-> overlap[d] \/ (d # c /\ ~At(d, "idle"))]
          /\ Awaited(c, "purge", TRUE)
     \/ Fault /\ Awaited(c, "purge", FALSE) /\ UNCHANGED <<cache, fetched, overlap>>
  /\ UNCHANGED <<ensured, recent, era, nomadVars, since, excused>>

(* Mutant: a probe that did not succeed is not purged.                     *)
PurgeSucceeded(c) ==
  /\ At(c, "purge")
  /\ probe' = [probe EXCEPT ![c] = IF req[c].ok THEN "absent" ELSE @]
  /\ IF ~req[c].ok THEN RefreshFails(c)
     ELSE req' = [req EXCEPT ![c].pc = IF req[c].inner THEN "reload" ELSE "check"]
  /\ NoFault
  /\ UNCHANGED <<serviceVars, era, out, agent, ghosts>>

(* The deferred purge, and the return to Entries or to the handler, which  *)
(* goes on with Entries.                                                   *)
Purge(c) ==
  /\ At(c, "purge")
  /\ \/ /\ probe' = [probe EXCEPT ![c] = "absent"] /\ out' = [out EXCEPT ![c] = 0]
        /\ NoFault /\ UNCHANGED excused
     \/ Fault /\ excused' = excused \union {c} /\ UNCHANGED <<probe, out>>
  /\ IF ~req[c].ok THEN RefreshFails(c)
     ELSE req' = [req EXCEPT ![c].pc = IF req[c].inner THEN "reload" ELSE "check"]
  /\ UNCHANGED <<serviceVars, era, agent, since, overlap>>

(* Mutant: Entries puts back the list it copied at first.                  *)
ReloadSnapshot(c) ==
  /\ At(c, "reload")
  /\ Return(c, cache)
  /\ cache' = IF req[c].held = NoGpus THEN cache ELSE req[c].held
  /\ NoFault
  /\ UNCHANGED <<fetched, ensured, recent, era, nomadVars, ghosts>>

(* The last critical section of Entries. *)
Reload(c) ==
  /\ At(c, "reload")
  /\ Return(c, cache)
  /\ NoFault
  /\ UNCHANGED <<serviceVars, era, nomadVars, ghosts>>

-----------------------------------------------------------------------------
(* The rest of Stats: ensureAgent; reading the sample changes nothing.     *)

Needs(c) == AgentFor(req[c].held.list)

(* Mutant: what was never ensured is taken for ensured.                    *)
AgentCheckNil(c) ==
  /\ At(c, "agentCheck")
  /\ IF ensured = "never" \/ (ensured = Needs(c) /\ recent) THEN Over(c, req[c].held)
     ELSE req' = [req EXCEPT ![c].pc = "agentRegister"]
  /\ NoFault
  /\ UNCHANGED <<serviceVars, era, nomadVars, ghosts>>

AgentCheck(c) ==
  /\ At(c, "agentCheck")
  /\ IF ensured = Needs(c) /\ recent THEN Over(c, req[c].held)
     ELSE req' = [req EXCEPT ![c].pc = "agentRegister"]
  /\ NoFault
  /\ UNCHANGED <<serviceVars, era, nomadVars, ghosts>>

(* Registered with or without effect when the call returns an error.       *)
AgentRegister(c) ==
  /\ At(c, "agentRegister")
  /\ \/ /\ agent' = Needs(c)
        /\ req' = [req EXCEPT ![c].pc = "agentStore"]
        /\ NoFault
     \/ Fault /\ ReturnError(c) /\ (UNCHANGED agent \/ agent' = Needs(c))
  /\ UNCHANGED <<serviceVars, era, probe, out, ghosts>>

AgentStore(c) ==
  /\ At(c, "agentStore")
  /\ ensured' = Needs(c) /\ recent' = TRUE
  /\ Over(c, req[c].held)
  /\ NoFault
  /\ UNCHANGED <<cache, fetched, era, nomadVars, ghosts>>

Step(c) ==
  \/ Check(c) \/ Dispatch(c) \/ Await(c) \/ Store(c) \/ Purge(c) \/ Reload(c)
  \/ AgentCheck(c) \/ AgentRegister(c) \/ AgentStore(c)

-----------------------------------------------------------------------------
(* Time, the box, the probes, and restarts of the app *)

ExpireCache ==
  /\ fetched = "fresh"
  /\ fetched' = "expired"
  /\ UNCHANGED <<cache, ensured, recent, req, era, nomadVars, ghosts, faults>>

ExpireAgent ==
  /\ recent
  /\ recent' = FALSE
  /\ UNCHANGED <<cache, fetched, ensured, req, era, nomadVars, ghosts, faults>>

ChangeBox ==
  /\ era < Len(Boxes)
  /\ era' = era + 1
  /\ UNCHANGED <<serviceVars, req, nomadVars, ghosts, faults>>

(* The probe looks at the box that is there, and fails or not.             *)
ProbeEnds(c) ==
  /\ probe[c] = "live"
  /\ \/ /\ probe' = [probe EXCEPT ![c] = "complete"]
        /\ out' = [out EXCEPT ![c] = era]
        /\ NoFault
     \/ Fault /\ probe' = [probe EXCEPT ![c] = "failed"] /\ UNCHANGED out
  /\ UNCHANGED <<serviceVars, req, era, agent, ghosts>>

(* Service and requests are lost, the jobs are not. *)
Restart ==
  /\ Fault
  /\ cache' = NoGpus /\ fetched' = "never" /\ ensured' = "never" /\ recent' = FALSE
  /\ req' = [c \in Caller |-> NoRequest]
  /\ excused' = excused \union {c \in Caller : ~At(c, "idle")}
  /\ UNCHANGED <<era, nomadVars, since, overlap>>

Next ==
  \/ \E c \in Caller : Step(c) \/ ProbeEnds(c) \/ \E want \in Want : Begin(c, want)
  \/ ExpireCache \/ ExpireAgent \/ ChangeBox \/ Restart

Spec == Init /\ [][Next]_vars

(* Requests run and probes end; time passes; the dashboard goes on polling. *)
Fairness ==
  /\ \A c \in Caller : WF_vars(Step(c)) /\ WF_vars(ProbeEnds(c))
  /\ WF_vars(ExpireCache) /\ WF_vars(ExpireAgent)
  /\ WF_vars(Begin(Dashboard, "stats"))

FairSpec == Spec /\ Fairness

-----------------------------------------------------------------------------
(* Properties *)

(* Every variable has its type. *)
TypeOK ==
  /\ cache \in Cached
  /\ fetched \in {"never", "fresh", "expired"}
  /\ ensured \in {"never", "plain", "cdi"} /\ recent \in BOOLEAN
  /\ req \in [Caller -> Request]
  /\ era \in Era
  /\ probe \in [Caller -> {"absent", "live", "complete", "failed"}]
  /\ out \in [Caller -> Era \union {0}]
  /\ agent \in Agent
  /\ since \in [Caller -> Era] /\ overlap \in [Caller -> BOOLEAN]
  /\ excused \in SUBSET Caller
  /\ faults \in 0 .. MaxFaults

(* The cache goes back to GPUs that were in the box earlier only by a      *)
(* refresh during which another one stored: nothing else lets an older     *)
(* probe replace a newer one, no timeout, failure or partial read.         *)
OlderOnlyByOverlap ==
  [][cache'.of < cache.of /\ fetched' # "never" =>
       \E c \in Caller : At(c, "store") /\ ~At(c, "store")' /\ overlap[c]]_vars

(* A rescan that succeeds shows the GPUs that were in the box when it was  *)
(* asked for, or later ones, unless another refresh stored in the meantime. *)
RescanShowsCurrent ==
  \A c \in Caller : At(c, "idle") /\ req[c].want = "rescan" /\ req[c].ok =>
                      req[c].held.of >= since[c] \/ overlap[c]

(* A dispatched probe is purged however its refresh ends, unless the purge *)
(* failed or the app was restarted meanwhile.                              *)
ProbesArePurged ==
  \A c \in Caller \ excused :
    probe[c] # "absent" => req[c].pc \in {"wait", "store", "purge"}

(* "starting the agent if needed" (Stats): while a dashboard polls, the    *)
(* agent of the GPUs in the box is the one that runs in the end, although  *)
(* two requests may register different ones and note them in the other     *)
(* order, and a probe may be read in part.                                 *)
AgentHeals ==
  <>[](AgentFor(Boxes[era]) \in {agent, "absent"})
=============================================================================
