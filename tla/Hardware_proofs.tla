-------------------------- MODULE Hardware_proofs --------------------------
(***************************************************************************)
(* Proofs about Hardware, for any callers, boxes and number of faults.     *)
(* Types come first; the probes that are purged and the era the cache      *)
(* shows are invariants on top of them.                                    *)
(***************************************************************************)
EXTENDS Hardware, TLAPS

(* A request goes on to the agent only for GPUs that need one, and reads   *)
(* the output of a probe only when that has ended.                         *)
Proceeds ==
  \A c \in Caller :
    /\ req[c].pc \in {"agentCheck", "agentRegister", "agentStore"} =>
         req[c].want = "stats" /\ AgentFor(req[c].held.list) # "absent"
    /\ probe[c] = "complete" => out[c] # 0
    /\ req[c].pc = "store" => probe[c] = "complete"

TInv == TypeOK /\ Proceeds

-----------------------------------------------------------------------------
(* What a step does to the requests.                                       *)

(* The lists that Entries handles are those of the cache.                  *)
LEMMA CachedLists ==
  /\ NoGpus \in Cached
  /\ \A e \in Era : \A n \in 0 .. Len(Boxes[e]) : Gpus(e, n) \in Cached
  /\ \A g \in Cached : g.of \in Era \union {0}
  BY DEF Cached, NoGpus, Gpus

(* Outcomes of a return: to the agent, or over.                            *)
Returned(c, list) ==
  /\ req' \in [Caller -> Request]
  /\ \A d \in Caller \ {c} : req'[d] = req[d]
  /\ \/ /\ req'[c].pc = "agentCheck" /\ req'[c].want = "stats"
        /\ AgentFor(req'[c].held.list) # "absent"
     \/ /\ req'[c].pc = "idle"
        /\ req'[c].want = "rescan" =>
             req[c].want = "rescan" /\ req'[c].held = list /\ req'[c].ok = (list # NoGpus)

LEMMA OverIsReturn ==
  ASSUME req \in [Caller -> Request], NEW c \in Caller, NEW list \in Cached, Over(c, list)
  PROVE  Returned(c, list)
  BY CachedLists DEF Over, Returned, Request, NoRequest, PC, Want

LEMMA ReturnReturns ==
  ASSUME req \in [Caller -> Request], NEW c \in Caller, NEW list \in Cached, Return(c, list)
  PROVE  Returned(c, list)
<1>1. CASE req[c].want = "stats" /\ AgentFor(list.list) # "absent"
  BY <1>1 DEF Return, Returned, Request, PC, Want
<1>2. CASE ~ (req[c].want = "stats" /\ AgentFor(list.list) # "absent")
  BY <1>2, OverIsReturn DEF Return
<1> QED
  BY <1>1, <1>2

(* A refresh that fails returns the list in hand, or nothing.              *)
LEMMA FailReturns ==
  ASSUME req \in [Caller -> Request], NEW c \in Caller, RefreshFails(c)
  PROVE  \/ req[c].inner /\ Returned(c, req[c].held)
         \/ Returned(c, NoGpus)
<1>1. req[c].held \in Cached /\ NoGpus \in Cached
  BY CachedLists DEF Request
<1> QED
  BY <1>1, ReturnReturns, OverIsReturn DEF RefreshFails, ReturnError

LEMMA NeedsAgent ==
  ASSUME NEW list PROVE AgentFor(list) \in Agent
  BY DEF AgentFor, Agent

-----------------------------------------------------------------------------
(* Types.                                                                  *)

LEMMA TInit == Init => TInv
<1> SUFFICES ASSUME Init PROVE TInv
  OBVIOUS
<1>1. 1 \in Era
  BY BoxesAssumption DEF Era
<1>2. NoRequest \in Request
  BY CachedLists DEF NoRequest, Request, PC, Want
<1>3. Proceeds
  BY DEF Init, Proceeds, NoRequest
<1>4. /\ cache \in Cached /\ req \in [Caller -> Request] /\ era \in Era
      /\ since \in [Caller -> Era] /\ out \in [Caller -> Era \union {0}]
  BY <1>1, <1>2, CachedLists DEF Init
<1>5. /\ fetched = "never" /\ ensured = "never" /\ recent = FALSE
      /\ probe \in [Caller -> {"absent", "live", "complete", "failed"}]
      /\ agent \in Agent /\ overlap \in [Caller -> BOOLEAN]
      /\ excused \in SUBSET Caller /\ faults \in 0 .. MaxFaults
  BY FaultsAssumption DEF Init
<1> QED
  BY <1>3, <1>4, <1>5 DEF TInv, TypeOK

(* A step at which request c returns keeps what Proceeds says of requests. *)
LEMMA ReturnProceeds ==
  ASSUME Proceeds, NEW c \in Caller, NEW list, Returned(c, list),
         \A d \in Caller \ {c} : probe'[d] = probe[d] /\ out'[d] = out[d],
         probe'[c] = "complete" => out'[c] # 0
  PROVE  Proceeds'
  BY DEF Proceeds, Returned

LEMMA TNext == TInv /\ [Next]_vars => TInv'
<1> SUFFICES ASSUME TInv, [Next]_vars PROVE TInv'
  OBVIOUS
<1>0. TypeOK /\ Proceeds /\ req \in [Caller -> Request] /\ cache \in Cached
  BY DEF TInv, TypeOK
<1>f. (Fault \/ NoFault) => faults' \in 0 .. MaxFaults
  BY <1>0, FaultsAssumption DEF Fault, NoFault, TypeOK
<1>1. ASSUME NEW c \in Caller, NEW want \in Want, Begin(c, want) PROVE TInv'
  <2>1. [NoRequest EXCEPT !.pc = IF want = "rescan" THEN "dispatch" ELSE "check",
                          !.want = want, !.inner = (want # "rescan")] \in Request
    BY CachedLists DEF NoRequest, Request, PC, Want
  <2>2. 1 \in Era /\ era \in Era
    BY <1>0, BoxesAssumption DEF Era, TypeOK
  <2>3. req' \in [Caller -> Request]
    BY <1>0, <1>1, <2>1 DEF Begin
  <2>4. TypeOK'
    BY <1>0, <1>1, <1>f, <2>2, <2>3 DEF Begin, TypeOK, serviceVars, nomadVars
  <2>5. Proceeds'
    BY <1>0, <1>1 DEF Begin, Proceeds, nomadVars, NoRequest
  <2> QED
    BY <2>4, <2>5 DEF TInv
<1>2. ASSUME NEW c \in Caller, Check(c) PROVE TInv'
  <2>1. CASE fetched = "fresh"
    <3>1. Returned(c, cache)
      BY <1>0, <1>2, <2>1, ReturnReturns DEF Check
    <3>2. Proceeds'
      BY <1>0, <1>2, <3>1, ReturnProceeds DEF Check, nomadVars, Proceeds
    <3> QED
      BY <1>0, <1>2, <1>f, <3>1, <3>2
         DEF Check, Returned, TInv, TypeOK, serviceVars, nomadVars, ghosts
  <2>2. CASE fetched # "fresh"
    <3>1. req' \in [Caller -> Request]
      BY <1>0, <1>2, <2>2 DEF Check, Request, PC
    <3>2. Proceeds'
      BY <1>0, <1>2, <2>2 DEF Check, Proceeds, nomadVars, Request
    <3> QED
      BY <1>0, <1>2, <1>f, <3>1, <3>2 DEF Check, TInv, TypeOK, serviceVars, nomadVars, ghosts
  <2> QED
    BY <2>1, <2>2
<1>3. ASSUME NEW c \in Caller, Dispatch(c) PROVE TInv'
  <2>1. CASE probe' = [probe EXCEPT ![c] = "live"] /\ out' = [out EXCEPT ![c] = 0]
             /\ excused' = excused \ {c} /\ req' = [req EXCEPT ![c].pc = "wait"] /\ NoFault
    <3>1. req' \in [Caller -> Request]
      BY <1>0, <2>1 DEF Request, PC
    <3>2. Proceeds'
      BY <1>0, <2>1 DEF Proceeds, Request, TypeOK
    <3> QED
      BY <1>0, <1>3, <1>f, <2>1, <3>1, <3>2 DEF Dispatch, TInv, TypeOK, serviceVars
  <2>2. CASE Fault /\ RefreshFails(c) /\ UNCHANGED <<probe, out, excused>>
    <3>1. Returned(c, req[c].held) \/ Returned(c, NoGpus)
      BY <1>0, <2>2, FailReturns
    <3>2. Proceeds'
      BY <1>0, <2>2, <3>1, ReturnProceeds DEF Proceeds
    <3> QED
      BY <1>0, <1>3, <1>f, <2>2, <3>1, <3>2 DEF Dispatch, Returned, TInv, TypeOK, serviceVars
  <2> QED
    BY <1>3, <2>1, <2>2 DEF Dispatch
<1>4. ASSUME NEW c \in Caller, Await(c) PROVE TInv'
  <2>1. req' \in [Caller -> Request]
    BY <1>0, <1>4 DEF Await, Awaited, Request, PC
  <2>2. Proceeds'
    BY <1>0, <1>4 DEF Await, Awaited, Proceeds, Request, nomadVars
  <2> QED
    BY <1>0, <1>4, <1>f, <2>1, <2>2 DEF Await, TInv, TypeOK, serviceVars, nomadVars, ghosts
<1>5. ASSUME NEW c \in Caller, Store(c) PROVE TInv'
  <2>1. req' \in [Caller -> Request]
    BY <1>0, <1>5 DEF Store, Awaited, Request, PC
  <2>2. Proceeds'
    BY <1>0, <1>5 DEF Store, Awaited, Proceeds, Request, nomadVars
  <2>3. out[c] \in Era
    BY <1>0, <1>5 DEF Store, At, Proceeds, TypeOK
  <2>4. cache' \in Cached /\ fetched' \in {"never", "fresh", "expired"}
        /\ overlap' \in [Caller -> BOOLEAN]
    BY <1>0, <1>5, <2>3, CachedLists DEF Store, TypeOK
  <2> QED
    BY <1>0, <1>5, <1>f, <2>1, <2>2, <2>4 DEF Store, TInv, TypeOK, nomadVars
<1>6. ASSUME NEW c \in Caller, Purge(c) PROVE TInv'
  <2>1. /\ probe' \in [Caller -> {"absent", "live", "complete", "failed"}]
        /\ out' \in [Caller -> Era \union {0}] /\ excused' \in SUBSET Caller
        /\ faults' \in 0 .. MaxFaults
    BY <1>0, <1>6, <1>f DEF Purge, TypeOK
  <2>2. /\ \A d \in Caller \ {c} : probe'[d] = probe[d] /\ out'[d] = out[d]
        /\ probe'[c] = "complete" => out'[c] # 0
    BY <1>0, <1>6 DEF Purge, TypeOK, Proceeds
  <2>3. CASE ~req[c].ok
    <3>1. Returned(c, req[c].held) \/ Returned(c, NoGpus)
      BY <1>0, <1>6, <2>3, FailReturns DEF Purge
    <3>2. Proceeds'
      BY <1>0, <2>2, <3>1, ReturnProceeds
    <3> QED
      BY <1>0, <1>6, <2>1, <3>1, <3>2 DEF Purge, Returned, TInv, TypeOK, serviceVars
  <2>4. CASE req[c].ok
    <3>1. req' = [req EXCEPT ![c].pc = IF req[c].inner THEN "reload" ELSE "check"]
      BY <1>6, <2>4 DEF Purge
    <3>2. req' \in [Caller -> Request]
      BY <1>0, <3>1 DEF Request, PC
    <3>3. Proceeds'
      BY <1>0, <2>2, <3>1 DEF Proceeds, Request
    <3> QED
      BY <1>0, <1>6, <2>1, <3>2, <3>3 DEF Purge, TInv, TypeOK, serviceVars
  <2> QED
    BY <2>3, <2>4
<1>7. ASSUME NEW c \in Caller, Reload(c) PROVE TInv'
  <2>1. Returned(c, cache)
    BY <1>0, <1>7, ReturnReturns DEF Reload
  <2>2. Proceeds'
    BY <1>0, <1>7, <2>1, ReturnProceeds DEF Reload, nomadVars, Proceeds
  <2> QED
    BY <1>0, <1>7, <1>f, <2>1, <2>2
       DEF Reload, Returned, TInv, TypeOK, serviceVars, nomadVars, ghosts
<1>8. ASSUME NEW c \in Caller, AgentCheck(c) \/ AgentRegister(c) \/ AgentStore(c) PROVE TInv'
  <2>1. Needs(c) \in {"plain", "cdi"} /\ req[c].held \in Cached
    BY <1>0, <1>8, NeedsAgent
       DEF AgentCheck, AgentRegister, AgentStore, At, Needs, Proceeds, Request, Agent
  <2>2. UNCHANGED <<probe, out>>
    BY <1>8 DEF AgentCheck, AgentRegister, AgentStore, nomadVars
  <2>3. req' \in [Caller -> Request] /\ Proceeds'
    <3>1. CASE req' = [req EXCEPT ![c].pc = "agentRegister"] /\ At(c, "agentCheck")
      BY <1>0, <2>2, <3>1 DEF Request, PC, Proceeds, At
    <3>2. CASE req' = [req EXCEPT ![c].pc = "agentStore"] /\ At(c, "agentRegister")
      BY <1>0, <2>2, <3>2 DEF Request, PC, Proceeds, At
    <3>3. CASE Over(c, req[c].held) \/ Over(c, NoGpus)
      <4>1. Returned(c, req[c].held) \/ Returned(c, NoGpus)
        BY <1>0, <2>1, <3>3, OverIsReturn, CachedLists
      <4> QED
        BY <1>0, <2>2, <4>1, ReturnProceeds DEF Proceeds, Returned
    <3> QED
      BY <1>8, <3>1, <3>2, <3>3 DEF AgentCheck, AgentRegister, AgentStore, ReturnError
  <2>4. /\ ensured' \in {"never", "plain", "cdi"} /\ recent' \in BOOLEAN /\ agent' \in Agent
        /\ faults' \in 0 .. MaxFaults
    BY <1>0, <1>8, <1>f, <2>1
       DEF AgentCheck, AgentRegister, AgentStore, TypeOK, Agent, serviceVars, nomadVars
  <2> QED
    BY <1>0, <1>8, <2>2, <2>3, <2>4
       DEF AgentCheck, AgentRegister, AgentStore, TInv, TypeOK, serviceVars, nomadVars, ghosts
<1>9. CASE ExpireCache \/ ExpireAgent
  BY <1>0, <1>9 DEF ExpireCache, ExpireAgent, TInv, TypeOK, Proceeds, nomadVars, ghosts
<1>10. CASE ChangeBox
  <2>1. era + 1 \in Era
    BY <1>0, <1>10, BoxesAssumption DEF ChangeBox, Era, TypeOK
  <2> QED
    BY <1>0, <1>10, <2>1 DEF ChangeBox, TInv, TypeOK, Proceeds, serviceVars, nomadVars, ghosts
<1>11. ASSUME NEW c \in Caller, ProbeEnds(c) PROVE TInv'
  <2>1. era # 0
    BY <1>0 DEF TypeOK, Era
  <2> QED
    BY <1>0, <1>11, <1>f, <2>1 DEF ProbeEnds, TInv, TypeOK, Proceeds, serviceVars, ghosts
<1>12. CASE Restart
  <2>1. NoRequest \in Request
    BY CachedLists DEF NoRequest, Request, PC, Want
  <2> QED
    BY <1>0, <1>12, <1>f, <2>1, CachedLists
       DEF Restart, TInv, TypeOK, Proceeds, NoRequest, nomadVars
<1>13. CASE UNCHANGED vars
  BY <1>0, <1>13 DEF vars, TInv, TypeOK, Proceeds, serviceVars, nomadVars, ghosts
<1> QED
  BY <1>1, <1>2, <1>3, <1>4, <1>5, <1>6, <1>7, <1>8, <1>9, <1>10, <1>11, <1>12, <1>13
     DEF Next, Step

(* Types hold of every behaviour; in particular no agent is registered for *)
(* GPUs that need none.                                                    *)
THEOREM TypeCorrect == Spec => []TypeOK
<1>1. Spec => []TInv
  BY TInit, TNext, PTL DEF Spec
<1>2. TInv => TypeOK
  BY DEF TInv
<1> QED
  BY <1>1, <1>2, PTL

-----------------------------------------------------------------------------
(* The probes.                                                             *)

(* A probe is purged, or somebody is on the way to purging it, or a fault  *)
(* has kept them from that.                                                *)
LEMMA PurgedNext == TypeOK /\ ProbesArePurged /\ [Next]_vars => ProbesArePurged'
<1> SUFFICES ASSUME TypeOK, ProbesArePurged, [Next]_vars PROVE ProbesArePurged'
  OBVIOUS
<1> USE DEF ProbesArePurged
<1>0. req \in [Caller -> Request] /\ cache \in Cached
      /\ probe \in [Caller -> {"absent", "live", "complete", "failed"}]
  BY DEF TypeOK
<1>1. ASSUME NEW c \in Caller, NEW want \in Want, Begin(c, want) PROVE ProbesArePurged'
  BY <1>0, <1>1 DEF Begin, At, nomadVars
<1>2. ASSUME NEW c \in Caller, Check(c) \/ Reload(c) PROVE ProbesArePurged'
  <2>1. probe[c] = "absent" \/ c \in excused
    BY <1>2 DEF Check, Reload, At
  <2>2. \A d \in Caller \ {c} : req'[d] = req[d]
    BY <1>0, <1>2, ReturnReturns DEF Check, Reload, Returned
  <2> QED
    BY <1>2, <2>1, <2>2 DEF Check, Reload, nomadVars, ghosts
<1>3. ASSUME NEW c \in Caller, Dispatch(c) PROVE ProbesArePurged'
  <2>1. CASE probe' = [probe EXCEPT ![c] = "live"] /\ excused' = excused \ {c}
             /\ req' = [req EXCEPT ![c].pc = "wait"]
    BY <1>0, <2>1 DEF Request
  <2>2. CASE RefreshFails(c) /\ UNCHANGED <<probe, out, excused>>
    <3>1. probe[c] = "absent" \/ c \in excused
      BY <1>3 DEF Dispatch, At
    <3>2. \A d \in Caller \ {c} : req'[d] = req[d]
      BY <1>0, <2>2, FailReturns DEF Returned
    <3> QED
      BY <2>2, <3>1, <3>2
  <2> QED
    BY <1>3, <2>1, <2>2 DEF Dispatch
<1>4. ASSUME NEW c \in Caller, Await(c) \/ Store(c) PROVE ProbesArePurged'
  BY <1>0, <1>4 DEF Await, Store, Awaited, Request, nomadVars, ghosts
<1>5. ASSUME NEW c \in Caller, Purge(c) PROVE ProbesArePurged'
  <2>1. probe'[c] = "absent" \/ c \in excused'
    BY <1>0, <1>5 DEF Purge
  <2>2. \A d \in Caller \ {c} : req'[d] = req[d]
    BY <1>0, <1>5, FailReturns DEF Purge, Returned
  <2>3. \A d \in Caller \ {c} : probe'[d] = probe[d] /\ (d \in excused => d \in excused')
    BY <1>0, <1>5 DEF Purge
  <2> QED
    BY <2>1, <2>2, <2>3
<1>6. ASSUME NEW c \in Caller, AgentCheck(c) \/ AgentRegister(c) \/ AgentStore(c)
      PROVE  ProbesArePurged'
  <2>1. probe[c] = "absent" \/ c \in excused
    BY <1>6 DEF AgentCheck, AgentRegister, AgentStore, At
  <2>2. \A d \in Caller \ {c} : req'[d] = req[d]
    BY <1>0, <1>6 DEF AgentCheck, AgentRegister, AgentStore, Over, ReturnError
  <2> QED
    BY <1>6, <2>1, <2>2 DEF AgentCheck, AgentRegister, AgentStore, nomadVars, ghosts
<1>7. CASE ExpireCache \/ ExpireAgent \/ ChangeBox
  BY <1>7 DEF ExpireCache, ExpireAgent, ChangeBox, nomadVars, ghosts
<1>8. ASSUME NEW c \in Caller, ProbeEnds(c) PROVE ProbesArePurged'
  BY <1>0, <1>8 DEF ProbeEnds, ghosts
<1>9. CASE Restart
  BY <1>0, <1>9 DEF Restart, At, nomadVars
<1>10. CASE UNCHANGED vars
  BY <1>10 DEF vars, nomadVars, ghosts
<1> QED
  BY <1>1, <1>2, <1>3, <1>4, <1>5, <1>6, <1>7, <1>8, <1>9, <1>10 DEF Next, Step

(* However a refresh ends, its probe is purged, unless the purge itself    *)
(* failed or the app was restarted meanwhile.                              *)
THEOREM NoProbeIsLeft == Spec => []ProbesArePurged
<1>1. Init => ProbesArePurged
  BY DEF Init, ProbesArePurged
<1> QED
  BY <1>1, TypeCorrect, PurgedNext, PTL DEF Spec

-----------------------------------------------------------------------------
(* The era the cache shows.                                                *)

(* Unless another refresh stored while c was there: a probe that c awaits  *)
(* or reads is not older than the cache; neither is that, nor what a       *)
(* rescan holds or the cache shows it after its refresh, older than the    *)
(* box was when the rescan was asked for.                                  *)
Newer(c) ==
  overlap[c] \/
    /\ req[c].pc \in {"wait", "store"} /\ out[c] # 0 => out[c] >= cache.of
    /\ req[c].want = "rescan" =>
         /\ req[c].pc \in {"wait", "store"} /\ out[c] # 0 => out[c] >= since[c]
         /\ req[c].pc \in {"check", "reload"} => cache.of >= since[c]
         /\ req[c].pc = "purge" /\ req[c].ok => cache.of >= since[c]
         /\ req[c].pc \in {"dispatch", "wait", "store", "purge"} /\ req[c].inner =>
              req[c].held.of >= since[c]
         /\ req[c].pc = "idle" /\ req[c].ok => req[c].held.of >= since[c]

Eras ==
  /\ cache.of <= era
  /\ \A c \in Caller : since[c] <= era /\ out[c] <= era /\ Newer(c)

(* Initially nothing was probed.                                           *)
LEMMA ErasInit == Init => Eras
  BY DEF Init, Eras, Newer, NoRequest, NoGpus

(* What a return of request c means for it.                                *)
LEMMA ReturnNewer ==
  ASSUME TypeOK, NEW c \in Caller, NEW list \in Cached, Returned(c, list),
         req[c].want = "rescan" /\ ~overlap[c] => list.of >= since[c] \/ list = NoGpus,
         UNCHANGED <<since, overlap>>
  PROVE  Newer(c)'
  BY DEF Returned, Newer, TypeOK

(* What a step that does not concern request d means for it.               *)
LEMMA OtherNewer ==
  ASSUME NEW d \in Caller, Newer(d), req'[d] = req[d], since'[d] = since[d],
         \/ overlap'[d]
         \/ overlap'[d] = overlap[d] /\ cache' = cache /\ out'[d] = out[d]
  PROVE  Newer(d)'
  BY DEF Newer

(* Every step keeps that.  Only Store changes the cache, and tells all the *)
(* others that are there; a probe sees the box as it is when it ends.      *)
LEMMA ErasNext == TypeOK /\ Proceeds /\ Eras /\ [Next]_vars => Eras'
<1> SUFFICES ASSUME TypeOK, Proceeds, Eras, [Next]_vars PROVE Eras'
  OBVIOUS
<1>0. /\ req \in [Caller -> Request] /\ cache \in Cached /\ era \in Nat
      /\ since \in [Caller -> Nat] /\ out \in [Caller -> Nat]
      /\ overlap \in [Caller -> BOOLEAN]
      /\ cache.of \in Nat /\ NoGpus \in Cached
      /\ \A c \in Caller : req[c].held \in Cached /\ req[c].held.of \in Nat
  BY CachedLists DEF TypeOK, Era, Request
<1>1. ASSUME NEW c \in Caller, NEW want \in Want, Begin(c, want) PROVE Eras'
  <2>1. since'[c] \in {era, 1} /\ 1 <= era
    BY <1>0, <1>1 DEF Begin, TypeOK, Era
  <2>2. Newer(c)'
    BY <1>0, <1>1 DEF Begin, Newer, NoRequest, nomadVars
  <2>3. ASSUME NEW d \in Caller \ {c} PROVE Newer(d)'
    BY <1>0, <1>1, OtherNewer DEF Begin, Eras, serviceVars, nomadVars
  <2> QED
    BY <1>0, <1>1, <2>1, <2>2, <2>3 DEF Begin, Eras, serviceVars, nomadVars
<1>2. ASSUME NEW c \in Caller, Check(c) PROVE Eras'
  <2>1. Newer(c)'
    <3>1. CASE fetched = "fresh"
      <4>1. Returned(c, cache)
        BY <1>0, <1>2, <3>1, ReturnReturns DEF Check
      <4>2. req[c].want = "rescan" /\ ~overlap[c] => cache.of >= since[c]
        BY <1>2 DEF Check, At, Eras, Newer
      <4> QED
        BY <1>0, <1>2, <4>1, <4>2, ReturnNewer DEF Check, ghosts
    <3>2. CASE fetched # "fresh"
      BY <1>0, <1>2, <3>2 DEF Check, At, Eras, Newer, Request, serviceVars, nomadVars, ghosts
    <3> QED
      BY <3>1, <3>2
  <2>2. \A d \in Caller \ {c} : req'[d] = req[d]
    BY <1>0, <1>2, ReturnReturns DEF Check, Returned
  <2>3. ASSUME NEW d \in Caller \ {c} PROVE Newer(d)'
    BY <1>0, <1>2, <2>2, OtherNewer DEF Check, Eras, serviceVars, nomadVars, ghosts
  <2> QED
    BY <1>0, <1>2, <2>1, <2>3 DEF Check, Eras, serviceVars, nomadVars, ghosts
<1>3. ASSUME NEW c \in Caller, RefreshFails(c), UNCHANGED <<since, overlap>>,
             req[c].pc \in {"dispatch", "purge"}
      PROVE  Newer(c)'
  <2>1. CASE req[c].inner /\ Returned(c, req[c].held)
    <3>1. req[c].want = "rescan" /\ ~overlap[c] => req[c].held.of >= since[c]
      BY <1>3, <2>1 DEF Eras, Newer
    <3> QED
      BY <1>0, <1>3, <2>1, <3>1, ReturnNewer
  <2>2. CASE Returned(c, NoGpus)
    BY <1>0, <1>3, <2>2, ReturnNewer
  <2> QED
    BY <1>0, <1>3, <2>1, <2>2, FailReturns
<1>4. ASSUME NEW c \in Caller, Dispatch(c) PROVE Eras'
  <2>1. CASE out' = [out EXCEPT ![c] = 0] /\ req' = [req EXCEPT ![c].pc = "wait"]
    <3>1. Newer(c)'
      BY <1>0, <1>4, <2>1 DEF Dispatch, At, Eras, Newer, Request, serviceVars
    <3>2. ASSUME NEW d \in Caller \ {c} PROVE Newer(d)'
      BY <1>0, <1>4, <2>1, OtherNewer DEF Dispatch, Eras, serviceVars
    <3> QED
      BY <1>0, <1>4, <2>1, <3>1, <3>2 DEF Dispatch, Eras, serviceVars
  <2>2. CASE RefreshFails(c) /\ UNCHANGED <<probe, out, excused>>
    <3>1. Newer(c)'
      BY <1>3, <1>4, <2>2 DEF Dispatch, At
    <3>2. \A d \in Caller \ {c} : req'[d] = req[d]
      BY <1>0, <2>2, FailReturns DEF Returned
    <3>3. ASSUME NEW d \in Caller \ {c} PROVE Newer(d)'
      BY <1>0, <1>4, <2>2, <3>2, OtherNewer DEF Dispatch, Eras, serviceVars
    <3> QED
      BY <1>0, <1>4, <2>2, <3>1, <3>3 DEF Dispatch, Eras, serviceVars
  <2> QED
    BY <1>4, <2>1, <2>2 DEF Dispatch
<1>5. ASSUME NEW c \in Caller, Await(c) PROVE Eras'
  <2>1. Newer(c)'
    BY <1>0, <1>5 DEF Await, Awaited, At, Eras, Newer, Request, serviceVars, nomadVars, ghosts
  <2>2. ASSUME NEW d \in Caller \ {c} PROVE Newer(d)'
    BY <1>0, <1>5, OtherNewer DEF Await, Awaited, Eras, serviceVars, nomadVars, ghosts
  <2> QED
    BY <1>0, <1>5, <2>1, <2>2 DEF Await, Eras, serviceVars, nomadVars, ghosts
<1>6. ASSUME NEW c \in Caller, Store(c) PROVE Eras'
  <2>1. out[c] # 0 /\ out[c] <= era
    BY <1>6 DEF Store, At, Proceeds, Eras
  <2>2. CASE UNCHANGED <<cache, fetched, overlap>> /\ Awaited(c, "purge", FALSE)
    <3>1. Newer(c)'
      BY <1>0, <1>6, <2>2 DEF Store, Awaited, At, Eras, Newer, Request, nomadVars
    <3>2. ASSUME NEW d \in Caller \ {c} PROVE Newer(d)'
      BY <1>0, <1>6, <2>2, OtherNewer DEF Store, Awaited, Eras, nomadVars
    <3> QED
      BY <1>0, <1>6, <2>2, <3>1, <3>2 DEF Store, Eras, nomadVars
  <2>3. CASE /\ cache'.of = out[c] /\ Awaited(c, "purge", TRUE)
             /\ overlap' = [d \in Caller |-> overlap[d] \/ (d # c /\ ~At(d, "idle"))]
    <3>1. Newer(c)'
      BY <1>0, <1>6, <2>1, <2>3 DEF Store, Awaited, At, Eras, Newer, Request, nomadVars
    <3>2. ASSUME NEW d \in Caller \ {c} PROVE Newer(d)'
      <4>1. CASE overlap'[d]
        BY <4>1 DEF Newer
      <4>2. CASE ~overlap'[d]
        <5>1. req'[d] = req[d] /\ req[d].pc = "idle" /\ ~overlap[d]
          BY <1>0, <2>3, <4>2 DEF Awaited, At
        <5> QED
          BY <1>0, <1>6, <5>1 DEF Store, Eras, Newer
      <4> QED
        BY <4>1, <4>2
    <3> QED
      BY <1>0, <1>6, <2>1, <2>3, <3>1, <3>2 DEF Store, Eras, nomadVars
  <2>4. \A n : Gpus(out[c], n).of = out[c]
    BY DEF Gpus
  <2> QED
    BY <1>6, <2>2, <2>3, <2>4 DEF Store
<1>7. ASSUME NEW c \in Caller, Purge(c) PROVE Eras'
  <2>1. /\ UNCHANGED <<cache, since, overlap, era>>
        /\ \A d \in Caller : out'[d] \in {out[d], 0}
        /\ \A d \in Caller \ {c} : out'[d] = out[d]
    BY <1>0, <1>7 DEF Purge, serviceVars
  <2>2. Newer(c)'
    <3>1. CASE ~req[c].ok
      BY <1>3, <1>7, <2>1, <3>1 DEF Purge, At
    <3>2. CASE req[c].ok
      BY <1>0, <1>7, <2>1, <3>2 DEF Purge, At, Eras, Newer, Request
    <3> QED
      BY <3>1, <3>2
  <2>3. \A d \in Caller \ {c} : req'[d] = req[d]
    BY <1>0, <1>7, FailReturns DEF Purge, Returned
  <2>4. ASSUME NEW d \in Caller \ {c} PROVE Newer(d)'
    BY <1>0, <2>1, <2>3, OtherNewer DEF Eras
  <2> QED
    BY <1>0, <2>1, <2>2, <2>4 DEF Eras
<1>8. ASSUME NEW c \in Caller, Reload(c) PROVE Eras'
  <2>1. Returned(c, cache)
    BY <1>0, <1>8, ReturnReturns DEF Reload
  <2>2. req[c].want = "rescan" /\ ~overlap[c] => cache.of >= since[c]
    BY <1>8 DEF Reload, At, Eras, Newer
  <2>3. Newer(c)'
    BY <1>0, <1>8, <2>1, <2>2, ReturnNewer DEF Reload, ghosts
  <2>4. ASSUME NEW d \in Caller \ {c} PROVE Newer(d)'
    BY <1>0, <1>8, <2>1, OtherNewer DEF Reload, Returned, Eras, serviceVars, nomadVars, ghosts
  <2> QED
    BY <1>0, <1>8, <2>3, <2>4 DEF Reload, Eras, serviceVars, nomadVars, ghosts
<1>9. ASSUME NEW c \in Caller, AgentCheck(c) \/ AgentRegister(c) \/ AgentStore(c) PROVE Eras'
  <2>1. UNCHANGED <<cache, since, overlap, era, out>>
    BY <1>9 DEF AgentCheck, AgentRegister, AgentStore, serviceVars, nomadVars, ghosts
  <2>2. req[c].want # "rescan" => Newer(c)'
    BY <1>0, <1>9, <2>1 DEF AgentCheck, AgentRegister, AgentStore, Over, ReturnError, Newer,
       Request, NoRequest
  <2>3. req[c].want = "rescan" => Newer(c)'
    BY <1>9 DEF AgentCheck, AgentRegister, AgentStore, At, Proceeds
  <2>4. ASSUME NEW d \in Caller \ {c} PROVE Newer(d)'
    BY <1>0, <1>9, <2>1, OtherNewer
       DEF AgentCheck, AgentRegister, AgentStore, Over, ReturnError, Eras
  <2> QED
    BY <1>0, <2>1, <2>2, <2>3, <2>4 DEF Eras
<1>10. CASE ExpireCache \/ ExpireAgent \/ UNCHANGED vars
  BY <1>10 DEF ExpireCache, ExpireAgent, vars, Eras, Newer, serviceVars, nomadVars, ghosts
<1>11. CASE ChangeBox
  BY <1>0, <1>11 DEF ChangeBox, Eras, Newer, serviceVars, nomadVars, ghosts
<1>12. ASSUME NEW c \in Caller, ProbeEnds(c) PROVE Eras'
  <2>1. Newer(c)'
    BY <1>0, <1>12 DEF ProbeEnds, Eras, Newer, serviceVars, ghosts
  <2>2. ASSUME NEW d \in Caller \ {c} PROVE Newer(d)'
    BY <1>0, <1>12, OtherNewer DEF ProbeEnds, Eras, serviceVars, ghosts
  <2> QED
    BY <1>0, <1>12, <2>1, <2>2 DEF ProbeEnds, Eras, serviceVars, ghosts
<1>13. CASE Restart
  BY <1>0, <1>13 DEF Restart, Eras, Newer, NoRequest, NoGpus, nomadVars
<1> QED
  BY <1>1, <1>2, <1>4, <1>5, <1>6, <1>7, <1>8, <1>9, <1>10, <1>11, <1>12, <1>13
     DEF Next, Step

LEMMA ErasHold == Spec => [](TypeOK /\ Proceeds /\ Eras)
<1>1. TInv /\ Eras /\ [Next]_vars => TInv' /\ Eras'
  BY TNext, ErasNext DEF TInv
<1>2. Init => TInv /\ Eras
  BY TInit, ErasInit
<1>3. TInv /\ Eras => TypeOK /\ Proceeds /\ Eras
  BY DEF TInv
<1> QED
  BY <1>1, <1>2, <1>3, PTL DEF Spec

(* A rescan that succeeds shows the GPUs that were in the box when it was  *)
(* asked for, or later ones, unless another refresh stored meanwhile.      *)
THEOREM RescansAreCurrent == Spec => []RescanShowsCurrent
<1>1. TypeOK /\ Proceeds /\ Eras => RescanShowsCurrent
  BY DEF Eras, Newer, RescanShowsCurrent, At
<1> QED
  BY <1>1, ErasHold, PTL

(* Only a refresh during which another one stored can let the cache go     *)
(* back to an earlier era; every other store is of a newer probe.          *)
THEOREM OlderOnlyThen == Spec => OlderOnlyByOverlap
<1>1. ASSUME TypeOK, Proceeds, Eras, Next, cache'.of < cache.of, fetched' # "never"
      PROVE  \E c \in Caller : At(c, "store") /\ ~At(c, "store")' /\ overlap[c]
  <2>0. /\ req \in [Caller -> Request] /\ cache.of \in Nat
        /\ \A c \in Caller : out[c] \in Nat
    BY <1>1, CachedLists DEF TypeOK, Era
  <2>1. PICK c \in Caller : Store(c)
    <3>1. cache' # cache
      BY <1>1, <2>0
    <3>2. ~ (ExpireCache \/ ExpireAgent \/ ChangeBox \/ Restart)
      BY <1>1, <3>1 DEF ExpireCache, ExpireAgent, ChangeBox, Restart, serviceVars
    <3>3. PICK c \in Caller : Step(c) \/ ProbeEnds(c) \/ \E want \in Want : Begin(c, want)
      BY <1>1, <3>2 DEF Next
    <3>4. ~ (ProbeEnds(c) \/ \E want \in Want : Begin(c, want))
      BY <3>1 DEF ProbeEnds, Begin, serviceVars
    <3>5. ~ (Check(c) \/ Dispatch(c) \/ Await(c) \/ Purge(c) \/ Reload(c) \/ AgentCheck(c)
             \/ AgentRegister(c) \/ AgentStore(c))
      BY <3>1 DEF Check, Dispatch, Await, Purge, Reload, AgentCheck, AgentRegister, AgentStore,
         serviceVars
    <3> QED
      BY <3>3, <3>4, <3>5 DEF Step
  <2>2. At(c, "store") /\ ~At(c, "store")'
    BY <2>0, <2>1 DEF Store, Awaited, At, Request
  <2>3. cache'.of = out[c] /\ out[c] # 0
    <3>1. \A n : Gpus(out[c], n).of = out[c]
      BY DEF Gpus
    <3>2. cache' # cache
      BY <1>1, <2>0
    <3> QED
      BY <1>1, <2>1, <3>1, <3>2 DEF Store, At, Proceeds
  <2>4. overlap[c]
    BY <1>1, <2>0, <2>2, <2>3 DEF Eras, Newer, At
  <2> QED
    BY <2>2, <2>4
<1>2. TypeOK /\ Proceeds /\ Eras /\ [Next]_vars =>
        [cache'.of < cache.of /\ fetched' # "never" =>
           \E c \in Caller : At(c, "store") /\ ~At(c, "store")' /\ overlap[c]]_vars
  BY <1>1
<1> QED
  BY <1>2, ErasHold, PTL DEF Spec, OlderOnlyByOverlap
=============================================================================
