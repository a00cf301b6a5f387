-------------------------- MODULE Downloads_proofs --------------------------
(***************************************************************************)
(* Proofs about Downloads and the catalog it refreshes, for any number of  *)
(* flights, waiters, downloads and listers.                                *)
(*                                                                         *)
(* The argument about the catalog: c.inflight names the one scan that      *)
(* runs; when it began all earlier scans had stored, so what it reads      *)
(* later holds all that they found.                                        *)
(***************************************************************************)
EXTENDS Downloads, TLAPS

(* What holds of the scans ...                                             *)
InflightScans == \A f \in Flight : f = inflight <=> Scanning(f)
OfShare == entries \subseteq share /\ \A f \in Flight : base[f] \subseteq share
LatestBase ==
  \A f, g \in Flight : Scanning(g) => base[f] \subseteq base[g]
NotYetStored ==
  \A f \in Flight : phase[f] \in {"scan", "read"} => entries \subseteq base[f]
HasRead ==
  \A f \in Flight : phase[f] = "read" =>
    index[f] \subseteq share /\ (~cut[f] => base[f] \subseteq index[f])
HasStored ==
  \A f \in Flight : phase[f] \in {"clear", "close", "closed"} /\ ~err[f] =>
    fetched /\ (whole => base[f] \subseteq entries)
ScanInv == /\ InflightScans /\ OfShare /\ LatestBase
           /\ NotYetStored /\ HasRead /\ HasStored
(* ... and of those that wait for them.                                    *)
ServedByFlight ==
  \A w \in Waiter : wpc[w] = "served" => phase[on[w]] = "closed" /\ ~err[on[w]]
IInv == TypeOK /\ ScanInv /\ ServedByFlight

(* A flight that is closed stays as it is.                                 *)
ClosedStay ==
  \A f \in Flight : phase[f] = "closed" => phase'[f] = "closed" /\ err'[f] = err[f]
(* Nothing happens to the scans, though the share may grow.                *)
ScansStay ==
  share \subseteq share' /\ UNCHANGED <<cache, inflight, flights>>

USE FlightAssumption, CallsAssumption DEF Flight, NoFlight, announced

-----------------------------------------------------------------------------
(* Steps that do not concern the scans keep what holds of them.            *)
LEMMA ScansStayed ==
  ASSUME CatalogTypeOK, ScanInv, ScansStay
  PROVE  ScanInv'
  BY DEF CatalogTypeOK, ScanInv, ScansStay, InflightScans, OfShare, LatestBase,
         NotYetStored, HasRead, HasStored, Scanning, cache, flights

(* startLocked joins the scan that runs, or begins the latest.             *)
LEMMA StartKeeps ==
  ASSUME CatalogTypeOK, ScanInv, NEW f \in Flight, StartLocked(f),
         UNCHANGED <<share, cache>>
  PROVE  ScanInv' /\ ClosedStay
<1>1. CASE f = inflight /\ UNCHANGED <<inflight, due, flights>>
  <2>1. ScansStay
    BY <1>1 DEF ScansStay
  <2>2. ClosedStay
    BY <1>1 DEF ClosedStay, flights
  <2> QED BY <2>1, <2>2, ScansStayed
<1>2. CASE inflight = NoFlight /\ Begin(f)
  <2> USE <1>2 DEF Begin, CatalogTypeOK, Phase
  <2>1. \A g \in Flight : ~Scanning(g)
    BY DEF ScanInv, InflightScans
  <2>2. InflightScans'
    BY <2>1 DEF InflightScans, Scanning
  <2>3. OfShare'
    BY DEF OfShare, ScanInv, cache
  <2>4. LatestBase'
    <3> SUFFICES ASSUME NEW h \in Flight, NEW g \in Flight, Scanning(g)'
                 PROVE  base'[h] \subseteq base'[g]
      BY DEF LatestBase
    <3>1. g = f
      BY <2>1 DEF Scanning
    <3> QED BY <3>1 DEF ScanInv, OfShare
  <2>5. NotYetStored'
    BY <2>1 DEF NotYetStored, Scanning, ScanInv, OfShare, cache
  <2>6. HasRead'
    BY DEF HasRead, ScanInv
  <2>7. HasStored'
    BY DEF HasStored, ScanInv, cache
  <2>8. ClosedStay
    BY DEF ClosedStay
  <2> QED BY <2>2, <2>3, <2>4, <2>5, <2>6, <2>7, <2>8 DEF ScanInv
<1> QED BY <1>1, <1>2 DEF StartLocked

(* Each step of a scan.                                                    *)
LEMMA ScanKeeps ==
  ASSUME CatalogTypeOK, ScanInv, NEW f \in Flight, Scan(f)
  PROVE  ScanInv' /\ ClosedStay
<1> USE DEF CatalogTypeOK, Phase, Goes
<1>1. CASE Read(f)
  <2> USE <1>1 DEF Read
  <2>1. InflightScans' /\ OfShare' /\ LatestBase' /\ NotYetStored' /\ HasStored'
    BY DEF ScanInv, InflightScans, OfShare, LatestBase, NotYetStored, HasStored,
           Scanning, cache
  <2>2. HasRead'
    <3>1. PICK part \in SUBSET share :
            /\ index' = [index EXCEPT ![f] = part]
            /\ cut' = [cut EXCEPT ![f] = part # share]
      OBVIOUS
    <3>2. index'[f] = part /\ (~cut'[f] => part = share)
      BY <3>1
    <3>3. ASSUME NEW g \in Flight, phase'[g] = "read"
          PROVE  index'[g] \subseteq share /\ (~cut'[g] => base[g] \subseteq index'[g])
      BY <3>1, <3>2, <3>3 DEF HasRead, ScanInv, OfShare
    <3> QED BY <3>3 DEF HasRead
  <2>3. ClosedStay
    BY DEF ClosedStay
  <2> QED BY <2>1, <2>2, <2>3 DEF ScanInv
<1>2. CASE Store(f)
  <2> USE <1>2 DEF Store
  <2>1. InflightScans' /\ OfShare' /\ LatestBase'
    BY DEF ScanInv, InflightScans, OfShare, LatestBase, HasRead, Scanning
  <2>2. \A g \in Flight : Scanning(g) => g = f
    BY DEF ScanInv, InflightScans, Scanning
  <2>3. NotYetStored'
    BY <2>2 DEF NotYetStored, Scanning
  <2>4. HasRead'
    BY DEF HasRead, ScanInv
  <2>5. HasStored'
    <3> SUFFICES ASSUME NEW g \in Flight, whole'
                 PROVE  base'[g] \subseteq entries'
      BY DEF HasStored
    <3>1. base[g] \subseteq base[f]
      BY DEF ScanInv, LatestBase, Scanning
    <3>2. base[f] \subseteq index[f]
      BY DEF ScanInv, HasRead
    <3> QED BY <3>1, <3>2
  <2>6. ClosedStay
    BY DEF ClosedStay
  <2> QED BY <2>1, <2>3, <2>4, <2>5, <2>6 DEF ScanInv
<1>3. CASE ScanFails(f)
  BY <1>3 DEF ScanFails, ScanInv, InflightScans, OfShare, LatestBase, NotYetStored,
              HasRead, HasStored, Scanning, cache, ClosedStay
<1>4. CASE Clear(f)
  BY <1>4 DEF Clear, ScanInv, InflightScans, OfShare, LatestBase, NotYetStored,
              HasRead, HasStored, Scanning, cache, ClosedStay
<1>5. CASE Close(f)
  BY <1>5 DEF Close, ScanInv, InflightScans, OfShare, LatestBase, NotYetStored,
              HasRead, HasStored, Scanning, cache, ClosedStay
<1> QED BY <1>1, <1>2, <1>3, <1>4, <1>5 DEF Scan

-----------------------------------------------------------------------------
(* The rest of the service: type correctness, and what holds of waiters.   *)
LEMMA InitInv == Init => IInv
<1> SUFFICES ASSUME Init PROVE IInv
  OBVIOUS
<1> USE DEF Init, CatalogInit, Nothing
<1>1. CatalogTypeOK
  BY DEF CatalogTypeOK, Phase
<1>2. TypeOK
  BY <1>1 DEF TypeOK, Task
<1>3. ScanInv
  BY DEF ScanInv, InflightScans, OfShare, LatestBase, NotYetStored, HasRead,
         HasStored, Scanning
<1>4. ServedByFlight
  BY DEF ServedByFlight
<1> QED BY <1>2, <1>3, <1>4 DEF IInv

(* A waiter that is not served by this step stays served.                  *)
LEMMA WaitersStayed ==
  ASSUME CatalogTypeOK, ServedByFlight, ClosedStay,
         \A w \in Waiter : wpc'[w] = "served" => wpc[w] = "served" /\ on'[w] = on[w]
  PROVE  ServedByFlight'
<1> SUFFICES ASSUME NEW w \in Waiter, wpc'[w] = "served"
             PROVE  phase'[on'[w]] = "closed" /\ ~err'[on'[w]]
  BY DEF ServedByFlight
<1>1. on[w] \in Flight /\ wpc[w] = "served" /\ on'[w] = on[w]
  BY DEF CatalogTypeOK
<1> QED BY <1>1 DEF ServedByFlight, ClosedStay

(* The steps of a scan.                                                    *)
LEMMA ScanStep ==
  ASSUME IInv, NEW f \in Flight, Scan(f), UNCHANGED serviceVars
  PROVE  IInv'
<1> USE DEF IInv
<1>1. CatalogTypeOK'
  <2> USE DEF TypeOK, CatalogTypeOK, Phase, Goes, waiters, cache
  <2>1. CASE Read(f)
    <3>1. PICK part \in SUBSET share :
            /\ index' = [index EXCEPT ![f] = part]
            /\ cut' = [cut EXCEPT ![f] = part # share]
      BY <2>1 DEF Read
    <3>2. (part # share) \in BOOLEAN /\ part \in SUBSET Model
      OBVIOUS
    <3> QED BY <2>1, <3>1, <3>2 DEF Read
  <2>2. CASE Store(f)
    BY <2>2 DEF Store
  <2>3. CASE ScanFails(f)
    BY <2>3 DEF ScanFails
  <2>4. CASE Clear(f)
    BY <2>4 DEF Clear
  <2>5. CASE Close(f)
    BY <2>5 DEF Close
  <2> QED BY <2>1, <2>2, <2>3, <2>4, <2>5 DEF Scan
<1>2. TypeOK'
  BY <1>1 DEF TypeOK, serviceVars, downloadVars, listers, Scan, Read, Store,
              ScanFails, Clear, Close, waiters
<1>3. ScanInv' /\ ClosedStay
  BY ScanKeeps DEF TypeOK
<1>4. ServedByFlight'
  BY <1>3, WaitersStayed DEF TypeOK, Scan, Read, Store, ScanFails, Clear, Close, waiters
<1> QED BY <1>2, <1>3, <1>4

(* startLocked keeps the types.                                            *)
LEMMA StartTypes ==
  ASSUME CatalogTypeOK, NEW f \in Flight, StartLocked(f)
  PROVE  /\ due' \in BOOLEAN /\ inflight' \in Flight \cup {NoFlight}
         /\ phase' \in [Flight -> Phase]
         /\ index' \in [Flight -> SUBSET Model] /\ base' \in [Flight -> SUBSET Model]
         /\ cut' \in [Flight -> BOOLEAN] /\ err' \in [Flight -> BOOLEAN]
<1>1. CASE f = inflight /\ UNCHANGED <<inflight, due, flights>>
  BY <1>1 DEF CatalogTypeOK, flights
<1>2. CASE inflight = NoFlight /\ Begin(f)
  BY <1>2 DEF CatalogTypeOK, Begin, Phase
<1> QED BY <1>1, <1>2 DEF StartLocked

(* The steps of a waiter inside the catalog.                               *)
LEMMA ProceedStep ==
  ASSUME IInv, NEW w \in Waiter, Proceed(w), UNCHANGED serviceVars
  PROVE  IInv'
<1> USE DEF IInv
<1>0. CatalogTypeOK
  BY DEF TypeOK
<1>1. CASE Join(w)
  <2>1. PICK f \in Flight : StartLocked(f) /\ on' = [on EXCEPT ![w] = f]
    BY <1>1 DEF Join
  <2>2. CatalogTypeOK'
    BY <1>0, <1>1, <2>1, StartTypes DEF Join, CatalogTypeOK, cache
  <2>3. TypeOK'
    BY <2>2 DEF TypeOK, serviceVars, downloadVars, listers
  <2>4. ScanInv' /\ ClosedStay
    BY <1>0, <1>1, <2>1, StartKeeps DEF Join
  <2>5. ServedByFlight'
    BY <1>0, <1>1, <2>4, WaitersStayed DEF Join, CatalogTypeOK
  <2> QED BY <2>3, <2>4, <2>5
<1>2. CASE Wake(w)
  <2>1. ScansStay /\ ClosedStay
    BY <1>2 DEF Wake, ScansStay, ClosedStay, flights
  <2>2. CatalogTypeOK'
    BY <1>0, <1>2 DEF Wake, CatalogTypeOK, cache, flights
  <2>3. TypeOK'
    BY <2>2 DEF TypeOK, serviceVars, downloadVars, listers
  <2>4. ServedByFlight'
    BY <1>0, <1>2 DEF Wake, ServedByFlight, CatalogTypeOK, flights
  <2> QED BY <1>0, <2>1, <2>3, <2>4, ScansStayed
<1>3. CASE Answer(w)
  <2>1. ScansStay /\ ClosedStay
    BY <1>3 DEF Answer, ScansStay, ClosedStay, flights
  <2>2. CatalogTypeOK'
    BY <1>0, <1>3 DEF Answer, CatalogTypeOK, cache, flights
  <2>3. TypeOK'
    BY <2>2 DEF TypeOK, serviceVars, downloadVars, listers
  <2>4. ServedByFlight'
    BY <1>0, <1>3, <2>1, WaitersStayed DEF Answer, CatalogTypeOK
  <2> QED BY <1>0, <2>1, <2>3, <2>4, ScansStayed
<1> QED BY <1>1, <1>2, <1>3 DEF Proceed

(* A page asks.                                                            *)
LEMMA AskStep ==
  ASSUME IInv, NEW w \in Visitor, Ask(w)
  PROVE  IInv'
<1> USE DEF IInv
<1>0. CatalogTypeOK /\ w \in Waiter
  BY WaiterAssumption DEF TypeOK
<1>1. visits' \in 0 .. MaxVisits
  BY DEF Ask, TypeOK
<1>2. CASE EntriesCached(w)
  <2>1. PICK f \in Flight : StartLocked(f)
    BY <1>2 DEF EntriesCached
  <2>2. CatalogTypeOK'
    BY <1>0, <1>2, <2>1, StartTypes DEF EntriesCached, CatalogTypeOK, cache, waiters
  <2>3. TypeOK'
    BY <1>1, <1>2, <2>2 DEF Ask, EntriesCached, TypeOK, downloadVars, listers
  <2>4. ScanInv' /\ ClosedStay
    BY <1>0, <1>2, <2>1, StartKeeps DEF EntriesCached
  <2>5. ServedByFlight'
    BY <1>0, <1>2, <2>4, WaitersStayed DEF EntriesCached, waiters
  <2> QED BY <2>3, <2>4, <2>5
<1>3. ASSUME NEW byEntries \in BOOLEAN, CallRefresh(w, byEntries)
      PROVE  IInv'
  <2>1. ScansStay /\ ClosedStay
    BY <1>3 DEF CallRefresh, ScansStay, ClosedStay, flights
  <2>2. CatalogTypeOK'
    BY <1>0, <1>3 DEF CallRefresh, CatalogTypeOK, cache, flights
  <2>3. TypeOK'
    BY <1>1, <2>2 DEF Ask, TypeOK, downloadVars, listers
  <2>4. ServedByFlight'
    BY <1>0, <1>3, <2>1, WaitersStayed DEF CallRefresh, CatalogTypeOK
  <2> QED BY <1>0, <2>1, <2>3, <2>4, ScansStayed
<1> QED BY <1>2, <1>3 DEF Ask

(* Steps of the service that leave the waiters and the scans alone.        *)
LEMMA ServiceStep ==
  ASSUME IInv, TypeOK', UNCHANGED waiters, ScansStay
  PROVE  IInv'
<1> USE DEF IInv
<1>1. CatalogTypeOK /\ ClosedStay
  BY DEF TypeOK, ScansStay, ClosedStay, flights
<1>2. ScanInv'
  BY <1>1, ScansStayed
<1>3. ServedByFlight'
  BY <1>1, WaitersStayed DEF waiters
<1> QED BY <1>2, <1>3

(* List compares and announces.                                            *)
LEMMA NotifyStep ==
  ASSUME IInv, NEW l \in Lister, Notify(l)
  PROVE  IInv'
<1> USE DEF IInv
<1>0. CatalogTypeOK
  BY DEF TypeOK
<1>1. CatalogTypeOK'
  BY <1>0 DEF Notify, CatalogTypeOK, cache, flights
<1>2. TypeOK'
  <2>1. calls' \in [Download -> 0 .. MaxCalls + 1]
    BY DEF Notify, TypeOK
  <2>2. seen' \in [Download -> Task] /\ missed' \in SUBSET Download
        /\ blurred' \in SUBSET Download
    BY DEF Notify, TypeOK, Transitions, Listed, Task
  <2>3. found' \in [Lister -> [Download -> Task]] /\ lpc' \in [Lister -> {"idle", "look"}]
    BY DEF Notify, TypeOK, Nothing, Task
  <2> QED BY <1>1, <2>1, <2>2, <2>3 DEF TypeOK, Notify
<1>3. ScansStay /\ ClosedStay
  BY DEF Notify, ScansStay, ClosedStay, flights
<1>4. ServedByFlight'
  BY <1>0, <1>3, WaitersStayed DEF Notify
<1> QED BY <1>0, <1>2, <1>3, <1>4, ScansStayed

-----------------------------------------------------------------------------
LEMMA NextInv == IInv /\ [Next]_vars => IInv'
<1> SUFFICES ASSUME IInv, [Next]_vars PROVE IInv'
  OBVIOUS
<1> USE DEF IInv
<1>1. CASE CatalogStep /\ UNCHANGED serviceVars
  BY <1>1, ScanStep, ProceedStep DEF CatalogStep
<1>2. ASSUME NEW w \in Visitor, GiveUp(w) /\ UNCHANGED serviceVars
      PROVE  IInv'
  <2>0. CatalogTypeOK /\ w \in Waiter
    BY WaiterAssumption DEF TypeOK
  <2>1. ScansStay /\ ClosedStay
    BY <1>2 DEF GiveUp, ScansStay, ClosedStay, flights
  <2>2. CatalogTypeOK'
    BY <1>2, <2>0 DEF GiveUp, CatalogTypeOK, cache, flights
  <2>3. TypeOK'
    BY <1>2, <2>0, <2>2 DEF TypeOK, serviceVars, downloadVars, listers
  <2>4. ServedByFlight'
    BY <1>2, <2>0, <2>1, WaitersStayed DEF GiveUp, CatalogTypeOK
  <2> QED BY <2>0, <2>1, <2>3, <2>4, ScansStayed
<1>3. ASSUME NEW d \in Download, Start(d) \/ TaskCompletes(d) \/ Remove(d)
      PROVE  IInv'
  <2>1. TypeOK'
    BY <1>3, ModelAssumption DEF Start, TaskCompletes, Remove, Arrives, TypeOK, CatalogTypeOK, Task,
                catalogVars, cache, flights, waiters, listers
  <2>2. ScansStay /\ UNCHANGED waiters
    BY <1>3 DEF Start, TaskCompletes, Remove, Arrives, ScansStay, catalogVars
  <2> QED BY <2>1, <2>2, ServiceStep
<1>4. ASSUME NEW l \in Lister, List(l)
      PROVE  IInv'
  <2>1. CASE ListStubs(l)
    <3>1. TypeOK'
      BY <2>1 DEF ListStubs, TypeOK, CatalogTypeOK, catalogVars, cache, flights, waiters
    <3> QED BY <2>1, <3>1, ServiceStep DEF ListStubs, ScansStay, catalogVars
  <2>2. ASSUME NEW d \in Download, LookUp(l, d) \/ LookUpPurged(l, d) \/ LookUpFails(l, d)
        PROVE  IInv'
    <3>1. PICK status \in Task : Found(l, d, status) /\ blurred' \in SUBSET Download
      BY <2>2 DEF LookUp, LookUpPurged, LookUpFails, TypeOK, Task
    <3>2. TypeOK'
      BY <3>1 DEF Found, TypeOK, CatalogTypeOK, catalogVars, cache, flights, waiters
    <3> QED BY <3>1, <3>2, ServiceStep DEF Found, ScansStay, catalogVars
  <2> QED BY <1>4, <2>1, <2>2, NotifyStep DEF List
<1>5. CASE UNCHANGED vars
  <2>1. TypeOK'
    BY <1>5 DEF vars, TypeOK, CatalogTypeOK, catalogVars, cache, flights, waiters,
                serviceVars, downloadVars, listers
  <2> QED BY <1>5, <2>1, ServiceStep DEF vars, catalogVars, ScansStay
<1>6. CASE TtlPasses /\ UNCHANGED serviceVars
  <2>1. TypeOK'
    BY <1>6 DEF TtlPasses, TypeOK, CatalogTypeOK, cache, flights, waiters,
                serviceVars, downloadVars, listers
  <2> QED BY <1>6, <2>1, ServiceStep DEF TtlPasses, ScansStay
<1> QED BY <1>1, <1>2, <1>3, <1>4, <1>5, <1>6, AskStep DEF Next

LEMMA Invariance == Spec => []IInv
  BY InitInv, NextInv, PTL DEF Spec

-----------------------------------------------------------------------------
(* The state of the service and of the catalog keeps its types; a caller   *)
(* of Refresh that waits, or has waited, has a flight (catalog.go:95-106). *)
THEOREM TypeCorrect == Spec => []TypeOK
<1>1. IInv => TypeOK
  BY DEF IInv
<1> QED BY <1>1, Invariance, PTL

(* Scans never overlap (catalog.go:109-127).                               *)
THEOREM ScansNeverOverlap == Spec => []OneScan
<1>1. IInv => OneScan
  BY DEF IInv, ScanInv, InflightScans, OneScan
<1> QED BY <1>1, Invariance, PTL

(* Who is served finds what was on the share when its flight started       *)
(* (catalog.go:95-106).                                                    *)
THEOREM ServedAreCurrent == Spec => []ServedIsCurrent
<1>1. IInv => ServedIsCurrent
  <2> SUFFICES ASSUME IInv, NEW w \in Waiter, wpc[w] = "served"
               PROVE  fetched /\ (whole => base[on[w]] \subseteq entries)
    BY DEF ServedIsCurrent
  <2>1. on[w] \in Flight
    BY DEF IInv, TypeOK, CatalogTypeOK
  <2> QED BY <2>1 DEF IInv, ServedByFlight, ScanInv, HasStored
<1> QED BY <1>1, Invariance, PTL

(* Scans do not store in the wrong order (catalog.go:166-168).             *)
THEOREM CacheNeverOlder == Spec => NeverOlder
<1>1. IInv /\ [Next]_vars => [whole' => entries \subseteq entries']_vars
  <2> SUFFICES ASSUME IInv, [Next]_vars, whole' PROVE entries \subseteq entries'
    OBVIOUS
  <2>1. ASSUME NEW f \in Flight, Store(f) PROVE entries \subseteq entries'
    <3>1. ~cut[f] /\ entries' = index[f] /\ phase[f] = "read"
      BY <2>1 DEF Store
    <3> QED BY <3>1 DEF IInv, ScanInv, NotYetStored, HasRead
  <2>2. CASE \A f \in Flight : ~Store(f)
    BY <2>2 DEF Next, vars, catalogVars, cache, CatalogStep, Scan, Read, ScanFails, Clear,
                Close, Proceed, Join, Wake, Answer, GiveUp, TtlPasses, Ask, EntriesCached,
                CallRefresh, Start, TaskCompletes, Remove, Arrives, List, ListStubs, LookUp,
                LookUpPurged, LookUpFails, Found, Notify
  <2> QED BY <2>1, <2>2
<1> QED BY <1>1, Invariance, PTL DEF Spec, NeverOlder

(* What Lists know of a download.  Once its completion is announced, every *)
(* List takes it for complete, except one that cannot read its status or   *)
(* has read it before.                                                     *)
Looked ==
  \A l \in Lister, d \in Download :
    /\ d \in todo[l] => task[d] # "none"
    /\ found[l][d] \in {"none", "open", "complete"}
    /\ found[l][d] = "complete" => task[d] \in {"complete", "gone"}

SeenComplete ==
  \A d \in Download : calls[d] > 0 /\ d \notin blurred =>
    /\ calls[d] = 1 /\ seen[d] = "complete"
    /\ task[d] \in {"complete", "gone"}
    /\ \A l \in Lister : found[l][d] # "open"

CallsInv == CompletionAnnounced /\ Looked /\ SeenComplete

LEMMA LookUpCalls ==
  ASSUME TypeOK, CallsInv, NEW l \in Lister, NEW d \in Download,
         LookUp(l, d) \/ LookUpPurged(l, d) \/ LookUpFails(l, d)
  PROVE  CallsInv'
<1>1. PICK status \in {"open", "complete"} :
        /\ Found(l, d, status)
        /\ status = "complete" => task[d] \in {"complete", "gone"}
        /\ status = "open" => task[d] = "open" \/ d \in blurred'
  BY DEF LookUp, LookUpPurged, LookUpFails, Exists, Found, TypeOK, Task, CallsInv, Looked
<1>2. /\ UNCHANGED <<task, seen, missed, calls>> /\ blurred \subseteq blurred'
      /\ found'[l][d] = status
      /\ \A m \in Lister, e \in Download : <<m, e>> # <<l, d>> => found'[m][e] = found[m][e]
      /\ \A m \in Lister : todo'[m] \subseteq todo[m]
  BY <1>1 DEF Found, LookUp, LookUpPurged, LookUpFails, TypeOK
<1>3. CompletionAnnounced'
  BY <1>2 DEF CallsInv, CompletionAnnounced
<1>4. Looked'
  BY <1>1, <1>2 DEF CallsInv, Looked
<1>5. SeenComplete'
  BY <1>1, <1>2 DEF CallsInv, SeenComplete
<1> QED BY <1>3, <1>4, <1>5 DEF CallsInv

LEMMA NotifyCalls ==
  ASSUME TypeOK, TypeOK', CallsInv, NEW l \in Lister, Notify(l)
  PROVE  CallsInv'
<1>1. /\ UNCHANGED <<task, todo>>
      /\ \A d \in Download : found'[l][d] = "none"
      /\ \A m \in Lister, d \in Download : m # l => found'[m][d] = found[m][d]
  BY DEF Notify, Nothing, TypeOK
<1>2. Looked'
  BY <1>1 DEF CallsInv, Looked
<1>3. ASSUME NEW d \in Download
      PROVE  /\ seen'[d] = "complete" => calls'[d] > 0 \/ d \in missed'
             /\ calls'[d] > 1 => d \in blurred'
             /\ calls'[d] > 0 /\ d \notin blurred' =>
                  /\ calls'[d] = 1 /\ seen'[d] = "complete"
                  /\ task[d] \in {"complete", "gone"}
                  /\ \A m \in Lister : found'[m][d] # "open"
  <2>1. calls[d] \in Nat /\ (d \in blurred => d \in blurred') /\ (d \in missed => d \in missed')
    BY DEF Notify, TypeOK
  <2>2. CASE d \in Transitions(l)
    <3>1. /\ seen'[d] = "complete" /\ seen[d] # "complete" /\ found[l][d] = "complete"
          /\ calls'[d] \in {calls[d], calls[d] + 1}
          /\ (calls[d] = 0 => calls'[d] = 1)
          /\ (\E m \in Lister : found[m][d] = "open") => d \in blurred'
      BY <2>1, <2>2 DEF Notify, Transitions, Listed
    <3>2. calls[d] = 0 \/ d \in blurred
      BY <2>1, <3>1 DEF CallsInv, SeenComplete
    <3>3. task[d] \in {"complete", "gone"}
      BY <3>1 DEF CallsInv, Looked
    <3>4. d \notin blurred' => \A m \in Lister : found'[m][d] # "open"
      BY <1>1, <3>1
    <3> QED BY <2>1, <3>1, <3>2, <3>3, <3>4
  <2>3. CASE d \notin Transitions(l)
    <3>1. calls'[d] = calls[d]
      BY <2>3 DEF Notify
    <3>2. seen'[d] = "complete" => seen[d] = "complete" \/ d \in missed'
      BY <2>3 DEF Notify, Transitions, Listed
    <3>3. seen[d] = "complete" /\ found[l][d] # "open" => seen'[d] = "complete"
      BY DEF Notify, Listed, CallsInv, Looked
    <3> QED BY <1>1, <2>1, <3>1, <3>2, <3>3 DEF CallsInv, CompletionAnnounced, SeenComplete
  <2> QED BY <2>2, <2>3
<1> QED BY <1>1, <1>2, <1>3 DEF CallsInv, CompletionAnnounced, SeenComplete

LEMMA NextCalls == TypeOK /\ TypeOK' /\ CallsInv /\ [Next]_vars => CallsInv'
<1> SUFFICES ASSUME TypeOK, TypeOK', CallsInv, [Next]_vars PROVE CallsInv'
  OBVIOUS
<1>1. ASSUME NEW d \in Download, Start(d) \/ TaskCompletes(d) \/ Remove(d) PROVE CallsInv'
  <2>1. /\ UNCHANGED <<seen, todo, found, missed, blurred, calls>>
        /\ \A e \in Download : e # d => task'[e] = task[e]
        /\ task'[d] # "none" /\ (task[d] \in {"complete", "gone"} => task'[d] \in {"complete", "gone"})
    BY <1>1 DEF Start, TaskCompletes, Remove, Exists, listers, TypeOK
  <2> QED BY <2>1 DEF CallsInv, CompletionAnnounced, Looked, SeenComplete
<1>2. ASSUME NEW l \in Lister, ListStubs(l) PROVE CallsInv'
  <2>1. /\ UNCHANGED <<task, seen, found, missed, blurred, calls>>
        /\ \A m \in Lister : m # l => todo'[m] = todo[m]
        /\ \A d \in todo'[l] : task[d] # "none"
    BY <1>2 DEF ListStubs, Exists, TypeOK
  <2> QED BY <2>1 DEF CallsInv, CompletionAnnounced, Looked, SeenComplete
<1>3. CASE UNCHANGED downloadVars
  BY <1>3 DEF downloadVars, listers, CallsInv, CompletionAnnounced, Looked, SeenComplete
<1> QED BY <1>1, <1>2, <1>3, LookUpCalls, NotifyCalls
        DEF Next, vars, serviceVars, Ask, List

(* A completion that List sees is announced once: at least once unless it  *)
(* is the first thing seen of the download, and more than once only after  *)
(* a List that could not read the status, or had read it earlier than the  *)
(* one that announced (downloads.go:39, downloads.go:125-139).             *)
THEOREM CompletionsAreAnnounced == Spec => []CompletionAnnounced
<1>1. Init => CallsInv
  BY DEF Init, Nothing, CallsInv, CompletionAnnounced, Looked, SeenComplete
<1>2. CallsInv => CompletionAnnounced
  BY DEF CallsInv
<1> QED BY <1>1, <1>2, NextCalls, TypeCorrect, PTL DEF Spec
=============================================================================
