----------------------------- MODULE Downloads -----------------------------
(***************************************************************************)
(* Downloads (internal/downloads/downloads.go) together with the catalog   *)
(* they refresh (server.go:62-66).                                         *)
(*                                                                         *)
(* The service keeps one thing: the status it last saw of each download.   *)
(* Every List asks Nomad again, one request per download, and compares     *)
(* under the mutex only at its end; a download that has become complete    *)
(* since is announced by a goroutine that calls Refresh.                   *)
(***************************************************************************)
EXTENDS Catalog, FiniteSets

CONSTANTS
  Download,   \* identifiers of dispatched downloads, never used twice
  Lister,     \* goroutines that call List
  Visitor,    \* goroutines that call the catalog for a page
  MaxCalls,   \* bound: how many announcements of a download are followed
  MaxVisits   \* bound: how often pages ask for a scan

(* The goroutine of the k-th announcement of d; those after the MaxCalls-th *)
(* are announcements like the others and not followed into the catalog.    *)
Call == Download \X (1 .. MaxCalls)

ASSUME WaiterAssumption == Waiter = Visitor \cup Call /\ Visitor \cap Call = {}
(* The model a download brings is known by its identifier.                 *)
ASSUME ModelAssumption == Model = Download
ASSUME CallsAssumption == MaxCalls \in Nat \ {0} /\ MaxVisits \in Nat
(* No caller waits for a flight only because the bound is reached.         *)
ASSUME EnoughFlights == MaxFlight >= MaxVisits + Cardinality(Call)

VARIABLES
  task,      \* Nomad: the allocation of each download
  seen,      \* s.seen
  lpc,       \* per lister: where it is in List
  todo,      \* per lister: stubs it has not looked up yet
  found,     \* per lister: the statuses it has found
  (* observers *)
  missed,    \* downloads complete when first seen
  blurred,   \* downloads that a List takes for open after their completion
  calls,     \* how often it has been announced, at most MaxCalls + 1
  visits     \* how often a page has asked for a scan

listers == <<lpc, todo, found>>
announced == <<missed, blurred, calls>>
downloadVars == <<task, seen, listers, announced>>
serviceVars == <<downloadVars, visits>>
vars == <<catalogVars, serviceVars>>

(* What a List tells apart: "open" is pending, running or failed.          *)
Task == {"none", "open", "complete", "gone"}
Exists(d) == task[d] \notin {"none", "gone"}
Nothing == [d \in Download |-> "none"]

Init ==
  /\ CatalogInit
  /\ task = Nothing
  /\ seen = Nothing          \* "none": not in the map
  /\ lpc = [l \in Lister |-> "idle"]
  /\ todo = [l \in Lister |-> {}]
  /\ found = [l \in Lister |-> Nothing]
  /\ missed = {} /\ blurred = {}
  /\ calls = [d \in Download |-> 0]
  /\ visits = 0

-----------------------------------------------------------------------------
(* Start: Register and Dispatch; a call that fails has dispatched nothing. *)
Start(d) ==
  /\ task[d] = "none"
  /\ task' = [task EXCEPT ![d] = "open"]
  /\ UNCHANGED <<catalogVars, seen, listers, announced, visits>>

(* The download (external) ends, and the model is on the share.            *)
TaskCompletes(d) ==
  /\ task[d] = "open"
  /\ Arrives(d)
  /\ task' = [task EXCEPT ![d] = "complete"]
  /\ UNCHANGED <<seen, listers, announced, visits>>

(* Remove: the job is purged.                                              *)
Remove(d) ==
  /\ Exists(d)
  /\ task' = [task EXCEPT ![d] = "gone"]
  /\ UNCHANGED <<catalogVars, seen, listers, announced, visits>>

-----------------------------------------------------------------------------
(* List: the stubs.                                                        *)
ListStubs(l) ==
  /\ lpc[l] = "idle"
  /\ lpc' = [lpc EXCEPT ![l] = "look"]
  /\ todo' = [todo EXCEPT ![l] = {d \in Download : Exists(d)}]
  /\ UNCHANGED <<catalogVars, task, seen, found, announced, visits>>

Found(l, d, status) ==
  /\ lpc[l] = "look" /\ d \in todo[l]
  /\ todo' = [todo EXCEPT ![l] = @ \ {d}]
  /\ found' = [found EXCEPT ![l][d] = status]
  /\ UNCHANGED <<catalogVars, task, seen, lpc, missed, calls, visits>>

(* List: LatestAlloc.  The allocation of a job purged since the listing    *)
(* may still be there and, killed, is complete (as runner.go:638-639 says  *)
(* of stopped jobs); a status that cannot be read is pending.              *)
LookUp(l, d) == Exists(d) /\ Found(l, d, task[d]) /\ UNCHANGED blurred
LookUpPurged(l, d) == ~Exists(d) /\ Found(l, d, "complete") /\ UNCHANGED blurred
LookUpFails(l, d) ==
  /\ Found(l, d, "open")
  /\ blurred' = IF task[d] = "open" THEN blurred ELSE blurred \cup {d}

Listed(l) == {d \in Download : found[l][d] # "none"}
(* Mutants of Transitions: the map is updated before it is read, or not    *)
(* asked whether the download was complete before.                         *)
TransitionsAfter(l) ==
  {d \in Listed(l) : found[l][d] = "complete" /\ found[l][d] \notin {"none", "complete"}}

TransitionsAgain(l) == {d \in Listed(l) : found[l][d] = "complete" /\ seen[d] # "none"}

(* notifyTransitions: complete now, in the map, and not complete before.   *)
Transitions(l) ==
  {d \in Listed(l) : found[l][d] = "complete" /\ seen[d] \notin {"none", "complete"}}
(* List: notifyTransitions.                                                *)
Notify(l) ==
  /\ lpc[l] = "look" /\ todo[l] = {}
  /\ seen' = [d \in Download |-> IF d \in Listed(l) THEN found[l][d] ELSE seen[d]]
  /\ missed' = missed \cup {d \in Listed(l) : seen[d] = "none" /\ found[l][d] = "complete"}
  /\ blurred' = blurred \cup {d \in Transitions(l) : \E m \in Lister : found[m][d] = "open"}
  /\ calls' = [d \in Download |-> IF d \in Transitions(l) /\ calls[d] <= MaxCalls
                                 THEN calls[d] + 1 ELSE calls[d]]
  /\ wpc' = [w \in Waiter |->
       IF \E d \in Transitions(l) : calls[d] < MaxCalls /\ w = <<d, calls[d] + 1>>
       THEN "join" ELSE wpc[w]]
  /\ lpc' = [lpc EXCEPT ![l] = "idle"]
  /\ found' = [found EXCEPT ![l] = Nothing]
  /\ UNCHANGED <<share, cache, due, inflight, flights, on, task, todo, visits>>

-----------------------------------------------------------------------------
List(l) == \/ ListStubs(l) \/ Notify(l)
           \/ \E d \in Download : LookUp(l, d) \/ LookUpPurged(l, d) \/ LookUpFails(l, d)

(* Pages ask for a scan; the request of a page may be cancelled.           *)
Ask(w) == /\ visits < MaxVisits /\ visits' = visits + 1
          /\ EntriesCached(w) \/ \E byEntries \in BOOLEAN : CallRefresh(w, byEntries)
          /\ UNCHANGED downloadVars

(* Whether the cache is old enough matters as long as a page may ask.      *)
Next == \/ CatalogStep /\ UNCHANGED serviceVars
        \/ visits < MaxVisits /\ TtlPasses /\ UNCHANGED serviceVars
        \/ \E w \in Visitor : Ask(w) \/ (GiveUp(w) /\ UNCHANGED serviceVars)
        \/ \E d \in Download : Start(d) \/ TaskCompletes(d) \/ Remove(d)
        \/ \E l \in Lister : List(l)

Spec == Init /\ [][Next]_vars

(* Fairness: the goroutines of the app run, and their calls return.                  *)
FairSpec == /\ Spec
            /\ \A f \in Flight : WF_vars(Scan(f) /\ UNCHANGED serviceVars)
            /\ \A w \in Waiter : WF_vars(Proceed(w) /\ UNCHANGED serviceVars)

-----------------------------------------------------------------------------
TypeOK ==
  /\ CatalogTypeOK
  /\ task \in [Download -> Task] /\ seen \in [Download -> Task]
  /\ missed \in SUBSET Download /\ blurred \in SUBSET Download
  /\ calls \in [Download -> 0 .. MaxCalls + 1] /\ visits \in 0 .. MaxVisits
  /\ lpc \in [Lister -> {"idle", "look"}]
  /\ todo \in [Lister -> SUBSET Download]
  /\ found \in [Lister -> [Download -> Task]]

(* Nothing but an output that was cut short takes a model out of the cache *)
(* (catalog.go:166-168): scans cannot store in the wrong order.            *)
NeverOlder == [][whole' => entries \subseteq entries']_vars

(* "Once per download that transitions to complete" (downloads.go:39): a   *)
(* completion that List has seen is announced, unless it was the first     *)
(* thing seen of the download; and it is announced once, unless a List     *)
(* could not read the status afterwards or was overtaken by the one that   *)
(* announced it (downloads.go:131-138).                                    *)
CompletionAnnounced ==
  \A d \in Download :
    /\ seen[d] = "complete" => calls[d] > 0 \/ d \in missed
    /\ calls[d] > 1 => d \in blurred

(* Every caller of Refresh gets an answer, the goroutines of announcements *)
(* too, which nothing cancels.                                             *)
EveryCallAnswered == \A w \in Waiter : wpc[w] # "idle" ~> wpc[w] = "idle"
=============================================================================
