------------------------------ MODULE Catalog ------------------------------
(***************************************************************************)
(* The model catalog (internal/catalog/catalog.go): a cache of what is on  *)
(* the share, filled by scans that any number of goroutines wait for.      *)
(*                                                                         *)
(* The share is a set of models that only grows (downloads add to it; what *)
(* is deleted by hand is not modelled), so an index that lacks one of them *)
(* is old or is cut short.  c.lastErr, which only a page shows, is left    *)
(* out, and so are the dispatched jobs, which a scan purges when it ends.  *)
(* A step is one critical section of c.mu, the wait for the indexer and    *)
(* the read of its output, or one receive of a waiter.                     *)
(***************************************************************************)
EXTENDS Naturals

CONSTANTS
  Model,     \* what may be on the share
  Waiter,    \* goroutines that call Entries or Refresh
  MaxFlight  \* bound: how many scans are started

ASSUME FlightAssumption == MaxFlight \in Nat

(* The values of type *flight, numbered as they are created; 0 is nil.     *)
Flight == 1 .. MaxFlight
NoFlight == 0

VARIABLES
  share,     \* the models on the share
  (* c.mu's data *)
  entries,   \* c.entries
  fetched,   \* c.fetched is not zero
  due,       \* ttl has passed since c.lastAttempt
  inflight,  \* c.inflight
  (* per flight, the goroutine of startLocked *)
  phase,     \* what it does next
  index,     \* what it has read of the indexer job's output
  cut,       \* some of that output is missing
  err,       \* its error, f.err once closed
  (* per waiter *)
  wpc,       \* where it is in Entries or Refresh
  on,        \* the flight it waits for
  (* observers *)
  whole,     \* the output c.entries was parsed from was not cut short
  base       \* per flight: the share when it started

cache == <<entries, fetched, whole>>
flights == <<phase, index, cut, err, base>>
waiters == <<wpc, on>>
catalogVars == <<share, cache, due, inflight, flights, waiters>>

Phase == {"free", "scan", "read", "clear", "close", "closed"}
(* From startLocked until c.inflight is cleared.                           *)
Scanning(f) == phase[f] \in {"scan", "read", "clear"}

CatalogInit ==
  /\ share = {}
  /\ entries = {} /\ fetched = FALSE /\ whole = TRUE
  /\ due = TRUE           \* c.lastAttempt is zero
  /\ inflight = NoFlight
  /\ phase = [f \in Flight |-> "free"]
  /\ index = [f \in Flight |-> {}]
  /\ cut = [f \in Flight |-> FALSE]
  /\ err = [f \in Flight |-> FALSE]
  /\ base = [f \in Flight |-> {}]
  /\ wpc = [w \in Waiter |-> "idle"]
  /\ on = [w \in Waiter |-> NoFlight]

-----------------------------------------------------------------------------
(* startLocked: f is the flight in progress, or a new one.                 *)
Begin(f) ==
  /\ phase[f] = "free" /\ \A g \in Flight : g < f => phase[g] # "free"
  /\ inflight' = f /\ due' = FALSE
  /\ phase' = [phase EXCEPT ![f] = "scan"]
  /\ base' = [base EXCEPT ![f] = share]
  /\ UNCHANGED <<index, cut, err>>

(* Mutant of StartLocked: a scan is started although one is running.                      *)
AlwaysStart(f) == Begin(f)

StartLocked(f) ==
  \/ f = inflight /\ UNCHANGED <<inflight, due, flights>>
  \/ inflight = NoFlight /\ Begin(f)

(* Entries with something in the cache: it is returned as it is, and a     *)
(* scan is started when the last attempt is older than the TTL.            *)
EntriesCached(w) ==
  /\ wpc[w] = "idle" /\ fetched /\ due
  /\ \E f \in Flight : StartLocked(f)
  /\ UNCHANGED <<share, cache, waiters>>

(* Entries with an empty cache, having released the mutex, and Refresh.    *)
CallRefresh(w, byEntries) ==
  /\ wpc[w] = "idle"
  /\ byEntries => ~fetched
  /\ wpc' = [wpc EXCEPT ![w] = "join"]
  /\ UNCHANGED <<share, cache, due, inflight, flights, on>>

(* Mutant of Join: c.inflight is read before a flight is started.          *)
JoinBefore(w) ==
  /\ wpc[w] = "join"
  /\ \E f \in Flight : StartLocked(f)
  /\ on' = [on EXCEPT ![w] = inflight]
  /\ wpc' = [wpc EXCEPT ![w] = "wait"]
  /\ UNCHANGED <<share, cache>>

(* Refresh: the critical section.                                          *)
Join(w) ==
  /\ wpc[w] = "join"
  /\ \E f \in Flight :
       /\ StartLocked(f)
       /\ on' = [on EXCEPT ![w] = f]
  /\ wpc' = [wpc EXCEPT ![w] = "wait"]
  /\ UNCHANGED <<share, cache>>

(* Refresh: f.done is closed.                                              *)
Wake(w) ==
  /\ wpc[w] = "wait" /\ phase[on[w]] = "closed"
  /\ wpc' = [wpc EXCEPT ![w] = IF err[on[w]] THEN "failed" ELSE "served"]
  /\ UNCHANGED <<share, cache, due, inflight, flights, on>>

(* Refresh: ctx is done.                                                   *)
GiveUp(w) ==
  /\ wpc[w] = "wait"
  /\ wpc' = [wpc EXCEPT ![w] = "failed"]
  /\ UNCHANGED <<share, cache, due, inflight, flights, on>>

(* The caller goes on; after Refresh, Entries returns c.entries.           *)
Answer(w) ==
  /\ wpc[w] \in {"served", "failed"}
  /\ wpc' = [wpc EXCEPT ![w] = "idle"]
  /\ on' = [on EXCEPT ![w] = NoFlight]
  /\ UNCHANGED <<share, cache, due, inflight, flights>>

-----------------------------------------------------------------------------
Goes(f, p) == phase' = [phase EXCEPT ![f] = p]

(* scan: Register, Dispatch and the wait for the indexer job (external),   *)
(* which reads the share at some moment of it, and the read of its output, *)
(* of which a part counts as all when the read fails after it.             *)
Read(f) ==
  /\ phase[f] = "scan" /\ Goes(f, "read")
  /\ \E part \in SUBSET share :
       /\ index' = [index EXCEPT ![f] = part]
       /\ cut' = [cut EXCEPT ![f] = part # share]
  /\ UNCHANGED <<share, cache, due, inflight, err, base, waiters>>

(* Mutant of Store: the cache is not replaced.                             *)
StoreNothing(f) ==
  /\ phase[f] = "read" /\ Goes(f, "clear")
  /\ fetched' = TRUE
  /\ UNCHANGED <<share, entries, whole, due, inflight, index, cut, err, base, waiters>>

(* scan: the job is complete, its output is parsed and replaces the cache. *)
Store(f) ==
  /\ phase[f] = "read" /\ Goes(f, "clear")
  /\ entries' = index[f] /\ fetched' = TRUE /\ whole' = ~cut[f]
  /\ index' = [index EXCEPT ![f] = {}] /\ cut' = [cut EXCEPT ![f] = FALSE]
  /\ UNCHANGED <<share, due, inflight, err, base, waiters>>

(* scan: a call fails, the job fails, or 60 s are over.                    *)
ScanFails(f) ==
  /\ phase[f] = "scan" /\ Goes(f, "clear")
  /\ err' = [err EXCEPT ![f] = TRUE]
  /\ UNCHANGED <<share, cache, due, inflight, index, cut, base, waiters>>

(* startLocked: the goroutine clears c.inflight in a critical section ...  *)
Clear(f) ==
  /\ phase[f] = "clear" /\ Goes(f, "close")
  /\ inflight' = NoFlight
  /\ UNCHANGED <<share, cache, due, index, cut, err, base, waiters>>

(* Mutant of Close: f.done stays open when the scan has failed.            *)
CloseOnSuccess(f) ==
  /\ phase[f] = "close" /\ ~err[f] /\ Goes(f, "closed")
  /\ UNCHANGED <<share, cache, due, inflight, index, cut, err, base, waiters>>

(* ... and closes f.done after it.                                         *)
Close(f) ==
  /\ phase[f] = "close" /\ Goes(f, "closed")
  /\ UNCHANGED <<share, cache, due, inflight, index, cut, err, base, waiters>>

TtlPasses ==
  /\ ~due /\ due' = TRUE
  /\ UNCHANGED <<share, cache, inflight, flights, waiters>>

-----------------------------------------------------------------------------
Scan(f) == \/ Read(f) \/ Store(f) \/ ScanFails(f)
           \/ Clear(f) \/ Close(f)
Proceed(w) == Join(w) \/ Wake(w) \/ Answer(w)

(* Steps of the catalog itself; who calls it, when time passes and what    *)
(* changes the share is for the modules that use it to say.                *)
CatalogStep == \/ \E f \in Flight : Scan(f)
               \/ \E w \in Waiter : Proceed(w)
Arrives(m) == /\ share' = share \cup {m}
              /\ UNCHANGED <<cache, due, inflight, flights, waiters>>

-----------------------------------------------------------------------------
CatalogTypeOK ==
  /\ share \in SUBSET Model /\ entries \in SUBSET Model
  /\ fetched \in BOOLEAN /\ whole \in BOOLEAN /\ due \in BOOLEAN
  /\ inflight \in Flight \cup {NoFlight}
  /\ phase \in [Flight -> Phase]
  /\ index \in [Flight -> SUBSET Model] /\ base \in [Flight -> SUBSET Model]
  /\ cut \in [Flight -> BOOLEAN] /\ err \in [Flight -> BOOLEAN]
  /\ wpc \in [Waiter -> {"idle", "join", "wait", "served", "failed"}]
  /\ on \in [Waiter -> Flight \cup {NoFlight}]
  /\ \A w \in Waiter : wpc[w] \in {"wait", "served", "failed"} => on[w] # NoFlight

(* Scans never overlap, although a flight clears c.inflight before it      *)
(* tells its waiters (catalog.go:120-124), and the next may begin then.    *)
OneScan == \A f, g \in Flight : Scanning(f) /\ Scanning(g) => f = g

(* Who is served finds in the cache all that was on the share when the     *)
(* flight it waited for started (catalog.go:95-106), however many flights  *)
(* have come and failed in between, unless the last output was cut short.  *)
ServedIsCurrent ==
  \A w \in Waiter :
    wpc[w] = "served" => fetched /\ (whole => base[on[w]] \subseteq entries)
=============================================================================
