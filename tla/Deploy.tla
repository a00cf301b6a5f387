------------------------------- MODULE Deploy -------------------------------
(***************************************************************************)
(* The deployment service (internal/deploy/service.go) as its HTTP         *)
(* handlers call it, over the listing of internal/nomadapi/jobs.go.        *)
(*                                                                         *)
(* The service keeps no state and takes no lock.  Every call reads the     *)
(* deployments from Nomad, one request for the list and more for each job, *)
(* decides on what it has read, and sends one request that changes a job.  *)
(* A step is one of these requests, or the decision between them, so that  *)
(* other callers and Nomad itself come in anywhere.  A name stands for the *)
(* job "model-" + name; the other parameters of a deployment are left out. *)
(***************************************************************************)
EXTENDS Naturals

CONSTANTS
  Caller,            \* goroutines serving requests
  Name,              \* names of deployments
  NoName,            \* p.Name of a caller without a request
  PortMin, PortMax,  \* the configured range
  Asked,             \* the ports requests ask for; 0 leaves it to the service
  Env                \* what may go wrong, a subset of EnvNames

(***************************************************************************)
(* omit       the lookup of a job fails, and the listing omits it          *)
(* portless   the lookup of its allocation fails, and its port is unknown  *)
(* pending    a call begins although a deployment has not been placed yet  *)
(* fail       the request for the list, or the registration, fails; if the *)
(*            registration took effect all the same, that is Register      *)
(***************************************************************************)
EnvNames == {"omit", "portless", "pending", "fail"}

ASSUME NameAssumption == NoName \notin Name
ASSUME RangeAssumption == PortMin \in Nat \ {0} /\ PortMax \in Nat
ASSUME AskedAssumption == Asked \subseteq Nat
ASSUME EnvAssumption == Env \subseteq EnvNames

VARIABLES
  job,   \* Nomad: the job of each name
  pc,    \* per caller: the request it makes next
  name,  \* per caller: p.Name
  port,  \* per caller: p.Port
  up,    \* per caller: names its listing has as not dead
  todo,  \* per caller: those of them ListManaged has not looked up yet
  seen,  \* per caller: the ports it has found for them, 0 if none
  (* observers, read by no action of the service *)
  unseen,  \* per caller: what was registered since it began to list, or
           \* what its listing does not show with its port
  excuse   \* per name: unseen of the call that registered it

locals == <<name, port, up, todo, seen>>
vars == <<job, pc, name, port, up, todo, seen, unseen, excuse>>

Status == {"none", "pending", "running", "stopping", "dead"}

(* port is the port the job reserves while it is to run, shown that of its *)
(* latest allocation; 0 is none.  Status "stopping": deregistered while    *)
(* its tasks still run.                                                    *)
Ports == {0} \cup (PortMin .. PortMax)
Job == [status : Status, port : Ports, shown : Ports]
Absent == [status |-> "none", port |-> 0, shown |-> 0]

(* Nomad reports a job whose tasks still run as running.  A listing has    *)
(* dead jobs too, but nothing of them matters to Deploy.                   *)
Undead(s) == s \notin {"none", "dead"}

(* Deployments somebody launched and nobody has stopped.                   *)
Live(n) == job[n].status \in {"pending", "running"}
Placed(n) == job[n].status = "running" /\ job[n].shown = job[n].port

-----------------------------------------------------------------------------
Init == /\ job = [n \in Name |-> Absent]
        /\ pc = [c \in Caller |-> "idle"]
        /\ name = [c \in Caller |-> NoName]
        /\ port = [c \in Caller |-> 0]
        /\ up = [c \in Caller |-> {}]
        /\ todo = [c \in Caller |-> {}]
        /\ seen = [c \in Caller |-> [n \in Name |-> 0]]
        /\ unseen = [c \in Caller |-> {}]
        /\ excuse = [n \in Name |-> {}]

(* What Deploy has read is gone once it has decided.                       *)
Forget(c) == /\ up' = [up EXCEPT ![c] = {}]
             /\ seen' = [seen EXCEPT ![c] = [n \in Name |-> 0]]

Return(c) == /\ pc' = [pc EXCEPT ![c] = "idle"]
             /\ name' = [name EXCEPT ![c] = NoName]
             /\ port' = [port EXCEPT ![c] = 0]
             /\ unseen' = [unseen EXCEPT ![c] = {}]

-----------------------------------------------------------------------------
(* POST /deployments, and the form of the deploy page.                     *)
RequestDeploy(c, n, p) ==
  /\ pc[c] = "idle"
  /\ "pending" \in Env \/ \A m \in Name : Live(m) => Placed(m)
  /\ pc' = [pc EXCEPT ![c] = "list"]
  /\ name' = [name EXCEPT ![c] = n]
  /\ port' = [port EXCEPT ![c] = p]
  /\ UNCHANGED <<job, up, todo, seen, unseen, excuse>>

(* ListManaged: the stubs, with the status of each job.                    *)
ListStubs(c) ==
  /\ pc[c] = "list"
  /\ pc' = [pc EXCEPT ![c] = "look"]
  /\ up' = [up EXCEPT ![c] = {n \in Name : Undead(job[n].status)}]
  /\ todo' = [todo EXCEPT ![c] = {n \in Name : Undead(job[n].status)}]
  /\ UNCHANGED <<job, name, port, seen, unseen, excuse>>

ListFails(c) ==
  /\ pc[c] = "list" /\ "fail" \in Env
  /\ Return(c)
  /\ UNCHANGED <<job, up, todo, seen, excuse>>

(* ListManaged: the lookups of one stub, which leave it in the listing or  *)
(* not, with port p.  Its status stays that of the stub.                   *)
LookedUp(c, n, listed, p) ==
  /\ pc[c] = "look" /\ n \in todo[c]
  /\ todo' = [todo EXCEPT ![c] = @ \ {n}]
  /\ up' = [up EXCEPT ![c] = IF listed THEN @ ELSE @ \ {n}]
  /\ seen' = [seen EXCEPT ![c][n] = p]
  /\ unseen' = [unseen EXCEPT ![c] =
       IF Live(n) /\ ~(listed /\ p = job[n].port) THEN @ \cup {n} ELSE @]
  /\ UNCHANGED <<job, pc, name, port, excuse>>

LookUp(c, n) ==
  /\ job[n].status # "none"
  /\ LookedUp(c, n, TRUE, job[n].shown)

(* The job is gone when its description is asked for, or asking fails.     *)
LookUpFails(c, n) ==
  /\ job[n].status = "none" \/ "omit" \in Env
  /\ LookedUp(c, n, FALSE, 0)

(* The job is gone, or asking fails, when its allocation is asked for.     *)
LookUpPortless(c, n) ==
  /\ job[n].status = "none" \/ "portless" \in Env
  /\ LookedUp(c, n, TRUE, 0)

-----------------------------------------------------------------------------
(* Deploy: the checks on the listing.                                      *)
Listed(c) == pc[c] = "look" /\ todo[c] = {}
Taken(c) == name[c] \in up[c]
Used(c) == {seen[c][n] : n \in up[c]} \ {0}
Free(c) == (PortMin .. PortMax) \ Used(c)

(* suggestPort tries the ports from PortMin on.                            *)
Suggested(c, p) == p \in Free(c) /\ \A q \in Free(c) : p <= q

(* Mutants: a name in use is not refused; the port of a request is not     *)
(* compared with those in use; it is not compared with the range.          *)
RefusedForPort(c) == \/ port[c] = 0 /\ Free(c) = {}
                     \/ port[c] # 0 /\ port[c] \notin Free(c)
RefusedOutOfRange(c) == \/ Taken(c)
                        \/ port[c] = 0 /\ Free(c) = {}
                        \/ port[c] # 0 /\ port[c] \notin PortMin .. PortMax
RefusedForUse(c) == \/ Taken(c)
                    \/ port[c] = 0 /\ Free(c) = {}
                    \/ port[c] \in Used(c)

Refused(c) ==
  \/ Taken(c)
  \/ port[c] = 0 /\ Free(c) = {}
  \/ port[c] # 0 /\ port[c] \notin Free(c)

Refuse(c) ==
  /\ Listed(c) /\ Refused(c)
  /\ Return(c) /\ Forget(c)
  /\ UNCHANGED <<job, todo, excuse>>

Accept(c) ==
  /\ Listed(c) /\ ~Refused(c)
  /\ pc' = [pc EXCEPT ![c] = "register"]
  /\ \E p \in Asked \cup (PortMin .. PortMax) :
       /\ p # 0 /\ (p = port[c] \/ (port[c] = 0 /\ Suggested(c, p)))
       /\ port' = [port EXCEPT ![c] = p]
  /\ Forget(c)
  /\ UNCHANGED <<job, name, todo, unseen, excuse>>

(* Register creates the job or updates the one that is there, whose last   *)
(* allocation stays the latest one until Nomad places the new one.         *)
Registered(n, p) ==
  [status |-> IF job[n].status \in {"running", "stopping"}
              THEN "running" ELSE "pending",
   port |-> p, shown |-> job[n].shown]

Register(c) ==
  /\ pc[c] = "register"
  /\ job' = [job EXCEPT ![name[c]] = Registered(name[c], port[c])]
  /\ pc' = [pc EXCEPT ![c] = "idle"]
  /\ name' = [name EXCEPT ![c] = NoName]
  /\ port' = [port EXCEPT ![c] = 0]
  /\ unseen' = [d \in Caller |->
       IF d = c THEN {}
       ELSE IF pc[d] \in {"look", "register"} THEN unseen[d] \cup {name[c]}
       ELSE unseen[d]]
  /\ excuse' = [n \in Name |-> IF n = name[c] THEN unseen[c]
                                              ELSE excuse[n] \ {name[c]}]
  /\ UNCHANGED <<up, todo, seen>>

RegisterFails(c) ==
  /\ pc[c] = "register" /\ "fail" \in Env
  /\ Return(c)
  /\ UNCHANGED <<job, up, todo, seen, excuse>>

(* Stop: Deregister, with or without purge.  DELETE /deployments/{name}    *)
(* first looks the deployment up and may then answer 404; the button of    *)
(* the page does not, so a stop may come at any time.                      *)
Deregistered(j, purge) ==
  CASE j.status = "none" \/ purge -> Absent
    [] j.status = "running" -> [j EXCEPT !.status = "stopping", !.port = 0]
    [] j.status = "pending" -> [j EXCEPT !.status = "dead", !.port = 0]
    [] OTHER -> j

Stop(n, purge) ==
  /\ job' = [job EXCEPT ![n] = Deregistered(@, purge)]
  /\ excuse' = [m \in Name |-> IF m = n THEN {} ELSE excuse[m] \ {n}]
  /\ UNCHANGED <<pc, locals, unseen>>

-----------------------------------------------------------------------------
(* Nomad: a deployment is placed when its port is free on the box.         *)
Place(n) ==
  /\ Live(n) /\ ~Placed(n)
  /\ \A m \in Name \ {n} :
       job[m].status \in {"running", "stopping"} => job[m].shown # job[n].port
  /\ job' = [job EXCEPT ![n].status = "running", ![n].shown = job[n].port]
  /\ UNCHANGED <<pc, locals, unseen, excuse>>

(* Nomad: the tasks of a stopped deployment have ended.                    *)
Settle(n) ==
  /\ job[n].status = "stopping"
  /\ job' = [job EXCEPT ![n].status = "dead"]
  /\ UNCHANGED <<pc, locals, unseen, excuse>>

-----------------------------------------------------------------------------
Serve(c) ==
  \/ ListStubs(c) \/ ListFails(c)
  \/ \E n \in Name : LookUp(c, n) \/ LookUpFails(c, n) \/ LookUpPortless(c, n)
  \/ Refuse(c) \/ Accept(c) \/ Register(c) \/ RegisterFails(c)

Nomad(n) == Place(n) \/ Settle(n)

Next == \/ \E c \in Caller, n \in Name, p \in Asked : RequestDeploy(c, n, p)
        \/ \E c \in Caller : Serve(c)
        \/ \E n \in Name, purge \in BOOLEAN : Stop(n, purge)
        \/ \E n \in Name : Nomad(n)

Spec == Init /\ [][Next]_vars

-----------------------------------------------------------------------------
(* Every port a job gets lies in the configured range (service.go:48).     *)
TypeOK ==
  /\ job \in [Name -> Job]
  /\ pc \in [Caller -> {"idle", "list", "look", "register"}]
  /\ name \in [Caller -> Name \cup {NoName}]
  /\ port \in [Caller -> Asked \cup Ports]
  /\ up \in [Caller -> SUBSET Name]
  /\ todo \in [Caller -> SUBSET Name]
  /\ seen \in [Caller -> [Name -> Ports]]
  /\ unseen \in [Caller -> SUBSET Name]
  /\ excuse \in [Name -> SUBSET Name]

(* Nobody locks names or ports, so two calls can clash; but they must      *)
(* overlap, or one must have been unable to see the port of the other.     *)
(* Deploy, service.go:31-63: a call whose listing shows a deployment in    *)
(* full never registers that deployment's port for another.                *)
ClashNeedsRace ==
  \A n, m \in Name :
    n # m /\ Live(n) /\ Live(m) /\ job[n].port = job[m].port
      => m \in excuse[n] \/ n \in excuse[m]

(* A deployment that is up is replaced only by a call that had begun to    *)
(* list before it was launched, or whose listing omitted it                *)
(* (service.go:35-39, jobs.go:65-68).                                      *)
ReplacesOnlyUnseen ==
  \A c \in Caller :
    pc[c] = "register" /\ Live(name[c]) => name[c] \in unseen[c]

(* Deployments have ports of their own, as SuggestPort's comment has it    *)
(* ("a free port", service.go:71): true of calls one after the other that  *)
(* wait until the deployment before has been placed.                       *)
PortsDisjoint ==
  \A n, m \in Name :
    n # m /\ Live(n) /\ Live(m) => job[n].port # job[m].port
=============================================================================
