--------------------------- MODULE Deploy_proofs ---------------------------
(***************************************************************************)
(* Proofs about Deploy: for any callers, names and range of ports.         *)
(***************************************************************************)
EXTENDS Deploy, TLAPS

(* What makes TypeOK inductive: a call under way has a name, a job that is *)
(* to run has a port, and what is accepted is a port of the range.         *)
TypeInv ==
  /\ TypeOK
  /\ \A c \in Caller : pc[c] # "idle" => name[c] \in Name
  /\ \A c \in Caller : pc[c] = "register" => port[c] \in PortMin .. PortMax
  /\ \A n \in Name : Live(n) => job[n].port \in PortMin .. PortMax

(* What a call may rely on: a live deployment that it has not missed is in *)
(* its listing, with its port once looked up; so it is neither the name    *)
(* nor the owner of the port the call is about to register.                *)
Relies(c) ==
  \A m \in Name : Live(m) /\ m \notin unseen[c] =>
    /\ pc[c] = "look" => m \in up[c] /\ (m \notin todo[c] => seen[c][m] = job[m].port)
    /\ pc[c] = "register" => m # name[c] /\ job[m].port # port[c]

ClashInv == /\ TypeInv
            /\ \A c \in Caller : Relies(c)
            /\ ClashNeedsRace

-----------------------------------------------------------------------------
(* Stop leaves no job that is to run, whatever it finds.                   *)
LEMMA StopKills ==
  ASSUME NEW j \in Job, NEW purge \in BOOLEAN
  PROVE  /\ Deregistered(j, purge) \in Job
         /\ Deregistered(j, purge).status \notin {"pending", "running"}
<1>1. CASE j.status = "none" \/ purge
  BY <1>1 DEF Deregistered, Absent, Job, Status, Ports
<1>2. CASE ~(j.status = "none" \/ purge) /\ j.status = "running"
  BY <1>2 DEF Deregistered, Job, Status, Ports
<1>3. CASE ~(j.status = "none" \/ purge) /\ j.status = "pending"
  BY <1>3 DEF Deregistered, Job, Status, Ports
<1>4. CASE ~(j.status = "none" \/ purge) /\ j.status \notin {"pending", "running"}
  BY <1>4 DEF Deregistered
<1> QED BY <1>1, <1>2, <1>3, <1>4

LEMMA TypeStep == TypeInv /\ [Next]_vars => TypeInv'
<1> SUFFICES ASSUME TypeInv, [Next]_vars PROVE TypeInv'
  OBVIOUS
<1> USE RangeAssumption, AskedAssumption, NameAssumption
<1>1. ASSUME NEW c \in Caller, NEW n \in Name, NEW p \in Asked, RequestDeploy(c, n, p)
      PROVE  TypeInv'
  BY <1>1 DEF TypeInv, TypeOK, RequestDeploy, Live
<1>2. ASSUME NEW c \in Caller, ListStubs(c)
      PROVE  TypeInv'
  BY <1>2 DEF TypeInv, TypeOK, ListStubs, Live
<1>3. ASSUME NEW c \in Caller, ListFails(c)
      PROVE  TypeInv'
  BY <1>3 DEF TypeInv, TypeOK, ListFails, Return, Live, Ports
<1>4. ASSUME NEW c \in Caller, NEW n \in Name, NEW l \in BOOLEAN, NEW p \in Ports,
             LookedUp(c, n, l, p)
      PROVE  TypeInv'
  BY <1>4 DEF TypeInv, TypeOK, LookedUp, Live
<1>5. ASSUME NEW c \in Caller, NEW n \in Name,
             LookUp(c, n) \/ LookUpFails(c, n) \/ LookUpPortless(c, n)
      PROVE  TypeInv'
  <2>1. 0 \in Ports /\ job[n].shown \in Ports
    BY DEF Ports, TypeInv, TypeOK, Job
  <2> QED BY <1>4, <1>5, <2>1 DEF LookUp, LookUpFails, LookUpPortless
<1>6. ASSUME NEW c \in Caller, Refuse(c)
      PROVE  TypeInv'
  BY <1>6 DEF TypeInv, TypeOK, Refuse, Return, Forget, Live, Ports
<1>7. ASSUME NEW c \in Caller, Accept(c)
      PROVE  TypeInv'
  <2>1. PICK p \in Asked \cup (PortMin .. PortMax) :
          /\ p # 0 /\ (p = port[c] \/ (port[c] = 0 /\ Suggested(c, p)))
          /\ port' = [port EXCEPT ![c] = p]
    BY <1>7 DEF Accept
  <2>2. p \in PortMin .. PortMax
    BY <1>7, <2>1 DEF Accept, Refused, Suggested, Free
  <2> QED BY <1>7, <2>1, <2>2 DEF TypeInv, TypeOK, Accept, Listed, Forget, Live, Ports
<1>8. ASSUME NEW c \in Caller, Register(c)
      PROVE  TypeInv'
  <2>1. name[c] \in Name /\ port[c] \in PortMin .. PortMax
    BY <1>8 DEF TypeInv, Register
  <2>2. Registered(name[c], port[c]) \in Job
    BY <2>1 DEF Registered, Job, Status, Ports, TypeInv, TypeOK
  <2>3. TypeOK'
    BY <1>8, <2>1, <2>2 DEF TypeInv, TypeOK, Register, Ports
  <2>4. \A n \in Name : Live(n)' => job'[n].port \in PortMin .. PortMax
    BY <1>8, <2>1 DEF Register, Registered, Live, TypeInv, TypeOK
  <2> QED BY <1>8, <2>3, <2>4 DEF TypeInv, Register, TypeOK
<1>9. ASSUME NEW c \in Caller, RegisterFails(c)
      PROVE  TypeInv'
  BY <1>9 DEF TypeInv, TypeOK, RegisterFails, Return, Live, Ports
<1>10. ASSUME NEW n \in Name, NEW purge \in BOOLEAN, Stop(n, purge)
       PROVE  TypeInv'
  <2>1. job[n] \in Job
    BY DEF TypeInv, TypeOK
  <2>2. /\ Deregistered(job[n], purge) \in Job
        /\ Deregistered(job[n], purge).status \notin {"pending", "running"}
    BY <2>1, StopKills
  <2> QED BY <1>10, <2>2 DEF TypeInv, TypeOK, Stop, Live, locals
<1>11. ASSUME NEW n \in Name, Place(n)
       PROVE  TypeInv'
  <2>1. job[n] \in Job /\ job[n].port \in PortMin .. PortMax
    BY <1>11 DEF TypeInv, TypeOK, Place
  <2>2. [job[n] EXCEPT !.status = "running", !.shown = job[n].port] \in Job
    BY <2>1 DEF Job, Status, Ports
  <2>3. job' = [job EXCEPT ![n] =
                  [job[n] EXCEPT !.status = "running", !.shown = job[n].port]]
    BY <1>11, <2>1 DEF Place, TypeInv, TypeOK, Job
  <2> QED BY <1>11, <2>1, <2>2, <2>3 DEF TypeInv, TypeOK, Place, Live, locals
<1>12. ASSUME NEW n \in Name, Settle(n)
       PROVE  TypeInv'
  <2>1. job[n] \in Job
    BY DEF TypeInv, TypeOK
  <2>2. [job[n] EXCEPT !.status = "dead"] \in Job
    BY <2>1 DEF Job, Status
  <2> QED BY <1>12, <2>1, <2>2 DEF TypeInv, TypeOK, Settle, Live, locals
<1>13. ASSUME UNCHANGED vars
       PROVE  TypeInv'
  BY <1>13 DEF TypeInv, TypeOK, vars, Live
<1> QED BY <1>1, <1>2, <1>3, <1>5, <1>6, <1>7, <1>8, <1>9, <1>10, <1>11, <1>12, <1>13
        DEF Next, Serve, Nomad

LEMMA TypeInit == Init => TypeInv
BY RangeAssumption, NameAssumption
   DEF Init, TypeInv, TypeOK, Absent, Job, Status, Ports, Live

(* Every variable keeps its type, and every port a job gets lies in the    *)
(* configured range.                                                       *)
THEOREM TypeCorrect == Spec => []TypeOK
<1>1. TypeInv => TypeOK
  BY DEF TypeInv
<1> QED BY <1>1, TypeInit, TypeStep, PTL DEF Spec

-----------------------------------------------------------------------------
(* Steps that launch nothing keep what every call relies on, as long as    *)
(* they leave the calls' own variables alone.                              *)
LEMMA Quiet ==
  ASSUME ClashInv, UNCHANGED <<pc, locals, unseen>>,
         \A m \in Name : Live(m)' => Live(m) /\ job'[m].port = job[m].port,
         \A m, k \in Name : Live(m)' /\ Live(k)' /\ k \in excuse[m] => k \in excuse'[m]
  PROVE  (\A c \in Caller : Relies(c))' /\ ClashNeedsRace'
<1>1. ASSUME NEW c \in Caller PROVE Relies(c)'
  BY DEF ClashInv, Relies, locals
<1>2. ClashNeedsRace'
  BY DEF ClashInv, ClashNeedsRace
<1> QED BY <1>1, <1>2

(* Steps of one call that change no job keep what the others rely on.      *)
LEMMA Aside ==
  ASSUME ClashInv, NEW c \in Caller, UNCHANGED <<job, excuse>>, Relies(c)',
         \A d \in Caller \ {c} :
           /\ pc'[d] = pc[d] /\ name'[d] = name[d] /\ port'[d] = port[d]
           /\ up'[d] = up[d] /\ todo'[d] = todo[d] /\ seen'[d] = seen[d]
           /\ unseen'[d] = unseen[d]
  PROVE  (\A d \in Caller : Relies(d))' /\ ClashNeedsRace'
<1>1. ASSUME NEW d \in Caller \ {c} PROVE Relies(d)'
  BY <1>1 DEF ClashInv, Relies, Live
<1>2. ClashNeedsRace'
  BY DEF ClashInv, ClashNeedsRace, Live
<1> QED BY <1>1, <1>2

LEMMA LookedUpStep ==
  ASSUME ClashInv, NEW c \in Caller, NEW n \in Name, NEW l \in BOOLEAN, NEW p \in Ports,
         LookedUp(c, n, l, p)
  PROVE  (\A d \in Caller : Relies(d))' /\ ClashNeedsRace'
<1>1. Relies(c)'
  <2> SUFFICES ASSUME NEW m \in Name, Live(m)', m \notin unseen'[c]
               PROVE  m \in up'[c] /\ (m \notin todo'[c] => seen'[c][m] = job'[m].port)
    BY DEF LookedUp, Relies
  <2>1. Live(m) /\ m \notin unseen[c] /\ pc[c] = "look" /\ job' = job
    BY DEF LookedUp, Live, ClashInv, TypeInv, TypeOK
  <2>2. m \in up[c] /\ (m \notin todo[c] => seen[c][m] = job[m].port)
    BY <2>1 DEF ClashInv, Relies
  <2>3. CASE m = n
    BY <2>1, <2>2, <2>3 DEF LookedUp, ClashInv, TypeInv, TypeOK
  <2>4. CASE m # n
    BY <2>1, <2>2, <2>4 DEF LookedUp, ClashInv, TypeInv, TypeOK
  <2> QED BY <2>3, <2>4
<1> QED BY <1>1, Aside DEF LookedUp, ClashInv, TypeInv, TypeOK

(* The decision: the port taken for a deployment is in use by no live      *)
(* deployment the call has not missed.                                     *)
LEMMA AcceptStep ==
  ASSUME ClashInv, NEW c \in Caller, Accept(c)
  PROVE  (\A d \in Caller : Relies(d))' /\ ClashNeedsRace'
<1>1. PICK p \in Asked \cup (PortMin .. PortMax) :
        /\ p # 0 /\ (p = port[c] \/ (port[c] = 0 /\ Suggested(c, p)))
        /\ port' = [port EXCEPT ![c] = p]
  BY DEF Accept
<1>2. p \in Free(c) /\ name[c] \notin up[c]
  BY <1>1 DEF Accept, Refused, Suggested, Taken
<1>3. Relies(c)'
  <2> SUFFICES ASSUME NEW m \in Name, Live(m), m \notin unseen[c]
               PROVE  m # name[c] /\ job[m].port # p
    BY <1>1 DEF Accept, Relies, Live, ClashInv, TypeInv, TypeOK
  <2>1. m \in up[c] /\ seen[c][m] = job[m].port
    BY DEF Accept, Listed, ClashInv, Relies
  <2>2. job[m].port # 0
    BY RangeAssumption DEF ClashInv, TypeInv
  <2> QED BY <1>2, <2>1, <2>2 DEF Free, Used
<1> QED BY <1>1, <1>3, Aside DEF Accept, Forget, ClashInv, TypeInv, TypeOK

LEMMA RegisterStep ==
  ASSUME ClashInv, NEW c \in Caller, Register(c)
  PROVE  (\A d \in Caller : Relies(d))' /\ ClashNeedsRace'
<1> DEFINE n == name[c]
<1>1. n \in Name
  BY DEF Register, ClashInv, TypeInv
<1>2. \A m \in Name \ {n} : (Live(m)' <=> Live(m)) /\ job'[m] = job[m]
  BY <1>1 DEF Register, Live, ClashInv, TypeInv, TypeOK
<1>3. job'[n].port = port[c]
  BY <1>1 DEF Register, Registered, ClashInv, TypeInv, TypeOK
<1>4. ASSUME NEW d \in Caller PROVE Relies(d)'
  <2>1. CASE d = c
    BY <2>1 DEF Register, Relies, ClashInv, TypeInv, TypeOK
  <2>2. CASE d # c /\ pc[d] \in {"look", "register"}
    <3>1. unseen'[d] = unseen[d] \cup {n} /\ pc'[d] = pc[d] /\ name'[d] = name[d]
          /\ port'[d] = port[d] /\ up'[d] = up[d] /\ todo'[d] = todo[d] /\ seen'[d] = seen[d]
      BY <2>2 DEF Register, ClashInv, TypeInv, TypeOK
    <3> QED BY <1>2, <3>1 DEF Relies, ClashInv
  <2>3. CASE d # c /\ pc[d] \notin {"look", "register"}
    BY <2>3 DEF Register, Relies, ClashInv, TypeInv, TypeOK
  <2> QED BY <2>1, <2>2, <2>3
<1>5. ASSUME NEW k \in Name, NEW m \in Name, k # m, Live(k)', Live(m)',
             job'[k].port = job'[m].port
      PROVE  m \in excuse'[k] \/ k \in excuse'[m]
  <2>0. excuse' = [x \in Name |-> IF x = n THEN unseen[c] ELSE excuse[x] \ {n}]
    BY DEF Register
  <2>1. \A x \in Name \ {n} : Live(x) /\ job[x].port = port[c] => x \in excuse'[n]
    BY <1>1, <2>0 DEF Register, Relies, ClashInv
  <2>2. CASE k = n
    BY <1>2, <1>3, <1>5, <2>1, <2>2
  <2>3. CASE m = n
    BY <1>2, <1>3, <1>5, <2>1, <2>3
  <2>4. CASE k # n /\ m # n
    <3>1. m \in excuse[k] \/ k \in excuse[m]
      BY <1>2, <1>5, <2>4 DEF ClashInv, ClashNeedsRace
    <3> QED BY <2>0, <2>4, <3>1
  <2> QED BY <2>2, <2>3, <2>4
<1> QED BY <1>4, <1>5 DEF ClashNeedsRace

LEMMA ClashStep == ClashInv /\ [Next]_vars => ClashInv'
<1> SUFFICES ASSUME ClashInv, [Next]_vars
             PROVE  (\A c \in Caller : Relies(c))' /\ ClashNeedsRace'
  BY TypeStep DEF ClashInv
<1>0. TypeInv /\ TypeOK
  BY DEF ClashInv, TypeInv
<1>1. ASSUME NEW c \in Caller, NEW n \in Name, NEW p \in Asked, RequestDeploy(c, n, p)
      PROVE  (\A d \in Caller : Relies(d))' /\ ClashNeedsRace'
  <2>1. Relies(c)'
    BY <1>0, <1>1 DEF RequestDeploy, Relies, TypeOK
  <2> QED BY <1>0, <1>1, <2>1, Aside DEF RequestDeploy, TypeOK
<1>2. ASSUME NEW c \in Caller, ListStubs(c)
      PROVE  (\A d \in Caller : Relies(d))' /\ ClashNeedsRace'
  <2>1. Relies(c)'
    BY <1>0, <1>2 DEF ListStubs, Relies, TypeOK, Live, Undead
  <2> QED BY <1>0, <1>2, <2>1, Aside DEF ListStubs, TypeOK
<1>3. ASSUME NEW c \in Caller, ListFails(c) \/ RegisterFails(c) \/ Refuse(c)
      PROVE  (\A d \in Caller : Relies(d))' /\ ClashNeedsRace'
  <2>1. Relies(c)'
    BY <1>0, <1>3 DEF ListFails, RegisterFails, Refuse, Return, Relies, TypeOK
  <2> QED BY <1>0, <1>3, <2>1, Aside
          DEF ListFails, RegisterFails, Refuse, Return, Forget, TypeOK
<1>4. ASSUME NEW c \in Caller, NEW n \in Name,
             LookUp(c, n) \/ LookUpFails(c, n) \/ LookUpPortless(c, n)
      PROVE  (\A d \in Caller : Relies(d))' /\ ClashNeedsRace'
  <2>1. 0 \in Ports /\ job[n].shown \in Ports
    BY <1>0 DEF Ports, TypeOK, Job
  <2> QED BY <1>4, <2>1, LookedUpStep DEF LookUp, LookUpFails, LookUpPortless
<1>5. ASSUME NEW n \in Name, NEW purge \in BOOLEAN, Stop(n, purge)
      PROVE  (\A d \in Caller : Relies(d))' /\ ClashNeedsRace'
  <2>1. ~Live(n)'
    BY <1>0, <1>5, StopKills DEF Stop, TypeOK, Live
  <2>2. \A m \in Name \ {n} : job'[m] = job[m]
    BY <1>0, <1>5 DEF Stop, TypeOK
  <2> QED BY <1>0, <1>5, <2>1, <2>2, Quiet DEF Stop, TypeOK, Live
<1>6. ASSUME NEW n \in Name, Nomad(n)
      PROVE  (\A d \in Caller : Relies(d))' /\ ClashNeedsRace'
  <2>0. /\ job[n] \in Job
        /\ \A m \in Name \ {n} : job'[m] = job[m]
    BY <1>0, <1>6 DEF Nomad, Place, Settle, TypeOK
  <2>1. \A m \in Name : Live(m)' => Live(m) /\ job'[m].port = job[m].port
    <3>1. CASE Place(n)
      <4>1. job'[n].port = job[n].port /\ Live(n)
        BY <1>0, <2>0, <3>1 DEF Place, TypeOK, Job
      <4> QED BY <2>0, <4>1 DEF Live
    <3>2. CASE Settle(n)
      <4>1. job'[n].status = "dead"
        BY <1>0, <2>0, <3>2 DEF Settle, TypeOK, Job
      <4> QED BY <2>0, <4>1 DEF Live
    <3> QED BY <1>6, <3>1, <3>2 DEF Nomad
  <2> QED BY <1>6, <2>1, Quiet DEF Nomad, Place, Settle
<1>7. CASE UNCHANGED vars
  BY <1>7, Quiet DEF vars, locals, Live
<1> QED BY <1>1, <1>2, <1>3, <1>4, <1>5, <1>6, <1>7, AcceptStep, RegisterStep
        DEF Next, Serve

LEMMA ClashInvariant == Spec => []ClashInv
<1>1. Init => ClashInv
  BY TypeInit DEF Init, ClashInv, Relies, ClashNeedsRace, Live, Absent
<1> QED BY <1>1, ClashStep, PTL DEF Spec

(* Two deployments that are up have the same port only if the call that    *)
(* launched one of them overlapped the launch of the other, or could not   *)
(* see its port.                                                           *)
THEOREM ClashesAreRaces == Spec => []ClashNeedsRace
<1>1. ClashInv => ClashNeedsRace
  BY DEF ClashInv
<1> QED BY <1>1, ClashInvariant, PTL

(* A deployment that is up is replaced only by a call that has missed it.  *)
THEOREM ReplacesOnlyMissed == Spec => []ReplacesOnlyUnseen
<1>1. ClashInv => ReplacesOnlyUnseen
  BY DEF ClashInv, TypeInv, Relies, ReplacesOnlyUnseen
<1> QED BY <1>1, ClashInvariant, PTL

-----------------------------------------------------------------------------
(* One caller whose lookups succeed and who waits until the deployment     *)
(* before has been placed.                                                 *)
Alone == /\ \A c, d \in Caller : c = d
         /\ Env \subseteq {"fail"}

(* Then nothing is missed.                                                 *)
AloneInv == /\ ClashInv
            /\ \A c \in Caller : unseen[c] = {}
            /\ \A c \in Caller : pc[c] # "idle" => \A m \in Name : Live(m) => Placed(m)
            /\ \A n \in Name : excuse[n] = {}

LEMMA AloneStep == Alone /\ AloneInv /\ [Next]_vars => AloneInv'
<1> SUFFICES ASSUME Alone, AloneInv, [Next]_vars
             PROVE  /\ \A c \in Caller : unseen'[c] = {}
                    /\ \A c \in Caller : pc'[c] # "idle" =>
                         \A m \in Name : Live(m)' => Placed(m)'
                    /\ \A n \in Name : excuse'[n] = {}
  BY ClashStep DEF AloneInv
<1>0. TypeInv /\ TypeOK
  BY DEF AloneInv, ClashInv, TypeInv
<1>1. ASSUME NEW c \in Caller, NEW n \in Name, NEW p \in Asked, RequestDeploy(c, n, p)
      PROVE  /\ \A d \in Caller : unseen'[d] = {}
             /\ \A d \in Caller : pc'[d] # "idle" =>
                  \A m \in Name : Live(m)' => Placed(m)'
             /\ \A k \in Name : excuse'[k] = {}
  BY <1>1 DEF RequestDeploy, Alone, AloneInv, Live, Placed
<1>2. ASSUME NEW c \in Caller,
             ListStubs(c) \/ ListFails(c) \/ Refuse(c) \/ Accept(c) \/ RegisterFails(c)
      PROVE  /\ \A d \in Caller : unseen'[d] = {}
             /\ \A d \in Caller : pc'[d] # "idle" =>
                  \A m \in Name : Live(m)' => Placed(m)'
             /\ \A k \in Name : excuse'[k] = {}
  <2>1. unseen' = unseen \/ unseen' = [unseen EXCEPT ![c] = {}]
    BY <1>2 DEF ListStubs, ListFails, Refuse, Accept, RegisterFails, Return
  <2>2. job' = job /\ excuse' = excuse /\ pc[c] # "idle"
    BY <1>2 DEF ListStubs, ListFails, Refuse, Accept, RegisterFails, Listed
  <2> QED BY <1>0, <2>1, <2>2 DEF Alone, AloneInv, Live, Placed, TypeOK
<1>3. ASSUME NEW c \in Caller, NEW n \in Name,
             LookUp(c, n) \/ LookUpFails(c, n) \/ LookUpPortless(c, n)
      PROVE  /\ \A d \in Caller : unseen'[d] = {}
             /\ \A d \in Caller : pc'[d] # "idle" =>
                  \A m \in Name : Live(m)' => Placed(m)'
             /\ \A k \in Name : excuse'[k] = {}
  <2>1. job' = job /\ excuse' = excuse /\ pc' = pc
    BY <1>3 DEF LookUp, LookUpFails, LookUpPortless, LookedUp
  <2>2. CASE job[n].status = "none"
    <3>1. ~Live(n)
      BY <2>2 DEF Live
    <3>2. unseen'[c] = {}
      BY <1>0, <1>3, <3>1
         DEF LookUp, LookUpFails, LookUpPortless, LookedUp, AloneInv, TypeOK
    <3> QED BY <2>1, <3>2 DEF Alone, AloneInv, Live, Placed
  <2>3. CASE job[n].status # "none"
    <3>1. LookUp(c, n)
      BY <1>3, <2>3 DEF LookUpFails, LookUpPortless, Alone
    <3>2. Live(n) => job[n].shown = job[n].port
      BY <3>1 DEF LookUp, LookedUp, AloneInv, Placed
    <3>3. unseen'[c] = {}
      BY <1>0, <3>1, <3>2 DEF LookUp, LookedUp, AloneInv, TypeOK
    <3> QED BY <2>1, <3>3 DEF Alone, AloneInv, Live, Placed
  <2> QED BY <2>2, <2>3
<1>4. ASSUME NEW c \in Caller, Register(c)
      PROVE  /\ \A d \in Caller : unseen'[d] = {}
             /\ \A d \in Caller : pc'[d] # "idle" =>
                  \A m \in Name : Live(m)' => Placed(m)'
             /\ \A k \in Name : excuse'[k] = {}
  BY <1>0, <1>4 DEF Register, Alone, AloneInv, TypeOK
<1>5. ASSUME NEW n \in Name, NEW purge \in BOOLEAN, Stop(n, purge)
      PROVE  /\ \A d \in Caller : unseen'[d] = {}
             /\ \A d \in Caller : pc'[d] # "idle" =>
                  \A m \in Name : Live(m)' => Placed(m)'
             /\ \A k \in Name : excuse'[k] = {}
  <2>1. ~Live(n)'
    BY <1>0, <1>5, StopKills DEF Stop, TypeOK, Live
  <2> QED BY <1>0, <1>5, <2>1 DEF Stop, AloneInv, TypeOK, Live, Placed
<1>6. ASSUME NEW n \in Name, Nomad(n)
      PROVE  /\ \A d \in Caller : unseen'[d] = {}
             /\ \A d \in Caller : pc'[d] # "idle" =>
                  \A m \in Name : Live(m)' => Placed(m)'
             /\ \A k \in Name : excuse'[k] = {}
  <2>0. /\ job[n] \in Job
        /\ \A m \in Name \ {n} : job'[m] = job[m]
        /\ pc' = pc /\ unseen' = unseen /\ excuse' = excuse
    BY <1>0, <1>6 DEF Nomad, Place, Settle, TypeOK
  <2>1. \A m \in Name \ {n} : (Live(m)' <=> Live(m)) /\ (Placed(m)' <=> Placed(m))
    BY <2>0 DEF Live, Placed
  <2>2. Live(n)' => Placed(n)'
    <3>1. CASE Place(n)
      BY <1>0, <2>0, <3>1 DEF Place, Placed, TypeOK, Job
    <3>2. CASE Settle(n)
      <4>1. job'[n].status = "dead"
        BY <1>0, <2>0, <3>2 DEF Settle, TypeOK, Job
      <4> QED BY <4>1 DEF Live
    <3> QED BY <1>6, <3>1, <3>2 DEF Nomad
  <2> QED BY <2>0, <2>1, <2>2 DEF AloneInv
<1>7. CASE UNCHANGED vars
  BY <1>7 DEF vars, AloneInv, Live, Placed
<1> QED BY <1>1, <1>2, <1>3, <1>4, <1>5, <1>6, <1>7 DEF Next, Serve

(* Calls one after the other give every deployment a port of its own.      *)
THEOREM AlonePortsDiffer ==
  ASSUME Alone PROVE Spec => []PortsDisjoint
<1>1. Init => AloneInv
  <2>1. Init => ClashInv
    BY TypeInit DEF Init, ClashInv, Relies, ClashNeedsRace, Live, Absent
  <2> QED BY <2>1 DEF Init, AloneInv
<1>2. AloneInv /\ [Next]_vars => AloneInv'
  BY AloneStep
<1>3. AloneInv => PortsDisjoint
  BY DEF AloneInv, ClashInv, ClashNeedsRace, PortsDisjoint
<1> QED BY <1>1, <1>2, <1>3, PTL DEF Spec
=============================================================================
