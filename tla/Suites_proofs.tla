--------------------------- MODULE Suites_proofs ---------------------------
(***************************************************************************)
(* Proofs about Suites and Comparison, for any number of clients, suites,  *)
(* datasets and labels.  Types come first; the files of the datasets, the  *)
(* edits of the suites and the table of a run are independent of each      *)
(* other and stand on top of them.                                         *)
(***************************************************************************)
EXTENDS Comparison, WellFoundedInduction, FiniteSetTheorems,
        SequenceTheorems, TLAPS

(* What is copied keeps what was checked of it: the index of a removal, a  *)
(* run's columns, and its choice of evaluation.                            *)
Copies ==
  /\ \A c \in Client : req[c].op = "remove" => req[c].what \in 1 .. Len(req[c].held)
  /\ \A c \in Client : req[c].op \in {"load", "start"} => Distinct(req[c].held)
  /\ run.active => run.eval \in Eval

TInv == TypeOK /\ Copies

(* A request as its operation tells it apart.                              *)
LEMMA RequestKinds ==
  ASSUME NEW r \in Requests
  PROVE  /\ r.op \in {"none", "add", "remove", "upload", "erase", "load", "start"}
         /\ r.op = "none" => r = Idle
         /\ r.op \in {"add", "remove"} =>
              /\ r \in [op : {"add", "remove"}, suite : Suite, held : Seq(Label),
                        what : {r.what}, seen : Nat]
              /\ r.op = "add" => r.what \in Label
              /\ r.op = "remove" => r.what \in Nat \ {0}
         /\ r.op \in {"upload", "erase"} => r \in [op : {"upload", "erase"}, dataset : Dataset]
         /\ r.op \in {"load", "start"} =>
              r \in [op : {"load", "start"}, held : Seq(Label), eval : Eval]
  BY DEF Requests, Idle

LEMMA EditedIsSeq ==
  ASSUME NEW r, r.held \in Seq(Label),
         r.op = "add" => r.what \in Label,
         r.op # "add" => r.what \in 1 .. Len(r.held)
  PROVE  Edited(r) \in Seq(Label)
<1>1. CASE r.op = "add"
  BY <1>1 DEF Edited
<1>2. CASE r.op # "add"
  <2>1. SubSeq(r.held, 1, r.what - 1) \in Seq(Label)
    BY <1>2, SubSeqProperties
  <2>2. SubSeq(r.held, r.what + 1, Len(r.held)) \in Seq(Label)
    BY <1>2, SubSeqProperties
  <2> QED
    BY <1>2, <2>1, <2>2 DEF Edited
<1> QED
  BY <1>1, <1>2

(* The initial state has its types.                                        *)
LEMMA TInit == Init => TInv
<1> SUFFICES ASSUME Init PROVE TInv
  OBVIOUS
<1>1. run \in Runs /\ Distinct(run.columns) /\ Len(run.results) <= Len(run.columns)
  BY DEF Init, NoRun, Runs, Distinct
<1>2. req \in [Client -> Requests]
  BY DEF Init, Requests, Idle
<1>3. Copies
  BY DEF Init, Copies, NoRun, Idle
<1> QED
  BY <1>1, <1>2, <1>3 DEF Init, TInv, TypeOK, Distinct

(* A saved suite is a valid one.                                           *)
LEMMA SaveTypes ==
  ASSUME TypeOK, NEW s \in Suite, NEW configs \in Seq(Label), SaveSuite(s, configs)
  PROVE  /\ suites' \in [Suite -> Seq(Label)] /\ writes' \in [Suite -> Nat]
         /\ \A t \in Suite : Distinct(suites'[t])
  BY DEF TypeOK, SaveSuite, Validate, Distinct

(* Every step keeps the types.                                             *)
LEMMA TNext == TInv /\ [Next]_vars => TInv'
<1> SUFFICES ASSUME TInv, [Next]_vars PROVE TInv'
  OBVIOUS
<1> USE DEF TInv
<1>0. TypeOK /\ Copies
  OBVIOUS
<1>1. ASSUME NEW c \in Client, CreateSuite(c) PROVE TInv'
  <2>1. PICK s \in Suite, configs \in BoundedSeq(Label, MaxConfigs) : SaveSuite(s, configs)
    BY <1>1 DEF CreateSuite
  <2>2. configs \in Seq(Label)
    BY <2>1 DEF BoundedSeq, SeqOf
  <2> QED
    BY <1>1, <2>1, <2>2, SaveTypes DEF CreateSuite, Begin, TypeOK, Copies, files
<1>2. ASSUME NEW c \in Client, DeleteSuite(c) PROVE TInv'
  <2>1. Distinct(<<>>) /\ <<>> \in Seq(Label)
    BY DEF Distinct
  <2> QED
    BY <1>2, <2>1 DEF DeleteSuite, Begin, TypeOK, Copies, files
<1>3. ASSUME NEW c \in Client, AddConfig(c) PROVE TInv'
  BY <1>3 DEF AddConfig, Begin, TypeOK, Copies, store, files, Requests
<1>4. ASSUME NEW c \in Client, RemoveConfig(c) PROVE TInv'
  BY <1>4 DEF RemoveConfig, Begin, TypeOK, Copies, store, files, Requests
<1>5. ASSUME NEW c \in Client, SaveEdit(c) PROVE TInv'
  <2>1. /\ req[c].suite \in Suite /\ req[c].held \in Seq(Label)
        /\ req[c].op = "add" => req[c].what \in Label
        /\ req[c].op # "add" => req[c].what \in 1 .. Len(req[c].held)
    BY <1>5, RequestKinds DEF SaveEdit, Editing, TypeOK, Copies
  <2>2. Edited(req[c]) \in Seq(Label)
    BY <2>1, EditedIsSeq
  <2>3. /\ suites' \in [Suite -> Seq(Label)] /\ writes' \in [Suite -> Nat]
        /\ \A t \in Suite : Distinct(suites'[t])
    BY <1>5, <2>1, <2>2, SaveTypes DEF SaveEdit, TypeOK, store
  <2>4. req' \in [Client -> Requests] /\ Copies'
    BY <1>5 DEF SaveEdit, TypeOK, Copies, Requests, Idle
  <2> QED
    BY <1>5, <2>3, <2>4 DEF SaveEdit, TypeOK, files
<1>6. ASSUME NEW c \in Client, WriteContent(c) PROVE TInv'
  BY <1>6 DEF WriteContent, Begin, TypeOK, Copies, store, Requests
<1>7. ASSUME NEW c \in Client, WriteMeta(c) PROVE TInv'
  BY <1>7, RequestKinds DEF WriteMeta, TypeOK, Copies, store, Requests, Idle
<1>8. ASSUME NEW c \in Client, RemoveContent(c) PROVE TInv'
  BY <1>8 DEF RemoveContent, Begin, TypeOK, Copies, store, Requests
<1>9. ASSUME NEW c \in Client, RemoveMeta(c) PROVE TInv'
  BY <1>9 DEF RemoveMeta, TypeOK, Copies, store, Requests, Idle
<1>10. ASSUME NEW c \in Client, LoadSuite(c) PROVE TInv'
  BY <1>10 DEF LoadSuite, Begin, TypeOK, Copies, store, files, Requests
<1>11. ASSUME NEW c \in Client, LookUpDataset(c) PROVE TInv'
  <2>1. req[c] \in [op : {"load", "start"}, held : Seq(Label), eval : Eval]
    BY <1>11, RequestKinds DEF LookUpDataset, TypeOK
  <2> QED
    BY <1>11, <2>1 DEF LookUpDataset, TypeOK, Copies, store, files, Requests, Idle
<1>12. ASSUME NEW c \in Client, SaveRun(c) PROVE TInv'
  <2>1. req[c].held \in Seq(Label) /\ req[c].eval \in Eval /\ Distinct(req[c].held)
    BY <1>12, RequestKinds DEF SaveRun, TypeOK, Copies
  <2>2. run' \in Runs /\ Distinct(run'.columns) /\ Len(run'.results) <= Len(run'.columns)
    <3>1. CASE run.active
      BY <1>12, <3>1 DEF SaveRun, TypeOK
    <3>2. CASE ~run.active
      <4>1. run' = [active |-> TRUE, eval |-> req[c].eval, columns |-> req[c].held,
                    staged |-> IF req[c].eval.dataset = None THEN "yes" ELSE "no",
                    results |-> <<>>]
        BY <1>12, <3>2 DEF SaveRun
      <4>2. Len(<<>>) <= Len(req[c].held)
        BY <2>1
      <4> QED
        BY <4>1, <4>2, <2>1 DEF Runs
    <3> QED
      BY <3>1, <3>2
  <2>3. req' \in [Client -> Requests]
    BY <1>12 DEF SaveRun, TypeOK, Requests
  <2>4. Copies'
    BY <1>12, <2>1 DEF SaveRun, Copies, TypeOK, Idle
  <2> QED
    BY <1>12, <2>2, <2>3, <2>4 DEF SaveRun, TypeOK, store, files
<1>13. ASSUME NEW c \in Client, DeleteRun(c) PROVE TInv'
  <2>1. run' \in Runs /\ Distinct(run'.columns) /\ Len(run'.results) <= Len(run'.columns)
    BY <1>13 DEF DeleteRun, NoRun, Runs, Distinct
  <2> QED
    BY <1>13, <2>1 DEF DeleteRun, Begin, NoRun, TypeOK, Copies, store, files
<1>14. CASE Stage
  BY <1>14 DEF Stage, TypeOK, Copies, store, files, Runs
<1>15. CASE Measure
  <2>1. PICK result \in Outcome[run.eval.kind] :
          run' = [run EXCEPT !.results = Append(@, result)]
    BY <1>15 DEF Measure
  <2>2. run.eval.kind \in Kind
    BY <1>15 DEF Measure, Copies, Eval
  <2>3. result \in UNION {Outcome[k] : k \in Kind}
    BY <2>2
  <2> DEFINE O == UNION {Outcome[k] : k \in Kind}
  <2>4. run.results \in Seq(O) /\ result \in O /\ run.columns \in Seq(Label)
    BY <2>3 DEF TypeOK, Runs
  <2>5. Append(run.results, result) \in Seq(O)
    <3> HIDE DEF O
    <3> QED BY <2>4
  <2>6. Len(Append(run.results, result)) = Len(run.results) + 1 /\ Len(run.results) \in Nat
        /\ Len(run.columns) \in Nat
    <3> HIDE DEF O
    <3> QED BY <2>4
  <2>7. run' \in Runs
    BY <2>1, <2>5 DEF TypeOK, Runs
  <2>8. Len(run'.results) <= Len(run'.columns) /\ Distinct(run'.columns)
    <3> HIDE DEF O
    <3> QED BY <1>15, <2>1, <2>6 DEF Measure, TypeOK, Runs, Distinct
  <2> QED
    BY <1>15, <2>1, <2>7, <2>8 DEF Measure, TypeOK, Copies, store, files, Runs
<1>16. CASE Finish
  BY <1>16 DEF Finish, TypeOK, Copies, store, files, Runs
<1>17. CASE Restart
  BY <1>17 DEF Restart, TypeOK, Copies, store, Runs, Requests, Idle
<1>18. CASE UNCHANGED vars
  BY <1>18 DEF vars, store, files, TypeOK, Copies
<1> QED
  BY <1>1, <1>2, <1>3, <1>4, <1>5, <1>6, <1>7, <1>8, <1>9, <1>10, <1>11, <1>12, <1>13,
     <1>14, <1>15, <1>16, <1>17, <1>18 DEF Next, Request

(* Types hold of every behaviour; in particular every stored suite and the *)
(* columns of every run have distinct labels.                              *)
THEOREM TypeCorrect == Spec => []TypeOK
<1>1. Spec => []TInv
  BY TInit, TNext, PTL DEF Spec
<1>2. TInv => TypeOK
  BY DEF TInv
<1> QED
  BY <1>1, <1>2, PTL

-----------------------------------------------------------------------------
(* The files of the datasets.  An upload has its first file, a delete has  *)
(* removed its first file, and the dataset of a run that was looked up can *)
(* only have gone by a delete.                                             *)
Files ==
  /\ DatasetWhole
  /\ \A c \in Client :
       /\ req[c].op = "upload" => req[c].dataset \in content
       /\ req[c].op = "erase" => req[c].dataset \notin content
       /\ req[c].op = "start" =>
            req[c].eval.dataset \in content \union doomed \union {None}
  /\ run.active /\ run.staged = "no" => run.eval.dataset \in content \union doomed

(* Initially there are no files.                                           *)
LEMMA FilesInit == Init => Files
  BY DEF Init, Files, DatasetWhole, NoRun, Idle

(* Every step keeps that.  Whatever changes the content finds the lock     *)
(* free, and so no upload or delete of another client half done.           *)
LEMMA FilesNext == TypeOK /\ Files /\ [Next]_vars => Files'
<1> SUFFICES ASSUME TypeOK, Files, [Next]_vars PROVE Files'
  OBVIOUS
<1> USE DEF Files, DatasetWhole
<1>0. req \in [Client -> Requests] /\ content \subseteq Dataset
  BY DEF TypeOK
<1>1. ASSUME NEW c \in Client, CreateSuite(c) \/ DeleteSuite(c) PROVE Files'
  BY <1>1 DEF CreateSuite, DeleteSuite, files
<1>2. ASSUME NEW c \in Client, AddConfig(c) \/ RemoveConfig(c) PROVE Files'
  BY <1>0, <1>2 DEF AddConfig, RemoveConfig, Begin, Idle, files
<1>3. ASSUME NEW c \in Client, SaveEdit(c) PROVE Files'
  BY <1>0, <1>3 DEF SaveEdit, Editing, Idle, files
<1>4. ASSUME NEW c \in Client, WriteContent(c) PROVE Files'
  BY <1>0, <1>4 DEF WriteContent, Begin, Unlocked, Idle
<1>5. ASSUME NEW c \in Client, WriteMeta(c) PROVE Files'
  <2>1. req[c] = [op |-> "upload", dataset |-> req[c].dataset]
    BY <1>0, <1>5, RequestKinds DEF WriteMeta
  <2> QED
    BY <1>0, <1>5, <2>1 DEF WriteMeta, Idle
<1>6. ASSUME NEW c \in Client, RemoveContent(c) PROVE Files'
  BY <1>0, <1>6 DEF RemoveContent, Begin, Unlocked, Idle
<1>7. ASSUME NEW c \in Client, RemoveMeta(c) PROVE Files'
  BY <1>0, <1>7 DEF RemoveMeta, Idle
<1>8. ASSUME NEW c \in Client, LoadSuite(c) PROVE Files'
  BY <1>0, <1>8 DEF LoadSuite, Begin, Idle, files
<1>9. ASSUME NEW c \in Client, LookUpDataset(c) PROVE Files'
  <2>1. req[c] \in [op : {"load", "start"}, held : Seq(Label), eval : Eval]
    BY <1>0, <1>9, RequestKinds DEF LookUpDataset
  <2> QED
    BY <1>0, <1>9, <2>1 DEF LookUpDataset, Idle, files
<1>10. ASSUME NEW c \in Client, SaveRun(c) PROVE Files'
  BY <1>0, <1>10 DEF SaveRun, Idle, files
<1>11. ASSUME NEW c \in Client, DeleteRun(c) PROVE Files'
  BY <1>11 DEF DeleteRun, NoRun, files
<1>12. CASE Stage
  BY <1>12 DEF Stage, TypeOK, Runs, files
<1>13. CASE Measure \/ Finish
  BY <1>13 DEF Measure, Finish, TypeOK, Runs, files
<1>14. CASE Restart
  <2>1. ASSUME NEW d \in content \ meta PROVE d \in orphans'
    <3>1. CASE d \in orphans
      BY <1>14, <3>1 DEF Restart
    <3>2. CASE \E c \in Client : req[c] = [op |-> "upload", dataset |-> d]
      <4>1. \E c \in Client : req[c].op = "upload" /\ req[c].dataset = d
        BY <3>2
      <4> QED
        BY <1>0, <1>14, <4>1 DEF Restart
    <3> QED
      BY <3>1, <3>2
  <2> QED
    BY <1>14, <2>1 DEF Restart, TypeOK, Runs, Idle
<1>15. CASE UNCHANGED vars
  BY <1>15 DEF vars, files
<1> QED
  BY <1>1, <1>2, <1>3, <1>4, <1>5, <1>6, <1>7, <1>8, <1>9, <1>10, <1>11, <1>12, <1>13,
     <1>14, <1>15 DEF Next, Request

(* A listed dataset has its content unless a delete of it was begun, files *)
(* that nobody lists are an upload's, under way or cut, and a run finds    *)
(* the dataset it was started with, however the requests overlap and       *)
(* wherever one of them fails or the process ends.                         *)
THEOREM DatasetsStayWhole == Spec => []DatasetWhole
<1>1. Spec => []Files
  BY TypeCorrect, FilesInit, FilesNext, PTL DEF Spec
<1>2. Files => DatasetWhole
  BY DEF Files
<1> QED
  BY <1>1, <1>2, PTL

-----------------------------------------------------------------------------
(* The edits of the suites.  The copy an edit holds is the suite, as long  *)
(* as nobody has written that since.                                       *)
Held ==
  \A c \in Client : Editing(c) =>
    /\ req[c].seen <= writes[req[c].suite]
    /\ req[c].seen = writes[req[c].suite] => req[c].held = suites[req[c].suite]

(* Initially nobody edits.                                                 *)
LEMMA HeldInit == Init => Held
  BY DEF Init, Held, Editing, Idle

(* A write that is counted leaves every copy of the suite behind.          *)
LEMMA WriteKeepsHeld ==
  ASSUME TypeOK, Held, NEW s \in Suite,
         writes' = [writes EXCEPT ![s] = @ + 1],
         \A t \in Suite \ {s} : suites'[t] = suites[t],
         NEW c \in Client, Editing(c), req'[c] = req[c]
  PROVE  /\ req'[c].seen <= writes'[req'[c].suite]
         /\ req'[c].seen = writes'[req'[c].suite] => req'[c].held = suites'[req'[c].suite]
<1>1. req[c].suite \in Suite /\ req[c].seen \in Nat /\ writes[req[c].suite] \in Nat
  BY RequestKinds DEF TypeOK, Editing
<1>2. CASE req[c].suite = s
  BY <1>1, <1>2 DEF Held, TypeOK
<1>3. CASE req[c].suite # s
  BY <1>1, <1>3 DEF Held, TypeOK
<1> QED
  BY <1>2, <1>3

(* Every step keeps that.                                                  *)
LEMMA HeldNext == TypeOK /\ Held /\ [Next]_vars => Held'
<1> SUFFICES ASSUME TypeOK, Held, [Next]_vars PROVE Held'
  OBVIOUS
<1>0. req \in [Client -> Requests] /\ writes \in [Suite -> Nat]
  BY DEF TypeOK
<1>1. ASSUME NEW c \in Client, CreateSuite(c) PROVE Held'
  <2>1. PICK s \in Suite, configs \in BoundedSeq(Label, MaxConfigs) : SaveSuite(s, configs)
    BY <1>1 DEF CreateSuite
  <2> QED
    BY <1>1, <2>1, WriteKeepsHeld DEF CreateSuite, SaveSuite, Held, Editing, TypeOK
<1>2. ASSUME NEW c \in Client, DeleteSuite(c) PROVE Held'
  BY <1>2, WriteKeepsHeld DEF DeleteSuite, Held, Editing, TypeOK
<1>3. ASSUME NEW c \in Client, AddConfig(c) \/ RemoveConfig(c) PROVE Held'
  BY <1>0, <1>3 DEF AddConfig, RemoveConfig, Begin, Held, Editing, store
<1>4. ASSUME NEW c \in Client, SaveEdit(c) PROVE Held'
  <2>1. req[c].suite \in Suite
    BY <1>0, <1>4, RequestKinds DEF SaveEdit, Editing
  <2>2. req' = [req EXCEPT ![c] = Idle]
    BY <1>4 DEF SaveEdit
  <2>3. CASE SaveSuite(req[c].suite, Edited(req[c]))
    BY <1>0, <2>1, <2>2, <2>3, WriteKeepsHeld DEF SaveSuite, Held, Editing, Idle, TypeOK
  <2>4. CASE UNCHANGED store
    BY <1>0, <2>2, <2>4 DEF store, Held, Editing, Idle
  <2> QED
    BY <1>4, <2>3, <2>4 DEF SaveEdit
<1>5. ASSUME NEW c \in Client,
             WriteContent(c) \/ WriteMeta(c) \/ RemoveContent(c) \/ RemoveMeta(c)
               \/ LoadSuite(c) \/ SaveRun(c) \/ DeleteRun(c)
      PROVE  Held'
  BY <1>0, <1>5 DEF WriteContent, WriteMeta, RemoveContent, RemoveMeta, LoadSuite, SaveRun,
     DeleteRun, Held, Editing, Idle, store
<1>6. ASSUME NEW c \in Client, LookUpDataset(c) PROVE Held'
  <2>1. req[c] \in [op : {"load", "start"}, held : Seq(Label), eval : Eval]
    BY <1>0, <1>6, RequestKinds DEF LookUpDataset
  <2> QED
    BY <1>0, <1>6, <2>1 DEF LookUpDataset, Held, Editing, Idle, store
<1>7. CASE Stage \/ Measure \/ Finish
  BY <1>7 DEF Stage, Measure, Finish, Held, Editing, store
<1>8. CASE Restart
  BY <1>8 DEF Restart, Held, Editing, Idle
<1>9. CASE UNCHANGED vars
  BY <1>9 DEF vars, store, Held, Editing
<1> QED
  BY <1>1, <1>2, <1>3, <1>4, <1>5, <1>6, <1>7, <1>8, <1>9 DEF Next, Request

(* The step of an edit that overlapped no other write changes the stored   *)
(* suite as its client asked.                                              *)
LEMMA EditStep ==
  ASSUME TypeOK, Held, [Next]_vars, NEW c \in Client,
         Editing(c), suites' # suites, req[c] # req'[c],
         req[c].seen = writes[req[c].suite]
  PROVE  suites' = [suites EXCEPT ![req[c].suite] =
                      IF req[c].op = "add" THEN Append(@, req[c].what)
                      ELSE RemoveAt(@, req[c].what)]
<1>1. SaveEdit(c)
  <2>1. req \in [Client -> Requests]
    BY DEF TypeOK
  <2>2. ~ (Stage \/ Measure \/ Finish \/ Restart \/ UNCHANGED vars)
    BY DEF Stage, Measure, Finish, Restart, vars, store
  <2>3. PICK d \in Client : Request(d)
    BY <2>2 DEF Next
  <2>4. CreateSuite(d) \/ DeleteSuite(d) \/ SaveEdit(d)
    BY <2>3 DEF Request, AddConfig, RemoveConfig, WriteContent, WriteMeta, RemoveContent,
       RemoveMeta, LoadSuite, LookUpDataset, SaveRun, DeleteRun, store
  <2>5. SaveEdit(d)
    BY <2>4 DEF CreateSuite, DeleteSuite
  <2>6. d = c
    BY <2>1, <2>5 DEF SaveEdit
  <2> QED
    BY <2>5, <2>6
<1>2. suites' = [suites EXCEPT ![req[c].suite] = Edited(req[c])]
  BY <1>1 DEF SaveEdit, SaveSuite, store
<1>3. req[c].suite \in Suite /\ suites \in [Suite -> Seq(Label)]
  BY RequestKinds DEF TypeOK, Editing
<1>4. req[c].held = suites[req[c].suite]
  BY DEF Held
<1> QED
  BY <1>2, <1>3, <1>4 DEF Edited, RemoveAt

(* An edit takes effect on the suite as it is stored, or has overlapped    *)
(* another write of that suite, for any number of clients.                 *)
THEOREM EditsAreExact == Spec => EditsLostOnlyByRace
<1>1. Spec => []Held
  BY TypeCorrect, HeldInit, HeldNext, PTL DEF Spec
<1>2. TypeOK /\ Held /\ [Next]_vars =>
        [\A c \in Client :
           /\ Editing(c) /\ suites' # suites
           /\ req[c] # req'[c] /\ req[c].seen = writes[req[c].suite]
           => suites' = [suites EXCEPT ![req[c].suite] =
                           IF req[c].op = "add" THEN Append(@, req[c].what)
                           ELSE RemoveAt(@, req[c].what)]]_vars
  BY EditStep
<1> QED
  BY <1>1, <1>2, TypeCorrect, PTL DEF Spec, EditsLostOnlyByRace

-----------------------------------------------------------------------------
(* The table of a run.  A set of numbers that is not empty has a least     *)
(* one: induction over data is done with it here, because what first goes  *)
(* wrong goes wrong after a step that went well.                           *)
LEMMA LeastNumber ==
  ASSUME NEW T, T \subseteq Nat, T # {}
  PROVE  \E x \in T : \A y \in T : x <= y
<1>1. IsWellFoundedOn(OpToRel(<, Nat), Nat)
  BY NatLessThanWellFounded
<1>2. PICK x \in T : \A y \in T : <<y, x>> \notin OpToRel(<, Nat)
  BY <1>1, WFMin
<1>3. \A y \in T : ~(y < x)
  BY <1>2 DEF OpToRel
<1> QED
  BY <1>3

(* What the loop does with the next result.                                *)
Step(row, results, b, i) ==
  IF /\ Reports(row, results[i])
     /\ b = 0 \/ Beats(row, Value(row, results[i]), Value(row, results[b]))
  THEN i ELSE b

(* f is what the loop has found after each of the first n results.         *)
Loop(row, results, n, f) ==
  f = [i \in 0 .. n |-> IF i = 0 THEN 0 ELSE Step(row, results, f[i - 1], i)]

(* The recursion of BestIdx defines a function, whatever it goes through.  *)
LEMMA LoopRuns ==
  ASSUME NEW row, NEW results, NEW n \in Nat
  PROVE  \E f : Loop(row, results, n, f)
<1> DEFINE T == {m \in Nat : ~\E f : Loop(row, results, m, f)}
<1>1. SUFFICES ASSUME T # {} PROVE FALSE
  OBVIOUS
<1>2. PICK m \in T : \A k \in T : m <= k
  BY <1>1, LeastNumber
<1>3. m # 0
  <2>1. Loop(row, results, 0, [i \in 0 .. 0 |-> 0])
    BY DEF Loop
  <2> QED
    BY <2>1
<1>4. PICK f : Loop(row, results, m - 1, f)
  BY <1>2, <1>3
<1> DEFINE g == [i \in 0 .. m |-> IF i = m THEN Step(row, results, f[m - 1], m) ELSE f[i]]
<1>5. Loop(row, results, m, g)
  <2>1. ASSUME NEW i \in 0 .. m
        PROVE  g[i] = IF i = 0 THEN 0 ELSE Step(row, results, g[i - 1], i)
    <3>1. CASE i = m
      <4>1. g[m - 1] = f[m - 1] /\ g[m] = Step(row, results, f[m - 1], m)
        BY <1>3
      <4> QED
        BY <3>1, <4>1, <1>3
    <3>2. CASE i # m
      <4>1. g[i] = f[i] /\ i \in 0 .. m - 1
        BY <3>2
      <4>2. f[i] = IF i = 0 THEN 0 ELSE Step(row, results, f[i - 1], i)
        BY <1>4, <4>1 DEF Loop
      <4>3. i # 0 => g[i - 1] = f[i - 1]
        BY <3>2, <4>1
      <4> HIDE DEF g
      <4> QED
        BY <4>1, <4>2, <4>3
    <3> QED
      BY <3>1, <3>2
  <2> QED
    BY <2>1 DEF Loop
<1> QED
  BY <1>5

(* The choice of BestIdx is the loop's.                                    *)
LEMMA BestIdxIs ==
  ASSUME NEW row, NEW results, Len(results) \in Nat
  PROVE  \E f : Loop(row, results, Len(results), f) /\ BestIdx(row, results) = f[Len(results)]
<1>1. PICK g : Loop(row, results, Len(results), g)
  BY LoopRuns
<1>3. BestIdx(row, results) = (CHOOSE f : Loop(row, results, Len(results), f))[Len(results)]
  BY DEF BestIdx, Loop, Step
<1> QED
  BY <1>1, <1>3

(* b is the right answer for the first n results: the first of those that  *)
(* no other beats, and it beats everything before it.                      *)
Reporting(row, results, n) == {i \in 1 .. n : Reports(row, results[i])}
Best(row, results, n, b) ==
  IF Reporting(row, results, n) = {} THEN b = 0
  ELSE /\ b \in Reporting(row, results, n)
       /\ \A j \in Reporting(row, results, n) :
            /\ ~Beats(row, Value(row, results[j]), Value(row, results[b]))
            /\ j < b => Beats(row, Value(row, results[b]), Value(row, results[j]))

(* One more result.  That it is compared with the best one so far, and not *)
(* with all of them, is enough because Beats is transitive on numbers.     *)
LEMMA BestStep ==
  ASSUME NEW row, NEW results, NEW n \in Nat, NEW b,
         \A i \in 1 .. n + 1 : Value(row, results[i]) \in Int,
         Best(row, results, n, b)
  PROVE  Best(row, results, n + 1, Step(row, results, b, n + 1))
<1> DEFINE R == Reporting(row, results, n)
           v(i) == Value(row, results[i])
<1>0. Reporting(row, results, n + 1) =
        IF Reports(row, results[n + 1]) THEN R \union {n + 1} ELSE R
  BY DEF Reporting
<1>1. R \subseteq 1 .. n
  BY DEF Reporting
<1>2. CASE ~Reports(row, results[n + 1])
  BY <1>0, <1>2 DEF Step, Best
<1>3. CASE Reports(row, results[n + 1]) /\ R = {}
  <2>1. /\ b = 0 /\ Reporting(row, results, n + 1) = {n + 1}
        /\ Step(row, results, b, n + 1) = n + 1
    BY <1>0, <1>3 DEF Step, Best
  <2>2. v(n + 1) \in Int
    OBVIOUS
  <2> QED
    BY <2>1, <2>2 DEF Best, Beats
<1>4. CASE Reports(row, results[n + 1]) /\ R # {}
  <2>1. /\ b \in R /\ b # 0 /\ b \in 1 .. n
        /\ Reporting(row, results, n + 1) = R \union {n + 1}
    BY <1>0, <1>1, <1>4 DEF Best
  <2>2. \A j \in R : ~Beats(row, v(j), v(b)) /\ (j < b => Beats(row, v(b), v(j)))
    BY <1>4 DEF Best
  <2>3. \A i \in R \union {n + 1} : v(i) \in Int
    BY <1>1
  <2>4. CASE Beats(row, v(n + 1), v(b))
    <3>1. Step(row, results, b, n + 1) = n + 1
      BY <1>4, <2>4 DEF Step
    <3>3. ASSUME NEW j \in R PROVE Beats(row, v(n + 1), v(j)) /\ ~Beats(row, v(j), v(n + 1))
      <4>1. ~Beats(row, v(j), v(b)) /\ v(j) \in Int /\ v(b) \in Int /\ v(n + 1) \in Int
        BY <2>1, <2>2, <2>3
      <4> HIDE DEF v
      <4> QED
        BY <2>4, <4>1 DEF Beats
    <3>4. ~Beats(row, v(n + 1), v(n + 1))
      BY DEF Beats
    <3> QED
      BY <2>1, <3>1, <3>3, <3>4 DEF Best
  <2>5. CASE ~Beats(row, v(n + 1), v(b))
    <3>1. Step(row, results, b, n + 1) = b
      BY <2>1, <2>5 DEF Step
    <3>2. ~(n + 1 < b) /\ b <= n + 1
      BY <2>1
    <3> QED
      BY <2>1, <2>2, <2>5, <3>1, <3>2 DEF Best
  <2> QED
    BY <2>4, <2>5
<1> QED
  BY <1>2, <1>3, <1>4

(* The loop finds the right answer, for any number of results.             *)
LEMMA BestIdxIsBest ==
  ASSUME NEW row, NEW results, Len(results) \in Nat,
         \A i \in 1 .. Len(results) : Value(row, results[i]) \in Int
  PROVE  Best(row, results, Len(results), BestIdx(row, results))
<1>1. PICK f : Loop(row, results, Len(results), f) /\ BestIdx(row, results) = f[Len(results)]
  BY BestIdxIs
<1> DEFINE T == {n \in 0 .. Len(results) : ~Best(row, results, n, f[n])}
<1>2. SUFFICES ASSUME T # {} PROVE FALSE
  BY <1>1
<1>3. PICK n \in T : \A k \in T : n <= k
  <2>1. T \subseteq Nat
    OBVIOUS
  <2> HIDE DEF T
  <2> QED
    BY <1>2, <2>1, LeastNumber
<1>4. n # 0
  BY <1>1 DEF Loop, Best, Reporting
<1>5. n - 1 \in 0 .. Len(results) /\ n - 1 \notin T
  BY <1>3, <1>4
<1>6. f[n] = Step(row, results, f[n - 1], n)
  BY <1>1, <1>4 DEF Loop
<1>7. Best(row, results, (n - 1) + 1, Step(row, results, f[n - 1], (n - 1) + 1))
  <2>1. /\ n - 1 \in Nat /\ Best(row, results, n - 1, f[n - 1])
        /\ \A i \in 1 .. (n - 1) + 1 : Value(row, results[i]) \in Int
    BY <1>5
  <2> QED
    BY <2>1, BestStep
<1>8. (n - 1) + 1 = n
  BY <1>4
<1> QED
  BY <1>3, <1>6, <1>7, <1>8

(* What a row shows of a result is a number, for each row there can be.    *)
LEMMA ValueIsNumber ==
  ASSUME NEW results, NEW result, Numeric(result), NEW row \in Rows(results)
  PROVE  Value(row, result) \in Int
<1> DEFINE m == result.metrics
<1>0. NotReported \in Int
  BY DEF NotReported
<1>1. CASE row[1] \notin DOMAIN m /\ row[1] # "startup"
  BY <1>0, <1>1, Zenon DEF Value
<1>2. CASE row = <<"startup">>
  <2>1. row[1] = "startup"
    BY <1>2
  <2>2. Value(row, result) = IF result.startup > 0 THEN result.startup ELSE NotReported
    BY <2>1, Zenon DEF Value
  <2> QED
    BY <1>0, <2>2 DEF Numeric
<1>3. CASE row[1] = "single" /\ row[2] \in {"tok", "p50", "p95"} /\ row[1] \in DOMAIN m
  <2>1. Value(row, result) = m.single[row[2]]
    BY <1>3, Zenon DEF Value
  <2> QED
    BY <1>3, <2>1 DEF Numeric
<1>4. CASE row[1] = "levels" /\ row[3] \in {"tok", "p50", "p95"} /\ row[1] \in DOMAIN m
  <2>1. Value(row, result) =
          IF row[2] \in DOMAIN m.levels THEN m.levels[row[2]][row[3]] ELSE NotReported
    BY <1>4, Zenon DEF Value
  <2> QED
    BY <1>0, <1>4, <2>1 DEF Numeric
<1>5. CASE /\ row[1] = "tokens" /\ row[1] \in DOMAIN m
           /\ row[2] \in {"prefill", "decode", "p50", "p95", "prompt", "completion"}
  <2>1. Value(row, result) = IF m.tokens.requests > 0 THEN m.tokens[row[2]] ELSE NotReported
    BY <1>5, Zenon DEF Value
  <2> QED
    BY <1>0, <1>5, <2>1 DEF Numeric
<1>6. CASE row[1] = "accuracy" /\ row[1] \in DOMAIN m
  <2>1. Value(row, result) = IF Len(row) = 1 THEN m.accuracy.score
             ELSE IF row[2] \in DOMAIN m.accuracy.tasks THEN m.accuracy.tasks[row[2]]
             ELSE NotReported
    BY <1>6, Zenon DEF Value
  <2> QED
    BY <1>0, <1>6, <2>1 DEF Numeric
<1>7. CASE row[1] = "resources" /\ row[1] \in DOMAIN m
  <2>1. Value(row, result) = IF row[2] = "vram"
             THEN IF m.resources.vram > 0 THEN m.resources.vram ELSE NotReported
             ELSE IF m.resources.samples > 0 THEN m.resources.util ELSE NotReported
    BY <1>7, Zenon DEF Value
  <2> QED
    BY <1>0, <1>7, <2>1 DEF Numeric
<1> QED
  BY <1>1, <1>2, <1>3, <1>4, <1>5, <1>6, <1>7 DEF Rows

(* So are the results of the run, and the empty ones that pad them.        *)
LEMMA ShownIsNumeric ==
  ASSUME run \in Runs
  PROVE  Len(Shown) \in Nat /\ \A i \in 1 .. Len(Shown) : Numeric(Shown[i])
<1>1. /\ Len(run.columns) \in Nat /\ Len(run.results) \in Nat
      /\ \A i \in 1 .. Len(run.results) : run.results[i] \in UNION {Outcome[k] : k \in Kind}
  BY DEF Runs
<1>2. Len(Shown) = Len(run.columns)
  BY <1>1 DEF Shown
<1>3. Numeric(Unmeasured)
  <2>1. DOMAIN Unmeasured.metrics = {} /\ Unmeasured.startup = 0
    BY DEF Unmeasured
  <2> QED
    BY <2>1 DEF Numeric
<1>4. ASSUME NEW i \in 1 .. Len(Shown) PROVE Numeric(Shown[i])
  <2>1. Shown[i] = IF i <= Len(run.results) THEN run.results[i] ELSE Unmeasured
    BY <1>1, <1>2 DEF Shown
  <2>2. CASE i <= Len(run.results)
    <3>1. PICK k \in Kind : run.results[i] \in Outcome[k]
      BY <1>1, <1>2, <2>2
    <3> QED
      BY <2>1, <2>2, <3>1, OutcomeAssumption
  <2> QED
    BY <2>1, <2>2, <1>3
<1> QED
  BY <1>1, <1>2, <1>4

(* The table of what is shown.                                             *)
LEMMA ShownTableIsRight ==
  ASSUME run \in Runs
  PROVE  TableIsRight
<1> DEFINE column == 1 .. Len(Shown)
           v == [row \in Rows(Shown) |-> [i \in column |-> Value(row, Shown[i])]]
           reporting(row) == {i \in column : v[row][i] # NotReported}
           unbeaten(row) == {i \in reporting(row) :
                          \A j \in reporting(row) : ~Beats(row, v[row][j], v[row][i])}
<1>0. Len(Shown) \in Nat
  BY ShownIsNumeric
<1>1. ASSUME NEW row \in Rows(Shown)
      PROVE  /\ \A i \in column : /\ Value(row, Shown[i]) \in Int
                                 /\ v[row][i] = Value(row, Shown[i])
             /\ reporting(row) = Reporting(row, Shown, Len(Shown))
             /\ Best(row, Shown, Len(Shown), BestIdx(row, Shown))
  <2>1. \A i \in column : Value(row, Shown[i]) \in Int
    BY ShownIsNumeric, ValueIsNumber
  <2>2. \A i \in column : v[row][i] = Value(row, Shown[i])
    OBVIOUS
  <2>3. Best(row, Shown, Len(Shown), BestIdx(row, Shown))
    BY <1>0, <2>1, BestIdxIsBest
  <2>4. reporting(row) = Reporting(row, Shown, Len(Shown))
    BY <2>2 DEF Reporting, Reports
  <2> QED
    BY <2>1, <2>2, <2>3, <2>4
<1>2. ASSUME NEW row \in Rows(Shown) PROVE BestIdx(row, Shown) # 0 <=> reporting(row) # {}
  <2>1. reporting(row) = Reporting(row, Shown, Len(Shown))
    BY <1>1
  <2>2. 0 \notin Reporting(row, Shown, Len(Shown))
    BY <1>0 DEF Reporting
  <2>3. Best(row, Shown, Len(Shown), BestIdx(row, Shown))
    BY <1>1
  <2> HIDE DEF reporting
  <2> QED
    BY <2>1, <2>2, <2>3 DEF Best
<1>3. DOMAIN Table = {row \in Rows(Shown) : reporting(row) # {}}
  <2>1. DOMAIN Table = {row \in Rows(Shown) : BestIdx(row, Shown) # 0}
    BY DEF Table, BuildTable
  <2> QED
    BY <1>2, <2>1
<1>4. ASSUME NEW row \in DOMAIN Table
      PROVE  /\ \A i \in column : Table[row][i].value = v[row][i]
             /\ {i \in column : Table[row][i].best} =
                IF NotRated(row) \/ Cardinality(reporting(row)) < 2 THEN {}
                ELSE {i \in unbeaten(row) : \A j \in unbeaten(row) : i <= j}
  <2>1. row \in Rows(Shown) /\ BestIdx(row, Shown) # 0
    BY DEF Table, BuildTable
  <2>2. ASSUME NEW i \in column
        PROVE /\ Table[row][i].value = Value(row, Shown[i])
              /\ Table[row][i].best = (Highlight(row, Shown) /\ i = BestIdx(row, Shown))
    BY <2>1 DEF Table, BuildTable
  <2>3. Highlight(row, Shown) <=> ~NotRated(row) /\ Cardinality(reporting(row)) > 1
    BY <1>1, <2>1 DEF Highlight, Reporting
  <2>4. Cardinality(reporting(row)) \in Nat
    <3>1. IsFiniteSet(column)
      BY <1>0, FS_Interval
    <3>2. reporting(row) \subseteq column
      OBVIOUS
    <3> HIDE DEF column, reporting
    <3> QED
      BY <3>1, <3>2, FS_Subset, FS_CardinalityType
  <2>5. {i \in unbeaten(row) : \A j \in unbeaten(row) : i <= j} = {BestIdx(row, Shown)}
    <3> DEFINE b == BestIdx(row, Shown)
    <3>1. /\ b \in reporting(row)
          /\ \A j \in reporting(row) : /\ ~Beats(row, v[row][j], v[row][b])
                                       /\ j < b => Beats(row, v[row][b], v[row][j])
      BY <1>1, <1>2, <2>1 DEF Best
    <3> HIDE DEF b, v
    <3>2. b \in unbeaten(row) /\ \A j \in unbeaten(row) : ~(j < b)
      BY <3>1
    <3>3. unbeaten(row) \subseteq Int
      BY <1>0
    <3> HIDE DEF unbeaten
    <3>4. b \in Int /\ \A j \in unbeaten(row) : j \in Int /\ b <= j
      BY <3>2, <3>3
    <3>5. \A i \in unbeaten(row) : (\A j \in unbeaten(row) : i <= j) => i <= b /\ b <= i
      BY <3>2, <3>4
    <3>6. \A i \in unbeaten(row) : (\A j \in unbeaten(row) : i <= j) <=> i = b
      BY <3>4, <3>5
    <3> DEFINE first == {i \in unbeaten(row) : \A j \in unbeaten(row) : i <= j}
    <3>7. \A i : i \in first <=> i = b
      BY <3>2, <3>6
    <3>8. first = {b}
      <4> HIDE DEF first
      <4> QED
        BY <3>7
    <3> QED
      BY <3>8 DEF b
  <2>6. BestIdx(row, Shown) \in column
    BY <1>1, <1>2, <2>1 DEF Best
  <2>7. {i \in column : Table[row][i].best} =
          IF Highlight(row, Shown) THEN {BestIdx(row, Shown)} ELSE {}
    <3>1. \A i \in column :
            Table[row][i].best <=> Highlight(row, Shown) /\ i = BestIdx(row, Shown)
      <4> HIDE DEF column
      <4> QED
        BY <2>2
    <3> HIDE DEF column
    <3>2. CASE Highlight(row, Shown)
      BY <2>6, <3>1, <3>2
    <3>3. CASE ~Highlight(row, Shown)
      BY <3>1, <3>3
    <3> QED
      BY <3>2, <3>3
  <2>8. \A i \in column : Table[row][i].value = v[row][i]
    <3>1. \A i \in column : Table[row][i].value = Value(row, Shown[i])
      BY <2>2
    <3>2. \A i \in column : v[row][i] = Value(row, Shown[i])
      BY <1>1, <2>1
    <3> HIDE DEF column, v
    <3> QED
      BY <3>1, <3>2
  <2>9. Highlight(row, Shown) <=> ~(NotRated(row) \/ Cardinality(reporting(row)) < 2)
    <3> HIDE DEF reporting
    <3> QED
      BY <2>3, <2>4
  <2> HIDE DEF v, column, reporting, unbeaten
  <2> QED
    BY <2>5, <2>7, <2>8, <2>9
<1> QED
  BY <1>3, <1>4 DEF TableIsRight

(* The table is right at every moment of every run, for any suite, any     *)
(* number of configurations and whatever they are measured to be: a row is *)
(* there exactly when a configuration reports it, each cell is that of its *)
(* own column, and what is highlighted is the first of the unbeaten ones.  *)
THEOREM TablesAreRight == Spec => []TableIsRight
<1>1. TypeOK => TableIsRight
  <2>1. TypeOK => run \in Runs
    BY DEF TypeOK
  <2> QED
    BY <2>1, ShownTableIsRight
<1> QED
  BY <1>1, TypeCorrect, PTL
=============================================================================
