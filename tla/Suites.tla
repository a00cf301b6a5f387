------------------------------- MODULE Suites -------------------------------
(***************************************************************************)
(* The files of the benchmark store (internal/bench/store.go) and the HTTP *)
(* handlers that work on them (internal/server/api_bench.go): suites that  *)
(* several clients edit, uploaded datasets of two files each, and a run    *)
(* that copies a suite and reads a dataset while both may change.          *)
(*                                                                         *)
(* A suite is the sequence of the labels of its configurations; the rest   *)
(* of a configuration does not matter here.  The empty sequence stands for *)
(* a suite without a file, because none is ever saved empty.               *)
(***************************************************************************)
EXTENDS Naturals, SequencesExt

CONSTANTS
  Client,         \* browsers and API clients, one request at a time each
  Suite, Dataset, \* ids that newID may give
  Label,
  Kind,           \* kinds of evaluation
  Outcome,        \* Outcome[kind]: what a configuration may be measured to be
  None,           \* no dataset: none is used, or one by its path on the share
  MaxConfigs,     \* bound: configurations of a suite
  MaxRequests     \* bound: requests of all clients

ASSUME NoneAssumption == None \notin Dataset

VARIABLES
  suites,   \* suites[s]: the file of suite s
  content,  \* the datasets whose .jsonl file exists
  meta,     \* the datasets whose .json file exists, which are those listed
  run,      \* the newest run
  req,      \* req[c]: the request of client c that the server works on
  requests, \* number of requests so far
  writes,   \* observer: writes[s] counts the writes and deletes of the file
  doomed,   \* observer: datasets that somebody has begun to delete
  orphans   \* observer: datasets whose upload ended after its first file

store == <<suites, writes>>
files == <<content, meta, doomed, orphans>>
vars == <<store, files, run, req, requests>>

Idle == [op |-> "none"]

UsesDataset(kind) == kind \in {"jsonl", "tokens"}

Eval == {e \in [kind : Kind, dataset : Dataset \union {None}] :
           e.dataset # None => UsesDataset(e.kind)}

NoRun == [active |-> FALSE, eval |-> None, columns |-> <<>>, staged |-> "no", results |-> <<>>]

Init ==
  /\ suites = [s \in Suite |-> <<>>] /\ writes = [s \in Suite |-> 0]
  /\ content = {} /\ meta = {} /\ doomed = {} /\ orphans = {}
  /\ run = NoRun
  /\ req = [c \in Client |-> Idle] /\ requests = 0

-----------------------------------------------------------------------------
(* Two-file operations hold s.mu from the first file to the last; the      *)
(* others that write are one step, and have to find it free.               *)

Unlocked == \A c \in Client : req[c].op \notin {"upload", "erase"}

Begin(c) == req[c] = Idle /\ requests < MaxRequests /\ requests' = requests + 1

Distinct(configs) == \A i, j \in 1 .. Len(configs) : configs[i] = configs[j] => i = j

(* Mutant: the labels are not compared.                                    *)
ValidateNonempty(configs) == configs # <<>>

Validate(configs) == configs # <<>> /\ Distinct(configs)

SaveSuite(s, configs) ==
  /\ Unlocked /\ Validate(configs)
  /\ suites' = [suites EXCEPT ![s] = configs]
  /\ writes' = [writes EXCEPT ![s] = @ + 1]

CreateSuite(c) ==
  /\ Begin(c)
  /\ \E s \in Suite, configs \in BoundedSeq(Label, MaxConfigs) :
       writes[s] = 0 /\ SaveSuite(s, configs)
  /\ UNCHANGED <<files, run, req>>

DeleteSuite(c) ==
  /\ Begin(c) /\ Unlocked
  /\ \E s \in Suite :
       /\ suites[s] # <<>>
       /\ suites' = [suites EXCEPT ![s] = <<>>]
       /\ writes' = [writes EXCEPT ![s] = @ + 1]
  /\ UNCHANGED <<files, run, req>>

(* Both edits of a suite work on the copy that was loaded, without a lock. *)
AddConfig(c) ==
  /\ Begin(c)
  /\ \E s \in Suite, label \in Label :
       /\ suites[s] # <<>> /\ Len(suites[s]) < MaxConfigs
       /\ req' = [req EXCEPT ![c] = [op |-> "add", suite |-> s, held |-> suites[s],
                                     what |-> label, seen |-> writes[s]]]
  /\ UNCHANGED <<store, files, run>>

(* The client names an index; the last configuration cannot be removed.    *)
RemoveConfig(c) ==
  /\ Begin(c)
  /\ \E s \in Suite, idx \in 1 .. MaxConfigs :
       /\ idx <= Len(suites[s]) /\ Len(suites[s]) # 1
       /\ req' = [req EXCEPT ![c] = [op |-> "remove", suite |-> s, held |-> suites[s],
                                     what |-> idx, seen |-> writes[s]]]
  /\ UNCHANGED <<store, files, run>>

Editing(c) == req[c].op \in {"add", "remove"}

(* Mutant: the configuration behind the named one is removed.              *)
EditedNext(r) ==
  IF r.op = "add" THEN Append(r.held, r.what)
  ELSE SubSeq(r.held, 1, r.what) \o SubSeq(r.held, r.what + 2, Len(r.held))

Edited(r) ==
  IF r.op = "add" THEN Append(r.held, r.what)
  ELSE SubSeq(r.held, 1, r.what - 1) \o SubSeq(r.held, r.what + 1, Len(r.held))

(* Refused for a label that is there already, or failed to be written.     *)
SaveEdit(c) ==
  /\ Editing(c)
  /\ \/ SaveSuite(req[c].suite, Edited(req[c]))
     \/ Unlocked /\ UNCHANGED store
  /\ req' = [req EXCEPT ![c] = Idle]
  /\ UNCHANGED <<files, run, requests>>

-----------------------------------------------------------------------------
(* Datasets.                                                               *)

(* SaveDataset, under a fresh id.                                          *)
WriteContent(c) ==
  /\ Begin(c) /\ Unlocked
  /\ \E d \in Dataset \ (content \union meta \union doomed) :
       /\ content' = content \union {d}
       /\ req' = [req EXCEPT ![c] = [op |-> "upload", dataset |-> d]]
  /\ UNCHANGED <<store, meta, doomed, orphans, run>>

WriteMeta(c) ==
  /\ req[c].op = "upload"
  /\ \/ meta' = meta \union {req[c].dataset} /\ UNCHANGED orphans
     \/ orphans' = orphans \union {req[c].dataset} /\ UNCHANGED meta
  /\ req' = [req EXCEPT ![c] = Idle]
  /\ UNCHANGED <<store, content, doomed, run, requests>>

(* Mutant: the metadata is removed first.                                  *)
RemoveMetaFirst(c) ==
  /\ Begin(c) /\ Unlocked
  /\ \E d \in meta \union doomed :
       /\ meta' = meta \ {d}
       /\ doomed' = doomed \union {d}
       /\ req' = [req EXCEPT ![c] = [op |-> "erase", dataset |-> d]]
  /\ UNCHANGED <<store, content, orphans, run>>

(* DeleteDataset: the client may name what another has deleted meanwhile;  *)
(* removing a file that does not exist succeeds.                           *)
RemoveContent(c) ==
  /\ Begin(c) /\ Unlocked
  /\ \E d \in meta \union doomed :
       /\ content' = content \ {d}
       /\ doomed' = doomed \union {d}
       /\ req' = [req EXCEPT ![c] = [op |-> "erase", dataset |-> d]]
  /\ UNCHANGED <<store, meta, orphans, run>>

RemoveMeta(c) ==
  /\ req[c].op = "erase"
  /\ meta' \in {meta, meta \ {req[c].dataset}}
  /\ req' = [req EXCEPT ![c] = Idle]
  /\ UNCHANGED <<store, content, doomed, orphans, run, requests>>

-----------------------------------------------------------------------------
(* Runs, as far as they touch the store.                                   *)

(* Start loads the suite, looks the dataset up, and then finds out whether *)
(* a run is active; nothing is locked in between.                          *)
LoadSuite(c) ==
  /\ Begin(c)
  /\ \E s \in Suite, eval \in Eval :
       /\ suites[s] # <<>>
       /\ req' = [req EXCEPT ![c] = [op |-> "load", held |-> suites[s], eval |-> eval]]
  /\ UNCHANGED <<store, files, run>>

LookUpDataset(c) ==
  /\ req[c].op = "load"
  /\ req' = [req EXCEPT ![c] =
       IF req[c].eval.dataset \in meta \union {None} THEN [@ EXCEPT !.op = "start"] ELSE Idle]
  /\ UNCHANGED <<store, files, run, requests>>

SaveRun(c) ==
  /\ req[c].op = "start" /\ Unlocked
  /\ IF run.active THEN UNCHANGED run
     ELSE run' = [active |-> TRUE, eval |-> req[c].eval, columns |-> req[c].held,
                  staged |-> IF req[c].eval.dataset = None THEN "yes" ELSE "no",
                  results |-> <<>>]
  /\ req' = [req EXCEPT ![c] = Idle]
  /\ UNCHANGED <<store, files, requests>>

(* stageDataset reads the content, and the run fails if it cannot.         *)
Stage ==
  /\ run.active /\ run.staged = "no"
  /\ run' = IF run.eval.dataset \in content THEN [run EXCEPT !.staged = "yes"]
            ELSE [run EXCEPT !.staged = "failed", !.active = FALSE]
  /\ UNCHANGED <<store, files, req, requests>>

Measure ==
  /\ run.active /\ run.staged = "yes" /\ Len(run.results) < Len(run.columns)
  /\ \E result \in Outcome[run.eval.kind] :
       run' = [run EXCEPT !.results = Append(@, result)]
  /\ UNCHANGED <<store, files, req, requests>>

(* Complete, or cancelled, or failed elsewhere.                            *)
Finish ==
  /\ run.active
  /\ run' = [run EXCEPT !.active = FALSE]
  /\ UNCHANGED <<store, files, req, requests>>

DeleteRun(c) ==
  /\ Begin(c) /\ Unlocked
  /\ run # NoRun /\ ~run.active
  /\ run' = NoRun
  /\ UNCHANGED <<store, files, req>>

(* The server's process ends, and starts again.                            *)
Restart ==
  /\ run.active \/ \E c \in Client : req[c] # Idle
  /\ run' = [run EXCEPT !.active = FALSE]
  /\ req' = [c \in Client |-> Idle]
  /\ orphans' = orphans \union {d \in Dataset : \E c \in Client :
                                  req[c].op = "upload" /\ req[c].dataset = d}
  /\ UNCHANGED <<store, content, meta, doomed, requests>>

Request(c) ==
  \/ CreateSuite(c) \/ DeleteSuite(c) \/ AddConfig(c) \/ RemoveConfig(c) \/ SaveEdit(c)
  \/ WriteContent(c) \/ WriteMeta(c) \/ RemoveContent(c) \/ RemoveMeta(c)
  \/ LoadSuite(c) \/ LookUpDataset(c) \/ SaveRun(c) \/ DeleteRun(c)

Next == (\E c \in Client : Request(c)) \/ Stage \/ Measure \/ Finish \/ Restart

Spec == Init /\ [][Next]_vars

-----------------------------------------------------------------------------
(* Properties.                                                             *)

Runs ==
  [active : BOOLEAN, eval : Eval \union {None}, columns : Seq(Label),
   staged : {"no", "yes", "failed"}, results : Seq(UNION {Outcome[k] : k \in Kind})]

Requests ==
  {Idle}
    \union [op : {"add"}, suite : Suite, held : Seq(Label), what : Label, seen : Nat]
    \union [op : {"remove"}, suite : Suite, held : Seq(Label), what : Nat \ {0}, seen : Nat]
    \union [op : {"upload", "erase"}, dataset : Dataset]
    \union [op : {"load", "start"}, held : Seq(Label), eval : Eval]

(* Types.  In particular every stored suite, and the columns of every run, *)
(* are distinct labels (types.go:39: they tell the columns apart), however *)
(* the edits of several clients overlap.                                   *)
TypeOK ==
  /\ suites \in [Suite -> Seq(Label)] /\ writes \in [Suite -> Nat]
  /\ \A s \in Suite : Distinct(suites[s])
  /\ content \subseteq Dataset /\ meta \subseteq Dataset
  /\ doomed \subseteq Dataset /\ orphans \subseteq Dataset
  /\ run \in Runs /\ Distinct(run.columns) /\ Len(run.results) <= Len(run.columns)
  /\ req \in [Client -> Requests] /\ requests \in Nat

(* An edit takes effect on the suite as it is stored, or its request has   *)
(* overlapped another write of that suite: nobody's change is lost, and no *)
(* deleted suite comes back, except by such a race (api_bench.go:314-360   *)
(* loads and saves without a lock across the two).                         *)
EditsLostOnlyByRace ==
  [][\A c \in Client :
       /\ Editing(c) /\ suites' # suites
       /\ req[c] # req'[c] /\ req[c].seen = writes[req[c].suite]
       => suites' = [suites EXCEPT ![req[c].suite] =
                       IF req[c].op = "add" THEN Append(@, req[c].what)
                       ELSE RemoveAt(@, req[c].what)]]_vars

(* A dataset that is listed has its content, except when a delete of it    *)
(* was begun; content that is not listed is an upload's that is under way  *)
(* or was cut between its files; and a run finds the dataset it was        *)
(* started with, unless somebody has begun to delete it.                   *)
DatasetWhole ==
  /\ meta \ content \subseteq doomed
  /\ \A d \in content \ meta :
       d \in orphans \/ \E c \in Client : req[c] = [op |-> "upload", dataset |-> d]
  /\ run.staged = "failed" => run.eval.dataset \in doomed
=============================================================================
