--------------------------- MODULE MCRunnerWaits ---------------------------
(* Instance of RunnerWaits for TLC. *)
EXTENDS RunnerWaits

Entry(m, t) == [mark |-> m, text |-> t]

(* docker's whole line; podman's line in two entries; an output that ends  *)
(* with a line that does not decode; one without a result.                 *)
MCLogs ==
  { << Entry("raw", <<"noise">>), Entry("raw", <<"head", "tail">>) >>,
    << Entry("F", <<"noise">>), Entry("P", <<"head">>), Entry("F", <<"tail">>) >>,
    << Entry("F", <<"head", "tail">>), Entry("F", <<"head">>) >>,
    << Entry("F", <<"noise">>) >> }
=============================================================================
