---- MODULE MCDownloads ----
(* Small instances of Downloads for TLC. *)
EXTENDS Downloads

CONSTANTS d1, l1, l2, v1

MCWaiter == Visitor \cup (Download \X (1 .. MaxCalls))
====
