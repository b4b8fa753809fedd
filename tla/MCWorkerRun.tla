---------------------------- MODULE MCWorkerRun ----------------------------
(* A worker with three targets.  The second has a result with no wire form, *)
(* and the port of the third is one too wide for an int32 that holds -4..3, *)
(* which makes the first target of it.                                     *)
EXTENDS WorkerRun, TLC

CONSTANTS host, w1, w2

t1 == [host |-> host, port |-> 1]
t2 == [host |-> host, port |-> 2]
t3 == [host |-> host, port |-> 9]

MCShard == <<t1, t2, t3>>

MCFinding ==
    t1 :> [outcome |-> "ok", value |-> "list"] @@
    t2 :> [outcome |-> "ok", value |-> "opaque"] @@
    t3 :> [outcome |-> "unknown", value |-> "bytes"]

=============================================================================
