------------------------------- MODULE Engine -------------------------------
(***************************************************************************)
(* The engine (internal/engine/engine.go): a fixed pool of goroutines,     *)
(* each of which takes a target, probes it and sends its record to the     *)
(* sink, until the target channel is closed or the context is done.        *)
(*                                                                         *)
(* A component, like Sink, which it extends: the program says where the    *)
(* targets come from.  A record is named by the target it is about; what a *)
(* probe finds is the business of module Probe.                            *)
(***************************************************************************)
EXTENDS Sink

CONSTANT Worker     \* the goroutines of the pool: cfg.Workers of them

ASSUME EngineAssumption == Worker # {}

VARIABLES eng,      \* each goroutine: "select", "probe", "send", "stopped"
          job,      \* the target it works on, or None
          dropped   \* (history) the targets whose record a Send gave up

engineVars == <<eng, job, dropped>>

EngineTypeOK(Target) ==
    /\ eng \in [Worker -> {"select", "probe", "send", "stopped"}]
    /\ job \in [Worker -> Target \cup {None}]
    /\ dropped \in SUBSET Target

NewEngine ==
    /\ eng = [w \in Worker |-> "select"]
    /\ job = [w \in Worker |-> None]
    /\ dropped = {}
-----------------------------------------------------------------------------
Receive(w, t) ==
    /\ eng[w] = "select"
    /\ job' = [job EXCEPT ![w] = t]
    /\ eng' = [eng EXCEPT ![w] = "probe"]
    /\ UNCHANGED <<dropped, sinkVars>>

(* stop: the context is done, or the target channel is closed. *)
WorkerReturns(w, stop) ==
    /\ eng[w] = "select"
    /\ stop
    /\ eng' = [eng EXCEPT ![w] = "stopped"]
    /\ UNCHANGED <<job, dropped, sinkVars>>

ProbeOne(w) ==
    /\ eng[w] = "probe"
    /\ eng' = [eng EXCEPT ![w] = "send"]
    /\ UNCHANGED <<job, dropped, sinkVars>>

SendRecord(w, ctxDone) ==
    /\ eng[w] = "send"
    /\ \/ (Enqueue(job[w]) \/ SendOnClosed) /\ UNCHANGED dropped
       \/ Abandon(ctxDone) /\ dropped' = dropped \cup {job[w]}
    /\ eng' = [eng EXCEPT ![w] = "select"]
    /\ job' = [job EXCEPT ![w] = None]

(* Mutant of PoolStopped: one goroutine of the pool is waited for. *)
PoolStopped_First == \E w \in Worker : eng[w] = "stopped"

(* What Run waits for. *)
PoolStopped == \A w \in Worker : eng[w] = "stopped"
=============================================================================
