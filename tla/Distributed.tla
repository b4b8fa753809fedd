----------------------------- MODULE Distributed -----------------------------
(***************************************************************************)
(* A distributed scan: the coordinator of module Coordinator with the      *)
(* workers that connect to it.  Coordinator lets its workers send anything *)
(* at any time; here each one is a Reporter, which is what module          *)
(* WorkerRun shows a worker process to be, so that what one process        *)
(* concludes can be compared with what the other one did.  A worker's step *)
(* is a step of its Reporter, to which this module adds what the two ends  *)
(* of a connection have to do with each other.                             *)
(*                                                                         *)
(* A stream keeps its order and loses nothing while its connection lives,  *)
(* so either side sees the end of a stream only after all that was put on  *)
(* it.  A worker that is told to stop is one whose connection is lost.     *)
(***************************************************************************)
EXTENDS Coordinator

CONSTANT Unencodable   \* the targets whose result has no wire form

ASSUME DistributedAssumption == Unencodable \subseteq Target

VARIABLES rx,     \* the targets each worker has received
          tx,     \* the targets whose result each worker has sent
          ended,  \* whether the target stream of each worker is over
          phase   \* each worker: "starting", "running", "closed" (its result
                  \* stream), "ok" and "failed" (its exit)

workerVars == <<rx, tx, ended, phase>>
allVars    == <<vars, workerVars>>

(* c's result stream is broken, or cannot be opened. *)
CutOff(c) == conn[c] = "down" \/ ~Alive

AsReporter(c) == INSTANCE Reporter WITH
    received <- rx[c],
    reported <- tx[c],
    ended <- ended[c],
    phase <- phase[c],
    acked <- rr[c] = "acked",
    cutOff <- CutOff(c)

DInit ==
    /\ Init
    /\ rx = [c \in Caller |-> {}]
    /\ tx = [c \in Caller |-> {}]
    /\ ended = [c \in Caller |-> FALSE]
    /\ phase = [c \in Caller |-> "starting"]
-----------------------------------------------------------------------------
(* The workers, as Reporters.  One whose result stream is cut off reaches  *)
(* nobody any more and fails; only its exit is modelled then.              *)

(* What had been pushed when a connection was lost may still arrive. *)
WReceive(c) ==
    /\ ~CutOff(c)
    /\ \E t \in sent[c] \ rx[c] : rx' = [rx EXCEPT ![c] = @ \cup {t}]
    /\ UNCHANGED <<vars, tx, ended, phase>>
    /\ AsReporter(c)!Receive

(* Mutant of TargetsEnded: the end of the stream overtakes its targets. *)
TargetsEnded_Overtakes(c) == gt[c] \in {"ok", "error"} \/ c \in remade

(* The end of the stream, or the error the coordinator answered with,      *)
(* follows the last target; a stream that broke ends where it broke, with  *)
(* the connection made again or not.                                       *)
TargetsEnded(c) ==
    (gt[c] \in {"ok", "error"} /\ rx[c] = sent[c]) \/ c \in remade

WEnd(c) ==
    /\ ~CutOff(c) /\ TargetsEnded(c)
    /\ ended' = [ended EXCEPT ![c] = TRUE]
    /\ UNCHANGED <<vars, rx, tx, phase>>
    /\ AsReporter(c)!End

(* The result of t, on a stream that is open. *)
WReport(c) ==
    /\ ~CutOff(c)
    /\ \E t \in rx[c] : tx' = [tx EXCEPT ![c] = @ \cup {t}]
    /\ UNCHANGED <<vars, rx, ended, phase>>
    /\ AsReporter(c)!Report

Becomes(c, p) ==
    /\ phase' = [phase EXCEPT ![c] = p]
    /\ UNCHANGED <<vars, rx, tx, ended>>

WClose(c) == ~CutOff(c) /\ Becomes(c, "closed") /\ AsReporter(c)!Close

(* CloseAndRecv returns the acknowledgement, or the error of a stream that *)
(* was cut; a stream that could not be opened is an error too.             *)
WExit(c) ==
    \/ Becomes(c, "ok") /\ AsReporter(c)!Succeed
    \/ Becomes(c, "failed") /\ AsReporter(c)!Fail

WorkerStep(c) == WReceive(c) \/ WEnd(c) \/ WReport(c) \/ WClose(c) \/ WExit(c)
-----------------------------------------------------------------------------
(* The coordinator, with what it takes from the workers *)

(* A worker that has not exited asks for its targets. *)
Asks(c) ==
    /\ phase[c] = "starting"
    /\ GetTargetsCall(c)
    /\ UNCHANGED workerVars

(* The two ends of a result stream begin together: what one of them would  *)
(* do before the other is there, it does after.                            *)
Opens(c) ==
    /\ ReportResultsCall(c)
    /\ phase' = [phase EXCEPT ![c] = "running"]
    /\ UNCHANGED <<rx, tx, ended>>
    /\ AsReporter(c)!Open

Reads(c) ==
    /\ RecvResult(c) \/ RecvMalformed(c)
    /\ got'[c] \subseteq tx[c]

StreamEnds(c) ==
    /\ conn[c] = "up" => phase[c] = "closed" /\ got[c] = tx[c]
    /\ RecvEnds(c)

CallStep(c) ==
    \/ Register(c) \/ RegisterRejected(c) \/ Wake(c) \/ PushTarget(c) \/ PushEnds(c)
    \/ Reads(c) \/ Claim(c) \/ SendResult(c) \/ StreamEnds(c)

(* What happens to a scan from outside. *)
Disturbance ==
    /\ \/ \E c \in Caller : Disconnect(c) \/ (phase[c] = "starting" /\ Reconnect(c))
       \/ Cancel \/ ServeFails \/ TimerExpires
    /\ UNCHANGED workerVars

CoordinatorStep ==
    /\ \/ \E c \in Caller : CallStep(c)
       \/ ServeReturns \/ OnRegisterTimeout \/ AbortStops
       \/ Main \/ SinkRun
    /\ UNCHANGED workerVars

Ended ==
    /\ ~Alive
    /\ \A c \in Caller : phase[c] \in {"ok", "failed"}
    /\ UNCHANGED allVars

Progress ==
    \/ CoordinatorStep
    \/ \E c \in Caller : Asks(c) \/ Opens(c) \/ WorkerStep(c)

DNext == Progress \/ Disturbance \/ Ended

(* Each process runs on as long as one of its goroutines can, and as many  *)
(* workers as the coordinator waits for are started.                       *)
DSpec == DInit /\ [][DNext]_allVars
DFairSpec == DSpec /\ WF_allVars(Progress)
-----------------------------------------------------------------------------
Reportable == Target \ (Unencodable \cup Malformed)

(* What a worker's success is worth.  It has received its shard, unless    *)
(* the rendezvous was aborted or its connection was lost and made again    *)
(* before it opened its result stream (StreamTargets ends a stream that    *)
(* failed like a complete one, and the exit status does not tell them      *)
(* apart).  Whatever it did receive and could report was accepted by the   *)
(* sink, or given up because the run was being stopped.  None of that is   *)
(* pending any more, nor reported as "worker disconnected", unless Serve   *)
(* returned on its own and ReportUnresolved ran beside the calls, or the   *)
(* port was too wide for the wire.                                         *)
SuccessIsRecorded ==
    \A c \in Caller : phase[c] = "ok" =>
        /\ slot[c] = None \/ aborted \/ c \in remade \/ rx[c] = shards[slot[c]]
        /\ \A t \in rx[c] \cap Reportable :
              /\ Accepted(Real(t)) \/ (ctxDone /\ Real(t) \in dropped)
              /\ t \in TooWide \/ t \notin pending
              /\ t \in todo \/ Accepted(Synthetic(t)) => runErr \/ t \in TooWide

Undisturbed ==
    /\ \A c \in Caller : conn[c] = "up"
    /\ remade = {}
    /\ ~ctxDone /\ ~aborted /\ serve = "running"

(* A scan that nothing disturbs completes: the rendezvous is met, every    *)
(* target comes back with its result, and every worker exits with success. *)
ScanCompletes ==
    <>(Undisturbed =>
          /\ \A t \in Reportable : InLog(NumOutputs, Real(t))
          /\ \A c \in Caller : phase[c] = "ok")
=============================================================================
