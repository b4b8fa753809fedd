---------------------------- MODULE Coordinator ----------------------------
(***************************************************************************)
(* The coordinator process: internal/coordinator/coordinator.go, the main  *)
(* goroutine of cmd/scannerl/coordinator.go and the sink it owns.          *)
(*                                                                         *)
(* Goroutines: the main one, the Serve one, the register timer's, one per  *)
(* GetTargets call, one per ReportResults call, and the sink's consumer.   *)
(* A worker process is its two calls: it is sent targets by the first and  *)
(* reports each of them at most once through the second.                   *)
(***************************************************************************)
EXTENDS Sink, Shards

CONSTANTS Caller,           \* the worker processes that ever connect
          Workers,          \* Config.Workers
          Target,           \* the targets Config.Source yields
          RegisterTimeout,  \* Config.RegisterTimeout > 0
          Malformed,        \* the targets whose result fails to decode
          TooWide,          \* the targets whose port is no int32
          ListenerFails,    \* the listener may fail while the server runs
          Reconnecting      \* the callers whose lost connection may be made again

(* The host and port a result comes back with.  -p may be any integer, and *)
(* convert.go makes an int32 of it, so a port too wide for one comes back  *)
(* as another, which pendingKey does not find.  (That the other one is not *)
(* the port of another target of the same host is assumed.)                *)
Arrives(t) == IF t \in TooWide THEN [narrowed |-> t] ELSE t

(* A record is a result a worker reported, by what its target arrived as,  *)
(* or one made by ReportUnresolved.                                        *)
Real(t)      == [target |-> Arrives(t), kind |-> "real"]
Synthetic(t) == [target |-> t, kind |-> "synthetic"]
Record == {Real(t) : t \in Target} \cup {Synthetic(t) : t \in Target}

ASSUME CoordinatorAssumption ==
    /\ Workers \in Nat \ {0}
    /\ IsFiniteSet(Target)
    /\ RegisterTimeout \in BOOLEAN
    /\ Malformed \subseteq Target
    /\ TooWide \subseteq Target
    /\ \A t \in TooWide : Arrives(t) \notin Target
    /\ ListenerFails \in BOOLEAN
    /\ None \notin Target /\ None \notin Nat /\ None \notin Record

VARIABLES ctxDone,    \* the context of the run: a signal, or -max-duration
          srv,        \* the gRPC server: "serving" or "stopped"
          conn,       \* each caller's connection: "up" or "down"
          remade,     \* the callers whose connection was lost and made again:
                      \* their GetTargets stream is gone
          serve,      \* the Serve goroutine: "running", or what it returned
          timer,      \* RegisterTimeout's timer and its function
          arrived, shards, ready, aborted,   \* under c.mu
          pending,                           \* under c.pendingMu
          gt, slot, sent,     \* each GetTargets call: its pc, idx, what it sent
          rr, cur, got,       \* each ReportResults call: its pc, rec, what it read
          mainPc, todo, runErr, \* runCoordinator: its pc, ReportUnresolved's copy
          dropped     \* (history) the records a Send gave up on ctx.Done

rendezvousVars == <<arrived, shards, ready, slot>>
serverVars     == <<srv, conn, remade, serve, timer, aborted>>
callVars       == <<gt, sent>>
resultVars     == <<rr, cur, got>>
mainVars       == <<mainPc, todo, runErr>>
vars == <<ctxDone, rendezvousVars, serverVars, pending, callVars, resultVars,
          mainVars, dropped, sinkVars>>

(* The process is gone once main returns or a goroutine panics. *)
Alive == mainPc # "exit" /\ ~panicked

Init ==
    /\ ctxDone = FALSE
    /\ srv = "serving"
    /\ conn = [c \in Caller |-> "up"]
    /\ remade = {}
    /\ serve = "running"
    /\ timer = (IF RegisterTimeout THEN "armed" ELSE "off")
    /\ arrived = 0
    /\ shards = [k \in Slots(Workers) |-> {}]
    /\ ready = FALSE
    /\ aborted = FALSE
    /\ pending = {}
    /\ gt = [c \in Caller |-> "idle"]
    /\ slot = [c \in Caller |-> None]
    /\ sent = [c \in Caller |-> {}]
    /\ rr = [c \in Caller |-> "idle"]
    /\ cur = [c \in Caller |-> None]
    /\ got = [c \in Caller |-> {}]
    /\ mainPc = "select"
    /\ todo = {}
    /\ runErr = FALSE
    /\ dropped = {}
    /\ NewSink
-----------------------------------------------------------------------------
(* GetTargets *)

(* The stream of c's GetTargets call is broken, and its context done. *)
Cut(c) == conn[c] = "down" \/ c \in remade

(* The server starts the handler's goroutine; it has not registered yet. *)
GetTargetsCall(c) ==
    /\ Alive
    /\ gt[c] = "idle" /\ ~Cut(c) /\ srv = "serving"
    /\ gt' = [gt EXCEPT ![c] = "called"]
    /\ UNCHANGED <<ctxDone, rendezvousVars, serverVars, pending, sent,
                   resultVars, mainVars, dropped, sinkVars>>

(* What drainTargets returns: all of the source, or the part of it that    *)
(* target.Stream emitted before it saw the context done.                   *)
Drained == IF ctxDone THEN SUBSET Target ELSE {Target}

(* Mutant of TakeSlot: the index is read after the increment. *)
TakeSlot_AfterIncrement(c) ==
    /\ slot' = [slot EXCEPT ![c] = arrived + 1]
    /\ arrived' = arrived + 1

(* idx, and the count of arrivals. *)
TakeSlot(c) ==
    /\ slot' = [slot EXCEPT ![c] = arrived]
    /\ arrived' = arrived + 1

(* Mutants of Deal: only the last arrival's shard is recorded in pending;  *)
(* ready is not closed.                                                    *)
Deal_RecordsOneShard ==
    /\ \E D \in Drained : shards' \in EvenShards(D, Workers)
    /\ pending' = pending \cup shards'[arrived]
    /\ ready' = TRUE

Deal_NeverReady ==
    /\ \E D \in Drained :
          pending' = pending \cup D /\ shards' \in EvenShards(D, Workers)
    /\ UNCHANGED ready

(* The last arrival drains the source, splits it and closes ready. *)
Deal ==
    /\ \E D \in Drained :
          pending' = pending \cup D /\ shards' \in EvenShards(D, Workers)
    /\ ready' = TRUE

(* register, under c.mu: neither aborted nor the server is looked at. *)
Register(c) ==
    /\ Alive
    /\ gt[c] = "called"
    /\ arrived < Workers
    /\ TakeSlot(c)
    /\ gt' = [gt EXCEPT ![c] = "wait"]
    /\ IF arrived + 1 = Workers THEN Deal ELSE UNCHANGED <<pending, shards, ready>>
    /\ UNCHANGED <<ctxDone, serverVars, sent, resultVars, mainVars, dropped, sinkVars>>

RegisterRejected(c) ==
    /\ Alive
    /\ gt[c] = "called"
    /\ arrived >= Workers
    /\ gt' = [gt EXCEPT ![c] = "error"]
    /\ UNCHANGED <<ctxDone, rendezvousVars, serverVars, pending, sent,
                   resultVars, mainVars, dropped, sinkVars>>

(* The select: any case that is ready may be the one taken. *)
Wake(c) ==
    /\ Alive
    /\ gt[c] = "wait"
    /\ \/ ready /\ gt' = [gt EXCEPT ![c] = "push"]
       \/ (aborted \/ Cut(c)) /\ gt' = [gt EXCEPT ![c] = "error"]
    /\ UNCHANGED <<ctxDone, rendezvousVars, serverVars, pending, sent,
                   resultVars, mainVars, dropped, sinkVars>>

(* Mutant of Unsent: the shard of the last arrival, not of this one. *)
Unsent_OfLastArrival(c) == shards[arrived - 1] \ sent[c]

Unsent(c) == shards[slot[c]] \ sent[c]

(* A handler whose connection was made again may not know yet, and push on *)
(* into the old one.                                                       *)
PushTarget(c) ==
    /\ Alive
    /\ gt[c] = "push" /\ conn[c] = "up"
    /\ \E t \in Unsent(c) : sent' = [sent EXCEPT ![c] = @ \cup {t}]
    /\ UNCHANGED <<ctxDone, rendezvousVars, serverVars, pending, gt,
                   resultVars, mainVars, dropped, sinkVars>>

PushEnds(c) ==
    /\ Alive
    /\ gt[c] = "push"
    /\ \/ Unsent(c) = {} /\ gt' = [gt EXCEPT ![c] = "ok"]
       \/ Unsent(c) # {} /\ Cut(c) /\ gt' = [gt EXCEPT ![c] = "error"]
    /\ UNCHANGED <<ctxDone, rendezvousVars, serverVars, pending, sent,
                   resultVars, mainVars, dropped, sinkVars>>
-----------------------------------------------------------------------------
(* ReportResults *)

(* A worker opens its result stream after it has asked for targets, even   *)
(* when it has lost the connection it asked on.                            *)
ReportResultsCall(c) ==
    /\ Alive
    /\ rr[c] = "idle" /\ (gt[c] # "idle" \/ c \in remade)
    /\ conn[c] = "up" /\ srv = "serving"
    /\ rr' = [rr EXCEPT ![c] = "recv"]
    /\ UNCHANGED <<ctxDone, rendezvousVars, serverVars, pending, callVars,
                   cur, got, mainVars, dropped, sinkVars>>

(* A result the worker sent arrives.  What was received before the         *)
(* connection went down may still be read after.                           *)
RecvResult(c) ==
    /\ Alive
    /\ rr[c] = "recv"
    /\ \E t \in (sent[c] \ got[c]) \ Malformed :
          /\ got' = [got EXCEPT ![c] = @ \cup {t}]
          /\ cur' = [cur EXCEPT ![c] = t]
    /\ rr' = [rr EXCEPT ![c] = "claim"]
    /\ UNCHANGED <<ctxDone, rendezvousVars, serverVars, pending, callVars,
                   mainVars, dropped, sinkVars>>

(* FromProtoResult fails: the result is skipped, the stream goes on. *)
RecvMalformed(c) ==
    /\ Alive
    /\ rr[c] = "recv"
    /\ \E t \in (sent[c] \ got[c]) \cap Malformed : got' = [got EXCEPT ![c] = @ \cup {t}]
    /\ UNCHANGED <<ctxDone, rendezvousVars, serverVars, pending, callVars,
                   rr, cur, mainVars, dropped, sinkVars>>

(* The worker closed its stream and is acknowledged, or it is gone. *)
RecvEnds(c) ==
    /\ Alive
    /\ rr[c] = "recv"
    /\ \/ conn[c] = "up" /\ rr' = [rr EXCEPT ![c] = "acked"]
       \/ conn[c] = "down" /\ rr' = [rr EXCEPT ![c] = "error"]
    /\ UNCHANGED <<ctxDone, rendezvousVars, serverVars, pending, callVars,
                   cur, got, mainVars, dropped, sinkVars>>

(* The delete, under c.pendingMu. *)
Claim(c) ==
    /\ Alive
    /\ rr[c] = "claim"
    /\ pending' = pending \ {Arrives(cur[c])}
    /\ rr' = [rr EXCEPT ![c] = "send"]
    /\ UNCHANGED <<ctxDone, rendezvousVars, serverVars, callVars, cur, got,
                   mainVars, dropped, sinkVars>>

(* Sink.Send, of a record, by one of its callers. *)
Send(rec) ==
    \/ Enqueue(rec) /\ UNCHANGED dropped
    \/ SendOnClosed /\ UNCHANGED dropped
    \/ Abandon(ctxDone) /\ dropped' = dropped \cup {rec}

(* Mutant of SendResult: a Send that returned is retried. *)
SendResult_Retried(c) ==
    /\ Alive
    /\ rr[c] = "send"
    /\ Send(Real(cur[c]))
    /\ \/ UNCHANGED <<rr, cur>>
       \/ rr' = [rr EXCEPT ![c] = "recv"] /\ cur' = [cur EXCEPT ![c] = None]
    /\ UNCHANGED <<ctxDone, rendezvousVars, serverVars, pending, callVars,
                   got, mainVars>>

SendResult(c) ==
    /\ Alive
    /\ rr[c] = "send"
    /\ Send(Real(cur[c]))
    /\ rr' = [rr EXCEPT ![c] = "recv"]
    /\ cur' = [cur EXCEPT ![c] = None]
    /\ UNCHANGED <<ctxDone, rendezvousVars, serverVars, pending, callVars,
                   got, mainVars>>
-----------------------------------------------------------------------------
(* The server, Serve and the register timer *)

(* Mutant of StopServer: the server goes on. *)
StopServer_Nothing == UNCHANGED <<srv, conn>>

(* grpc's Stop: no new call, every connection closed; the handlers that    *)
(* are running are not waited for.                                         *)
StopServer ==
    /\ srv' = "stopped"
    /\ conn' = [c \in Caller |-> "down"]

(* timer.Stop, deferred in Serve: it does not wait for a started function. *)
TimerStopped == IF timer = "armed" THEN "off" ELSE timer

(* Mutants of ServeError: an abort is not told from a shutdown; the error  *)
(* of the listener is swallowed.                                           *)
ServeError_AbortForgotten(err) == err
ServeError_Swallowed(err) == IF aborted THEN "abortErr" ELSE "nil"

(* What Serve returns when srv.Serve has returned err. *)
ServeError(err) == IF aborted THEN "abortErr" ELSE err

ServeReturns ==
    /\ Alive
    /\ serve = "running"
    /\ srv = "stopped"
    /\ serve' = ServeError("nil")
    /\ timer' = TimerStopped
    /\ UNCHANGED <<ctxDone, rendezvousVars, srv, conn, remade, aborted, pending, callVars,
                   resultVars, mainVars, dropped, sinkVars>>

(* The listener fails: Serve returns, the connections it accepted live on. *)
ServeFails ==
    /\ Alive
    /\ ListenerFails
    /\ serve = "running"
    /\ srv = "serving"
    /\ serve' = ServeError("acceptErr")
    /\ timer' = TimerStopped
    /\ UNCHANGED <<ctxDone, rendezvousVars, srv, conn, remade, aborted, pending, callVars,
                   resultVars, mainVars, dropped, sinkVars>>

TimerExpires ==
    /\ Alive
    /\ timer = "armed"
    /\ timer' = "expired"
    /\ UNCHANGED <<ctxDone, rendezvousVars, srv, conn, remade, serve, aborted, pending,
                   callVars, resultVars, mainVars, dropped, sinkVars>>

(* Mutant of AllArrived: the arrivals are not counted again. *)
AllArrived_Unchecked == FALSE

AllArrived == arrived >= Workers

(* onRegisterTimeout up to the unlock, then its call of srv.Stop. *)
OnRegisterTimeout ==
    /\ Alive
    /\ timer = "expired"
    /\ IF AllArrived
       THEN timer' = "off" /\ UNCHANGED aborted
       ELSE timer' = "stopping" /\ aborted' = TRUE
    /\ UNCHANGED <<ctxDone, rendezvousVars, srv, conn, remade, serve, pending, callVars,
                   resultVars, mainVars, dropped, sinkVars>>

AbortStops ==
    /\ Alive
    /\ timer = "stopping"
    /\ StopServer
    /\ timer' = "off"
    /\ UNCHANGED <<ctxDone, rendezvousVars, remade, serve, aborted, pending, callVars,
                   resultVars, mainVars, dropped, sinkVars>>
-----------------------------------------------------------------------------
(* runCoordinator, the main goroutine *)

MainStop ==
    /\ Alive
    /\ mainPc = "select" /\ ctxDone
    /\ StopServer
    /\ mainPc' = "join"
    /\ UNCHANGED <<ctxDone, rendezvousVars, remade, serve, timer, aborted, pending,
                   callVars, resultVars, todo, runErr, dropped, sinkVars>>

(* <-serveErr: its value is kept only when Serve returned on its own. *)
MainJoin ==
    /\ Alive
    /\ mainPc \in {"select", "join"} /\ serve # "running"
    /\ runErr' = (mainPc = "select" /\ serve # "nil")
    /\ mainPc' = "copy"
    /\ UNCHANGED <<ctxDone, rendezvousVars, serverVars, pending, callVars,
                   resultVars, todo, dropped, sinkVars>>

(* ReportUnresolved: copy pending under its mutex, then send each target. *)
CopyPending ==
    /\ Alive
    /\ mainPc = "copy"
    /\ todo' = pending
    /\ mainPc' = "report"
    /\ UNCHANGED <<ctxDone, rendezvousVars, serverVars, pending, callVars,
                   resultVars, runErr, dropped, sinkVars>>

SendUnresolved ==
    /\ Alive
    /\ mainPc = "report"
    /\ \E t \in todo : Send(Synthetic(t)) /\ todo' = todo \ {t}
    /\ UNCHANGED <<ctxDone, rendezvousVars, serverVars, pending, callVars,
                   resultVars, mainPc, runErr>>

CloseSink ==
    /\ Alive
    /\ mainPc = "report" /\ todo = {}
    /\ CloseChannel
    /\ mainPc' = "clean"
    /\ UNCHANGED <<ctxDone, rendezvousVars, serverVars, pending, callVars,
                   resultVars, todo, runErr, dropped>>

CleanOutputs ==
    /\ Alive
    /\ mainPc = "clean"
    /\ CleanOutput
    /\ mainPc' = (IF cleaned' = NumOutputs THEN "exit" ELSE "clean")
    /\ UNCHANGED <<ctxDone, rendezvousVars, serverVars, pending, callVars,
                   resultVars, todo, runErr, dropped>>

SinkRun ==
    /\ Alive
    /\ run
    /\ UNCHANGED <<ctxDone, rendezvousVars, serverVars, pending, callVars,
                   resultVars, mainVars, dropped>>
-----------------------------------------------------------------------------
(* What the outside does. *)

Cancel ==
    /\ Alive
    /\ ~ctxDone
    /\ ctxDone' = TRUE
    /\ UNCHANGED <<rendezvousVars, serverVars, pending, callVars, resultVars,
                   mainVars, dropped, sinkVars>>

Disconnect(c) ==
    /\ Alive
    /\ conn[c] = "up"
    /\ conn' = [conn EXCEPT ![c] = "down"]
    /\ UNCHANGED <<ctxDone, rendezvousVars, srv, remade, serve, timer, aborted, pending,
                   callVars, resultVars, mainVars, dropped, sinkVars>>

(* gRPC's client makes a lost connection again by itself: a worker that    *)
(* had not opened its result stream opens it on the new one.               *)
Reconnect(c) ==
    /\ Alive
    /\ c \in Reconnecting
    /\ conn[c] = "down" /\ rr[c] = "idle"
    /\ srv = "serving" /\ serve = "running"
    /\ conn' = [conn EXCEPT ![c] = "up"]
    /\ remade' = remade \cup {c}
    /\ UNCHANGED <<ctxDone, rendezvousVars, srv, serve, timer, aborted, pending,
                   callVars, resultVars, mainVars, dropped, sinkVars>>

Terminated == ~Alive /\ UNCHANGED vars
-----------------------------------------------------------------------------
GetTargets(c) ==
    \/ GetTargetsCall(c) \/ Register(c) \/ RegisterRejected(c)
    \/ Wake(c) \/ PushTarget(c) \/ PushEnds(c)

ReportResults(c) ==
    \/ ReportResultsCall(c) \/ RecvResult(c) \/ RecvMalformed(c)
    \/ RecvEnds(c) \/ Claim(c) \/ SendResult(c)

Server == ServeReturns \/ ServeFails \/ TimerExpires \/ OnRegisterTimeout \/ AbortStops

Main ==
    \/ MainStop \/ MainJoin
    \/ CopyPending \/ SendUnresolved
    \/ CloseSink \/ CleanOutputs

Next ==
    \/ \E c \in Caller : GetTargets(c) \/ ReportResults(c) \/ Disconnect(c) \/ Reconnect(c)
    \/ Server \/ Main \/ SinkRun \/ Cancel \/ Terminated

(* A goroutine that can run does; so does a started timer.  Nothing is     *)
(* asked of the workers, the network or the operator: a call, a result, a  *)
(* target that is taken, a disconnection or a signal may never come.       *)
Fairness ==
    /\ \A c \in Caller :
          /\ WF_vars(Register(c) \/ RegisterRejected(c) \/ Wake(c) \/ PushEnds(c))
          /\ WF_vars((conn[c] = "down" /\ RecvEnds(c)) \/ Claim(c) \/ SendResult(c))
    /\ WF_vars(TimerExpires \/ OnRegisterTimeout \/ AbortStops)
    /\ WF_vars(ServeReturns) /\ WF_vars(Main) /\ WF_vars(SinkRun)

Spec == Init /\ [][Next]_vars
FairSpec == Spec /\ Fairness
-----------------------------------------------------------------------------
TypeOK ==
    /\ ctxDone \in BOOLEAN
    /\ srv \in {"serving", "stopped"}
    /\ conn \in [Caller -> {"up", "down"}]
    /\ remade \in SUBSET Caller
    /\ serve \in {"running", "nil", "abortErr", "acceptErr"}
    /\ timer \in {"off", "armed", "expired", "stopping"}
    /\ arrived \in 0..Workers
    /\ shards \in [Slots(Workers) -> SUBSET Target]
    /\ ready \in BOOLEAN /\ aborted \in BOOLEAN
    /\ pending \in SUBSET Target
    /\ gt \in [Caller -> {"idle", "called", "wait", "push", "ok", "error"}]
    /\ slot \in [Caller -> Slots(Workers) \cup {None}]
    /\ sent \in [Caller -> SUBSET Target]
    /\ rr \in [Caller -> {"idle", "recv", "claim", "send", "acked", "error"}]
    /\ cur \in [Caller -> Target \cup {None}]
    /\ got \in [Caller -> SUBSET Target]
    /\ mainPc \in {"select", "join", "copy", "report", "clean", "exit"}
    /\ todo \in SUBSET Target
    /\ runErr \in BOOLEAN
    /\ dropped \in SUBSET Record
    /\ SinkTypeOK(Record)

(* A target is sent to one worker at most, however registrations, refused  *)
(* callers and disconnections interleave (register hands out idx, GetTargets *)
(* reads shards[idx] later without the mutex).                             *)
PushedOnce == \A c, d \in Caller : c # d => sent[c] \cap sent[d] = {}

(* The handler of t's result holds it, between the delete and the end of Send. *)
InHand(t) == \E c \in Caller : rr[c] = "send" /\ cur[c] = t

(* A target that was dealt is either still pending, or its result is in a  *)
(* handler's hands, in the sink's, or was given up by a Send that saw the  *)
(* context done: ReportResults deletes it from pending before the sink has *)
(* it, and nothing else takes it out.                                      *)
Accounted ==
    panicked \/ \A k \in Slots(Workers) : \A t \in shards[k] :
        \/ t \in pending
        \/ InHand(t)
        \/ Accepted(Real(t))
        \/ Real(t) \in dropped

(* No output is written the same record twice: one result per target, and  *)
(* one synthetic record.                                                   *)
NoDuplicates ==
    \A o \in Outputs : \A i, j \in DOMAIN log[o] : log[o][i] = log[o][j] => i = j

(* After a shutdown, a target that was pushed has a line in the output     *)
(* unless a Send gave its record up, or a handler Stop left running still  *)
(* holds it.                                                               *)
NothingVanishes ==
    mainPc = "exit" /\ serve = "nil" =>
        \A c \in Caller : \A t \in sent[c] :
            \/ InLog(NumOutputs, Real(t)) \/ InLog(NumOutputs, Synthetic(t))
            \/ Real(t) \in dropped \/ Synthetic(t) \in dropped
            \/ InHand(t)

(* A coordinator that nobody told to stop exits with an error: a register  *)
(* timeout or a failed listener is never reported as a clean end, whichever *)
(* goroutine stops the server first (Serve reads abortErr after srv.Serve). *)
CleanExitOnlyWhenTold == mainPc = "exit" /\ ~ctxDone => runErr

(* A rendezvous that completed is never aborted: the timer's function      *)
(* decides under the mutex register completes it under.                    *)
NoAbortOnceReady == [][ready => aborted' = aborted]_vars

(* With a register timeout, a call that waits for the other workers is     *)
(* answered one way or the other.                                          *)
WaitersReleased ==
    \A c \in Caller : gt[c] = "wait" ~> (gt[c] # "wait" \/ ~Alive)

(* A cancelled coordinator terminates: Serve returns, the records of       *)
(* ReportUnresolved go through or are given up, the sink drains.           *)
ShutdownCompletes == ctxDone ~> ~Alive

(* An aborted one terminates with nobody's help. *)
AbortExits == aborted ~> ~Alive

(* The coordinator implements the promise of a static push. *)
Push == INSTANCE StaticPush WITH
            seat <- slot,
            share <- shards,
            dealt <- ready,
            pushed <- sent,
            answered <- {t \in Target : Accepted(Real(t))},
            lost <- {t \in Target : Real(t) \in dropped},
            stopping <- ctxDone
ImplementsStaticPush == Push!Spec
-----------------------------------------------------------------------------
(* What the documentation says, and a run of the code refutes. *)

(* README, Fault tolerance: "once the coordinator shuts down, it emits a   *)
(* synthetic error record for every target that never got a real result".  *)
EveryTargetReported ==
    mainPc = "exit" /\ serve = "nil" =>
        \A c \in Caller : \A t \in sent[c] :
            InLog(NumOutputs, Real(t)) \/ InLog(NumOutputs, Synthetic(t))

(* runCoordinator, on a RegisterTimeout abort: "no shard was ever pushed". *)
AbortedPushesNothing == aborted => \A c \in Caller : sent[c] = {}
=============================================================================
