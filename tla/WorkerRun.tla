----------------------------- MODULE WorkerRun -----------------------------
(***************************************************************************)
(* A worker process: runWorker (cmd/scannerl/worker.go) and                *)
(* internal/worker.  The targets come from a GetTargets stream, through    *)
(* the goroutine of StreamTargets; the records go, through the sink, to    *)
(* one output, which sends them on a ReportResults stream.                 *)
(*                                                                         *)
(* The coordinator and the network are the environment: the connection may *)
(* break at any time, the coordinator may refuse the worker, take as long  *)
(* as it likes to push a target or to read a result, and acknowledges the  *)
(* results when it has read them all.                                      *)
(***************************************************************************)
EXTENDS Engine, Wire

CONSTANTS Shard,         \* the targets the coordinator has for this worker
          Finding,       \* the result the probe of each ends with
          Window         \* the results a stream carries before Send blocks

(* A target is named as the coordinator has it, wherever it is: the stream, *)
(* the pool and the sink carry AtWorker of it.                             *)
Target == {Shard[i] : i \in DOMAIN Shard}

AtWorker(t) == FromProtoTarget(ToProtoTarget(t))

(* The targets whose record ToProtoResult rejects. *)
Unencodable == {t \in Target : ~Encodes(Finding[t])}

ASSUME WorkerRunAssumption ==
    /\ Shard \in Seq(Target)
    /\ \A i, j \in DOMAIN Shard : Shard[i] = Shard[j] => i = j
    /\ \A t \in Target : t.port \in Int /\ t = [host |-> t.host, port |-> t.port]
    /\ None \notin Target
    /\ Finding \in [Target -> [outcome : Outcome \cup {"other"}, value : Value]]
    /\ Window \in Nat \ {0}
    /\ NumOutputs = 1

VARIABLES ctxDone,    \* a signal, or -max-duration
          conn,       \* the connection to the coordinator: "up" or "down"
          srcPc,      \* StreamTargets: "none", "recv", "emit", "fail", "closed"
          recvd,      \* the number of targets received
          ending,     \* how the stream ended: "eof", "error", "cut"; or "none"
          errs,       \* the buffer of errs holds the error
          printer,    \* the goroutine that drains errs: "none", "draining", "done"
          printed,    \* (history) the error has been printed
          results,    \* the ReportResults stream: "none", "open", "sent"
                      \* (its send side is closed), "acked", "reset"
          wire,       \* the results that are on their way
          received,   \* the records the coordinator has read, each with the
                      \* target it is of (history: the code has the record)
          mainPc,     \* runWorker
          runErr      \* it returns an error

sourceVars  == <<srcPc, recvd, ending, errs>>
printerVars == <<printer, printed>>
resultVars  == <<results, wire, received>>
mainVars    == <<mainPc, runErr>>
vars == <<ctxDone, conn, sourceVars, printerVars, resultVars, mainVars, sinkVars, engineVars>>

Alive == mainPc # "exit" /\ ~panicked

(* An operation on a stream may fail. *)
Broken == ctxDone \/ conn = "down"

Init ==
    /\ NewSink
    /\ NewEngine
    /\ ctxDone = FALSE
    /\ conn = "up"
    /\ srcPc = "none" /\ recvd = 0 /\ ending = "none" /\ errs = FALSE
    /\ printer = "none" /\ printed = FALSE
    /\ results = "none" /\ wire = <<>> /\ received = <<>>
    /\ mainPc = "getTargets" /\ runErr = FALSE
-----------------------------------------------------------------------------
(* runWorker up to eng.Run: open both streams. *)
Fail == mainPc' = "exit" /\ runErr' = TRUE

GetTargets ==
    /\ mainPc = "getTargets"
    /\ \/ /\ conn = "up"
          /\ srcPc' = "recv" /\ printer' = "draining"
          /\ mainPc' = "init" /\ UNCHANGED runErr
       \/ Broken /\ Fail /\ UNCHANGED <<srcPc, printer>>
    /\ UNCHANGED <<ctxDone, conn, recvd, ending, errs, printed, resultVars, sinkVars, engineVars>>

OpenResults ==
    /\ mainPc = "init"
    /\ \/ conn = "up" /\ results' = "open" /\ mainPc' = "run" /\ UNCHANGED runErr
       \/ Broken /\ Fail /\ UNCHANGED results
    /\ UNCHANGED <<ctxDone, conn, sourceVars, printerVars, wire, received, sinkVars, engineVars>>
-----------------------------------------------------------------------------
(* The goroutine of StreamTargets, and the one that prints its error. *)
StreamOnly == UNCHANGED <<ctxDone, conn, printerVars, resultVars, mainVars, sinkVars, engineVars>>

(* What had arrived before the connection broke may still be received. *)
RecvTarget ==
    /\ srcPc = "recv" /\ recvd < Len(Shard)
    /\ recvd' = recvd + 1
    /\ srcPc' = "emit"
    /\ UNCHANGED <<ending, errs>>
    /\ StreamOnly

RecvEOF ==
    /\ srcPc = "recv" /\ recvd = Len(Shard)
    /\ srcPc' = "closed" /\ ending' = "eof"
    /\ UNCHANGED <<recvd, errs>>
    /\ StreamOnly

(* The connection broke, or this call alone ends in an error: it was       *)
(* refused, or the connection was lost and made again before OpenResults.  *)
RecvFails ==
    /\ srcPc = "recv"
    /\ srcPc' = "fail"
    /\ UNCHANGED <<recvd, ending, errs>>
    /\ StreamOnly

(* errs has room for the one error; with the context done either case of   *)
(* the select may be taken.                                                *)
ReportFailure ==
    /\ srcPc = "fail"
    /\ \/ errs' = TRUE /\ ending' = "error"
       \/ ctxDone /\ ending' = "cut" /\ UNCHANGED errs
    /\ srcPc' = "closed"
    /\ UNCHANGED recvd
    /\ StreamOnly

GiveUp ==
    /\ srcPc = "emit" /\ ctxDone
    /\ srcPc' = "closed" /\ ending' = "cut"
    /\ UNCHANGED <<recvd, errs>>
    /\ StreamOnly

Stream == RecvEOF \/ ReportFailure \/ GiveUp \/ (Broken /\ RecvFails)

PrintError ==
    /\ printer = "draining" /\ errs
    /\ errs' = FALSE /\ printed' = TRUE
    /\ UNCHANGED <<ctxDone, conn, srcPc, recvd, ending, printer, resultVars, mainVars,
                   sinkVars, engineVars>>

PrinterReturns ==
    /\ printer = "draining" /\ srcPc = "closed" /\ ~errs
    /\ printer' = "done"
    /\ UNCHANGED <<ctxDone, conn, sourceVars, printed, resultVars, mainVars,
                   sinkVars, engineVars>>
-----------------------------------------------------------------------------
(* eng.Run *)
EngineOnly == UNCHANGED <<ctxDone, conn, recvd, ending, errs, printerVars, resultVars, mainVars>>

Take(w) ==
    /\ mainPc = "run"
    /\ srcPc = "emit"
    /\ Receive(w, Shard[recvd])
    /\ srcPc' = "recv"
    /\ EngineOnly

Proceed(w) ==
    /\ mainPc = "run"
    /\ ProbeOne(w) \/ WorkerReturns(w, ctxDone \/ srcPc = "closed")
    /\ UNCHANGED srcPc
    /\ EngineOnly

SendResult(w) ==
    /\ SendRecord(w, ctxDone)
    /\ UNCHANGED srcPc
    /\ EngineOnly
-----------------------------------------------------------------------------
(* Mutants of SendOnStream: Send does not wait for room; a result is sent  *)
(* again when the stream breaks.                                           *)
SendOnStream_Unbounded(entry) ==
    \/ results = "open" /\ conn = "up" /\ wire' = Append(wire, entry)
    \/ Broken /\ UNCHANGED wire

SendOnStream_Retries(entry) ==
    /\ Len(wire) < Window
    /\ wire' = (IF Broken THEN wire \o <<entry, entry>> ELSE Append(wire, entry))

(* stream.Send: it waits for room on the stream, or fails with it. *)
SendOnStream(entry) ==
    \/ results = "open" /\ conn = "up" /\ Len(wire) < Window /\ wire' = Append(wire, entry)
    \/ Broken /\ UNCHANGED wire

(* The record of t as it is sent, and as it is read. *)
Encoded(t) == [of |-> t, pr |-> ToProtoResult(AtWorker(t), Finding[t])]
Decoded(entry) == [of |-> entry.of, rec |-> FromProtoResult(entry.pr)]

(* grpcOutput.Write, called by the sink, which ignores what it returns. *)
WriteResult ==
    /\ Write
    /\ IF Encodes(Finding[writing])
       THEN SendOnStream(Encoded(writing))
       ELSE UNCHANGED wire

SinkRun ==
    /\ WriteResult \/ ((Dequeue \/ RunReturns) /\ UNCHANGED wire)
    /\ UNCHANGED <<ctxDone, conn, sourceVars, printerVars, results, received, mainVars,
                   engineVars>>
-----------------------------------------------------------------------------
(* runWorker after eng.Run: wg.Wait, then sink.Close, whose Clean closes   *)
(* the stream and waits for the acknowledgement.                           *)
MainGoes(from, to) ==
    /\ mainPc = from /\ mainPc' = to
    /\ UNCHANGED <<ctxDone, conn, sourceVars, printerVars, wire, received, engineVars>>

EngineReturns ==
    /\ PoolStopped
    /\ MainGoes("run", "errs")
    /\ UNCHANGED <<runErr, results, sinkVars>>

(* Mutant of ErrsDrained: main does not wait for the printer. *)
ErrsDrained_NoWait == TRUE

ErrsDrained == printer = "done"

ErrsPrinted ==
    /\ ErrsDrained
    /\ MainGoes("errs", "close")
    /\ UNCHANGED <<runErr, results, sinkVars>>

CloseSink ==
    /\ CloseChannel
    /\ MainGoes("close", "clean")
    /\ UNCHANGED <<runErr, results>>

(* Mutant of SinkDrained: Clean does not wait for the consumer. *)
SinkDrained_NoWait == TRUE

SinkDrained == done

CloseSend ==
    /\ SinkDrained
    /\ results' = (IF results = "open" THEN "sent" ELSE results)
    /\ MainGoes("clean", "ack")
    /\ UNCHANGED <<runErr, sinkVars>>

(* Mutants of CloseAndRecv: its error is dropped; the acknowledgement is   *)
(* waited for whatever happens to the stream.                              *)
CloseAndRecv_DropsError(failed) == (results = "acked" \/ Broken) /\ failed = FALSE

CloseAndRecv_ForEver(failed) == results = "acked" /\ failed = FALSE

(* What CloseAndRecv may return. *)
CloseAndRecv(failed) ==
    \/ results = "acked" /\ failed = FALSE
    \/ Broken /\ failed = TRUE

AwaitAck ==
    /\ CleanOutput
    /\ \E failed \in BOOLEAN : CloseAndRecv(failed) /\ runErr' = failed
    /\ MainGoes("ack", "exit")
    /\ UNCHANGED results

Main == GetTargets \/ OpenResults \/ EngineReturns \/ ErrsPrinted \/ CloseSink \/ CloseSend \/ AwaitAck
-----------------------------------------------------------------------------
(* The coordinator's side of the result stream, and the rest of the world. *)
CoordinatorReads ==
    /\ results \in {"open", "sent"} /\ conn = "up"
    /\ wire # <<>>
    /\ received' = (IF Decodes(Head(wire).pr)
                    THEN Append(received, Decoded(Head(wire)))
                    ELSE received)
    /\ wire' = Tail(wire)
    /\ UNCHANGED <<ctxDone, conn, sourceVars, printerVars, results, mainVars, sinkVars, engineVars>>

CoordinatorAcks ==
    /\ results = "sent" /\ conn = "up"
    /\ wire = <<>>
    /\ results' = "acked"
    /\ UNCHANGED <<ctxDone, conn, sourceVars, printerVars, wire, received, mainVars, sinkVars, engineVars>>

(* The stream is cancelled with the context it was opened with. *)
StreamReset ==
    /\ results \in {"open", "sent"} /\ ctxDone
    /\ results' = "reset"
    /\ UNCHANGED <<ctxDone, conn, sourceVars, printerVars, wire, received, mainVars, sinkVars, engineVars>>

Disconnect ==
    /\ conn = "up"
    /\ conn' = "down"
    /\ UNCHANGED <<ctxDone, sourceVars, printerVars, resultVars, mainVars, sinkVars, engineVars>>

Cancel ==
    /\ ~ctxDone
    /\ ctxDone' = TRUE
    /\ UNCHANGED <<conn, sourceVars, printerVars, resultVars, mainVars, sinkVars, engineVars>>

Terminated == ~Alive /\ UNCHANGED vars
-----------------------------------------------------------------------------
Work(w) == Take(w) \/ Proceed(w) \/ SendResult(w)

Step ==
    \/ RecvTarget \/ RecvFails \/ Stream \/ PrintError \/ PrinterReturns
    \/ \E w \in Worker : Work(w)
    \/ SinkRun \/ Main
    \/ CoordinatorReads \/ CoordinatorAcks \/ StreamReset
    \/ Disconnect \/ Cancel

(* Every goroutine dies with the process. *)
Next == (Alive /\ Step) \/ Terminated

(* Every goroutine that can run does, and a blocked operation on a stream  *)
(* ends when the stream breaks.  Nothing is asked of the coordinator.      *)
Fairness ==
    /\ WF_vars(Alive /\ Stream) /\ WF_vars(Alive /\ PrintError) /\ WF_vars(Alive /\ PrinterReturns)
    /\ WF_vars(Alive /\ \E w \in Worker : Take(w))
    /\ \A w \in Worker : WF_vars(Alive /\ Proceed(w)) /\ SF_vars(Alive /\ SendResult(w))
    /\ WF_vars(Alive /\ SinkRun) /\ WF_vars(Alive /\ Main)

Spec == Init /\ [][Next]_vars
FairSpec == Spec /\ Fairness
-----------------------------------------------------------------------------
TypeOK ==
    /\ SinkTypeOK(Target)
    /\ EngineTypeOK(Target)
    /\ ctxDone \in BOOLEAN
    /\ conn \in {"up", "down"}
    /\ srcPc \in {"none", "recv", "emit", "fail", "closed"}
    /\ recvd \in 0..Len(Shard)
    /\ ending \in {"eof", "error", "cut", "none"}
    /\ errs \in BOOLEAN
    /\ printer \in {"none", "draining", "done"}
    /\ printed \in BOOLEAN
    /\ results \in {"none", "open", "sent", "acked", "reset"}
    /\ Len(wire) <= Window
    /\ \A i \in DOMAIN wire : wire[i].of \in Target /\ wire[i].pr.port \in Int32
    /\ \A i \in DOMAIN received : received[i].rec.outcome \in Outcome
    /\ mainPc \in {"getTargets", "init", "run", "errs", "close", "clean", "ack", "exit"}
    /\ runErr \in BOOLEAN

Sent == received \o wire

(* A worker that succeeds, was not cancelled and was sent its whole shard  *)
(* has had every result it could encode read by the coordinator: a Write   *)
(* that failed, which the sink ignored, shows in the acknowledgement.  The *)
(* record prints as a single-host scan's does, of the same host and port,  *)
(* with the exceptions of PrintsAlike: -p may name a port that no int32    *)
(* holds, and the two conversions then make another one of it.             *)
SuccessIsComplete ==
    mainPc = "exit" /\ ~runErr /\ ~ctxDone /\ ending = "eof" =>
        \A t \in Target \ Unencodable : \E i \in DOMAIN received :
            received[i].of = t /\ PrintsAlike(received[i].rec, t, Finding[t])

(* The coordinator reads one result per target.  It deletes the target     *)
(* from pending for the first and would write a second to its output.      *)
OneResultEach ==
    \A i, j \in DOMAIN Sent : Sent[i].of = Sent[j].of => i = j

(* A target stream that failed is not taken for a complete one without a   *)
(* word: its error has been printed when the process exits, although its   *)
(* exit status does not show it.                                           *)
FailureIsShown ==
    mainPc = "exit" /\ ending = "error" /\ results # "none" => printed

(* A cancelled worker, and one whose coordinator is gone, exits, whatever  *)
(* it was blocked on: a Recv, a full queue, a Send, an acknowledgement.    *)
Exits == ctxDone \/ conn = "down" ~> ~Alive

(* The worker keeps the promise its coordinator relies on.  The stream is  *)
(* closed once, after the last Write: "exactly the right moment" of        *)
(* grpcOutput.Clean.                                                       *)
Promise == INSTANCE Reporter WITH
    received <- {Shard[i] : i \in 1..recvd},
    reported <- {Sent[i].of : i \in DOMAIN Sent},
    ended <- srcPc = "closed",
    phase <- (CASE mainPc = "exit" -> IF runErr THEN "failed" ELSE "ok"
                [] mainPc = "ack"  -> "closed"
                [] mainPc \in {"getTargets", "init"} -> "starting"
                [] OTHER           -> "running"),
    acked <- results = "acked",
    cutOff <- Broken
ImplementsReporter == Promise!Spec
=============================================================================
