------------------------------ MODULE ScanRun ------------------------------
(***************************************************************************)
(* A single-host scan: runSingleHost (cmd/scannerl/single_host.go) wires   *)
(* the target source, the engine's pool of goroutines and the sink, and    *)
(* waits for them in order.                                                *)
(***************************************************************************)
EXTENDS TargetStream, Engine

VARIABLES ctxDone,    \* a signal, or -max-duration
          printer,    \* the goroutine that drains errs: "draining" or "done"
          mainPc      \* runSingleHost: "run", "errs", "close", "clean", "exit"

runVars == <<ctxDone, printer, mainPc>>
vars == <<streamVars, sinkVars, engineVars, runVars>>

Target == [host : Text, port : Int]

ASSUME ScanRunAssumption == Configs \subseteq SourceConfig /\ None \notin Target

Alive == mainPc # "exit" /\ ~panicked

Init ==
    /\ StreamInit
    /\ NewSink
    /\ NewEngine
    /\ ctxDone = FALSE
    /\ printer = "draining"
    /\ mainPc = "run"
-----------------------------------------------------------------------------
(* The source, and the goroutine that prints its errors. *)
Stream ==
    /\ Produce(ctxDone)
    /\ UNCHANGED <<sinkVars, engineVars, runVars>>

(* Mutant of PrintError: errs is read only after the engine has returned. *)
PrintError_AfterEngine ==
    /\ printer = "draining" /\ mainPc = "errs"
    /\ TakeError
    /\ UNCHANGED <<sinkVars, engineVars, runVars>>

PrintError ==
    /\ printer = "draining"
    /\ TakeError
    /\ UNCHANGED <<sinkVars, engineVars, runVars>>

PrinterReturns ==
    /\ printer = "draining" /\ srcPc = "closed"
    /\ printer' = "done"
    /\ UNCHANGED <<streamVars, sinkVars, engineVars, ctxDone, mainPc>>
-----------------------------------------------------------------------------
(* One goroutine of Engine.Run. *)
Take(w) ==
    /\ TakeTarget /\ Receive(w, Offered)
    /\ UNCHANGED runVars

Proceed(w) ==
    /\ ProbeOne(w) \/ WorkerReturns(w, ctxDone \/ srcPc = "closed")
    /\ UNCHANGED <<streamVars, runVars>>

SendResult(w) ==
    /\ SendRecord(w, ctxDone)
    /\ UNCHANGED <<streamVars, runVars>>

Work(w) == Take(w) \/ Proceed(w) \/ SendResult(w)
-----------------------------------------------------------------------------
(* runSingleHost: eng.Run returns, wg.Wait returns, sink.Close. *)
EngineReturns ==
    /\ mainPc = "run" /\ PoolStopped
    /\ mainPc' = "errs"
    /\ UNCHANGED <<streamVars, sinkVars, engineVars, ctxDone, printer>>

ErrsPrinted ==
    /\ mainPc = "errs" /\ printer = "done"
    /\ mainPc' = "close"
    /\ UNCHANGED <<streamVars, sinkVars, engineVars, ctxDone, printer>>

CloseSink ==
    /\ mainPc = "close"
    /\ CloseChannel
    /\ mainPc' = "clean"
    /\ UNCHANGED <<streamVars, engineVars, ctxDone, printer>>

CleanOutputs ==
    /\ mainPc = "clean"
    /\ CleanOutput
    /\ mainPc' = (IF cleaned' = NumOutputs THEN "exit" ELSE "clean")
    /\ UNCHANGED <<streamVars, engineVars, ctxDone, printer>>

Main == EngineReturns \/ ErrsPrinted \/ CloseSink \/ CleanOutputs

SinkRun ==
    /\ run
    /\ UNCHANGED <<streamVars, engineVars, runVars>>

Cancel ==
    /\ ~ctxDone
    /\ ctxDone' = TRUE
    /\ UNCHANGED <<streamVars, sinkVars, engineVars, printer, mainPc>>

Terminated == ~Alive /\ UNCHANGED vars
-----------------------------------------------------------------------------
Step ==
    \/ Stream \/ PrintError \/ PrinterReturns
    \/ \E w \in Worker : Work(w)
    \/ Main \/ SinkRun \/ Cancel

(* Every goroutine dies with the process. *)
Next == (Alive /\ Step) \/ Terminated

(* Every goroutine that can run does.  A probe is taken to end: module     *)
(* Probe says when it does, and which peer can prevent it.  Senders        *)
(* blocked on a full channel are served in turn.                           *)
Fairness ==
    /\ WF_vars(Alive /\ Stream) /\ WF_vars(Alive /\ PrintError) /\ WF_vars(Alive /\ PrinterReturns)
    /\ WF_vars(Alive /\ \E w \in Worker : Take(w))
    /\ \A w \in Worker : WF_vars(Alive /\ Proceed(w)) /\ SF_vars(Alive /\ SendResult(w))
    /\ WF_vars(Alive /\ Main) /\ WF_vars(Alive /\ SinkRun)

Spec == Init /\ [][Next]_vars
FairSpec == Spec /\ Fairness
-----------------------------------------------------------------------------
TypeOK ==
    /\ StreamTypeOK
    /\ SinkTypeOK(Target)
    /\ EngineTypeOK(Target)
    /\ ctxDone \in BOOLEAN
    /\ printer \in {"draining", "done"}
    /\ mainPc \in {"run", "errs", "close", "clean", "exit"}

(* The channel is closed after the last Send: eng.Run returns only when    *)
(* every goroutine of the pool has, so no Send can panic.                  *)
NoSendOnClosed == ~panicked /\ (chClosed => \A w \in Worker : eng[w] # "send")

(* Each target is written once to each output, however often the sources   *)
(* name it and whichever goroutines probe it.                              *)
OneRecordEach ==
    \A o \in Outputs : \A i, j \in DOMAIN log[o] : log[o][i] = log[o][j] => i = j

(* A scan that was not cut short has written a record for every target its *)
(* entries name, to every output, bad entries notwithstanding.             *)
CompleteUnlessCancelled ==
    mainPc = "exit" /\ ~ctxDone =>
        \A o \in Outputs : {log[o][i] : i \in DOMAIN log[o]} = Names(config)

(* A scan that was cut short has a record for every target it emitted to   *)
(* the pool, except those a Send gave up on the context: the last address  *)
(* offered may have found no receiver.                                     *)
EmittedAccounted ==
    mainPc = "exit" =>
        \A t \in seen : \/ \A o \in Outputs : InLog(o, t)
                        \/ t \in dropped
                        \/ ctxDone /\ srcPc = "closed" /\ addr # -1 /\ t = Offered

(* The process ends, cancelled or not: neither channel of the source, nor  *)
(* the sink's, is left with a sender and no receiver.                      *)
Terminates == <>~Alive
=============================================================================
