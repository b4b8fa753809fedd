-------------------------------- MODULE Sink --------------------------------
(***************************************************************************)
(* The output sink (internal/output/sink.go): one bounded channel, one     *)
(* consumer goroutine that writes every record to every output in order,   *)
(* and a Close that waits for that goroutine before it cleans the outputs. *)
(*                                                                         *)
(* The module is a component: it declares the sink's state and the steps   *)
(* of its methods, and a program that owns a sink (Coordinator, ScanRun)   *)
(* extends it and says which goroutine takes which step.                   *)
(***************************************************************************)
EXTENDS Naturals, Sequences

CONSTANTS Capacity,     \* cap(s.ch): queueMax, or defaultQueueCapacity
          NumOutputs,   \* len(s.outs)
          None          \* no record, no target

ASSUME SinkAssumption == /\ Capacity \in Nat \ {0}
                         /\ NumOutputs \in Nat \ {0}

VARIABLES ch,        \* s.ch: the records buffered in the channel
          chClosed,  \* s.ch is closed
          writing,   \* the record run() is writing, or None
          nextOut,   \* the output run() writes it to next
          done,      \* s.done is closed: run() has returned
          log,       \* the Write calls each output has received, in order
          cleaned,   \* the number of outputs whose Clean has run
          panicked   \* a goroutine sent on the closed channel

sinkVars == <<ch, chClosed, writing, nextOut, done, log, cleaned, panicked>>

Outputs == 1..NumOutputs

SinkTypeOK(Record) ==
    /\ ch \in Seq(Record)
    /\ Len(ch) <= Capacity
    /\ chClosed \in BOOLEAN
    /\ writing \in Record \cup {None}
    /\ nextOut \in Outputs
    /\ done \in BOOLEAN
    /\ log \in [Outputs -> Seq(Record)]
    /\ cleaned \in 0..NumOutputs
    /\ panicked \in BOOLEAN

NewSink ==
    /\ ch = <<>>
    /\ chClosed = FALSE
    /\ writing = None
    /\ nextOut = 1
    /\ done = FALSE
    /\ log = [o \in Outputs |-> <<>>]
    /\ cleaned = 0
    /\ panicked = FALSE
-----------------------------------------------------------------------------
(***************************************************************************)
(* Send is a select between the channel and the caller's context.  The     *)
(* channel case is ready when there is room, and also when the channel is  *)
(* closed, in which case taking it panics; the runtime picks among the     *)
(* ready cases at random.                                                  *)
(***************************************************************************)
Enqueue(rec) ==
    /\ ~chClosed
    /\ Len(ch) < Capacity
    /\ ch' = Append(ch, rec)
    /\ UNCHANGED <<chClosed, writing, nextOut, done, log, cleaned, panicked>>

SendOnClosed ==
    /\ chClosed
    /\ panicked' = TRUE
    /\ UNCHANGED <<ch, chClosed, writing, nextOut, done, log, cleaned>>

(* Mutant of Abandon: a default case, which gives up a record on a full queue. *)
Abandon_Default(ctxDone) == UNCHANGED sinkVars

Abandon(ctxDone) == ctxDone /\ UNCHANGED sinkVars
-----------------------------------------------------------------------------
(* run(): receive a record, write it to each output in turn. *)
Dequeue ==
    /\ writing = None
    /\ ch # <<>>
    /\ writing' = Head(ch)
    /\ ch' = Tail(ch)
    /\ UNCHANGED <<chClosed, nextOut, done, log, cleaned, panicked>>

(* Mutant of Write: an output that fails to write ends the loop over outs. *)
Write_BreaksOnError ==
    /\ writing # None
    /\ log' = [log EXCEPT ![nextOut] = Append(@, writing)]
    /\ \/ writing' = None /\ nextOut' = 1
       \/ nextOut < NumOutputs /\ writing' = writing /\ nextOut' = nextOut + 1
    /\ UNCHANGED <<ch, chClosed, done, cleaned, panicked>>

(* An output's own error is ignored, so a Write is recorded when called. *)
Write ==
    /\ writing # None
    /\ log' = [log EXCEPT ![nextOut] = Append(@, writing)]
    /\ IF nextOut = NumOutputs
       THEN writing' = None /\ nextOut' = 1
       ELSE writing' = writing /\ nextOut' = nextOut + 1
    /\ UNCHANGED <<ch, chClosed, done, cleaned, panicked>>

(* Mutant of RunReturns: the loop ends as soon as the channel is closed. *)
RunReturns_WithoutDraining ==
    /\ chClosed
    /\ writing = None
    /\ ~done
    /\ done' = TRUE
    /\ UNCHANGED <<ch, chClosed, writing, nextOut, log, cleaned, panicked>>

(* The range loop ends when the channel is closed and empty. *)
RunReturns ==
    /\ chClosed
    /\ ch = <<>>
    /\ writing = None
    /\ ~done
    /\ done' = TRUE
    /\ UNCHANGED <<ch, chClosed, writing, nextOut, log, cleaned, panicked>>

run == Dequeue \/ Write \/ RunReturns
-----------------------------------------------------------------------------
(* Close(): close the channel, wait for run(), clean every output. *)
CloseChannel ==
    /\ ~chClosed
    /\ chClosed' = TRUE
    /\ UNCHANGED <<ch, writing, nextOut, done, log, cleaned, panicked>>

(* Mutant of CleanOutput: Close does not wait for run() to return. *)
CleanOutput_WithoutWaiting ==
    /\ cleaned < NumOutputs
    /\ cleaned' = cleaned + 1
    /\ UNCHANGED <<ch, chClosed, writing, nextOut, done, log, panicked>>

CleanOutput ==
    /\ done
    /\ cleaned < NumOutputs
    /\ cleaned' = cleaned + 1
    /\ UNCHANGED <<ch, chClosed, writing, nextOut, done, log, panicked>>
-----------------------------------------------------------------------------
InLog(o, rec) == \E i \in DOMAIN log[o] : log[o][i] = rec
InChannel(rec) == \E i \in DOMAIN ch : ch[i] = rec

(* The sink owns rec: it is buffered, being written, or written everywhere. *)
Accepted(rec) == InChannel(rec) \/ writing = rec \/ InLog(NumOutputs, rec)

(* Outputs see the same records in the same order: what an output has seen *)
(* is a prefix of what every earlier output has seen, and they differ by   *)
(* the one record being written at most (the order promise on type Sink).  *)
SameOrder ==
    \A o \in Outputs :
        /\ o < nextOut => log[o] = Append(log[NumOutputs], writing)
        /\ o >= nextOut => log[o] = log[NumOutputs]

(* Clean runs on an output only after every record the channel ever held   *)
(* has been written to it: no Write follows or overlaps a Clean.           *)
CleanAfterDrain == cleaned > 0 => chClosed /\ ch = <<>> /\ writing = None
=============================================================================
