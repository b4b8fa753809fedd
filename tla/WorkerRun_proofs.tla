-------------------------- MODULE WorkerRun_proofs --------------------------
(***************************************************************************)
(* Proofs about a worker process, for any shard, findings, number of       *)
(* goroutines and any capacity of the queue and of the stream: what goes   *)
(* over the wire prints alike, but for ports that are no int32 and bytes   *)
(* that are no UTF-8, no target is reported twice, a target stream that    *)
(* failed is shown, a worker that succeeds has had every result read, and  *)
(* the process implements Reporter.                                        *)
(***************************************************************************)
EXTENDS WorkerRun, Sink_proofs

(* What a probe may end with. *)
Result == [outcome : Outcome \cup {"other"}, value : Value]

(* The two maps of convert.go are inverses of one another. *)
LEMMA OutcomeRoundTrip ==
    ASSUME NEW o \in DOMAIN outcomeToProto
    PROVE  /\ outcomeToProto[o] \in DOMAIN outcomeFromProto
           /\ outcomeFromProto[outcomeToProto[o]] = o
<1>1. o \in {"ok", "up", "unknown"}
    BY DEF outcomeToProto
<1>2. CASE o = "ok"
    BY <1>2 DEF outcomeToProto, outcomeFromProto
<1>3. CASE o = "up"
    BY <1>3 DEF outcomeToProto, outcomeFromProto
<1>4. CASE o = "unknown"
    BY <1>4 DEF outcomeToProto, outcomeFromProto
<1> QED
    BY <1>1, <1>2, <1>3, <1>4

(* A value prints the same on the coordinator, but for bytes that are no   *)
(* UTF-8.                                                                  *)
LEMMA ValueRoundTrip ==
    ASSUME NEW v \in Value, v # "bytes"
    PROVE  Printed(RoundTrip(NormalizeValue(v))) = Printed(v)
BY DEF Value, Printed, RoundTrip, NormalizeValue

LEMMA ModRange ==
    ASSUME NEW x \in Int, NEW m \in Nat \ {0}
    PROVE  /\ x % m \in 0..(m - 1)
           /\ x \div m \in Int
           /\ x = m * (x \div m) + (x % m)
OBVIOUS

LEMMA ModSmall ==
    ASSUME NEW m \in Nat \ {0}, NEW x \in 0..(m - 1)
    PROVE  x % m = x
OBVIOUS

(* The conversion to an int32 keeps the port of one, and moves any other   *)
(* port by a multiple of 2^32 to where an int32 can hold it.               *)
LEMMA NarrowFits ==
    ASSUME NEW port \in Int
    PROVE  /\ Narrow(port) \in Int32
           /\ port \in Int32 => Narrow(port) = port
           /\ \E k \in Int : Narrow(port) = port - (2 * MaxInt32 + 2) * k
<1> DEFINE m == 2 * MaxInt32 + 2
           x == port + MaxInt32 + 1
           y == x % m
           k == x \div m
           z == m * k
<1>1. m \in Nat \ {0} /\ x \in Int /\ MaxInt32 \in Nat
    BY WireAssumption
<1>2. y \in 0..(m - 1) /\ k \in Int /\ z \in Int /\ x = z + y
    <2> HIDE DEF m, x
    <2> QED
        BY <1>1, ModRange
<1>3. Narrow(port) = y - MaxInt32 - 1
    BY DEF Narrow
<1>4. Narrow(port) \in Int32
    <2> HIDE DEF y
    <2> QED
        BY <1>1, <1>2, <1>3 DEF Int32
<1>5. ASSUME port \in Int32 PROVE Narrow(port) = port
    <2>1. x \in 0..(m - 1)
        BY <1>1, <1>5 DEF Int32
    <2>2. y = x
        <3> HIDE DEF m, x
        <3> QED
            BY <1>1, <2>1, ModSmall
    <2> HIDE DEF y
    <2> QED
        BY <1>1, <1>3, <2>2
<1>6. Narrow(port) = port - m * k
    <2>1. port + MaxInt32 + 1 = z + y
        BY <1>2
    <2>2. Narrow(port) = port - z
        <3> HIDE DEF y, z
        <3> QED
            BY <1>1, <1>2, <1>3, <2>1
    <2> QED
        BY <2>2
<1> HIDE DEF k
<1>7. k \in Int /\ Narrow(port) = port - (2 * MaxInt32 + 2) * k
    BY <1>2, <1>6
<1> QED
    BY <1>4, <1>5, <1>7

(* Every result that ToProtoResult accepts is one FromProtoResult accepts. *)
(* The record of a target that a worker was sent comes back with the same  *)
(* host and outcome, and with a value that prints the same (the comment of *)
(* FromProtoResult, "invisible to every current consumer") unless it was   *)
(* bytes that are no UTF-8.  Its port is the target's if that is an int32; *)
(* any other comes back as one that differs from it by a multiple of 2^32. *)
THEOREM WireKeepsResults ==
    ASSUME NEW host, NEW port \in Int, NEW result \in Result, Encodes(result)
    PROVE  LET t   == [host |-> host, port |-> port]
               pr  == ToProtoResult(FromProtoTarget(ToProtoTarget(t)), result)
               rec == FromProtoResult(pr)
           IN  /\ Decodes(pr)
               /\ PrintsAlike(rec, t, result)
               /\ rec.port \in Int32
               /\ \E k \in Int : rec.port = port - (2 * MaxInt32 + 2) * k
<1> DEFINE t   == [host |-> host, port |-> port]
           pr  == ToProtoResult(FromProtoTarget(ToProtoTarget(t)), result)
           rec == FromProtoResult(pr)
<1>1. result.outcome \in DOMAIN outcomeToProto /\ result.value \in Value
    BY DEF Encodes, Result
<1>2. FromProtoTarget(ToProtoTarget(t)) = [host |-> host, port |-> Narrow(port)]
    BY DEF FromProtoTarget, ToProtoTarget
<1>3. Narrow(Narrow(port)) = Narrow(port)
    <2>1. Narrow(port) \in Int32 /\ Narrow(port) \in Int
        BY NarrowFits, WireAssumption DEF Int32
    <2> QED
        BY <2>1, NarrowFits
<1>4. /\ pr.host = host /\ pr.port = Narrow(port)
      /\ pr.outcome = outcomeToProto[result.outcome]
      /\ pr.valueJson = NormalizeValue(result.value)
    BY <1>2, <1>3 DEF ToProtoResult
<1> HIDE DEF pr
<1>5. /\ rec.host = host /\ rec.port = Narrow(port)
      /\ rec.outcome = outcomeFromProto[outcomeToProto[result.outcome]]
      /\ rec.value = RoundTrip(NormalizeValue(result.value))
    BY <1>4 DEF FromProtoResult
<1>6. Decodes(pr)
    BY <1>1, <1>4, OutcomeRoundTrip DEF Decodes
<1> HIDE DEF rec
<1>7. rec.outcome = result.outcome
    BY <1>1, <1>5, OutcomeRoundTrip
<1>8. rec.port = port \/ port \notin Int32
    BY <1>5, NarrowFits
<1>9. \/ Printed(rec.value) = Printed(result.value)
      \/ result.value = "bytes" /\ rec.value = "replaced"
    <2>1. CASE result.value = "bytes"
        BY <1>5, <2>1 DEF RoundTrip, NormalizeValue
    <2>2. CASE result.value # "bytes"
        BY <1>1, <1>5, <2>2, ValueRoundTrip
    <2> QED
        BY <2>1, <2>2
<1>10. PrintsAlike(rec, t, result)
    BY <1>5, <1>7, <1>8, <1>9 DEF PrintsAlike
<1>11. rec.port \in Int32 /\ \E k \in Int : rec.port = port - (2 * MaxInt32 + 2) * k
    BY <1>5, NarrowFits
<1> QED
    BY <1>6, <1>10, <1>11 DEF rec, pr
-----------------------------------------------------------------------------
(* What a result is on the wire, and what the coordinator makes of it. *)
OnWire == {Encoded(t) : t \in Target \ Unencodable}
Read == {Decoded(entry) : entry \in OnWire}

Typed ==
    /\ SinkOver(Target)
    /\ eng \in [Worker -> {"select", "probe", "send", "stopped"}]
    /\ job \in [Worker -> Target \cup {None}]
    /\ \A w \in Worker : eng[w] \in {"probe", "send"} => job[w] \in Target
    /\ recvd \in 0..Len(Shard)
    /\ srcPc = "emit" => recvd > 0
    /\ wire \in Seq(OnWire) /\ received \in Seq(Read)

Given == {Shard[i] : i \in 1..recvd}

Busy(w) == eng[w] \in {"probe", "send"}

(* A target is on its way from the stream, with one goroutine, or in one   *)
(* place of the sink, and never in two of these.                           *)
OnePlace ==
    /\ HeldOnce
    /\ srcPc = "emit" => /\ ~Held(Shard[recvd])
                         /\ \A w \in Worker : Busy(w) => job[w] # Shard[recvd]
    /\ \A t : Held(t) => t \in Given
    /\ \A w \in Worker : Busy(w) => job[w] \in Given /\ ~Held(job[w])
    /\ \A v, w \in Worker : Busy(v) /\ Busy(w) /\ job[v] = job[w] => v = w

(* What is on the wire or has been read was written, once. *)
TargetsDiffer(s) == \A i, j \in DOMAIN s : s[i].of = s[j].of => i = j
SentOnce ==
    /\ TargetsDiffer(wire) /\ TargetsDiffer(received)
    /\ \A i \in DOMAIN wire, j \in DOMAIN received : wire[i].of # received[j].of
    /\ \A i \in DOMAIN wire : InLog(NumOutputs, wire[i].of)
    /\ \A i \in DOMAIN received : InLog(NumOutputs, received[i].of)

(* The printer returns when the error is printed, and main waits for it    *)
(* before it closes the result stream it has opened.                       *)
Shown ==
    /\ ending = "error" => errs \/ printed
    /\ printer = "done" => ~errs /\ srcPc = "closed"
    /\ mainPc = "getTargets" => printer = "none"
    /\ mainPc \in {"getTargets", "init"} => results = "none"
    /\ mainPc \in {"close", "clean", "ack"} => printer = "done"
    /\ mainPc = "exit" /\ results # "none" => printer = "done"

(* How far main is tells how far the others are: what it waited for is     *)
(* over, and the result stream is closed and acknowledged after that.      *)
Stages ==
    /\ mainPc = "getTargets" => srcPc = "none"
    /\ mainPc \in {"getTargets", "init"} /\ srcPc \in {"none", "recv"} => recvd = 0
    /\ mainPc \in {"errs", "close", "clean", "ack"} => PoolStopped
    /\ chClosed => mainPc \in {"clean", "ack", "exit"}
    /\ mainPc = "ack" => done
    /\ results \in {"sent", "acked"} => mainPc \in {"ack", "exit"}
    /\ results = "acked" => wire = <<>>
    /\ mainPc = "exit" /\ ~runErr => results = "acked"
    /\ ending = "eof" => recvd = Len(Shard)

(* Nothing is lost before it is written unless the context is done: a      *)
(* target that was received is still offered, with a goroutine or in the   *)
(* sink.                                                                   *)
Placed(t) ==
    \/ srcPc = "emit" /\ t = Shard[recvd]
    \/ \E w \in Worker : Busy(w) /\ job[w] = t
    \/ Held(t)
Kept == ctxDone \/ \A t \in Given : Placed(t)

(* Nor is it lost after, unless a stream may fail.                         *)
Arrived(t) == \E i \in DOMAIN received : received[i].of = t
OnStream(t) == Arrived(t) \/ \E i \in DOMAIN wire : wire[i].of = t
WrittenIsSent == \A t : InLog(NumOutputs, t) => Broken \/ t \in Unencodable \/ OnStream(t)

(* An acknowledgement tells that everything has been read.                 *)
Answered == results = "acked" /\ ~ctxDone => \A t \in Given \ Unencodable : Arrived(t)

(* The rest of TypeOK, which no other part needs. *)
Bounded ==
    /\ Len(ch) <= Capacity /\ cleaned \in 0..NumOutputs
    /\ chClosed \in BOOLEAN /\ done \in BOOLEAN /\ panicked \in BOOLEAN
    /\ dropped \in SUBSET Target
    /\ ctxDone \in BOOLEAN /\ conn \in {"up", "down"}
    /\ srcPc \in {"none", "recv", "emit", "fail", "closed"}
    /\ ending \in {"eof", "error", "cut", "none"} /\ errs \in BOOLEAN
    /\ printer \in {"none", "draining", "done"} /\ printed \in BOOLEAN
    /\ results \in {"none", "open", "sent", "acked", "reset"}
    /\ Len(wire) <= Window
    /\ \A i \in DOMAIN received : received[i].rec.outcome \in Outcome
    /\ mainPc \in {"getTargets", "init", "run", "errs", "close", "clean", "ack", "exit"}
    /\ runErr \in BOOLEAN
-----------------------------------------------------------------------------
LEMMA ShardFacts ==
    /\ Len(Shard) \in Nat
    /\ \A i \in 1..Len(Shard) : Shard[i] \in Target
    /\ \A i, j \in 1..Len(Shard) : Shard[i] = Shard[j] => i = j
    /\ None \notin Target
    /\ NumOutputs = 1 /\ Outputs = {1}
<1>1. Shard \in Seq(Target) /\ NumOutputs = 1 /\ None \notin Target
    BY WorkerRunAssumption
<1>2. DOMAIN Shard = 1..Len(Shard) /\ Len(Shard) \in Nat
    BY <1>1
<1> QED
    BY <1>1, <1>2, WorkerRunAssumption DEF Outputs

LEMMA WireTargets ==
    /\ \A t \in Target \ Unencodable : Encoded(t) \in OnWire
    /\ \A t : Encoded(t).of = t
    /\ \A entry \in OnWire : Decoded(entry) \in Read /\ entry.of \in Target \ Unencodable
    /\ \A entry : Decoded(entry).of = entry.of
BY DEF OnWire, Read, Encoded, Decoded

(* The coordinator can decode whatever is on the wire, and what it makes   *)
(* of it prints as what the probe found.                                   *)
LEMMA WireFaithful ==
    /\ \A entry \in OnWire : Decodes(entry.pr) /\ entry.pr.port \in Int32
    /\ \A r \in Read : PrintsAlike(r.rec, r.of, Finding[r.of]) /\ r.rec.outcome \in Outcome
<1>1. ASSUME NEW t \in Target \ Unencodable
      PROVE  /\ Decodes(Encoded(t).pr) /\ Encoded(t).pr.port \in Int32
             /\ Decoded(Encoded(t)).of = t
             /\ PrintsAlike(Decoded(Encoded(t)).rec, t, Finding[t])
             /\ Decoded(Encoded(t)).rec.outcome \in Outcome
    <2>1. Finding[t] \in Result /\ Encodes(Finding[t])
        BY WorkerRunAssumption DEF Unencodable, Result
    <2>2. Finding[t].outcome \in Outcome
        BY <2>1 DEF Encodes, outcomeToProto, Outcome
    <2>3. t.port \in Int /\ t = [host |-> t.host, port |-> t.port]
        BY WorkerRunAssumption
    <2> DEFINE pr  == ToProtoResult(FromProtoTarget(ToProtoTarget(t)), Finding[t])
               rec == FromProtoResult(pr)
    <2>4. Encoded(t) = [of |-> t, pr |-> pr] /\ Decoded(Encoded(t)) = [of |-> t, rec |-> rec]
        BY DEF Encoded, Decoded, AtWorker
    <2>5. Decodes(pr) /\ PrintsAlike(rec, t, Finding[t]) /\ rec.port \in Int32
        BY <2>1, <2>3, WireKeepsResults
    <2>6. pr.port = rec.port
        BY DEF FromProtoResult
    <2> HIDE DEF pr, rec
    <2> QED
        BY <2>2, <2>4, <2>5, <2>6 DEF PrintsAlike
<1> QED
    BY <1>1 DEF OnWire, Read

LEMMA AppendDiffers ==
    ASSUME NEW S, NEW s \in Seq(S), NEW x \in S, TargetsDiffer(s),
           \A k \in DOMAIN s : s[k].of # x.of
    PROVE  TargetsDiffer(Append(s, x))
<1>1. /\ DOMAIN s = 1..Len(s)
      /\ DOMAIN Append(s, x) = 1..(Len(s) + 1)
      /\ Len(s) \in Nat
      /\ \A k \in 1..Len(s) : Append(s, x)[k] = s[k]
      /\ Append(s, x)[Len(s) + 1] = x
    OBVIOUS
<1> SUFFICES ASSUME NEW i \in 1..(Len(s) + 1), NEW j \in 1..(Len(s) + 1),
                    Append(s, x)[i].of = Append(s, x)[j].of
             PROVE  i = j
    BY <1>1 DEF TargetsDiffer
<1>2. CASE i \in 1..Len(s) /\ j \in 1..Len(s)
    BY <1>1, <1>2 DEF TargetsDiffer
<1>3. CASE i = Len(s) + 1 \/ j = Len(s) + 1
    BY <1>1, <1>3
<1> QED
    BY <1>1, <1>2, <1>3

LEMMA TailDiffers ==
    ASSUME NEW S, NEW s \in Seq(S), s # <<>>, TargetsDiffer(s)
    PROVE  /\ TargetsDiffer(Tail(s))
           /\ \A k \in DOMAIN Tail(s) : Tail(s)[k].of # Head(s).of
<1>1. /\ DOMAIN s = 1..Len(s)
      /\ DOMAIN Tail(s) = 1..(Len(s) - 1)
      /\ Len(s) \in Nat \ {0}
      /\ \A k \in 1..(Len(s) - 1) : Tail(s)[k] = s[k + 1]
      /\ Head(s) = s[1]
    OBVIOUS
<1>2. \A k \in 1..(Len(s) - 1) : k + 1 \in 1..Len(s) /\ k + 1 # 1
    BY <1>1
<1>3. 1 \in 1..Len(s)
    BY <1>1
<1>4. ASSUME NEW i \in 1..(Len(s) - 1), NEW j \in 1..(Len(s) - 1),
             Tail(s)[i].of = Tail(s)[j].of
      PROVE  i = j
    <2>1. i + 1 = j + 1
        BY <1>1, <1>2, <1>4 DEF TargetsDiffer
    <2> QED
        BY <1>1, <2>1
<1>5. ASSUME NEW k \in 1..(Len(s) - 1)
      PROVE  Tail(s)[k].of # Head(s).of
    BY <1>1, <1>2, <1>3 DEF TargetsDiffer
<1> QED
    BY <1>1, <1>4, <1>5 DEF TargetsDiffer

LEMMA SentOnceSuffices == Typed /\ SentOnce => OneResultEach
<1> SUFFICES ASSUME Typed, SentOnce,
                    NEW i \in DOMAIN Sent, NEW j \in DOMAIN Sent,
                    Sent[i].of = Sent[j].of
             PROVE  i = j
    BY DEF OneResultEach
<1>1. /\ DOMAIN received = 1..Len(received) /\ Len(received) \in Nat
      /\ DOMAIN wire = 1..Len(wire) /\ Len(wire) \in Nat
      /\ DOMAIN Sent = 1..(Len(received) + Len(wire))
      /\ \A k \in 1..(Len(received) + Len(wire)) :
            Sent[k] = IF k <= Len(received) THEN received[k] ELSE wire[k - Len(received)]
    BY DEF Typed, Sent
<1>2. \A k \in 1..(Len(received) + Len(wire)) :
         IF k <= Len(received) THEN k \in DOMAIN received
                               ELSE k - Len(received) \in DOMAIN wire
    BY <1>1
<1>3. CASE i <= Len(received) /\ j <= Len(received)
    BY <1>1, <1>2, <1>3 DEF SentOnce, TargetsDiffer
<1>4. CASE ~(i <= Len(received)) /\ ~(j <= Len(received))
    <2>1. i - Len(received) = j - Len(received)
        BY <1>1, <1>2, <1>4 DEF SentOnce, TargetsDiffer
    <2> QED
        BY <1>1, <2>1
<1>5. CASE i <= Len(received) /\ ~(j <= Len(received))
    BY <1>1, <1>2, <1>5 DEF SentOnce
<1>6. CASE ~(i <= Len(received)) /\ j <= Len(received)
    BY <1>1, <1>2, <1>6 DEF SentOnce
<1> QED
    BY <1>3, <1>4, <1>5, <1>6
-----------------------------------------------------------------------------
(* A step takes a target from the stream, or moves one goroutine, the      *)
(* sink's consumer or the result stream, or does none of this.             *)
Aside ==
    /\ UNCHANGED <<eng, job, recvd, wire, received>>
    /\ srcPc' = "emit" => srcPc = "emit"
    /\ srcPc = "emit" => srcPc' = "emit" \/ ctxDone \/ mainPc = "getTargets"
    /\ CloseChannel \/ CleanOutput \/ SendOnClosed \/ UNCHANGED sinkVars

LEMMA StepKinds ==
    ASSUME [Next]_vars
    PROVE  \/ Alive /\ (RecvTarget \/ (\E w \in Worker : Work(w)) \/ SinkRun \/ CoordinatorReads)
           \/ Aside
<1> USE DEF sourceVars, printerVars, resultVars, mainVars, engineVars, Aside
<1>1. CASE RecvFails \/ Stream \/ PrintError \/ PrinterReturns
    BY <1>1 DEF RecvFails, Stream, RecvEOF, ReportFailure, GiveUp, StreamOnly, PrintError,
                PrinterReturns
<1>2. CASE GetTargets \/ OpenResults
    BY <1>2 DEF GetTargets, OpenResults
<1>3. CASE EngineReturns \/ ErrsPrinted \/ CloseSink \/ CloseSend \/ AwaitAck
    BY <1>3 DEF EngineReturns, ErrsPrinted, CloseSink, CloseSend, AwaitAck, MainGoes
<1>4. CASE CoordinatorAcks \/ StreamReset \/ Disconnect \/ Cancel
    BY <1>4 DEF CoordinatorAcks, StreamReset, Disconnect, Cancel
<1>5. CASE UNCHANGED vars
    BY <1>5 DEF vars
<1> HIDE DEF sourceVars, printerVars, resultVars, mainVars, engineVars, Aside
<1>6. (Alive /\ Step) \/ UNCHANGED vars
    BY DEF Next, Terminated
<1> QED
    BY <1>1, <1>2, <1>3, <1>4, <1>5, <1>6 DEF Step, Main

(* What one goroutine does to the pool and to the sink. *)
LEMMA WorkKinds ==
    ASSUME NEW w \in Worker, Work(w)
    PROVE  /\ UNCHANGED <<recvd, wire, received>>
           /\ UNCHANGED <<ctxDone, conn, ending, printer, results, mainPc, runErr>>
           /\ \/ /\ srcPc = "emit" /\ srcPc' = "recv" /\ UNCHANGED sinkVars
                 /\ eng[w] = "select" /\ eng' = [eng EXCEPT ![w] = "probe"]
                 /\ job' = [job EXCEPT ![w] = Shard[recvd]]
              \/ /\ UNCHANGED <<srcPc, job, sinkVars>>
                 /\ \/ eng[w] = "select" /\ eng' = [eng EXCEPT ![w] = "stopped"]
                    \/ eng[w] = "probe" /\ eng' = [eng EXCEPT ![w] = "send"]
              \/ /\ eng[w] = "send" /\ eng' = [eng EXCEPT ![w] = "select"]
                 /\ srcPc' = srcPc /\ job' = [job EXCEPT ![w] = None]
                 /\ Enqueue(job[w]) \/ SendOnClosed \/ (ctxDone /\ UNCHANGED sinkVars)
<1> USE DEF EngineOnly, resultVars, printerVars, mainVars
<1>1. CASE Take(w)
    BY <1>1 DEF Take, Receive
<1>2. CASE Proceed(w)
    BY <1>2 DEF Proceed, ProbeOne, WorkerReturns
<1>3. CASE SendResult(w)
    BY <1>3 DEF SendResult, SendRecord, Abandon
<1> QED
    BY <1>1, <1>2, <1>3 DEF Work

(* The consumer's step is one of run(), and may put a result on the wire.  *)
LEMMA SinkRunKinds ==
    ASSUME Typed, SinkRun
    PROVE  /\ run /\ UNCHANGED <<eng, job, recvd, srcPc, received>>
           /\ UNCHANGED <<ctxDone, conn, ending, printer, results, mainPc, runErr>>
           /\ \/ wire' = wire /\ (Write => writing \in Unencodable \/ Broken)
              \/ /\ Write /\ writing \in Target \ Unencodable
                 /\ results = "open" /\ conn = "up" /\ Len(wire) < Window
                 /\ wire' = Append(wire, Encoded(writing))
<1>1. /\ WriteResult \/ ((Dequeue \/ RunReturns) /\ UNCHANGED wire)
      /\ UNCHANGED <<eng, job, recvd, srcPc, received>>
      /\ UNCHANGED <<ctxDone, conn, ending, printer, results, mainPc, runErr>>
    BY DEF SinkRun, sourceVars, printerVars, mainVars, engineVars
<1>2. CASE WriteResult
    <2>1. Write /\ writing \in Target
        BY <1>2 DEF WriteResult, Write, Typed, SinkOver
    <2>2. Encodes(Finding[writing]) <=> writing \notin Unencodable
        BY <2>1 DEF Unencodable
    <2> QED
        BY <1>1, <1>2, <2>1, <2>2 DEF WriteResult, SendOnStream, run
<1>3. CASE (Dequeue \/ RunReturns) /\ UNCHANGED wire
    <2>1. ~Write
        BY <1>3 DEF Dequeue, RunReturns, Write
    <2> QED
        BY <1>1, <1>3, <2>1 DEF run
<1> QED
    BY <1>1, <1>2, <1>3 DEF run

(* A result that is read leaves the wire. *)
LEMMA ReadsHead ==
    ASSUME Typed, CoordinatorReads
    PROVE  /\ UNCHANGED <<sinkVars, eng, job, recvd, srcPc>>
           /\ wire # <<>> /\ wire' = Tail(wire)
           /\ received' = Append(received, Decoded(Head(wire)))
           /\ UNCHANGED <<ctxDone, conn, ending, printer, results, mainPc, runErr>>
<1>1. wire \in Seq(OnWire) /\ wire # <<>>
    BY DEF Typed, CoordinatorReads
<1>2. Decodes(Head(wire).pr)
    BY <1>1, TailContents, WireFaithful
<1> QED
    BY <1>1, <1>2 DEF CoordinatorReads, sourceVars, printerVars, mainVars, engineVars
-----------------------------------------------------------------------------
LEMMA TypedStep == Typed /\ HeldOnce /\ [Next]_vars => Typed'
<1> SUFFICES ASSUME Typed, HeldOnce, [Next]_vars PROVE Typed'
    OBVIOUS
<1>1. SinkOver(Target)
    BY DEF Typed
<1>2. ASSUME \/ CloseChannel \/ CleanOutput \/ SendOnClosed \/ UNCHANGED sinkVars
      PROVE  SinkOver(Target)'
    BY <1>1, <1>2, OthersHold
<1>3. CASE RecvTarget
    <2>1. /\ recvd < Len(Shard) /\ recvd' = recvd + 1 /\ srcPc' = "emit"
          /\ UNCHANGED <<eng, job, sinkVars, wire, received>>
        BY <1>3 DEF RecvTarget, StreamOnly, engineVars, resultVars
    <2> QED
        BY <1>2, <2>1, ShardFacts DEF Typed
<1>4. ASSUME NEW w \in Worker, Work(w) PROVE Typed'
    <2>1. SinkOver(Target)'
        <3>1. ASSUME Enqueue(job[w]), eng[w] = "send" PROVE SinkOver(Target)'
            <4>1. job[w] \in Target
                BY <3>1 DEF Typed
            <4>2. ch' \in Seq(Target) /\ UNCHANGED <<nextOut, log, writing>>
                BY <1>1, <3>1, <4>1, EnqueueHolds
            <4> QED
                BY <1>1, <4>2 DEF SinkOver
        <3> QED
            BY <1>2, <1>4, <3>1, WorkKinds
    <2>2. srcPc = "emit" => Shard[recvd] \in Target
        BY ShardFacts DEF Typed
    <2> QED
        BY <1>4, <2>1, <2>2, WorkKinds DEF Typed
<1>5. CASE SinkRun
    <2>1. SinkOver(Target)' /\ UNCHANGED <<eng, job, recvd, srcPc, received>>
        BY <1>1, <1>5, SinkRunKinds, RunHolds
    <2>2. wire \in Seq(OnWire)
        BY DEF Typed
    <2>3. CASE Write /\ writing \in Target \ Unencodable
               /\ wire' = Append(wire, Encoded(writing))
        <3>1. Encoded(writing) \in OnWire
            BY <2>3, WireTargets
        <3> QED
            BY <2>1, <2>2, <2>3, <3>1, AppendContents DEF Typed
    <2>4. CASE wire' = wire
        BY <2>1, <2>4 DEF Typed
    <2> QED
        BY <1>5, <2>3, <2>4, SinkRunKinds
<1>6. CASE CoordinatorReads
    <2>1. /\ UNCHANGED <<sinkVars, eng, job, recvd, srcPc>>
          /\ wire # <<>> /\ wire' = Tail(wire) /\ wire \in Seq(OnWire) /\ received \in Seq(Read)
          /\ received' = Append(received, Decoded(Head(wire)))
        BY <1>6, ReadsHead DEF Typed
    <2>2. wire' \in Seq(OnWire) /\ Decoded(Head(wire)) \in Read
        BY <2>1, WireTargets, TailContents
    <2>3. received' \in Seq(Read)
        BY <2>1, <2>2, AppendContents
    <2> QED
        BY <1>2, <2>1, <2>2, <2>3 DEF Typed
<1>7. CASE Aside
    BY <1>2, <1>7 DEF Aside, Typed
<1> QED
    BY <1>3, <1>4, <1>5, <1>6, <1>7, StepKinds
-----------------------------------------------------------------------------
LEMMA OnePlaceStep == Typed /\ OnePlace /\ [Next]_vars => OnePlace'
<1> SUFFICES ASSUME Typed, OnePlace, [Next]_vars PROVE OnePlace'
    OBVIOUS
<1>1. SinkOver(Target) /\ recvd \in 0..Len(Shard) /\ None \notin Target
    BY ShardFacts DEF Typed
<1>2. /\ eng \in [Worker -> {"select", "probe", "send", "stopped"}]
      /\ job \in [Worker -> Target \cup {None}]
    BY DEF Typed
<1>3. ASSUME CloseChannel \/ CleanOutput \/ SendOnClosed \/ UNCHANGED sinkVars
      PROVE  HeldOnce' /\ \A t : Held(t)' <=> Held(t)
    BY <1>1, <1>3, OthersHold DEF OnePlace
<1>4. CASE RecvTarget
    <2>1. /\ recvd < Len(Shard) /\ recvd' = recvd + 1 /\ UNCHANGED <<sinkVars, eng, job>>
        BY <1>4 DEF RecvTarget, StreamOnly, engineVars
    <2>2. Shard[recvd'] \notin Given
        <3>1. recvd + 1 \in 1..Len(Shard) /\ \A i \in 1..recvd : i \in 1..Len(Shard) /\ i # recvd + 1
            BY <1>1, <2>1, ShardFacts
        <3> QED
            BY <2>1, <3>1, ShardFacts DEF Given
    <2>3. \A t \in Given : t \in Given'
        <3>1. \A i \in 1..recvd : i \in 1..(recvd + 1)
            BY <1>1, ShardFacts
        <3> QED
            BY <2>1, <3>1 DEF Given
    <2>4. HeldOnce' /\ \A t : Held(t)' <=> Held(t)
        BY <1>3, <2>1
    <2> QED
        BY <2>1, <2>2, <2>3, <2>4 DEF OnePlace, Busy
<1>5. ASSUME NEW w \in Worker, Work(w) PROVE OnePlace'
    <2>1. recvd' = recvd /\ Given' = Given
        BY <1>5, WorkKinds DEF Given
    <2>2. srcPc = "emit" => Shard[recvd] \in Given
        <3>1. srcPc = "emit" => recvd \in 1..recvd
            BY <1>1, ShardFacts DEF Typed
        <3> QED
            BY <3>1 DEF Given
    <2>3. CASE /\ srcPc = "emit" /\ srcPc' = "recv" /\ UNCHANGED sinkVars
               /\ eng[w] = "select" /\ eng' = [eng EXCEPT ![w] = "probe"]
               /\ job' = [job EXCEPT ![w] = Shard[recvd]]
        <3>1. HeldOnce' /\ \A t : Held(t)' <=> Held(t)
            BY <1>3, <2>3
        <3>2. \A v \in Worker : /\ Busy(v)' <=> Busy(v) \/ v = w
                                /\ job'[v] = IF v = w THEN Shard[recvd] ELSE job[v]
            BY <1>2, <2>3 DEF Busy
        <3> QED
            BY <2>1, <2>2, <2>3, <3>1, <3>2 DEF OnePlace
    <2>4. CASE /\ UNCHANGED <<srcPc, job, sinkVars>>
               /\ \/ eng[w] = "select" /\ eng' = [eng EXCEPT ![w] = "stopped"]
                  \/ eng[w] = "probe" /\ eng' = [eng EXCEPT ![w] = "send"]
        <3>1. HeldOnce' /\ \A t : Held(t)' <=> Held(t)
            BY <1>3, <2>4
        <3>2. \A v \in Worker : Busy(v)' => Busy(v)
            BY <1>2, <2>4 DEF Busy
        <3> QED
            BY <2>1, <2>4, <3>1, <3>2 DEF OnePlace
    <2>5. CASE /\ eng[w] = "send" /\ eng' = [eng EXCEPT ![w] = "select"]
               /\ srcPc' = srcPc /\ job' = [job EXCEPT ![w] = None]
               /\ Enqueue(job[w]) \/ SendOnClosed \/ UNCHANGED sinkVars
        <3>1. \A v \in Worker : /\ Busy(v)' <=> Busy(v) /\ v # w
                                /\ v # w => job'[v] = job[v]
            BY <1>2, <2>5 DEF Busy
        <3>2. job[w] \in Target /\ job[w] \in Given /\ ~Held(job[w]) /\ Busy(w)
            BY <2>5 DEF OnePlace, Busy, Typed
        <3>3. HeldOnce' /\ \A t : Held(t)' => t = job[w] \/ Held(t)
            <4>1. CASE Enqueue(job[w])
                BY <1>1, <3>2, <4>1, EnqueueHolds, EnqueueHeldOnce DEF OnePlace
            <4>2. CASE SendOnClosed \/ UNCHANGED sinkVars
                BY <1>3, <4>2
            <4> QED
                BY <2>5, <4>1, <4>2
        <3>4. srcPc' = "emit" => /\ ~(Held(Shard[recvd])')
                                 /\ \A v \in Worker : Busy(v)' => job'[v] # Shard[recvd]
            <4>1. srcPc' = "emit" => Shard[recvd] # job[w] /\ ~Held(Shard[recvd])
                BY <2>5, <3>2 DEF OnePlace
            <4>2. ASSUME srcPc' = "emit", NEW v \in Worker, Busy(v)'
                  PROVE  job'[v] # Shard[recvd]
                BY <2>5, <3>1, <4>2 DEF OnePlace
            <4> QED
                BY <2>1, <3>3, <4>1, <4>2
        <3>5. \A t : Held(t)' => t \in Given'
            BY <2>1, <3>2, <3>3 DEF OnePlace
        <3>6. ASSUME NEW v \in Worker, Busy(v)'
              PROVE  job'[v] \in Given' /\ ~(Held(job[v])')
            <4>1. Busy(v) /\ v # w /\ job'[v] = job[v]
                BY <3>1, <3>6 DEF Busy
            <4>2. job[v] \in Given /\ ~Held(job[v]) /\ job[v] # job[w]
                BY <3>2, <4>1 DEF OnePlace
            <4> QED
                BY <2>1, <3>3, <4>1, <4>2
        <3>7. \A u, v \in Worker : Busy(u)' /\ Busy(v)' /\ job'[u] = job'[v] => u = v
            BY <3>1 DEF OnePlace
        <3> QED
            BY <2>1, <3>1, <3>3, <3>4, <3>5, <3>6, <3>7 DEF OnePlace
    <2> QED
        BY <1>5, <2>3, <2>4, <2>5, WorkKinds
<1>6. CASE SinkRun
    <2>1. run /\ UNCHANGED <<eng, job, recvd, srcPc>>
        BY <1>6, SinkRunKinds
    <2>2. HeldOnce' /\ \A t : Held(t)' => Held(t)
        BY <1>1, <2>1, RunHolds DEF OnePlace
    <2> QED
        BY <2>1, <2>2 DEF OnePlace, Busy, Given
<1>7. CASE Aside \/ CoordinatorReads
    <2>1. /\ UNCHANGED <<eng, job, recvd>> /\ (srcPc' = "emit" => srcPc = "emit")
          /\ CloseChannel \/ CleanOutput \/ SendOnClosed \/ UNCHANGED sinkVars
        BY <1>7, ReadsHead DEF Aside
    <2>2. HeldOnce' /\ \A t : Held(t)' <=> Held(t)
        BY <1>3, <2>1
    <2> QED
        BY <2>1, <2>2 DEF OnePlace, Busy, Given
<1> QED
    BY <1>4, <1>5, <1>6, <1>7, StepKinds
-----------------------------------------------------------------------------
(* The one output has what it had and the record in hand, which it had not. *)
LEMMA WriteLogs ==
    ASSUME Typed, HeldOnce, Write
    PROVE  /\ writing \in Target /\ ~InLog(NumOutputs, writing)
           /\ \A t : InLog(NumOutputs, t)' <=> t = writing \/ InLog(NumOutputs, t)
<1>1. writing \in Target /\ writing # None /\ nextOut = NumOutputs
    BY ShardFacts DEF Typed, SinkOver, Write
<1> QED
    BY <1>1, WriteAppends DEF Typed, HeldOnce

(* A record that was written stays written. *)
LEMMA LogGrows ==
    ASSUME Typed, HeldOnce, [Next]_vars, NEW t, InLog(NumOutputs, t)
    PROVE  InLog(NumOutputs, t)'
<1>1. ASSUME log' = log PROVE InLog(NumOutputs, t)'
    BY <1>1 DEF InLog
<1>2. CASE RecvTarget
    BY <1>1, <1>2 DEF RecvTarget, StreamOnly, sinkVars
<1>3. ASSUME NEW w \in Worker, Work(w) PROVE log' = log
    BY <1>3, WorkKinds DEF Enqueue, SendOnClosed, sinkVars
<1>4. CASE SinkRun
    <2>1. run
        BY <1>4, SinkRunKinds
    <2>2. CASE Dequeue \/ RunReturns
        BY <1>1, <2>2 DEF Dequeue, RunReturns
    <2>3. CASE Write
        BY <2>3, WriteLogs
    <2> QED
        BY <2>1, <2>2, <2>3 DEF run
<1>5. CASE CoordinatorReads
    BY <1>1, <1>5, ReadsHead DEF sinkVars
<1>6. CASE Aside
    BY <1>1, <1>6 DEF Aside, CloseChannel, CleanOutput, SendOnClosed, sinkVars
<1> QED
    BY <1>1, <1>2, <1>3, <1>4, <1>5, <1>6, StepKinds

LEMMA SentOnceStep == Typed /\ HeldOnce /\ SentOnce /\ [Next]_vars => SentOnce'
<1> SUFFICES ASSUME Typed, HeldOnce, SentOnce, [Next]_vars PROVE SentOnce'
    OBVIOUS
<1> DEFINE Written(t) == InLog(NumOutputs, t)
<1>1. wire \in Seq(OnWire) /\ received \in Seq(Read)
    BY DEF Typed
<1>2. \A t : Written(t) => Written(t)'
    BY LogGrows
<1>3. /\ TargetsDiffer(wire) /\ TargetsDiffer(received)
      /\ \A i \in DOMAIN wire, j \in DOMAIN received : wire[i].of # received[j].of
      /\ \A i \in DOMAIN wire : Written(wire[i].of)
      /\ \A i \in DOMAIN received : Written(received[i].of)
    BY DEF SentOnce
<1>4. ASSUME /\ TargetsDiffer(wire') /\ TargetsDiffer(received')
             /\ \A i \in DOMAIN wire', j \in DOMAIN received' :
                   wire'[i].of # received'[j].of
             /\ \A i \in DOMAIN wire' : \E t : t = wire'[i].of /\ Written(t)'
             /\ \A i \in DOMAIN received' : \E t : t = received'[i].of /\ Written(t)'
      PROVE  SentOnce'
    BY <1>4 DEF SentOnce, TargetsDiffer, InLog
<1>5. ASSUME UNCHANGED <<wire, received>> PROVE SentOnce'
    BY <1>2, <1>3, <1>5 DEF SentOnce, TargetsDiffer, InLog
<1> HIDE DEF Written
<1>6. CASE SinkRun
    <2> DEFINE pr == Encoded(writing)
    <2>1. CASE Write /\ writing \in Target \ Unencodable /\ wire' = Append(wire, pr)
        <3>1. /\ pr \in OnWire /\ pr.of = writing /\ received' = received
              /\ ~Written(writing) /\ \A t : t = writing => Written(t)'
            BY <1>6, <2>1, WireTargets, SinkRunKinds, WriteLogs DEF Written
        <3> HIDE DEF pr
        <3>2. \A k \in DOMAIN wire : wire[k].of # pr.of
            BY <1>3, <3>1
        <3>3. \A k \in DOMAIN received : received[k].of # pr.of
            BY <1>3, <3>1
        <3>4. TargetsDiffer(Append(wire, pr))
            BY <1>1, <1>3, <3>1, <3>2, AppendDiffers
        <3>5. \A y : (\E k \in DOMAIN Append(wire, pr) : Append(wire, pr)[k] = y)
                        <=> y = pr \/ \E k \in DOMAIN wire : wire[k] = y
            BY <1>1, <3>1, AppendContents
        <3>6. \A i \in DOMAIN wire' : wire'[i] = pr \/ \E k \in DOMAIN wire : wire[k] = wire'[i]
            BY <2>1, <3>5
        <3>7. /\ \A i \in DOMAIN wire', j \in DOMAIN received' :
                     wire'[i].of # received'[j].of
              /\ \A i \in DOMAIN wire' : \E t : t = wire'[i].of /\ Written(t)'
            BY <1>2, <1>3, <3>1, <3>3, <3>6
        <3> QED
            BY <1>2, <1>3, <1>4, <2>1, <3>1, <3>4, <3>7
    <2> QED
        BY <1>5, <1>6, <2>1, SinkRunKinds
<1>7. CASE CoordinatorReads
    <2> DEFINE head == Head(wire)
               rec == Decoded(head)
    <2>1. /\ wire # <<>> /\ wire' = Tail(wire)
          /\ received' = Append(received, rec)
        BY <1>7, ReadsHead
    <2>2. /\ head \in OnWire
          /\ \A y : (\E k \in DOMAIN wire : wire[k] = y)
                      <=> y = head \/ \E k \in DOMAIN Tail(wire) : Tail(wire)[k] = y
        BY <1>1, <2>1, TailContents
    <2>3. TargetsDiffer(Tail(wire)) /\ \A k \in DOMAIN Tail(wire) : Tail(wire)[k].of # head.of
        BY <1>1, <1>3, <2>1, TailDiffers
    <2>4. rec \in Read /\ rec.of = head.of
        BY <2>2, WireTargets
    <2> HIDE DEF head, rec
    <2>5. /\ \A k \in DOMAIN wire' : \E l \in DOMAIN wire : wire[l] = wire'[k]
          /\ \E l \in DOMAIN wire : wire[l] = head
        BY <2>1, <2>2
    <2>6. /\ TargetsDiffer(received')
          /\ \A j \in DOMAIN received' :
                received'[j] = rec \/ \E l \in DOMAIN received : received[l] = received'[j]
        <3>1. \A l \in DOMAIN received : received[l].of # rec.of
            BY <1>3, <2>4, <2>5
        <3>2. TargetsDiffer(Append(received, rec))
            BY <1>1, <1>3, <2>4, <3>1, AppendDiffers
        <3>3. \A y : (\E k \in DOMAIN Append(received, rec) : Append(received, rec)[k] = y)
                        <=> y = rec \/ \E k \in DOMAIN received : received[k] = y
            BY <1>1, <2>4, AppendContents
        <3> QED
            BY <2>1, <3>2, <3>3
    <2>7. \A k \in DOMAIN wire', j \in DOMAIN received' : wire'[k].of # received'[j].of
        <3>1. \A k \in DOMAIN wire' : wire'[k].of # rec.of
            BY <2>1, <2>3, <2>4
        <3>2. \A k \in DOMAIN wire', l \in DOMAIN received : wire'[k].of # received[l].of
            BY <1>3, <2>5
        <3> QED
            BY <2>6, <3>1, <3>2
    <2>8. \A k \in DOMAIN wire' : \E t : t = wire'[k].of /\ Written(t)'
        BY <1>2, <1>3, <2>5
    <2>9. \A j \in DOMAIN received' : \E t : t = received'[j].of /\ Written(t)'
        <3>1. Written(head.of)
            BY <1>3, <2>5
        <3>2. \E t : t = rec.of /\ Written(t)'
            BY <1>2, <2>4, <3>1
        <3>3. \A l \in DOMAIN received : \E t : t = received[l].of /\ Written(t)'
            BY <1>2, <1>3
        <3> QED
            BY <2>6, <3>2, <3>3
    <2> QED
        BY <1>4, <2>1, <2>3, <2>6, <2>7, <2>8, <2>9
<1>8. CASE RecvTarget
    BY <1>5, <1>8 DEF RecvTarget, StreamOnly, resultVars
<1>9. CASE Aside \/ \E w \in Worker : Work(w)
    BY <1>5, <1>9, WorkKinds DEF Aside
<1> QED
    BY <1>6, <1>7, <1>8, <1>9, StepKinds

LEMMA ShownStep == Shown /\ [Next]_vars => Shown'
<1> SUFFICES ASSUME Shown, [Next]_vars PROVE Shown'
    OBVIOUS
<1> USE DEF Shown, sourceVars, printerVars, resultVars, mainVars
<1>1. CASE RecvTarget \/ RecvFails \/ Stream
    BY <1>1 DEF RecvTarget, RecvFails, Stream, RecvEOF, ReportFailure, GiveUp, StreamOnly
<1>2. CASE PrintError \/ PrinterReturns
    BY <1>2 DEF PrintError, PrinterReturns
<1>3. ASSUME NEW w \in Worker, Work(w) PROVE Shown'
    <2>1. /\ UNCHANGED <<ending, errs, printer, printed, results, mainPc>>
          /\ srcPc = "closed" => srcPc' = "closed"
        BY <1>3 DEF Work, Take, Proceed, SendResult, EngineOnly
    <2> QED
        BY <2>1
<1>4. CASE SinkRun
    BY <1>4 DEF SinkRun
<1>5. CASE (GetTargets \/ OpenResults) /\ Alive
    BY <1>5 DEF GetTargets, OpenResults, Fail
<1>6. CASE (EngineReturns \/ ErrsPrinted \/ CloseSink) /\ Alive
    BY <1>6 DEF EngineReturns, ErrsPrinted, ErrsDrained, CloseSink, MainGoes
<1>7. CASE (CloseSend \/ AwaitAck) /\ Alive
    BY <1>7 DEF CloseSend, AwaitAck, MainGoes
<1>8. CASE CoordinatorReads \/ CoordinatorAcks \/ StreamReset
    BY <1>8 DEF CoordinatorReads, CoordinatorAcks, StreamReset
<1>9. CASE Disconnect \/ Cancel \/ UNCHANGED vars
    BY <1>9 DEF Disconnect, Cancel, vars
<1> QED
    BY <1>1, <1>2, <1>3, <1>4, <1>5, <1>6, <1>7, <1>8, <1>9 DEF Next, Step, Main, Terminated

LEMMA StagesStep == Typed /\ Stages /\ [Next]_vars => Stages'
<1> SUFFICES ASSUME Typed, Stages, [Next]_vars PROVE Stages'
    OBVIOUS
<1> USE DEF Stages, PoolStopped
<1>1. CASE RecvTarget \/ RecvFails \/ Stream
    <2>1. /\ UNCHANGED <<mainPc, eng, chClosed, done, results, wire, runErr>>
          /\ ending' = "eof" => recvd' = Len(Shard)
          /\ srcPc # "none" /\ srcPc' \notin {"none", "recv"}
        BY <1>1 DEF RecvTarget, RecvFails, Stream, RecvEOF, ReportFailure, GiveUp, StreamOnly,
                    resultVars, mainVars, sinkVars, engineVars
    <2> QED
        BY <2>1
<1>2. CASE PrintError \/ PrinterReturns \/ Disconnect \/ Cancel \/ UNCHANGED vars
    <2>1. UNCHANGED <<mainPc, eng, chClosed, done, results, wire, runErr, ending, recvd, srcPc>>
        BY <1>2 DEF PrintError, PrinterReturns, Disconnect, Cancel, vars, sourceVars, resultVars,
                    mainVars, sinkVars, engineVars
    <2> QED
        BY <2>1
<1>3. ASSUME NEW w \in Worker, Work(w) PROVE Stages'
    <2>1. /\ UNCHANGED <<mainPc, results, wire, runErr, ending, recvd>>
          /\ srcPc' # srcPc => srcPc = "emit" /\ mainPc = "run"
        BY <1>3, WorkKinds DEF Work, Take, Proceed, SendResult
    <2>2. UNCHANGED <<chClosed, done>>
        BY <1>3, WorkKinds DEF Enqueue, SendOnClosed, sinkVars
    <2>3. ~PoolStopped
        BY <1>3, WorkKinds
    <2> QED
        BY <2>1, <2>2, <2>3
<1>4. CASE SinkRun
    <2>1. /\ UNCHANGED <<mainPc, eng, results, runErr, ending, recvd, srcPc>>
          /\ wire' # wire => results = "open"
        BY <1>4, SinkRunKinds
    <2>2. chClosed' = chClosed /\ (done => done')
        BY <1>4, SinkRunKinds DEF run, Dequeue, Write, RunReturns
    <2> QED
        BY <2>1, <2>2
<1>5. CASE CoordinatorReads
    <2>1. /\ UNCHANGED <<mainPc, eng, results, runErr, ending, recvd, srcPc, chClosed, done>>
          /\ wire # <<>>
        BY <1>5, ReadsHead DEF sinkVars
    <2> QED
        BY <2>1
<1>6. CASE GetTargets \/ OpenResults
    <2>1. /\ UNCHANGED <<chClosed, done, wire, ending, recvd>>
          /\ mainPc \in {"getTargets", "init"} /\ mainPc' \in {"init", "run", "exit"}
          /\ srcPc' = "recv" => srcPc = "recv" \/ mainPc = "getTargets"
          /\ srcPc' = "none" => srcPc = "none"
          /\ mainPc' = "exit" => runErr'
          /\ results' \in {results, "open"}
        BY <1>6 DEF GetTargets, OpenResults, Fail, sourceVars, resultVars, sinkVars
    <2> QED
        BY <2>1
<1>7. CASE EngineReturns \/ ErrsPrinted
    <2>1. /\ UNCHANGED <<eng, chClosed, done, results, wire, ending, recvd, srcPc>>
          /\ \/ mainPc = "run" /\ mainPc' = "errs" /\ PoolStopped
             \/ mainPc = "errs" /\ mainPc' = "close"
        BY <1>7 DEF EngineReturns, ErrsPrinted, MainGoes, sourceVars, sinkVars, engineVars
    <2> QED
        BY <2>1
<1>8. CASE CloseSink
    <2>1. /\ UNCHANGED <<eng, done, results, wire, ending, recvd, srcPc>>
          /\ mainPc = "close" /\ mainPc' = "clean"
        BY <1>8 DEF CloseSink, CloseChannel, MainGoes, sourceVars, engineVars
    <2> QED
        BY <2>1
<1>9. CASE CloseSend
    <2>1. /\ UNCHANGED <<eng, chClosed, done, wire, ending, recvd, srcPc>>
          /\ mainPc = "clean" /\ mainPc' = "ack" /\ done
          /\ results' = "acked" => results = "acked"
        BY <1>9 DEF CloseSend, SinkDrained, MainGoes, sourceVars, sinkVars, engineVars
    <2> QED
        BY <2>1
<1>10. CASE AwaitAck
    <2>1. /\ UNCHANGED <<eng, chClosed, done, results, wire, ending, recvd, srcPc>>
          /\ mainPc = "ack" /\ mainPc' = "exit"
          /\ ~runErr' => results = "acked"
        BY <1>10 DEF AwaitAck, CloseAndRecv, CleanOutput, MainGoes, sourceVars, engineVars
    <2> QED
        BY <2>1
<1>11. CASE (CoordinatorAcks \/ StreamReset) /\ Alive
    <2>1. /\ UNCHANGED <<mainPc, eng, chClosed, done, wire, runErr, ending, recvd, srcPc>>
          /\ mainPc # "exit"
          /\ \/ results = "sent" /\ wire = <<>> /\ results' = "acked"
             \/ results' = "reset"
        BY <1>11 DEF CoordinatorAcks, StreamReset, Alive, sourceVars, mainVars, sinkVars, engineVars
    <2> QED
        BY <2>1
<1> QED
    BY <1>1, <1>2, <1>3, <1>4, <1>5, <1>6, <1>7, <1>8, <1>9, <1>10, <1>11
       DEF Next, Step, Main, Terminated

(* The context stays done, and a connection that broke is not made again.  *)
LEMMA BrokenStays ==
    ASSUME [Next]_vars
    PROVE  (ctxDone => ctxDone') /\ (Broken => Broken')
<1> USE DEF Broken
<1>1. CASE RecvTarget \/ RecvFails \/ Stream
    BY <1>1 DEF RecvTarget, RecvFails, Stream, RecvEOF, ReportFailure, GiveUp, StreamOnly
<1>2. CASE PrintError \/ PrinterReturns \/ SinkRun \/ UNCHANGED vars
    BY <1>2 DEF PrintError, PrinterReturns, SinkRun, vars
<1>3. ASSUME NEW w \in Worker, Work(w) PROVE UNCHANGED <<ctxDone, conn>>
    BY <1>3, WorkKinds
<1>4. CASE GetTargets \/ OpenResults
    BY <1>4 DEF GetTargets, OpenResults
<1>5. CASE EngineReturns \/ ErrsPrinted \/ CloseSink \/ CloseSend \/ AwaitAck
    BY <1>5 DEF EngineReturns, ErrsPrinted, CloseSink, CloseSend, AwaitAck, MainGoes
<1>6. CASE CoordinatorReads \/ CoordinatorAcks \/ StreamReset \/ Disconnect \/ Cancel
    BY <1>6 DEF CoordinatorReads, CoordinatorAcks, StreamReset, Disconnect, Cancel
<1> QED
    BY <1>1, <1>2, <1>3, <1>4, <1>5, <1>6 DEF Next, Step, Main, Terminated

LEMMA KeptStep == Typed /\ Stages /\ Kept /\ [Next]_vars => Kept'
<1> SUFFICES ASSUME Typed, Stages, \A t \in Given : Placed(t), [Next]_vars, ~ctxDone', NEW t \in Given'
             PROVE  Placed(t)'
    BY BrokenStays DEF Kept
<1>1. SinkOver(Target) /\ None \notin Target /\ ~ctxDone
    BY ShardFacts, BrokenStays DEF Typed
<1>2. /\ eng \in [Worker -> {"select", "probe", "send", "stopped"}]
      /\ job \in [Worker -> Target \cup {None}]
    BY DEF Typed
<1>3. ASSUME CloseChannel \/ CleanOutput \/ SendOnClosed \/ UNCHANGED sinkVars
      PROVE  Held(t)' <=> Held(t)
    BY <1>1, <1>3, OthersHold
<1>4. ASSUME recvd' = recvd PROVE Placed(t)
    BY <1>4 DEF Given
<1>5. CASE RecvTarget
    <2>1. /\ recvd' = recvd + 1 /\ srcPc = "recv" /\ srcPc' = "emit"
          /\ recvd \in Nat /\ UNCHANGED <<eng, job, sinkVars>>
        BY <1>5, ShardFacts DEF RecvTarget, StreamOnly, engineVars, Typed
    <2>2. CASE t = Shard[recvd']
        BY <2>1, <2>2 DEF Placed
    <2>3. CASE t \in Given
        BY <1>3, <2>1, <2>3 DEF Placed, Busy
    <2>4. t \in Given \/ t = Shard[recvd']
        <3>1. \A i \in 1..(recvd + 1) : i \in 1..recvd \/ i = recvd + 1
            BY <2>1
        <3> QED
            BY <2>1, <3>1 DEF Given
    <2> QED
        BY <2>2, <2>3, <2>4
<1>6. ASSUME Alive, NEW w \in Worker, Work(w) PROVE Placed(t)'
    <2>1. recvd' = recvd /\ Placed(t)
        BY <1>4, <1>6, WorkKinds
    <2>2. CASE /\ srcPc = "emit" /\ srcPc' = "recv" /\ UNCHANGED sinkVars
               /\ eng[w] = "select" /\ eng' = [eng EXCEPT ![w] = "probe"]
               /\ job' = [job EXCEPT ![w] = Shard[recvd]]
        <3>1. /\ eng'[w] = "probe" /\ job'[w] = Shard[recvd] /\ (Held(t)' <=> Held(t))
              /\ \A v \in Worker : Busy(v) => eng'[v] = eng[v] /\ job'[v] = job[v]
            BY <1>2, <1>3, <2>2 DEF Busy
        <3> QED
            BY <2>1, <3>1 DEF Placed, Busy
    <2>3. CASE /\ UNCHANGED <<srcPc, job, sinkVars>>
               /\ \/ eng[w] = "select" /\ eng' = [eng EXCEPT ![w] = "stopped"]
                  \/ eng[w] = "probe" /\ eng' = [eng EXCEPT ![w] = "send"]
        <3>1. (Held(t)' <=> Held(t)) /\ \A v \in Worker : Busy(v) => Busy(v)'
            BY <1>2, <1>3, <2>3 DEF Busy
        <3> QED
            BY <2>1, <2>3, <3>1 DEF Placed
    <2>4. CASE /\ eng[w] = "send" /\ eng' = [eng EXCEPT ![w] = "select"]
               /\ srcPc' = srcPc /\ job' = [job EXCEPT ![w] = None]
               /\ Enqueue(job[w]) \/ SendOnClosed \/ (ctxDone /\ UNCHANGED sinkVars)
        <3>1. ~chClosed
            BY <1>6, <2>4 DEF Stages, PoolStopped, Alive
        <3>2. Enqueue(job[w]) /\ job[w] \in Target
            BY <1>1, <2>4, <3>1 DEF SendOnClosed, Typed
        <3>3. Held(t)' <=> t = job[w] \/ Held(t)
            BY <1>1, <3>2, EnqueueHolds
        <3>4. \A v \in Worker : Busy(v) /\ v # w => Busy(v)' /\ job'[v] = job[v]
            BY <1>2, <2>4 DEF Busy
        <3> QED
            BY <2>1, <2>4, <3>3, <3>4 DEF Placed
    <2> QED
        BY <1>6, <2>2, <2>3, <2>4, WorkKinds
<1>7. CASE SinkRun
    <2>1. run /\ UNCHANGED <<eng, job, recvd, srcPc>>
        BY <1>7, SinkRunKinds
    <2>2. Held(t) => Held(t)'
        BY <1>1, <2>1, RunLosesNothing
    <2> QED
        BY <1>4, <2>1, <2>2 DEF Placed, Busy
<1>8. CASE CoordinatorReads
    <2>1. UNCHANGED <<eng, job, recvd, srcPc, sinkVars>>
        BY <1>8, ReadsHead
    <2> QED
        BY <1>3, <1>4, <2>1 DEF Placed, Busy
<1>9. CASE Aside
    <2>1. /\ UNCHANGED <<eng, job, recvd>>
          /\ srcPc = "emit" => srcPc' = "emit"
          /\ CloseChannel \/ CleanOutput \/ SendOnClosed \/ UNCHANGED sinkVars
        BY <1>1, <1>9 DEF Aside, Stages
    <2> QED
        BY <1>3, <1>4, <2>1 DEF Placed, Busy
<1> QED
    BY <1>5, <1>6, <1>7, <1>8, <1>9, StepKinds
-----------------------------------------------------------------------------
(* What a Write adds to the stream, and what a read takes from it. *)
LEMMA WriteReports ==
    ASSUME Typed, SinkRun, wire' # wire
    PROVE  /\ writing \in Target \ Unencodable /\ Write
           /\ \A t : Arrived(t)' <=> Arrived(t)
           /\ \A t : OnStream(t)' <=> t = writing \/ OnStream(t)
<1> DEFINE pr == Encoded(writing)
<1>1. /\ writing \in Target \ Unencodable /\ Write /\ received' = received
      /\ wire' = Append(wire, pr)
    BY SinkRunKinds
<1>2. pr.of = writing
    BY WireTargets
<1>3. pr \in OnWire /\ wire \in Seq(OnWire)
    BY <1>1, WireTargets DEF Typed
<1> HIDE DEF pr
<1>4. \A y : (\E k \in DOMAIN Append(wire, pr) : Append(wire, pr)[k] = y)
             <=> y = pr \/ \E k \in DOMAIN wire : wire[k] = y
    BY <1>3, AppendContents
<1>5. \A t : (\E k \in DOMAIN wire' : wire'[k].of = t)
             <=> t = writing \/ \E k \in DOMAIN wire : wire[k].of = t
    BY <1>1, <1>2, <1>4
<1>6. \A t : Arrived(t)' <=> Arrived(t)
    BY <1>1 DEF Arrived
<1> QED
    BY <1>1, <1>5, <1>6 DEF OnStream

LEMMA ReadMoves ==
    ASSUME Typed, CoordinatorReads
    PROVE  /\ \A t : Arrived(t) => Arrived(t)'
           /\ \A t : OnStream(t)' <=> OnStream(t)
<1> DEFINE head == Head(wire)
           rec == Decoded(head)
<1>1. /\ wire \in Seq(OnWire) /\ received \in Seq(Read) /\ wire # <<>>
      /\ wire' = Tail(wire) /\ received' = Append(received, rec)
    BY ReadsHead DEF Typed
<1>2. /\ head \in OnWire
      /\ \A y : (\E k \in DOMAIN wire : wire[k] = y)
                  <=> y = head \/ \E k \in DOMAIN Tail(wire) : Tail(wire)[k] = y
    BY <1>1, TailContents
<1>3. rec.of = head.of
    BY WireTargets
<1>4. rec \in Read /\ received \in Seq(Read)
    BY <1>1, <1>2, WireTargets
<1> HIDE DEF head, rec
<1>5. \A y : (\E k \in DOMAIN Append(received, rec) : Append(received, rec)[k] = y)
             <=> y = rec \/ \E k \in DOMAIN received : received[k] = y
    BY <1>4, AppendContents
<1>6. \A t : Arrived(t)' <=> t = head.of \/ Arrived(t)
    <2>1. \A t : (\E k \in DOMAIN received' : received'[k].of = t)
                 <=> t = head.of \/ \E k \in DOMAIN received : received[k].of = t
        <3>1. \A k \in DOMAIN received' :
                  received'[k] = rec \/ \E i \in DOMAIN received : received[i] = received'[k]
            BY <1>1, <1>5
        <3>2. \E k \in DOMAIN received' : received'[k] = rec
            BY <1>1, <1>5
        <3>3. \A i \in DOMAIN received : \E k \in DOMAIN received' : received'[k] = received[i]
            BY <1>1, <1>5
        <3> QED
            BY <1>3, <3>1, <3>2, <3>3
    <2> QED
        BY <2>1 DEF Arrived
<1>7. \A t : (\E k \in DOMAIN wire : wire[k].of = t)
             <=> t = head.of \/ \E k \in DOMAIN wire' : wire'[k].of = t
    BY <1>1, <1>2
<1> QED
    BY <1>6, <1>7 DEF OnStream

(* The steps that are neither a write nor a read leave the stream alone.   *)
LEMMA StreamSteps ==
    ASSUME Typed, [Next]_vars
    PROVE  /\ \A t : Arrived(t) => Arrived(t)'
           /\ \A t : OnStream(t) => OnStream(t)'
<1>1. ASSUME UNCHANGED <<wire, received>>
      PROVE  \A t : (Arrived(t)' <=> Arrived(t)) /\ (OnStream(t)' <=> OnStream(t))
    BY <1>1 DEF Arrived, OnStream
<1>2. CASE SinkRun
    <2>1. wire' = wire => received' = received
        BY <1>2, SinkRunKinds
    <2> QED
        BY <1>1, <1>2, <2>1, WriteReports
<1>3. CASE CoordinatorReads
    BY <1>3, ReadMoves
<1>4. CASE RecvTarget
    BY <1>1, <1>4 DEF RecvTarget, StreamOnly, resultVars
<1>5. CASE Aside \/ \E w \in Worker : Work(w)
    BY <1>1, <1>5, WorkKinds DEF Aside
<1> QED
    BY <1>2, <1>3, <1>4, <1>5, StepKinds

LEMMA WrittenIsSentStep ==
    Typed /\ HeldOnce /\ WrittenIsSent /\ [Next]_vars => WrittenIsSent'
<1> SUFFICES ASSUME Typed, HeldOnce, WrittenIsSent, [Next]_vars, NEW t, InLog(NumOutputs, t)',
                    ~Broken', t \notin Unencodable
             PROVE  OnStream(t)'
    BY DEF WrittenIsSent
<1>1. InLog(NumOutputs, t) => OnStream(t)'
    BY BrokenStays, StreamSteps DEF WrittenIsSent
<1>2. ASSUME log' = log PROVE InLog(NumOutputs, t)
    BY <1>2 DEF InLog
<1>3. CASE SinkRun
    <2>1. run /\ (wire' = wire => (Write => writing \in Unencodable \/ Broken))
        BY <1>3, SinkRunKinds
    <2>2. CASE Dequeue \/ RunReturns
        BY <1>1, <1>2, <2>2 DEF Dequeue, RunReturns
    <2>3. CASE Write
        <3>1. t = writing \/ InLog(NumOutputs, t)
            BY <2>3, WriteLogs
        <3>2. t = writing => wire' # wire
            BY <2>1, <2>3, BrokenStays
        <3> QED
            BY <1>1, <1>3, <3>1, <3>2, WriteReports
    <2> QED
        BY <2>1, <2>2, <2>3 DEF run
<1>4. CASE RecvTarget
    BY <1>1, <1>2, <1>4 DEF RecvTarget, StreamOnly, sinkVars
<1>5. ASSUME NEW w \in Worker, Work(w) PROVE log' = log
    BY <1>5, WorkKinds DEF Enqueue, SendOnClosed, sinkVars
<1>6. CASE CoordinatorReads
    BY <1>1, <1>2, <1>6, ReadsHead DEF sinkVars
<1>7. CASE Aside
    BY <1>1, <1>2, <1>7 DEF Aside, CloseChannel, CleanOutput, SendOnClosed, sinkVars
<1> QED
    BY <1>1, <1>2, <1>3, <1>4, <1>5, <1>6, <1>7, StepKinds

(* When the sink has drained after the pool has stopped, every target that *)
(* was received is written.                                                *)
LEMMA DrainedMeansWritten ==
    ASSUME Shown, Stages, Kept, Drains, mainPc \in {"clean", "ack"}, done, ~ctxDone, NEW t \in Given
    PROVE  InLog(NumOutputs, t)
<1>1. Placed(t)
    BY DEF Kept
<1>2. srcPc = "closed" /\ \A w \in Worker : eng[w] = "stopped"
    BY DEF Shown, Stages, PoolStopped
<1>3. ch = <<>> /\ writing = None
    BY DEF Drains
<1> QED
    BY <1>1, <1>2, <1>3 DEF Placed, Busy, Held, InChannel

LEMMA AnsweredStep ==
    /\ Typed /\ HeldOnce /\ Shown /\ Stages /\ Kept /\ Drains /\ WrittenIsSent
    /\ Answered /\ [Next]_vars
    => Answered'
<1> SUFFICES ASSUME Typed, HeldOnce, Shown, Stages, Kept, Drains, WrittenIsSent, Answered, [Next]_vars,
                    results' = "acked", ~ctxDone', NEW t \in Given', t \notin Unencodable
             PROVE  Arrived(t)'
    BY DEF Answered
<1>1. ~ctxDone
    BY BrokenStays
<1>2. ASSUME results = "acked", recvd' = recvd PROVE Arrived(t)'
    <2>1. Arrived(t)
        BY <1>1, <1>2 DEF Answered, Given
    <2> QED
        BY <2>1, StreamSteps
<1>3. CASE CoordinatorAcks /\ Alive
    <2>1. /\ results = "sent" /\ conn = "up" /\ wire = <<>> /\ t \in Given /\ mainPc = "ack" /\ done
        BY <1>3 DEF CoordinatorAcks, sourceVars, Given, Stages, Alive
    <2>2. InLog(NumOutputs, t)
        BY <1>1, <2>1, DrainedMeansWritten
    <2>3. Arrived(t)
        BY <1>1, <2>1, <2>2 DEF WrittenIsSent, Broken, OnStream
    <2> QED
        BY <2>3, StreamSteps
<1>4. CASE RecvTarget /\ Alive
    <2>1. results = "acked" /\ srcPc = "recv"
        BY <1>4 DEF RecvTarget, StreamOnly, resultVars
    <2>2. srcPc = "closed"
        BY <1>4, <2>1 DEF Stages, Shown, Alive
    <2> QED
        BY <2>1, <2>2
<1>5. CASE RecvFails \/ Stream \/ PrintError \/ PrinterReturns
    <2>1. recvd' = recvd /\ results' = results
        BY <1>5 DEF RecvFails, Stream, RecvEOF, ReportFailure, GiveUp, StreamOnly, PrintError,
                    PrinterReturns, sourceVars, resultVars
    <2> QED
        BY <1>2, <2>1
<1>6. CASE GetTargets \/ OpenResults \/ StreamReset \/ Disconnect \/ Cancel \/ UNCHANGED vars
    <2>1. recvd' = recvd /\ results' \in {results, "open", "reset"}
        BY <1>6 DEF GetTargets, OpenResults, StreamReset, Disconnect, Cancel, vars, sourceVars,
                    resultVars
    <2> QED
        BY <1>2, <2>1
<1>7. CASE EngineReturns \/ ErrsPrinted \/ CloseSink \/ CloseSend \/ AwaitAck
    <2>1. recvd' = recvd /\ results' \in {results, "sent"}
        BY <1>7 DEF EngineReturns, ErrsPrinted, CloseSink, CloseSend, AwaitAck, MainGoes, sourceVars
    <2> QED
        BY <1>2, <2>1
<1>8. CASE SinkRun \/ CoordinatorReads
    <2>1. recvd' = recvd /\ results' = results
        BY <1>8, SinkRunKinds, ReadsHead
    <2> QED
        BY <1>2, <2>1
<1>9. ASSUME NEW w \in Worker, Work(w) PROVE Arrived(t)'
    <2>1. recvd' = recvd /\ results' = results
        BY <1>9, WorkKinds
    <2> QED
        BY <1>2, <2>1
<1>10. (Alive /\ Step) \/ UNCHANGED vars
    BY DEF Next, Terminated
<1> QED
    BY <1>3, <1>4, <1>5, <1>6, <1>7, <1>8, <1>9, <1>10 DEF Step, Main

LEMMA SinkDrainsStep == Drains /\ [Next]_vars => Drains'
<1> SUFFICES ASSUME Drains, [Next]_vars PROVE Drains'
    OBVIOUS
<1>1. CASE RecvTarget
    BY <1>1, DrainsStep DEF RecvTarget, StreamOnly
<1>2. CASE \E w \in Worker : Work(w)
    BY <1>2, WorkKinds, DrainsStep
<1>3. CASE SinkRun
    BY <1>3, DrainsStep DEF SinkRun, WriteResult, run
<1>4. CASE CoordinatorReads
    BY <1>4, DrainsStep DEF CoordinatorReads
<1>5. CASE Aside
    BY <1>5, DrainsStep DEF Aside
<1> QED
    BY <1>1, <1>2, <1>3, <1>4, <1>5, StepKinds
-----------------------------------------------------------------------------
LEMMA BoundedSuffices == Typed /\ Bounded => TypeOK
<1> SUFFICES ASSUME Typed, Bounded PROVE TypeOK
    OBVIOUS
<1>1. SinkTypeOK(Target) /\ EngineTypeOK(Target)
    BY DEF Typed, Bounded, SinkOver, SinkTypeOK, EngineTypeOK
<1>2. \A i \in DOMAIN wire : wire[i].of \in Target /\ wire[i].pr.port \in Int32
    BY WireTargets, WireFaithful DEF Typed
<1> QED
    BY <1>1, <1>2 DEF Typed, Bounded, TypeOK

LEMMA BoundedStep == Typed /\ Bounded /\ [Next]_vars => Bounded'
<1> SUFFICES ASSUME Typed, Bounded, [Next]_vars PROVE Bounded'
    OBVIOUS
<1> USE DEF Bounded, sourceVars, printerVars, resultVars, mainVars, engineVars, sinkVars
<1>1. CASE RecvTarget \/ RecvFails \/ Stream
    BY <1>1 DEF RecvTarget, RecvFails, Stream, RecvEOF, ReportFailure, GiveUp, StreamOnly
<1>2. CASE PrintError \/ PrinterReturns
    BY <1>2 DEF PrintError, PrinterReturns
<1>3. ASSUME NEW w \in Worker, Work(w) PROVE Bounded'
    <2>1. CASE Take(w)
        BY <2>1 DEF Take, Receive, EngineOnly
    <2>2. CASE Proceed(w)
        BY <2>2 DEF Proceed, ProbeOne, WorkerReturns, EngineOnly
    <2>3. CASE SendResult(w)
        <3>1. /\ UNCHANGED <<ctxDone, conn, srcPc, ending, errs, printer, printed, results, wire,
                             received, mainPc, runErr>>
              /\ eng[w] = "send" /\ ch \in Seq(Target) /\ job[w] \in Target
            BY <2>3 DEF SendResult, SendRecord, EngineOnly, Typed, SinkOver
        <3>2. Len(ch') <= Capacity /\ dropped' \in SUBSET Target
            <4>1. CASE Enqueue(job[w]) /\ dropped' = dropped
                BY <3>1, <4>1, AppendContents, SinkAssumption DEF Enqueue
            <4> QED
                BY <2>3, <3>1, <4>1 DEF SendResult, SendRecord, SendOnClosed, Abandon
        <3>3. UNCHANGED <<chClosed, done, cleaned>> /\ panicked' \in BOOLEAN
            BY <2>3 DEF SendResult, SendRecord, Enqueue, SendOnClosed, Abandon
        <3> QED
            BY <3>1, <3>2, <3>3
    <2> QED
        BY <1>3, <2>1, <2>2, <2>3 DEF Work
<1>4. CASE SinkRun
    <2>1. /\ UNCHANGED <<ctxDone, conn, srcPc, ending, errs, printer, printed, results, received,
                         mainPc, runErr, dropped>>
          /\ ch \in Seq(Target) /\ wire \in Seq(OnWire)
        BY <1>4 DEF SinkRun, Typed, SinkOver
    <2>2. Len(wire') <= Window
        <3> DEFINE pr == Encoded(writing)
        <3>1. wire' = wire \/ (Len(wire) < Window /\ pr \in OnWire /\ wire' = Append(wire, pr))
            BY <1>4, SinkRunKinds, WireTargets
        <3> HIDE DEF pr
        <3> QED
            BY <2>1, <3>1, AppendContents, WorkerRunAssumption
    <2>3. Len(ch') <= Capacity
        <3>1. CASE Dequeue
            BY <2>1, <3>1, TailContents, SinkAssumption DEF Dequeue
        <3> QED
            BY <1>4, <3>1 DEF SinkRun, WriteResult, Write, RunReturns
    <2>4. UNCHANGED <<chClosed, cleaned, panicked>> /\ done' \in BOOLEAN
        BY <1>4 DEF SinkRun, WriteResult, Write, Dequeue, RunReturns
    <2> QED
        BY <2>1, <2>2, <2>3, <2>4
<1>5. CASE GetTargets \/ OpenResults
    BY <1>5 DEF GetTargets, OpenResults, Fail
<1>6. CASE EngineReturns \/ ErrsPrinted \/ CloseSink \/ CloseSend
    <2>1. CASE EngineReturns \/ ErrsPrinted
        BY <2>1 DEF EngineReturns, ErrsPrinted, MainGoes
    <2>2. CASE CloseSink
        BY <2>2 DEF CloseSink, CloseChannel, MainGoes
    <2>3. CASE CloseSend
        BY <2>3 DEF CloseSend, MainGoes
    <2> QED
        BY <1>6, <2>1, <2>2, <2>3
<1>7. CASE AwaitAck
    <2>1. cleaned' \in 0..NumOutputs
        BY <1>7, OutputRange DEF AwaitAck, CleanOutput
    <2> QED
        BY <1>7, <2>1 DEF AwaitAck, CleanOutput, MainGoes
<1>8. CASE CoordinatorReads
    <2>1. /\ UNCHANGED <<sinkVars, ctxDone, conn, srcPc, ending, errs, printer, printed, results,
                         mainPc, runErr, dropped>>
          /\ wire \in Seq(OnWire) /\ wire # <<>> /\ wire' = Tail(wire) /\ received \in Seq(Read)
        BY <1>8 DEF CoordinatorReads, Typed
    <2>2. Len(wire') <= Window /\ Head(wire) \in OnWire
        BY <2>1, TailContents, WorkerRunAssumption
    <2> DEFINE rec == Decoded(Head(wire))
    <2>3. CASE received' = Append(received, rec) /\ Decodes(Head(wire).pr)
        <3>1. rec \in Read /\ rec.rec.outcome \in Outcome
            BY <2>2, WireTargets, WireFaithful
        <3> HIDE DEF rec
        <3>2. received \in Seq(Read)
            BY <2>1
        <3>3. \A y : (\E k \in DOMAIN Append(received, rec) : Append(received, rec)[k] = y)
                        => y = rec \/ \E k \in DOMAIN received : received[k] = y
            <4> HIDE DEF Bounded
            <4> QED
                BY <3>1, <3>2, AppendContents
        <3>4. \A i \in DOMAIN received' :
                 received'[i] = rec \/ \E k \in DOMAIN received : received[k] = received'[i]
            BY <2>3, <3>3
        <3>5. \A i \in DOMAIN received' : received'[i].rec.outcome \in Outcome
            BY <3>1, <3>4
        <3> QED
            BY <2>1, <2>2, <3>5
    <2>4. CASE received' = received
        BY <2>1, <2>2, <2>4
    <2> QED
        BY <1>8, <2>3, <2>4 DEF CoordinatorReads
<1>9. CASE CoordinatorAcks \/ StreamReset
    <2>1. CASE CoordinatorAcks
        BY <2>1 DEF CoordinatorAcks
    <2>2. CASE StreamReset
        BY <2>2 DEF StreamReset
    <2> QED
        BY <1>9, <2>1, <2>2
<1>10. CASE Disconnect \/ Cancel
    <2>1. CASE Disconnect
        BY <2>1 DEF Disconnect
    <2>2. CASE Cancel
        BY <2>2 DEF Cancel
    <2> QED
        BY <1>10, <2>1, <2>2
<1>11. CASE UNCHANGED vars
    BY <1>11 DEF vars
<1> QED
    BY <1>1, <1>2, <1>3, <1>4, <1>5, <1>6, <1>7, <1>8, <1>9, <1>10, <1>11 DEF Next, Step, Main, Terminated
-----------------------------------------------------------------------------
IInv ==
    /\ Typed /\ Bounded
    /\ OnePlace /\ SentOnce /\ Shown
    /\ Drains /\ Stages /\ Kept /\ WrittenIsSent /\ Answered

LEMMA InitIInv == Init => IInv
<1> SUFFICES ASSUME Init PROVE IInv
    OBVIOUS
<1> USE DEF Init, NewSink, NewEngine
<1>1. log[NumOutputs] = <<>>
    BY OutputRange
<1>2. SinkOver(Target)
    BY OutputRange DEF SinkOver
<1>3. Typed
    BY <1>2, ShardFacts DEF Typed
<1>4. \A t : ~Held(t)
    BY <1>1 DEF Held, InChannel, InLog
<1>5. HeldOnce
    BY <1>1 DEF HeldOnce, Distinct, InChannel, InLog
<1>6. OnePlace
    BY <1>4, <1>5 DEF OnePlace, Busy
<1>7. SentOnce
    BY DEF SentOnce, TargetsDiffer
<1>8. Shown
    BY DEF Shown
<1>9. Bounded
    <2>1. Len(ch) <= Capacity /\ Len(wire) <= Window /\ cleaned \in 0..NumOutputs
        BY OutputRange, SinkAssumption, WorkerRunAssumption
    <2>2. \A i \in DOMAIN received : received[i].rec.outcome \in Outcome
        OBVIOUS
    <2> QED
        BY <2>1, <2>2 DEF Bounded
<1>10. Drains /\ Stages /\ Answered
    BY DEF Drains, Stages, Answered
<1>11. Kept /\ WrittenIsSent
    <2>1. Given = {}
        BY DEF Given
    <2> QED
        BY <1>4, <2>1 DEF Kept, WrittenIsSent, Held
<1> QED
    BY <1>3, <1>6, <1>7, <1>8, <1>9, <1>10, <1>11 DEF IInv

LEMMA StepIInv == IInv /\ [Next]_vars => IInv'
<1> SUFFICES ASSUME IInv, [Next]_vars PROVE IInv'
    OBVIOUS
<1>1. HeldOnce
    BY DEF IInv, OnePlace
<1>2. Typed' /\ Bounded'
    BY <1>1, TypedStep, BoundedStep DEF IInv
<1>3. OnePlace' /\ SentOnce' /\ Shown'
    BY <1>1, OnePlaceStep, SentOnceStep, ShownStep DEF IInv
<1>4. Drains' /\ Stages' /\ Kept'
    BY SinkDrainsStep, StagesStep, KeptStep DEF IInv
<1>5. WrittenIsSent' /\ Answered'
    BY <1>1, WrittenIsSentStep, AnsweredStep DEF IInv
<1> QED
    BY <1>2, <1>3, <1>4, <1>5 DEF IInv

LEMMA Invariance == Spec => []IInv
BY InitIInv, StepIInv, PTL DEF Spec

(* The queue and the stream keep to their capacities, and every other      *)
(* variable to its type.                                                   *)
THEOREM WorkerTyped == Spec => []TypeOK
<1>1. IInv => TypeOK
    BY BoundedSuffices DEF IInv
<1> QED
    BY <1>1, Invariance, PTL

(* A worker reports a target once: the coordinator, which would write the  *)
(* second record of a target to its output, gets none.                     *)
THEOREM WorkerReportsOnce == Spec => []OneResultEach
<1>1. IInv => OneResultEach
    BY SentOnceSuffices DEF IInv
<1> QED
    BY <1>1, Invariance, PTL

(* A worker that opened its result stream does not exit before the error   *)
(* of its target stream has been printed.                                  *)
THEOREM WorkerShowsFailure == Spec => []FailureIsShown
<1>1. IInv => FailureIsShown
    BY DEF IInv, Shown, FailureIsShown
<1> QED
    BY <1>1, Invariance, PTL

(* A worker that succeeds uncancelled, on a complete target stream, has    *)
(* had every result that has a wire form read, as a record that prints     *)
(* like that of a single-host scan if the port is an int32 and the value   *)
(* no bytes.                                                               *)
THEOREM WorkerSuccessIsComplete == Spec => []SuccessIsComplete
<1>1. IInv => SuccessIsComplete
    <2> SUFFICES ASSUME IInv, mainPc = "exit", ~runErr, ~ctxDone, ending = "eof",
                        NEW t \in Target \ Unencodable
                 PROVE  \E i \in DOMAIN received :
                            received[i].of = t /\ PrintsAlike(received[i].rec, t, Finding[t])
        BY DEF SuccessIsComplete
    <2>1. recvd = Len(Shard) /\ results = "acked"
        BY DEF IInv, Stages
    <2>2. DOMAIN Shard = 1..Len(Shard)
        BY WorkerRunAssumption
    <2>3. t \in Given
        BY <2>1, <2>2 DEF Given, Target
    <2>4. PICK i \in DOMAIN received : received[i].of = t
        BY <2>1, <2>3 DEF IInv, Answered, Arrived
    <2>5. received[i] \in Read
        BY DEF IInv, Typed
    <2> QED
        BY <2>4, <2>5, WireFaithful
<1> QED
    BY <1>1, Invariance, PTL
-----------------------------------------------------------------------------
(* The worker implements Reporter.                                         *)
Reported == {Sent[i].of : i \in DOMAIN Sent}
Phase == CASE mainPc = "exit" -> IF runErr THEN "failed" ELSE "ok"
           [] mainPc = "ack"  -> "closed"
           [] mainPc \in {"getTargets", "init"} -> "starting"
           [] OTHER           -> "running"

LEMMA ConcatTargets ==
    ASSUME NEW r \in Seq(Read), NEW w \in Seq(OnWire)
    PROVE  \A t : (\E i \in DOMAIN (r \o w) : (r \o w)[i].of = t)
                    <=> \/ \E i \in DOMAIN r : r[i].of = t
                        \/ \E i \in DOMAIN w : w[i].of = t
<1>1. /\ DOMAIN r = 1..Len(r) /\ Len(r) \in Nat
      /\ DOMAIN w = 1..Len(w) /\ Len(w) \in Nat
      /\ DOMAIN (r \o w) = 1..(Len(r) + Len(w))
      /\ \A k \in 1..(Len(r) + Len(w)) :
            (r \o w)[k] = IF k <= Len(r) THEN r[k] ELSE w[k - Len(r)]
    OBVIOUS
<1>2. ASSUME NEW t, NEW k \in 1..(Len(r) + Len(w)), (r \o w)[k].of = t
      PROVE  (\E i \in DOMAIN r : r[i].of = t) \/ (\E i \in DOMAIN w : w[i].of = t)
    <2>1. IF k <= Len(r) THEN k \in DOMAIN r ELSE k - Len(r) \in DOMAIN w
        BY <1>1
    <2> QED
        BY <1>1, <1>2, <2>1
<1>3. ASSUME NEW t, NEW i \in 1..Len(r), r[i].of = t
      PROVE  \E k \in DOMAIN (r \o w) : (r \o w)[k].of = t
    <2>1. i \in 1..(Len(r) + Len(w)) /\ i <= Len(r)
        BY <1>1
    <2> QED
        BY <1>1, <1>3, <2>1
<1>4. ASSUME NEW t, NEW i \in 1..Len(w), w[i].of = t
      PROVE  \E k \in DOMAIN (r \o w) : (r \o w)[k].of = t
    <2>1. /\ i + Len(r) \in 1..(Len(r) + Len(w)) /\ ~(i + Len(r) <= Len(r))
          /\ i + Len(r) - Len(r) = i
        BY <1>1
    <2> QED
        BY <1>1, <1>4, <2>1
<1> QED
    BY <1>1, <1>2, <1>3, <1>4

LEMMA ReportedTargets ==
    ASSUME Typed, Typed'
    PROVE  \A t : (t \in Reported <=> OnStream(t)) /\ (t \in Reported' <=> OnStream(t)')
<1>1. \A t : t \in Reported <=> OnStream(t)
    <2>1. received \in Seq(Read) /\ wire \in Seq(OnWire)
        BY DEF Typed
    <2>2. \A t : (\E i \in DOMAIN (received \o wire) : (received \o wire)[i].of = t)
                   <=> \/ \E i \in DOMAIN received : received[i].of = t
                       \/ \E i \in DOMAIN wire : wire[i].of = t
        BY <2>1, ConcatTargets
    <2> QED
        BY <2>2 DEF Reported, Sent, OnStream, Arrived
<1>2. \A t : t \in Reported' <=> OnStream(t)'
    <2>1. received' \in Seq(Read) /\ wire' \in Seq(OnWire)
        BY DEF Typed
    <2>2. \A t : (\E i \in DOMAIN (received' \o wire') : (received' \o wire')[i].of = t)
                   <=> \/ \E i \in DOMAIN received' : received'[i].of = t
                       \/ \E i \in DOMAIN wire' : wire'[i].of = t
        BY <2>1, ConcatTargets
    <2> QED
        BY <2>2 DEF Reported, Sent, OnStream, Arrived
<1> QED
    BY <1>1, <1>2

LEMMA StutterRefines ==
    ASSUME UNCHANGED <<recvd, ctxDone, conn, mainPc, runErr>>, Reported' = Reported,
           (srcPc' = "closed") = (srcPc = "closed"), (results' = "acked") = (results = "acked")
    PROVE  UNCHANGED Promise!vars
BY DEF Promise!vars, Reported, Broken

(* A target that arrives on the stream was not received before. *)
LEMMA RecvTargetReceives ==
    ASSUME IInv, Alive, RecvTarget
    PROVE  Promise!Receive
<1>1. /\ recvd < Len(Shard) /\ recvd' = recvd + 1 /\ srcPc = "recv" /\ recvd \in 0..Len(Shard)
      /\ srcPc' = "emit"
      /\ UNCHANGED <<ctxDone, conn, mainPc, runErr, results, wire, received>>
    BY DEF RecvTarget, StreamOnly, resultVars, mainVars, IInv, Typed
<1>2. Phase = "running" \/ (Phase = "starting" /\ Given = {})
    <2>1. CASE mainPc \in {"getTargets", "init"}
        BY <1>1, <2>1 DEF IInv, Stages, Phase, Given
    <2>2. CASE mainPc \notin {"getTargets", "init"}
        BY <1>1, <2>2 DEF IInv, Shown, Alive, Phase
    <2> QED
        BY <2>1, <2>2
<1>3. /\ recvd + 1 \in 1..Len(Shard)
      /\ \A i \in 1..recvd : i \in 1..Len(Shard) /\ i # recvd + 1
      /\ \A i : i \in 1..(recvd + 1) <=> i \in 1..recvd \/ i = recvd + 1
    BY <1>1, ShardFacts
<1>4. /\ Shard[recvd + 1] \in Target \ Given
      /\ {Shard[i] : i \in 1..recvd'} = Given \cup {Shard[recvd + 1]}
    BY <1>1, <1>3, ShardFacts DEF Given
<1>5. Reported' = Reported
    BY <1>1 DEF Reported, Sent
<1> QED
    BY <1>1, <1>2, <1>4, <1>5 DEF Promise!Receive, Given, Reported, Phase, Broken

(* The target stream is over before the result stream is closed. *)
LEMMA StreamEnds ==
    ASSUME IInv, Alive, Stream
    PROVE  Promise!Next \/ UNCHANGED Promise!vars
<1>1. /\ srcPc \in {"recv", "fail", "emit"} /\ srcPc' \in {"closed", "fail"}
      /\ UNCHANGED <<recvd, ctxDone, conn, mainPc, runErr, results, wire, received>>
    BY DEF Stream, RecvEOF, ReportFailure, GiveUp, RecvFails, StreamOnly, resultVars, mainVars
<1>2. Phase \in {"starting", "running"}
    BY <1>1 DEF IInv, Shown, Alive, Phase
<1>3. Reported' = Reported
    BY <1>1 DEF Reported, Sent
<1>4. CASE srcPc' = "closed"
    BY <1>1, <1>2, <1>3, <1>4 DEF Promise!Next, Promise!End, Reported, Phase, Broken
<1>5. CASE srcPc' = "fail"
    BY <1>1, <1>3, <1>5, StutterRefines
<1> QED
    BY <1>1, <1>4, <1>5

(* A result that is put on the stream is of a target that was received,    *)
(* and the first of it.                                                    *)
LEMMA WriteIsReport ==
    ASSUME IInv, IInv', Alive, SinkRun, wire' # wire
    PROVE  Promise!Report
<1>1. /\ writing \in Target \ Unencodable /\ Write
      /\ \A t : OnStream(t)' <=> t = writing \/ OnStream(t)
    BY WriteReports DEF IInv
<1>2. /\ UNCHANGED <<recvd, srcPc, ctxDone, conn, mainPc, runErr, results>>
      /\ results = "open"
    BY SinkRunKinds DEF IInv
<1>3. Phase = "running"
    BY <1>1, <1>2 DEF IInv, Stages, Shown, Drains, Write, Alive, Phase
<1>4. \A t : (t \in Reported <=> OnStream(t)) /\ (t \in Reported' <=> OnStream(t)')
    BY ReportedTargets DEF IInv
<1>5. Reported' = Reported \cup {writing}
    BY <1>1, <1>4
<1>6. writing \in Given
    BY <1>1 DEF IInv, OnePlace, Held, Write
<1>7. ~OnStream(writing)
    <2>1. ~InLog(NumOutputs, writing)
        BY <1>1 DEF IInv, OnePlace, HeldOnce, Write
    <2> QED
        BY <2>1 DEF IInv, SentOnce, OnStream, Arrived
<1> QED
    BY <1>1, <1>2, <1>3, <1>4, <1>5, <1>6, <1>7
       DEF Promise!Report, Given, Reported, Phase, Broken

(* The stream is closed when the sink has drained: all is reported. *)
LEMMA CloseSendCloses ==
    ASSUME IInv, IInv', CloseSend
    PROVE  Promise!Close
<1>1. /\ mainPc = "clean" /\ mainPc' = "ack" /\ done /\ results \notin {"sent", "acked"}
      /\ results' # "acked" /\ srcPc = "closed"
      /\ UNCHANGED <<recvd, srcPc, ctxDone, conn, runErr, wire, received>>
    BY DEF CloseSend, SinkDrained, MainGoes, sourceVars, IInv, Stages, Shown
<1>2. Broken \/ \A t \in Given : t \in Reported \cup Unencodable
    <2> SUFFICES ASSUME ~Broken, NEW t \in Given, t \notin Unencodable
                 PROVE  t \in Reported
        OBVIOUS
    <2>1. InLog(NumOutputs, t)
        BY <1>1, DrainedMeansWritten DEF IInv, Broken
    <2>2. OnStream(t)
        BY <2>1 DEF IInv, WrittenIsSent
    <2> QED
        BY <2>2, ReportedTargets DEF IInv
<1>3. Reported' = Reported
    BY <1>1 DEF Reported, Sent
<1> QED
    BY <1>1, <1>2, <1>3 DEF Promise!Close, Given, Reported, Broken

LEMMA MainRefines ==
    ASSUME IInv, IInv', Main
    PROVE  Promise!Next \/ UNCHANGED Promise!vars
<1>1. CASE GetTargets \/ OpenResults
    <2>1. /\ UNCHANGED <<recvd, ctxDone, conn, wire, received>>
          /\ results # "acked" /\ results' # "acked"
          /\ (srcPc' = "closed") = (srcPc = "closed")
          /\ mainPc \in {"getTargets", "init"}
          /\ \/ mainPc' \in {"init", "run"} /\ runErr' = runErr
             \/ Broken /\ mainPc' = "exit" /\ runErr' = TRUE
        BY <1>1 DEF GetTargets, OpenResults, Fail, sourceVars, resultVars, IInv, Shown, Stages
    <2>2. Reported' = Reported
        BY <2>1 DEF Reported, Sent
    <2>3. CASE mainPc' = "init"
        BY <2>1, <2>2, <2>3 DEF Promise!vars, Reported, Broken
    <2>4. CASE mainPc' = "run"
        BY <2>1, <2>2, <2>4 DEF Promise!Next, Promise!Open, Reported, Broken
    <2>5. CASE Broken /\ mainPc' = "exit" /\ runErr' = TRUE
        BY <2>1, <2>2, <2>5 DEF Promise!Next, Promise!Fail, Reported, Broken
    <2> QED
        BY <2>1, <2>3, <2>4, <2>5
<1>2. CASE EngineReturns \/ ErrsPrinted \/ CloseSink
    <2>1. /\ UNCHANGED <<recvd, srcPc, ctxDone, conn, wire, received, results, runErr>>
          /\ mainPc \in {"run", "errs", "close"} /\ mainPc' \in {"errs", "close", "clean"}
        BY <1>2 DEF EngineReturns, ErrsPrinted, CloseSink, MainGoes, sourceVars
    <2>2. Reported' = Reported
        BY <2>1 DEF Reported, Sent
    <2> QED
        BY <2>1, <2>2 DEF Promise!vars, Reported, Broken
<1>3. CASE CloseSend
    BY <1>3, CloseSendCloses DEF Promise!Next
<1>4. CASE AwaitAck
    <2>1. /\ UNCHANGED <<recvd, srcPc, ctxDone, conn, wire, received, results>>
          /\ mainPc = "ack" /\ mainPc' = "exit"
          /\ \/ results = "acked" /\ runErr' = FALSE
             \/ Broken /\ runErr' = TRUE
        BY <1>4 DEF AwaitAck, CloseAndRecv, MainGoes, sourceVars
    <2>2. Reported' = Reported
        BY <2>1 DEF Reported, Sent
    <2> QED
        BY <2>1, <2>2 DEF Promise!Next, Promise!Succeed, Promise!Fail, Reported, Broken
<1> QED
    BY <1>1, <1>2, <1>3, <1>4 DEF Main

LEMMA StepRefines == IInv /\ IInv' /\ [Next]_vars => [Promise!Next]_(Promise!vars)
<1> SUFFICES ASSUME IInv, IInv', [Next]_vars PROVE Promise!Next \/ UNCHANGED Promise!vars
    OBVIOUS
<1>1. ASSUME UNCHANGED <<wire, received>> PROVE Reported' = Reported
    BY <1>1 DEF Reported, Sent
<1>2. CASE RecvTarget /\ Alive
    BY <1>2, RecvTargetReceives DEF Promise!Next
<1>3. CASE SinkRun /\ Alive
    <2>1. CASE wire' = wire
        BY <1>1, <1>3, <2>1, SinkRunKinds, StutterRefines DEF IInv
    <2> QED
        BY <1>3, <2>1, WriteIsReport DEF Promise!Next
<1>4. CASE CoordinatorReads
    <2>1. UNCHANGED <<recvd, srcPc, ctxDone, conn, mainPc, runErr, results>>
        BY <1>4, ReadsHead DEF IInv
    <2>2. Reported' = Reported
        BY <1>4, ReadMoves, ReportedTargets DEF IInv
    <2> QED
        BY <2>1, <2>2, StutterRefines
<1>5. ASSUME NEW w \in Worker, Work(w) PROVE UNCHANGED Promise!vars
    <2>1. (srcPc' = "closed") = (srcPc = "closed")
        BY <1>5, WorkKinds
    <2> QED
        BY <1>1, <1>5, <2>1, WorkKinds, StutterRefines
<1>6. CASE RecvFails \/ PrintError \/ PrinterReturns \/ UNCHANGED vars
    <2>1. /\ UNCHANGED <<recvd, ctxDone, conn, mainPc, runErr, results, wire, received>>
          /\ (srcPc' = "closed") = (srcPc = "closed")
        BY <1>6 DEF RecvFails, StreamOnly, PrintError, PrinterReturns, sourceVars, resultVars, mainVars, vars
    <2> QED
        BY <1>1, <2>1, StutterRefines
<1>7. CASE Main
    BY <1>7, MainRefines
<1>8. CASE CoordinatorAcks /\ Alive
    <2>1. /\ UNCHANGED <<recvd, srcPc, ctxDone, conn, mainPc, runErr, wire, received>>
          /\ mainPc = "ack" /\ results' = "acked"
        BY <1>8 DEF CoordinatorAcks, sourceVars, mainVars, Alive, IInv, Stages
    <2> QED
        BY <1>1, <2>1 DEF Promise!Next, Promise!Acknowledge, Reported, Broken
<1>9. CASE StreamReset
    <2>1. /\ UNCHANGED <<recvd, srcPc, ctxDone, conn, mainPc, runErr, wire, received>>
          /\ results # "acked" /\ results' # "acked"
        BY <1>9 DEF StreamReset, sourceVars, mainVars
    <2> QED
        BY <1>1, <2>1, StutterRefines
<1>10. CASE Disconnect \/ Cancel
    <2>1. UNCHANGED <<recvd, srcPc, mainPc, runErr, results, wire, received>> /\ Broken'
        BY <1>10 DEF Disconnect, Cancel, sourceVars, resultVars, mainVars, Broken
    <2> QED
        BY <1>1, <2>1 DEF Promise!Next, Promise!CutOff, Reported, Broken
<1>11. CASE Stream /\ Alive
    BY <1>11, StreamEnds
<1>12. (Alive /\ Step) \/ UNCHANGED vars
    BY DEF Next, Terminated
<1> QED
    BY <1>2, <1>3, <1>4, <1>5, <1>6, <1>7, <1>8, <1>9, <1>10, <1>11, <1>12 DEF Step

LEMMA InitRefines == Init => Promise!Init
<1> SUFFICES ASSUME Init PROVE Promise!Init
    OBVIOUS
<1>1. Given = {} /\ Reported = {}
    BY DEF Init, Given, Reported, Sent
<1> QED
    BY <1>1 DEF Init, Promise!Init, Given, Reported, Broken

(* To its coordinator the worker is a Reporter: it reports what it has     *)
(* received, each target once, closes its stream only when it has reported *)
(* all of it or was cut off, and succeeds only on an acknowledgement.      *)
THEOREM WorkerImplementsReporter == Spec => ImplementsReporter
<1>1. IInv /\ IInv' /\ [Next]_vars => [Promise!Next]_(Promise!vars)
    BY StepRefines
<1> QED
    BY <1>1, InitRefines, Invariance, PTL DEF Spec, ImplementsReporter, Promise!Spec
=============================================================================
