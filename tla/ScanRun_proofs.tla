--------------------------- MODULE ScanRun_proofs ---------------------------
(***************************************************************************)
(* Proofs about a single-host scan, for any configuration, any number of   *)
(* goroutines and outputs and any queue capacity: no goroutine sends on    *)
(* the closed channel, the outputs agree and are cleaned last, no target   *)
(* is written twice, none is probed that the configuration does not name,  *)
(* and a scan that is not cancelled writes all that it names.  They rest   *)
(* on the lemmas about the sink and on what an entry parses to.            *)
(***************************************************************************)
EXTENDS ScanRun, Sink_proofs, Entries_proofs

(* The pool's states; its targets and the sink's records are among those   *)
(* the source has emitted.                                                 *)
Typed ==
    /\ eng \in [Worker -> {"select", "probe", "send", "stopped"}]
    /\ job \in [Worker -> seen \cup {None}]
    /\ SinkOver(seen) /\ None \notin seen
    /\ seen \subseteq Target /\ dropped \subseteq seen

Bounded ==
    /\ Len(ch) <= Capacity
    /\ chClosed \in BOOLEAN /\ done \in BOOLEAN /\ panicked \in BOOLEAN
    /\ cleaned \in 0..NumOutputs
    /\ ctxDone \in BOOLEAN /\ printer \in {"draining", "done"}

(* The source works through what its configuration parses to, and through  *)
(* a block from its first address on.                                      *)
InRangeEntry == srcPc \in {"range", "emit"} /\ source[entry].kind = "range"
Sourced ==
    /\ config \in Configs /\ source = ParseSource(config)
    /\ srcPc \in {"next", "range", "emit", "fail", "closed"}
    /\ entry \in 1..(Len(source) + 1)
    /\ srcPc \in {"range", "emit", "fail"} =>
          entry \in DOMAIN source /\ (srcPc = "fail" <=> source[entry] = Invalid)
    /\ addr \in Address \cup {-1}
    /\ srcPc = "emit" => More
    /\ InRangeEntry /\ addr # -1 => source[entry].first <= addr

(* The targets the source has yet to emit, if it is not cut short.         *)
Rest(e, a) ==
    IF a = -1 THEN {}
    ELSE IF e.kind = "range"
    THEN {[host |-> AddressText(b), port |-> e.port] : b \in From(e, a)}
    ELSE Expansion(e)
Later(src, n) == UNION {Expansion(src[i]) : i \in n..Len(src)}
Left == CASE srcPc = "next"   -> Later(source, entry)
          [] srcPc = "fail"   -> Later(source, entry + 1)
          [] srcPc = "range"  -> Rest(source[entry], addr) \cup Later(source, entry + 1)
          [] srcPc = "emit"   -> Rest(source[entry], NextOffer) \cup Later(source, entry + 1)
          [] srcPc = "closed" -> {}

(* What is emitted, and what is left, is what the configuration names; the *)
(* context cuts that short, and only then is a record given up.            *)
OnlyNamed == seen \cup Left \subseteq Names(config)
Uncut == ~ctxDone => dropped = {} /\ Names(config) \subseteq seen \cup Left

(* Who has returned when: the pool before errs is waited for, its printer  *)
(* and so the source before the sink is closed, run() before the exit.     *)
Ordered ==
    /\ mainPc \in {"run", "errs", "close", "clean", "exit"}
    /\ mainPc # "run" => PoolStopped
    /\ printer = "done" => srcPc = "closed"
    /\ mainPc \in {"close", "clean", "exit"} => printer = "done"
    /\ chClosed => mainPc \in {"clean", "exit"}
    /\ mainPc = "exit" => done
    /\ ~panicked

(* Where a target can be: offered by the source, in the hands of one       *)
(* goroutine or in one place of the sink, and never in two of these.       *)
Busy(w) == eng[w] \in {"probe", "send"}
OnePlace ==
    /\ HeldOnce
    /\ srcPc = "emit" =>
          Offered \in seen /\ ~Held(Offered) /\ \A w \in Worker : Busy(w) => job[w] # Offered
    /\ \A r : Held(r) => r \in seen
    /\ \A w \in Worker : Busy(w) => job[w] \in seen /\ ~Held(job[w])
    /\ \A v, w \in Worker : Busy(v) /\ Busy(w) /\ job[v] = job[w] => v = w

(* The last target of a source that gave up found no receiver. *)
Unreceived(t) == srcPc = "closed" /\ ctxDone /\ addr # -1 /\ t = Offered

(* A target the source has emitted is offered, in the hands of a goroutine *)
(* or in the sink, unless a Send gave it up or nobody received it.         *)
Placed(t) ==
    \/ srcPc = "emit" /\ t = Offered
    \/ \E w \in Worker : Busy(w) /\ job[w] = t
    \/ Held(t) \/ t \in dropped \/ Unreceived(t)
Emitted == \A t \in seen : Placed(t)

IInv ==
    /\ Typed /\ Bounded /\ Sourced /\ Ordered /\ InStep /\ Drains /\ OnePlace /\ Emitted
    /\ OnlyNamed /\ Uncut
-----------------------------------------------------------------------------
(* A step of a scan moves the source, one goroutine, the sink or main. *)
LEMMA StepKinds ==
    ASSUME [Next]_vars
    PROVE  \/ Stream
           \/ \E w \in Worker : Work(w)
           \/ run /\ UNCHANGED <<streamVars, engineVars, runVars>>
           \/ Alive /\ Main
           \/ /\ UNCHANGED <<engineVars, sinkVars, mainPc, config, source, seen>>
              /\ ctxDone => ctxDone'
              /\ srcPc = "fail" \/ UNCHANGED streamVars
              /\ srcPc = "fail" => UNCHANGED streamVars \/ srcPc' = "next"
              /\ UNCHANGED streamVars \/ TakeError
              /\ printer' = printer \/ (printer' = "done" /\ srcPc = "closed")
<1> USE DEF streamVars, runVars, engineVars
<1>1. CASE PrintError
    BY <1>1 DEF PrintError, TakeError
<1>2. CASE PrinterReturns
    BY <1>2 DEF PrinterReturns
<1>3. CASE SinkRun
    BY <1>3 DEF SinkRun
<1>4. CASE Cancel
    BY <1>4 DEF Cancel
<1>5. CASE UNCHANGED vars
    BY <1>5 DEF vars
<1> QED
    BY <1>1, <1>2, <1>3, <1>4, <1>5 DEF Next, Step, Terminated

(* What one goroutine does to the pool and to the sink. *)
LEMMA WorkKinds ==
    ASSUME NEW w \in Worker, Work(w)
    PROVE  /\ UNCHANGED <<runVars, config, source, entry, seen>>
           /\ srcPc' \in {"emit", "closed"} => srcPc' = srcPc /\ UNCHANGED streamVars
           /\ srcPc = "closed" => srcPc' = "closed"
           /\ srcPc' = "range" => srcPc \in {"emit", "range"}
           /\ eng[w] # "stopped"
           /\ UNCHANGED streamVars \/ TakeTarget
           /\ \/ /\ srcPc = "emit" /\ srcPc' # "emit" /\ UNCHANGED <<sinkVars, dropped>>
                 /\ eng[w] = "select" /\ eng' = [eng EXCEPT ![w] = "probe"]
                 /\ job' = [job EXCEPT ![w] = Offered]
              \/ /\ UNCHANGED <<job, sinkVars, dropped, streamVars>>
                 /\ \/ eng[w] = "select" /\ eng' = [eng EXCEPT ![w] = "stopped"]
                    \/ eng[w] = "probe" /\ eng' = [eng EXCEPT ![w] = "send"]
              \/ /\ eng[w] = "send" /\ eng' = [eng EXCEPT ![w] = "select"]
                 /\ job' = [job EXCEPT ![w] = None] /\ UNCHANGED streamVars
                 /\ \/ Enqueue(job[w]) /\ UNCHANGED dropped
                    \/ SendOnClosed /\ UNCHANGED dropped
                    \/ UNCHANGED sinkVars /\ dropped' = dropped \cup {job[w]} /\ ctxDone
<1> USE DEF streamVars, runVars, engineVars
<1>1. CASE Take(w)
    BY <1>1 DEF Take, TakeTarget, Receive
<1>2. CASE Proceed(w)
    BY <1>2 DEF Proceed, ProbeOne, WorkerReturns
<1>3. CASE SendResult(w)
    BY <1>3 DEF SendResult, SendRecord, Abandon
<1> QED
    BY <1>1, <1>2, <1>3 DEF Work

(* How the source moves, whoever takes part in the step. *)
LEMMA SourceMoves ==
    ASSUME [Next]_vars
    PROVE  \/ StartEntry \/ SourceEnds \/ ExpandAddress \/ RangeEnds(ctxDone) \/ GiveUp(ctxDone)
           \/ TakeTarget \/ TakeError \/ UNCHANGED streamVars
<1>1. ASSUME NEW w \in Worker, Work(w) PROVE TakeTarget \/ UNCHANGED streamVars
    BY <1>1, WorkKinds
<1>2. CASE Stream
    BY <1>2 DEF Stream, Produce
<1>3. ASSUME Main PROVE UNCHANGED streamVars
    BY <1>3 DEF Main, EngineReturns, ErrsPrinted, CloseSink, CleanOutputs
<1> QED
    BY <1>1, <1>2, <1>3, StepKinds

(* What the source works through is what its configuration names. *)
LEMMA SourceIs ==
    ASSUME Sourced
    PROVE  /\ source \in Seq(ParsedEntry) /\ Later(source, 1) = Names(config)
           /\ Len(source) \in Nat /\ DOMAIN source = 1..Len(source)
           /\ entry \in DOMAIN source => source[entry] \in ParsedEntry
<1>1. config \in SourceConfig /\ source = ParseSource(config)
    BY ScanRunAssumption DEF Sourced
<1>2. source \in Seq(ParsedEntry)
      /\ UNION {Expansion(source[i]) : i \in DOMAIN source} = Names(config)
    BY <1>1, SourceNames
<1>3. Len(source) \in Nat /\ DOMAIN source = 1..Len(source)
      /\ \A i \in DOMAIN source : source[i] \in ParsedEntry
    BY <1>2
<1> QED
    BY <1>2, <1>3 DEF Later

(* An address that arrives from an expansion makes a target. *)
LEMMA OfferedTarget ==
    ASSUME Sourced, srcPc \in {"range", "emit"}, More
    PROVE  Offered \in Target /\ Offered # None
<1>1. source[entry] \in ParsedEntry
    BY SourceIs DEF Sourced
<1> DEFINE e == source[entry]
<1>2. addr \in Address /\ (e.kind = "domain" \/ e.kind = "range")
    BY DEF More, Sourced
<1>3. /\ e.port \in Int
      /\ e.kind = "domain" => e.host \in Text
    BY <1>1, <1>2, EntryKinds DEF Invalid
<1>4. AddressText(addr) \in Text
    BY <1>2, AddressField
<1>5. Offered = [host |-> IF e.kind = "domain" THEN e.host ELSE AddressText(addr), port |-> e.port]
    BY DEF Offered
<1> HIDE DEF e
<1>6. Offered \in Target
    BY <1>3, <1>4, <1>5 DEF Target
<1> QED
    BY <1>6, ScanRunAssumption

(* The source emits a target it has not emitted before. *)
LEMMA StreamOffersNew ==
    ASSUME Sourced, Stream
    PROVE  /\ UNCHANGED <<sinkVars, engineVars, runVars, config, source>>
           /\ srcPc # "closed"
           /\ srcPc = "emit" => srcPc' = "closed" /\ ctxDone /\ addr' = addr /\ Offered' = Offered
           /\ \/ /\ srcPc' # "emit" /\ seen' = seen
              \/ /\ srcPc' = "emit" /\ srcPc = "range" /\ addr # -1 /\ addr' = addr
                 /\ Offered' = Offered /\ Offered \notin seen /\ seen' = seen \cup {Offered}
                 /\ Offered \in Target /\ Offered # None
<1>1. UNCHANGED <<sinkVars, engineVars, runVars>>
    BY DEF Stream
<1>2. CASE ExpandAddress
    <2>1. srcPc = "range" /\ More /\ UNCHANGED <<config, source, entry>>
        BY <1>2 DEF ExpandAddress
    <2>2. CASE Known
        BY <1>1, <1>2, <2>1, <2>2 DEF ExpandAddress
    <2>3. CASE ~Known
        <3>1. /\ srcPc' = "emit" /\ seen' = seen \cup {Offered} /\ Offered \notin seen
              /\ addr' = addr
            BY <1>2, <2>3 DEF ExpandAddress, Known
        <3>2. addr # -1 /\ Offered' = Offered
            BY <2>1, <3>1 DEF More, Offered
        <3>3. Offered \in Target /\ Offered # None
            BY <2>1, OfferedTarget
        <3> QED
            BY <1>1, <2>1, <3>1, <3>2, <3>3
    <2> QED
        BY <2>2, <2>3
<1>3. CASE StartEntry \/ SourceEnds \/ RangeEnds(ctxDone) \/ GiveUp(ctxDone)
    BY <1>1, <1>3 DEF StartEntry, SourceEnds, RangeEnds, GiveUp, Offered
<1> QED
    BY <1>2, <1>3 DEF Stream, Produce
-----------------------------------------------------------------------------
LEMMA TypedStep == Typed /\ Sourced /\ OnePlace /\ [Next]_vars => Typed'
<1> SUFFICES ASSUME Typed, Sourced, OnePlace, [Next]_vars PROVE Typed'
    OBVIOUS
<1>0. SinkOver(seen) /\ None \notin seen
    BY DEF Typed
<1>1. ASSUME UNCHANGED <<eng, job, sinkVars, seen, dropped>> PROVE Typed'
    BY <1>1 DEF Typed, SinkOver, sinkVars
<1>2. CASE Stream
    <2>1. UNCHANGED <<eng, job, sinkVars, dropped>> /\ (seen' = seen \/ seen' = seen \cup {Offered})
          /\ None \notin seen' /\ seen' \subseteq Target
        BY <1>0, <1>2, StreamOffersNew DEF engineVars, Typed
    <2>2. SinkOver(seen)'
        <3>1. \A q \in Seq(seen) : q \in Seq(seen')
            BY <2>1
        <3>2. UNCHANGED <<ch, log, writing, nextOut>>
            BY <2>1 DEF sinkVars
        <3>3. writing \in seen' \cup {None}
            BY <1>0, <2>1 DEF SinkOver
        <3> QED
            BY <1>0, <3>1, <3>2, <3>3 DEF SinkOver
    <2>3. job' \in [Worker -> seen' \cup {None}] /\ dropped' \subseteq seen'
        BY <2>1 DEF Typed
    <2>4. eng' \in [Worker -> {"select", "probe", "send", "stopped"}]
        BY <2>1 DEF Typed
    <2> QED
        BY <2>1, <2>2, <2>3, <2>4 DEF Typed, SinkOver
<1>3. ASSUME NEW w \in Worker, Work(w) PROVE Typed'
    <2>1. eng' \in [Worker -> {"select", "probe", "send", "stopped"}] /\ seen' = seen
        BY <1>3, WorkKinds DEF Typed
    <2>4. dropped' \subseteq seen
        BY <1>3, WorkKinds DEF Typed, OnePlace, Busy
    <2>2. CASE UNCHANGED sinkVars
        <3>1. job' \in [Worker -> seen \cup {None}]
            BY <1>3, WorkKinds DEF Typed, OnePlace
        <3> QED
            BY <2>1, <2>2, <2>4, <3>1 DEF Typed, SinkOver, sinkVars
    <2>3. CASE /\ job' = [job EXCEPT ![w] = None]
               /\ eng[w] = "send"
               /\ Enqueue(job[w]) \/ SendOnClosed
        <3>1. job' \in [Worker -> seen \cup {None}] /\ job[w] \in seen
            BY <2>3 DEF Typed, OnePlace, Busy
        <3>2. ch' \in Seq(seen) /\ UNCHANGED <<nextOut, log, writing>>
            BY <1>0, <2>3, <3>1, EnqueueHolds DEF SendOnClosed, SinkOver
        <3> QED
            BY <1>0, <2>1, <2>4, <3>1, <3>2 DEF Typed, SinkOver
    <2> QED
        BY <1>3, <2>2, <2>3, WorkKinds
<1>4. CASE run /\ UNCHANGED <<streamVars, engineVars, runVars>>
    <2>1. SinkOver(seen)'
        <3>1. \A R : R = seen => SinkOver(R)
            BY <1>0
        <3> QED
            BY <1>4, <3>1, RunHolds DEF OnePlace, streamVars, SinkOver
    <2> QED
        BY <1>4, <2>1 DEF Typed, engineVars, streamVars
<1>5. CASE Main
    <2>1. UNCHANGED <<eng, job, ch, nextOut, log, writing, seen, dropped>>
        BY <1>5 DEF Main, EngineReturns, ErrsPrinted, CloseSink, CloseChannel, CleanOutputs,
                    CleanOutput, engineVars, sinkVars, streamVars
    <2> QED
        BY <2>1 DEF Typed, SinkOver
<1> QED
    BY <1>1, <1>2, <1>3, <1>4, <1>5, StepKinds DEF engineVars

LEMMA SourcedStep == Sourced /\ [Next]_vars => Sourced'
<1> SUFFICES ASSUME Sourced, [Next]_vars PROVE Sourced'
    OBVIOUS
<1>1. /\ Len(source) \in Nat /\ DOMAIN source = 1..Len(source)
      /\ entry \in DOMAIN source => source[entry] \in ParsedEntry
    BY SourceIs
<1>2. /\ config \in Configs /\ source = ParseSource(config) /\ entry \in 1..(Len(source) + 1)
      /\ addr \in Address \cup {-1}
    BY DEF Sourced
<1>3. entry \in 1..Len(source) => entry + 1 \in 1..(Len(source) + 1)
    BY <1>1
<1> DEFINE e == source[entry]
<1>4. ASSUME NextOffer # -1, srcPc \in {"range", "emit"}, More
      PROVE  e.kind = "range" /\ NextOffer \in Address /\ e.first <= NextOffer
    <2>1. e.kind = "range" /\ NextOffer = NextAddress(addr) /\ InRange(e, addr) /\ addr \in Address
        BY <1>2, <1>4 DEF NextOffer, More
    <2>2. NextOffer \in Address /\ NextOffer = addr + 1
        BY <1>4, <2>1, FromNext
    <2>3. e.first <= addr /\ e.first \in Address
        BY <1>1, <1>4, <2>1, EntryKinds, AddressType DEF Sourced, InRangeEntry, Invalid
    <2>4. addr \in Nat /\ e.first \in Nat
        BY <2>1, <2>3, AddressType
    <2> HIDE DEF e
    <2> QED
        BY <2>1, <2>2, <2>3, <2>4
<1>5. NextOffer \in Address \cup {-1} \/ ~More \/ srcPc \notin {"range", "emit"}
    BY <1>4
<1>6. CASE StartEntry
    <2>1. /\ srcPc' = (IF e.kind = "invalid" THEN "fail" ELSE "range")
          /\ addr' = CASE e.kind = "range" -> e.first [] e.kind = "domain" -> 0
                       [] e.kind = "invalid" -> -1
          /\ UNCHANGED <<config, source, entry>> /\ entry \in DOMAIN source
        BY <1>6 DEF StartEntry
    <2>2. CASE e = Invalid /\ e.kind = "invalid"
        BY <1>2, <2>1, <2>2 DEF Sourced, InRangeEntry
    <2>3. CASE e.kind = "domain"
        BY <1>2, <2>1, <2>3, AddressType DEF Sourced, InRangeEntry, Invalid
    <2>4. CASE e.kind = "range" /\ e.first \in Address
        <3>1. \A n \in Nat : n <= n
            OBVIOUS
        <3>2. e.first <= e.first
            BY <2>4, <3>1, AddressType
        <3> QED
            BY <1>2, <2>1, <2>4, <3>2 DEF Sourced, InRangeEntry, Invalid
    <2> QED
        BY <1>1, <2>1, <2>2, <2>3, <2>4, EntryKinds
<1>7. CASE SourceEnds \/ GiveUp(ctxDone)
    BY <1>2, <1>7 DEF SourceEnds, GiveUp, Sourced, InRangeEntry
<1>8. CASE ExpandAddress
    <2>1. /\ srcPc = "range" /\ More /\ UNCHANGED <<config, source, entry>>
          /\ \/ srcPc' = "range" /\ addr' = NextOffer
             \/ srcPc' = "emit" /\ addr' = addr
        BY <1>8 DEF ExpandAddress
    <2>2. CASE srcPc' = "range" /\ addr' = NextOffer
        BY <1>2, <1>4, <1>5, <2>1, <2>2 DEF Sourced, InRangeEntry
    <2>3. CASE srcPc' = "emit" /\ addr' = addr
        <3>1. More'
            BY <2>1, <2>3 DEF More
        <3> QED
            BY <1>2, <2>1, <2>3, <3>1 DEF Sourced, InRangeEntry
    <2> QED
        BY <2>1, <2>2, <2>3
<1>9. CASE RangeEnds(ctxDone) \/ TakeError
    <2>1. /\ srcPc' = "next" /\ entry' = entry + 1 /\ UNCHANGED <<config, source>>
          /\ addr' \in Address \cup {-1} /\ entry \in 1..Len(source)
        BY <1>1, <1>2, <1>9 DEF RangeEnds, TakeError, Sourced
    <2> QED
        BY <1>2, <1>3, <2>1 DEF Sourced, InRangeEntry
<1>10. CASE TakeTarget
    <2>1. srcPc = "emit" /\ srcPc' = "range" /\ addr' = NextOffer /\ UNCHANGED <<config, source, entry>>
        BY <1>10 DEF TakeTarget
    <2>2. More
        BY <2>1 DEF Sourced
    <2> QED
        BY <1>2, <1>4, <1>5, <2>1, <2>2 DEF Sourced, InRangeEntry
<1>11. CASE UNCHANGED streamVars
    BY <1>11 DEF Sourced, InRangeEntry, More, streamVars
<1> QED
    BY <1>6, <1>7, <1>8, <1>9, <1>10, <1>11, SourceMoves

LEMMA OrderedStep == Typed /\ Sourced /\ Ordered /\ [Next]_vars => Ordered'
<1> SUFFICES ASSUME Typed, Sourced, Ordered, [Next]_vars PROVE Ordered'
    OBVIOUS
<1> USE DEF Ordered
<1>1. CASE Stream
    BY <1>1, StreamOffersNew DEF engineVars, sinkVars, runVars, PoolStopped
<1>2. ASSUME NEW w \in Worker, Work(w) PROVE Ordered'
    <2>1. /\ mainPc = "run" /\ UNCHANGED <<mainPc, printer>> /\ ~chClosed
          /\ srcPc = "closed" => srcPc' = "closed"
        BY <1>2, WorkKinds DEF PoolStopped, runVars
    <2>2. UNCHANGED <<chClosed, panicked>>
        BY <1>2, <2>1, WorkKinds DEF Enqueue, SendOnClosed, sinkVars
    <2> QED
        BY <2>1, <2>2
<1>3. CASE run /\ UNCHANGED <<streamVars, engineVars, runVars>>
    BY <1>3 DEF run, Dequeue, Write, RunReturns, engineVars, streamVars, runVars, PoolStopped
<1>4. CASE Main
    BY <1>4 DEF Main, EngineReturns, ErrsPrinted, CloseSink, CloseChannel, CleanOutputs,
                CleanOutput, engineVars, sinkVars, streamVars, PoolStopped
<1>5. ASSUME UNCHANGED <<engineVars, sinkVars, mainPc>>,
             srcPc = "fail" \/ UNCHANGED streamVars,
             printer' = printer \/ (printer' = "done" /\ srcPc = "closed")
      PROVE  Ordered'
    <2>1. UNCHANGED <<eng, chClosed, panicked, done, mainPc>> /\ (srcPc = "closed" => srcPc' = "closed")
        BY <1>5 DEF sinkVars, engineVars, streamVars
    <2>2. mainPc \in {"close", "clean", "exit"} => printer' = "done"
        BY <1>5
    <2> QED
        BY <1>5, <2>1, <2>2 DEF PoolStopped
<1> QED
    BY <1>1, <1>2, <1>3, <1>4, <1>5, StepKinds

LEMMA SinkStepOrder == Typed /\ InStep /\ Drains /\ [Next]_vars => InStep' /\ Drains'
<1> SUFFICES ASSUME Typed, InStep, Drains, [Next]_vars PROVE InStep' /\ Drains'
    OBVIOUS
<1>1. PICK R : SinkOver(R)
    BY DEF Typed
<1>2. CASE run
    BY <1>1, <1>2, RunInStep, DrainsStep
<1>3. ASSUME \/ CloseChannel \/ CleanOutput \/ SendOnClosed \/ UNCHANGED sinkVars
             \/ \E rec : Enqueue(rec)
      PROVE  InStep' /\ Drains'
    <2>1. UNCHANGED <<writing, nextOut, log>>
        BY <1>3 DEF CloseChannel, CleanOutput, SendOnClosed, Enqueue, sinkVars
    <2> QED
        BY <1>3, <2>1, OthersInStep, DrainsStep
<1>4. ASSUME Main PROVE CloseChannel \/ CleanOutput \/ UNCHANGED sinkVars
    BY <1>4 DEF Main, EngineReturns, ErrsPrinted, CloseSink, CleanOutputs
<1>5. ASSUME Stream PROVE UNCHANGED sinkVars
    BY <1>5 DEF Stream
<1>6. ASSUME NEW w \in Worker, Work(w)
      PROVE  (\E rec : Enqueue(rec)) \/ SendOnClosed \/ UNCHANGED sinkVars
    BY <1>6, WorkKinds
<1> QED
    BY <1>2, <1>3, <1>4, <1>5, <1>6, StepKinds
-----------------------------------------------------------------------------
LEMMA OnePlaceStep == Typed /\ Sourced /\ OnePlace /\ [Next]_vars => OnePlace'
<1> SUFFICES ASSUME Typed, Sourced, OnePlace, [Next]_vars PROVE OnePlace'
    OBVIOUS
<1>2. PICK R : R = seen /\ SinkOver(R)
    BY DEF Typed
<1>3. ASSUME CloseChannel \/ CleanOutput \/ SendOnClosed \/ UNCHANGED sinkVars
      PROVE  HeldOnce' /\ \A r : Held(r)' <=> Held(r)
    BY <1>2, <1>3, OthersHold DEF OnePlace
<1>4. CASE Stream
    <2>1. HeldOnce' /\ (\A r : Held(r)' <=> Held(r)) /\ UNCHANGED <<eng, job>> /\ seen \subseteq seen'
        BY <1>3, <1>4, StreamOffersNew DEF engineVars
    <2>2. ASSUME srcPc' = "emit"
          PROVE  Offered' \in seen' /\ ~Held(Offered) /\ Offered' = Offered
                 /\ \A w \in Worker : Busy(w) => job[w] # Offered
        BY <1>4, <2>2, StreamOffersNew DEF OnePlace
    <2> QED
        BY <2>1, <2>2 DEF OnePlace, Busy
<1>5. ASSUME NEW w \in Worker, Work(w) PROVE OnePlace'
    <2>1. /\ seen' = seen
          /\ srcPc' = "emit" => srcPc = "emit" /\ Offered' = Offered
        BY <1>5, WorkKinds DEF streamVars, Offered
    <2>2. /\ eng \in [Worker -> {"select", "probe", "send", "stopped"}]
          /\ job \in [Worker -> R \cup {None}]
        BY <1>2 DEF Typed
    <2>3. CASE /\ srcPc = "emit" /\ srcPc' # "emit" /\ UNCHANGED sinkVars
               /\ eng[w] = "select" /\ eng' = [eng EXCEPT ![w] = "probe"]
               /\ job' = [job EXCEPT ![w] = Offered]
        <3>1. HeldOnce' /\ \A r : Held(r)' <=> Held(r)
            BY <1>3, <2>3
        <3>2. \A v \in Worker : /\ Busy(v)' <=> Busy(v) \/ v = w
                                /\ job'[v] = IF v = w THEN Offered ELSE job[v]
            BY <2>2, <2>3 DEF Busy
        <3> QED
            BY <2>1, <2>3, <3>1, <3>2 DEF OnePlace
    <2>4. CASE /\ UNCHANGED <<job, sinkVars>>
               /\ \/ eng[w] = "select" /\ eng' = [eng EXCEPT ![w] = "stopped"]
                  \/ eng[w] = "probe" /\ eng' = [eng EXCEPT ![w] = "send"]
        <3>1. HeldOnce' /\ \A r : Held(r)' <=> Held(r)
            BY <1>3, <2>4
        <3>2. \A v \in Worker : Busy(v)' <=> Busy(v)
            BY <2>2, <2>4 DEF Busy
        <3> QED
            BY <2>1, <2>4, <3>1, <3>2 DEF OnePlace
    <2>5. CASE /\ eng[w] = "send" /\ eng' = [eng EXCEPT ![w] = "select"]
               /\ job' = [job EXCEPT ![w] = None]
               /\ Enqueue(job[w]) \/ SendOnClosed \/ UNCHANGED sinkVars
        <3>1. \A v \in Worker : /\ Busy(v)' <=> Busy(v) /\ v # w
                                /\ v # w => job'[v] = job[v]
            BY <2>2, <2>5 DEF Busy
        <3>2. job[w] \in R /\ job[w] \in seen /\ ~Held(job[w]) /\ Busy(w)
            BY <1>2, <2>5 DEF OnePlace, Busy
        <3>3. HeldOnce' /\ \A r : Held(r)' => r = job[w] \/ Held(r)
            <4>1. CASE Enqueue(job[w])
                BY <1>2, <3>2, <4>1, EnqueueHolds, EnqueueHeldOnce DEF OnePlace
            <4>2. CASE SendOnClosed \/ UNCHANGED sinkVars
                BY <1>3, <4>2
            <4> QED
                BY <2>5, <4>1, <4>2
        <3>4. srcPc' = "emit" => /\ Offered' \in seen' /\ ~(Held(Offered)')
                                 /\ \A v \in Worker : Busy(v)' => job'[v] # Offered'
            <4>1. srcPc' = "emit" => Offered' # job[w] /\ Offered' \in seen /\ ~Held(Offered)
                BY <2>1, <3>2 DEF OnePlace
            <4>2. ASSUME srcPc' = "emit", NEW v \in Worker, Busy(v)' PROVE job'[v] # Offered'
                BY <2>1, <3>1, <4>2 DEF OnePlace
            <4> QED
                BY <2>1, <3>3, <4>1, <4>2
        <3>5. \A r : Held(r)' => r \in seen'
            BY <2>1, <3>2, <3>3 DEF OnePlace
        <3>6. ASSUME NEW v \in Worker, Busy(v)'
              PROVE  job'[v] \in seen' /\ ~(Held(job[v])')
            <4>1. Busy(v) /\ v # w /\ job'[v] = job[v]
                BY <3>1, <3>6 DEF Busy
            <4>2. job[v] \in seen /\ ~Held(job[v]) /\ job[v] # job[w]
                BY <3>2, <4>1 DEF OnePlace
            <4> QED
                BY <2>1, <3>3, <4>1, <4>2
        <3>7. \A u, v \in Worker : Busy(u)' /\ Busy(v)' /\ job'[u] = job'[v] => u = v
            BY <3>1 DEF OnePlace
        <3> QED
            BY <3>1, <3>3, <3>4, <3>5, <3>6, <3>7 DEF OnePlace
    <2> QED
        BY <1>5, <2>3, <2>4, <2>5, WorkKinds
<1>6. CASE run /\ UNCHANGED <<streamVars, engineVars, runVars>>
    <2>1. HeldOnce' /\ \A r : Held(r)' => Held(r)
        BY <1>2, <1>6, RunHolds DEF OnePlace
    <2>2. UNCHANGED <<eng, job, srcPc, seen, source, entry, addr>> /\ Offered' = Offered
        BY <1>6 DEF engineVars, streamVars, Offered
    <2> QED
        BY <2>1, <2>2 DEF OnePlace, Busy
<1>7. CASE Main
    <2>1. /\ UNCHANGED <<eng, job, srcPc, seen, source, entry, addr>>
          /\ CloseChannel \/ CleanOutput \/ UNCHANGED sinkVars
        BY <1>7 DEF Main, EngineReturns, ErrsPrinted, CloseSink, CleanOutputs, engineVars, streamVars
    <2>2. Offered' = Offered
        BY <2>1 DEF Offered
    <2> QED
        BY <1>3, <2>1, <2>2 DEF OnePlace, Busy
<1>8. CASE /\ UNCHANGED <<engineVars, sinkVars, seen>>
           /\ srcPc' = "emit" => UNCHANGED streamVars
    <2>1. srcPc' = "emit" => srcPc = "emit" /\ Offered' = Offered
        BY <1>8 DEF streamVars, Offered
    <2> QED
        BY <1>3, <1>8, <2>1 DEF OnePlace, Busy, engineVars
<1> QED
    BY <1>4, <1>5, <1>6, <1>7, <1>8, StepKinds
-----------------------------------------------------------------------------
LEMMA EmittedStep ==
    Typed /\ Sourced /\ Ordered /\ OnePlace /\ Emitted /\ [Next]_vars => Emitted'
<1> SUFFICES ASSUME Typed, Sourced, Ordered, OnePlace, Emitted, [Next]_vars, NEW t \in seen'
             PROVE  Placed(t)'
    BY DEF Emitted
<1> USE DEF streamVars, engineVars, runVars
<1>1. SinkOver(seen) /\ None \notin seen /\ (t \in seen => Placed(t))
    BY DEF Typed, Emitted
<1>2. UNCHANGED sinkVars => (Held(t)' <=> Held(t))
    BY DEF sinkVars, Held, InChannel, InLog
<1>3. CASE Stream
    <2>1. UNCHANGED <<sinkVars, engineVars, runVars>>
        BY <1>3, StreamOffersNew
    <2>2. CASE t \notin seen
        BY <1>3, <2>2, StreamOffersNew DEF Placed
    <2>3. CASE srcPc = "emit" /\ t = Offered
        BY <1>3, <2>1, <2>3, StreamOffersNew DEF Placed, Unreceived, Sourced, More
    <2>4. CASE Held(t) \/ t \in dropped \/ \E w \in Worker : Busy(w) /\ job[w] = t
        BY <1>2, <2>1, <2>4 DEF Placed, Busy
    <2> QED
        BY <1>1, <1>3, <2>2, <2>3, <2>4, StreamOffersNew DEF Placed, Unreceived
<1>4. ASSUME NEW w \in Worker, Work(w) PROVE Placed(t)'
    <2>1. eng \in [Worker -> {"select", "probe", "send", "stopped"}] /\ seen' = seen
          /\ job \in [Worker -> seen \cup {None}]
        BY <1>4, WorkKinds DEF Typed
    <2>2. CASE Unreceived(t)
        BY <1>4, <2>2, WorkKinds DEF Unreceived, Placed, Offered
    <2>3. CASE /\ srcPc = "emit" /\ UNCHANGED <<sinkVars, dropped>>
               /\ eng[w] = "select" /\ eng' = [eng EXCEPT ![w] = "probe"]
               /\ job' = [job EXCEPT ![w] = Offered]
        <3>1. \A v \in Worker : Busy(v) => Busy(v)' /\ job'[v] = job[v]
            BY <2>1, <2>3 DEF Busy
        <3>2. Busy(w)' /\ job'[w] = Offered
            BY <2>1, <2>3 DEF Busy
        <3> QED
            BY <1>1, <1>2, <2>1, <2>3, <3>1, <3>2 DEF Placed, Unreceived
    <2>4. CASE /\ UNCHANGED <<job, sinkVars, dropped, streamVars>>
               /\ \/ eng[w] = "select" /\ eng' = [eng EXCEPT ![w] = "stopped"]
                  \/ eng[w] = "probe" /\ eng' = [eng EXCEPT ![w] = "send"]
        <3>1. \A v \in Worker : Busy(v)' <=> Busy(v)
            BY <2>1, <2>4 DEF Busy
        <3>2. Offered' = Offered
            BY <2>4 DEF Offered
        <3> QED
            BY <1>1, <1>2, <2>1, <2>2, <2>4, <3>1, <3>2 DEF Placed
    <2>5. CASE /\ eng[w] = "send" /\ eng' = [eng EXCEPT ![w] = "select"]
               /\ job' = [job EXCEPT ![w] = None] /\ UNCHANGED streamVars
               /\ \/ Enqueue(job[w]) /\ UNCHANGED dropped
                  \/ SendOnClosed /\ UNCHANGED dropped
                  \/ UNCHANGED sinkVars /\ dropped' = dropped \cup {job[w]}
        <3>1. \A v \in Worker \ {w} : (Busy(v)' <=> Busy(v)) /\ job'[v] = job[v]
            BY <2>1, <2>5 DEF Busy
        <3>2. Offered' = Offered
            BY <2>5 DEF Offered
        <3>3. Held(t) \/ (t = job[w] /\ Enqueue(job[w])) => Held(t)'
            <4>1. CASE Enqueue(job[w])
                <5>1. job[w] \in seen
                    BY <2>5 DEF OnePlace, Busy
                <5> QED
                    BY <1>1, <4>1, <5>1, EnqueueHolds
            <4>2. CASE SendOnClosed \/ UNCHANGED sinkVars
                BY <4>2 DEF SendOnClosed, Enqueue, sinkVars, Held, InChannel, InLog
            <4> QED
                BY <2>5, <4>1, <4>2
        <3>4. ~SendOnClosed
            BY <2>5 DEF Ordered, PoolStopped, SendOnClosed
        <3> QED
            BY <1>1, <2>1, <2>2, <2>5, <3>1, <3>2, <3>3, <3>4 DEF Placed
    <2> QED
        BY <1>4, <2>3, <2>4, <2>5, WorkKinds
<1>5. CASE run /\ UNCHANGED <<streamVars, engineVars, runVars>>
    <2>1. Held(t) => Held(t)'
        BY <1>1, <1>5, RunLosesNothing
    <2>2. Offered' = Offered
        BY <1>5 DEF Offered
    <2> QED
        BY <1>1, <1>5, <2>1, <2>2 DEF Placed, Busy, Unreceived
<1>6. CASE Main
    <2>1. UNCHANGED <<streamVars, engineVars, ctxDone, ch, log, writing>>
        BY <1>6 DEF Main, EngineReturns, ErrsPrinted, CloseSink, CloseChannel, CleanOutputs,
                    CleanOutput, sinkVars
    <2>2. Offered' = Offered /\ (Held(t)' <=> Held(t))
        BY <2>1 DEF Offered, Held, InChannel, InLog
    <2> QED
        BY <1>1, <2>1, <2>2 DEF Placed, Busy, Unreceived
<1>7. CASE /\ UNCHANGED <<engineVars, sinkVars, seen>>
           /\ ctxDone => ctxDone'
           /\ srcPc = "fail" \/ UNCHANGED streamVars
    <2>1. UNCHANGED streamVars => Offered' = Offered
        BY DEF Offered
    <2> QED
        BY <1>1, <1>2, <1>7, <2>1 DEF Placed, Busy, Unreceived
<1> QED
    BY <1>3, <1>4, <1>5, <1>6, <1>7, StepKinds
-----------------------------------------------------------------------------
(* What is left: the entries one by one, and a block address by address. *)
LEMMA LaterEntries ==
    ASSUME Sourced
    PROVE  /\ Later(source, Len(source) + 1) = {}
           /\ entry \in DOMAIN source =>
                 Later(source, entry) = Expansion(source[entry]) \cup Later(source, entry + 1)
<1>1. Len(source) \in Nat /\ DOMAIN source = 1..Len(source)
    BY SourceIs
<1>2. (Len(source) + 1)..Len(source) = {}
    BY <1>1
<1>3. entry \in DOMAIN source => entry..Len(source) = {entry} \cup (entry + 1)..Len(source)
    BY <1>1
<1> QED
    BY <1>2, <1>3 DEF Later

LEMMA RestFirst ==
    ASSUME NEW e \in ParsedEntry
    PROVE  /\ e.kind = "range" => Rest(e, e.first) = Expansion(e)
           /\ e.kind = "domain" => Rest(e, 0) = Expansion(e)
           /\ e = Invalid => Expansion(e) = {}
<1>1. ASSUME e.kind = "range" PROVE Rest(e, e.first) = Expansion(e)
    <2>1. e.first \in Nat
        BY <1>1, EntryKinds, AddressType DEF Invalid
    <2>2. e.first # -1
        BY <2>1
    <2> QED
        BY <1>1, <2>2, FromFirst DEF Rest, Expansion
<1>2. e.kind = "domain" => Rest(e, 0) = Expansion(e)
    BY DEF Rest
<1>3. e = Invalid => Expansion(e) = {}
    BY DEF Invalid, Expansion
<1> QED
    BY <1>1, <1>2, <1>3

LEMMA RestNext ==
    ASSUME Sourced, srcPc \in {"range", "emit"}, More
    PROVE  Rest(source[entry], addr) = {Offered} \cup Rest(source[entry], NextOffer)
<1> DEFINE e == source[entry]
<1>1. /\ addr \in Address /\ addr # -1
      /\ e.kind = "domain" \/ (e.kind = "range" /\ InRange(e, addr))
    BY DEF More, Sourced
<1>2. Offered = [host |-> IF e.kind = "domain" THEN e.host ELSE AddressText(addr), port |-> e.port]
    BY DEF Offered
<1>3. NextOffer = IF e.kind = "range" THEN NextAddress(addr) ELSE -1
    BY DEF NextOffer
<1> HIDE DEF e
<1>4. CASE e.kind = "domain"
    BY <1>1, <1>2, <1>3, <1>4 DEF Rest, Expansion, e
<1>5. CASE e.kind = "range"
    <2> DEFINE T(b) == [host |-> AddressText(b), port |-> e.port]
               n == NextAddress(addr)
    <2>1. From(e, addr) = {addr} \cup (IF n = -1 THEN {} ELSE From(e, n))
        BY <1>1, <1>5, FromNext
    <2>2. Rest(e, addr) = {T(b) : b \in From(e, addr)}
        BY <1>1, <1>5 DEF Rest
    <2>3. Rest(e, n) = {T(b) : b \in (IF n = -1 THEN {} ELSE From(e, n))}
        BY <1>5 DEF Rest
    <2>4. Offered = T(addr) /\ NextOffer = n
        BY <1>2, <1>3, <1>5
    <2> HIDE DEF T, n
    <2>5. Rest(e, addr) = {T(addr)} \cup Rest(e, n)
        BY <2>1, <2>2, <2>3
    <2> QED
        BY <2>4, <2>5 DEF e
<1> QED
    BY <1>1, <1>4, <1>5

LEMMA RestEnd ==
    ASSUME Sourced, srcPc = "range", ~More
    PROVE  Rest(source[entry], addr) = {}
<1> DEFINE e == source[entry]
<1>1. e \in ParsedEntry /\ e # Invalid /\ addr \in Address \cup {-1}
    BY SourceIs DEF Sourced
<1>2. CASE addr = -1
    BY <1>2 DEF Rest
<1>3. CASE addr # -1
    <2>1. addr \in Address /\ e.kind = "range" /\ ~InRange(e, addr)
        BY <1>1, <1>3, EntryKinds DEF More
    <2>2. e.first <= addr
        BY <1>3, <2>1 DEF Sourced, InRangeEntry
    <2>3. From(e, addr) = {}
        <3> HIDE DEF e
        <3> QED
            BY <1>1, <2>1, <2>2, FromEnd
    <2> QED
        BY <2>1, <2>3 DEF Rest
<1> QED
    BY <1>2, <1>3

(* A step of the source makes up no target, and loses none but to the      *)
(* context.                                                                *)
LEMMA LeftKept ==
    ASSUME Sourced, Sourced', [Next]_vars
    PROVE  /\ seen' \cup Left' \subseteq seen \cup Left
           /\ ~ctxDone => seen \cup Left \subseteq seen' \cup Left'
<1> DEFINE e == source[entry]
<1>1. /\ entry \in DOMAIN source => e \in ParsedEntry
      /\ srcPc \in {"range", "emit", "fail"} => entry \in DOMAIN source
      /\ srcPc = "fail" => e = Invalid
    BY SourceIs DEF Sourced
<1>2. CASE StartEntry
    <2>1. /\ srcPc = "next" /\ entry \in DOMAIN source
          /\ UNCHANGED <<source, entry, seen>>
          /\ srcPc' = (IF e.kind = "invalid" THEN "fail" ELSE "range")
          /\ addr' = CASE e.kind = "range" -> e.first [] e.kind = "domain" -> 0
                       [] e.kind = "invalid" -> -1
        BY <1>2 DEF StartEntry
    <2>2. Left = Expansion(e) \cup Later(source, entry + 1)
        BY <2>1, LaterEntries DEF Left
    <2>3. CASE e = Invalid /\ e.kind = "invalid"
        <3>1. Left' = Later(source, entry + 1)
            BY <2>1, <2>3 DEF Left
        <3> QED
            BY <1>1, <2>1, <2>2, <2>3, <3>1, RestFirst
    <2>4. CASE e.kind \in {"domain", "range"}
        <3>1. Left' = Rest(e, addr') \cup Later(source, entry + 1)
            BY <2>1, <2>4 DEF Left
        <3>2. Rest(e, addr') = Expansion(e)
            BY <1>1, <2>1, <2>4, RestFirst
        <3> QED
            BY <2>1, <2>2, <3>1, <3>2
    <2> QED
        BY <1>1, <2>1, <2>3, <2>4, EntryKinds
<1>3. CASE SourceEnds
    <2>1. Left = {} /\ Left' = {} /\ seen' = seen
        BY <1>3, LaterEntries DEF SourceEnds, Left
    <2> QED
        BY <2>1
<1>4. CASE ExpandAddress
    <2>1. srcPc = "range" /\ More /\ UNCHANGED <<source, entry>>
        BY <1>4 DEF ExpandAddress
    <2>2. Left = {Offered} \cup Rest(e, NextOffer) \cup Later(source, entry + 1)
        BY <2>1, RestNext DEF Left
    <2>3. CASE Known
        <3>1. srcPc' = "range" /\ addr' = NextOffer /\ seen' = seen /\ Offered \in seen
            BY <1>4, <2>1, <2>3 DEF ExpandAddress, Known
        <3>2. Left' = Rest(e, NextOffer) \cup Later(source, entry + 1)
            BY <2>1, <3>1 DEF Left
        <3> QED
            BY <2>2, <3>1, <3>2
    <2>4. CASE ~Known
        <3>1. srcPc' = "emit" /\ addr' = addr /\ seen' = seen \cup {Offered}
            BY <1>4, <2>1, <2>4 DEF ExpandAddress
        <3>2. NextOffer' = NextOffer
            BY <2>1, <3>1 DEF NextOffer
        <3>3. Left' = Rest(e, NextOffer) \cup Later(source, entry + 1)
            BY <2>1, <3>1, <3>2 DEF Left
        <3> QED
            BY <2>2, <3>1, <3>3
    <2> QED
        BY <2>3, <2>4
<1>5. CASE RangeEnds(ctxDone)
    <2>1. /\ srcPc = "range" /\ srcPc' = "next" /\ entry' = entry + 1 /\ UNCHANGED <<source, seen>>
          /\ ~More \/ ctxDone
        BY <1>5 DEF RangeEnds
    <2>2. Left = Rest(e, addr) \cup Later(source, entry + 1) /\ Left' = Later(source, entry + 1)
        BY <2>1 DEF Left
    <2> QED
        BY <2>1, <2>2, RestEnd
<1>6. CASE GiveUp(ctxDone)
    <2>1. Left' = {} /\ seen' = seen /\ ctxDone
        BY <1>6 DEF GiveUp, Left
    <2> QED
        BY <2>1
<1>7. CASE TakeTarget
    <2>1. /\ srcPc = "emit" /\ srcPc' = "range" /\ addr' = NextOffer
          /\ UNCHANGED <<source, entry, seen>>
        BY <1>7 DEF TakeTarget
    <2>2. Left' = Left
        BY <2>1 DEF Left
    <2> QED
        BY <2>1, <2>2
<1>8. CASE TakeError
    <2>1. /\ srcPc = "fail" /\ srcPc' = "next" /\ entry' = entry + 1 /\ UNCHANGED <<source, seen>>
        BY <1>8 DEF TakeError
    <2>2. Left' = Left
        BY <2>1 DEF Left
    <2> QED
        BY <2>1, <2>2
<1>9. CASE UNCHANGED streamVars
    <2>1. Left' = Left /\ seen' = seen
        BY <1>9 DEF streamVars, Left, NextOffer
    <2> QED
        BY <2>1
<1> QED
    BY <1>2, <1>3, <1>4, <1>5, <1>6, <1>7, <1>8, <1>9, SourceMoves

LEMMA CompletenessStep ==
    Sourced /\ Sourced' /\ OnlyNamed /\ Uncut /\ [Next]_vars => OnlyNamed' /\ Uncut'
<1> SUFFICES ASSUME Sourced, Sourced', OnlyNamed, Uncut, [Next]_vars PROVE OnlyNamed' /\ Uncut'
    OBVIOUS
<1>1. /\ seen' \cup Left' \subseteq seen \cup Left
      /\ ~ctxDone => seen \cup Left \subseteq seen' \cup Left'
    BY LeftKept
<1>2. config' = config
    BY SourceMoves DEF StartEntry, SourceEnds, ExpandAddress, RangeEnds, GiveUp, TakeTarget,
                       TakeError, streamVars
<1>3. OnlyNamed'
    BY <1>1, <1>2 DEF OnlyNamed
<1>4. (ctxDone => ctxDone') /\ (~ctxDone => dropped' = dropped)
    <2>1. ASSUME NEW w \in Worker, Work(w) PROVE ctxDone' = ctxDone /\ (~ctxDone => dropped' = dropped)
        BY <2>1, WorkKinds DEF runVars
    <2>2. CASE Stream \/ Main \/ UNCHANGED <<engineVars, runVars>>
        BY <2>2 DEF Stream, Main, EngineReturns, ErrsPrinted, CloseSink, CleanOutputs, engineVars, runVars
    <2> QED
        BY <2>1, <2>2, StepKinds DEF engineVars
<1>5. Uncut'
    BY <1>1, <1>2, <1>4 DEF Uncut
<1> QED
    BY <1>3, <1>5

-----------------------------------------------------------------------------
LEMMA BoundedStep == Typed /\ Bounded /\ OnePlace /\ [Next]_vars => Bounded'
<1> SUFFICES ASSUME Typed, Bounded, OnePlace, [Next]_vars PROVE Bounded'
    OBVIOUS
<1> USE DEF Bounded
<1>1. CASE Stream
    BY <1>1, StreamOffersNew DEF Stream, sinkVars, runVars
<1>2. ASSUME NEW w \in Worker, Work(w) PROVE Bounded'
    <2>1. UNCHANGED <<ctxDone, printer>>
        BY <1>2, WorkKinds DEF runVars
    <2>2. CASE UNCHANGED sinkVars
        BY <2>1, <2>2 DEF sinkVars
    <2>3. CASE eng[w] = "send" /\ Enqueue(job[w])
        <3>1. ch \in Seq(seen) /\ job[w] \in seen
            BY <2>3 DEF Typed, SinkOver, OnePlace, Busy
        <3>2. Len(ch') <= Capacity
            BY <2>3, <3>1, AppendContents, SinkAssumption DEF Enqueue
        <3> QED
            BY <2>1, <2>3, <3>2 DEF Enqueue
    <2>4. CASE SendOnClosed
        BY <2>1, <2>4 DEF SendOnClosed
    <2> QED
        BY <1>2, <2>2, <2>3, <2>4, WorkKinds
<1>3. CASE run /\ UNCHANGED <<streamVars, engineVars, runVars>>
    <2>1. Len(ch') <= Capacity
        <3>1. CASE Dequeue
            <4>1. ch \in Seq(seen) /\ ch # <<>> /\ ch' = Tail(ch)
                BY <3>1 DEF Dequeue, Typed, SinkOver
            <4>2. Len(ch') = Len(ch) - 1 /\ Len(ch) \in Nat
                BY <4>1, TailContents
            <4> QED
                BY <4>2, SinkAssumption
        <3> QED
            BY <1>3, <3>1 DEF run, Write, RunReturns
    <2> QED
        BY <1>3, <2>1 DEF run, Dequeue, Write, RunReturns, runVars
<1>4. CASE Main
    <2>1. CASE CleanOutputs
        <3>1. cleaned' \in 0..NumOutputs
            BY <2>1, SinkAssumption DEF CleanOutputs, CleanOutput
        <3> QED
            BY <2>1, <3>1 DEF CleanOutputs, CleanOutput
    <2>2. CASE EngineReturns \/ ErrsPrinted \/ CloseSink
        BY <2>2 DEF EngineReturns, ErrsPrinted, CloseSink, CloseChannel, sinkVars
    <2> QED
        BY <1>4, <2>1, <2>2 DEF Main
<1>5. ASSUME UNCHANGED sinkVars, ctxDone' \in BOOLEAN, printer' \in {"draining", "done"} PROVE Bounded'
    BY <1>5 DEF sinkVars
<1>6. CASE PrintError \/ PrinterReturns \/ Cancel \/ UNCHANGED vars
    BY <1>5, <1>6 DEF PrintError, PrinterReturns, Cancel, vars, runVars
<1>7. CASE SinkRun
    BY <1>3, <1>7 DEF SinkRun
<1> QED
    BY <1>1, <1>2, <1>4, <1>6, <1>7 DEF Next, Step, Terminated

LEMMA TypedSuffices == Typed /\ Bounded /\ Sourced /\ Ordered => TypeOK
<1> SUFFICES ASSUME Typed, Bounded, Sourced, Ordered PROVE TypeOK
    OBVIOUS
<1>1. SinkOver(seen) /\ seen \subseteq Target
    BY DEF Typed
<1>2. \A q \in Seq(seen) : q \in Seq(Target)
    BY <1>1
<1>3. SinkTypeOK(Target)
    BY <1>1, <1>2 DEF SinkOver, SinkTypeOK, Bounded
<1>4. EngineTypeOK(Target)
    BY <1>1 DEF Typed, EngineTypeOK
<1>5. StreamTypeOK
    BY <1>1 DEF Sourced, More, StreamTypeOK, Target
<1> QED
    BY <1>3, <1>4, <1>5 DEF TypeOK, Bounded, Ordered
-----------------------------------------------------------------------------
LEMMA InitIInv == Init => IInv
<1> SUFFICES ASSUME Init PROVE IInv
    OBVIOUS
<1> USE DEF Init, StreamInit, NewSink, NewEngine
<1>1. log[NumOutputs] = <<>> /\ \A o \in Outputs : log[o] = <<>> /\ ~(o < 1)
    BY OutputRange DEF Outputs
<1>2. Typed /\ Emitted
    BY OutputRange DEF Typed, SinkOver, Emitted
<1>3. \A r : ~Held(r)
    BY <1>1 DEF Held, InChannel, InLog
<1>4. HeldOnce
    BY <1>1 DEF HeldOnce, Distinct, InChannel, InLog
<1>5. OnePlace
    BY <1>3, <1>4 DEF OnePlace, Busy
<1>6. Ordered /\ InStep /\ Drains
    BY <1>1, OutputRange DEF Ordered, InStep, SameOrder, Drains
<1>7. Bounded
    <2>1. Len(ch) = 0 /\ 0 <= Capacity /\ 0 \in 0..NumOutputs
        BY SinkAssumption
    <2>2. chClosed = FALSE /\ done = FALSE /\ panicked = FALSE /\ ctxDone = FALSE
        OBVIOUS
    <2>3. Len(ch) <= Capacity /\ cleaned \in 0..NumOutputs /\ printer = "draining"
        BY <2>1
    <2> QED
        BY <2>2, <2>3 DEF Bounded
<1>8. Sourced
    <2>1. Len(source) \in Nat
        BY ScanRunAssumption, SourceNames
    <2> QED
        BY <2>1 DEF Sourced, InRangeEntry
<1>9. OnlyNamed /\ Uncut
    BY <1>8, SourceIs DEF OnlyNamed, Uncut, Left
<1> QED
    BY <1>2, <1>5, <1>6, <1>7, <1>8, <1>9 DEF IInv

LEMMA StepIInv == IInv /\ [Next]_vars => IInv'
BY TypedStep, BoundedStep, SourcedStep, OrderedStep, SinkStepOrder, OnePlaceStep, EmittedStep,
   CompletenessStep DEF IInv

LEMMA Invariance == Spec => []IInv
BY InitIInv, StepIInv, PTL DEF Spec

(* Every variable keeps its type: the queue its capacity, the address its  *)
(* width, what the sources offer and the sink holds are targets.           *)
THEOREM ScanTyped == Spec => []TypeOK
<1>1. IInv => TypeOK
    BY TypedSuffices DEF IInv
<1> QED
    BY <1>1, Invariance, PTL

(* No goroutine of the pool sends on the closed channel: runSingleHost     *)
(* closes the sink after eng.Run, which waits for all of them.             *)
THEOREM PoolSendsBeforeClose == Spec => []NoSendOnClosed
<1>1. IInv => NoSendOnClosed
    BY DEF IInv, Ordered, PoolStopped, NoSendOnClosed
<1> QED
    BY <1>1, Invariance, PTL

(* No output is written a target twice, however often the entries name it  *)
(* and whichever goroutines probe: emit's map of keys and the channel that *)
(* hands each target to one goroutine see to it.                           *)
THEOREM ScanWritesOnce == Spec => []OneRecordEach
<1>1. IInv => OneRecordEach
    <2> SUFFICES ASSUME IInv, NEW o \in Outputs PROVE Distinct(log[o])
        BY DEF OneRecordEach, Distinct
    <2>1. PICK R : SinkOver(R)
        BY DEF IInv, Typed
    <2> QED
        BY <2>1, WrittenOnce DEF IInv, OnePlace
<1> QED
    BY <1>1, Invariance, PTL

(* The outputs see the records in one order, the promise of type Sink. *)
THEOREM ScanSameOrder == Spec => []SameOrder
<1>1. IInv => SameOrder
    BY DEF IInv, InStep
<1> QED
    BY <1>1, Invariance, PTL

LEMMA EmittedAtExit ==
    ASSUME IInv, mainPc = "exit", NEW t \in seen
    PROVE  (\A o \in Outputs : InLog(o, t)) \/ t \in dropped \/ Unreceived(t)
<1>1. srcPc = "closed" /\ done /\ \A w \in Worker : ~Busy(w)
    BY DEF IInv, Ordered, PoolStopped, Busy
<1>2. Held(t) \/ t \in dropped \/ Unreceived(t)
    BY <1>1 DEF IInv, Emitted, Placed
<1>3. ASSUME Held(t), NEW o \in Outputs PROVE InLog(o, t)
    <2>1. ch = <<>> /\ writing = None /\ t # None
        BY <1>1 DEF IInv, Drains, Typed
    <2>2. InLog(NumOutputs, t)
        BY <1>3, <2>1 DEF Held, InChannel
    <2>3. nextOut = 1 /\ ~(o < 1)
        BY <2>1 DEF IInv, InStep, Outputs
    <2>4. log[o] = log[NumOutputs]
        BY <2>3 DEF IInv, InStep, SameOrder, Outputs
    <2> QED
        BY <2>2, <2>4 DEF InLog
<1> QED
    BY <1>2, <1>3

(* At the exit every target the source emitted to the pool has its record  *)
(* in every output, or its Send gave up on the context, or it is the last, *)
(* which found no receiver: nothing is lost between the engine and Close.  *)
THEOREM ScanEmittedAccounted == Spec => []EmittedAccounted
<1>1. IInv => EmittedAccounted
    BY EmittedAtExit DEF EmittedAccounted, Unreceived
<1> QED
    BY <1>1, Invariance, PTL

(* Clean follows the last Write: Close waits for run() to return. *)
THEOREM ScanCleansLast == Spec => []CleanAfterDrain
<1>1. IInv => CleanAfterDrain
    BY DrainedBeforeClean DEF IInv
<1> QED
    BY <1>1, Invariance, PTL

(* A scan whose context was not done has, when it exits, a record in every *)
(* output of every target that its configuration names, and of no other:   *)
(* whatever the flags, the files, the errors among the entries, the pool,  *)
(* the queue and the order of the goroutines.                              *)
THEOREM ScanComplete == Spec => []CompleteUnlessCancelled
<1>1. IInv => CompleteUnlessCancelled
    <2> SUFFICES ASSUME IInv, mainPc = "exit", ~ctxDone, NEW o \in Outputs
                 PROVE  {log[o][i] : i \in DOMAIN log[o]} = Names(config)
        BY DEF CompleteUnlessCancelled
    <2>1. srcPc = "closed" /\ Left = {}
        BY DEF IInv, Ordered, Left
    <2>2. seen = Names(config) /\ dropped = {}
        BY <2>1 DEF IInv, OnlyNamed, Uncut
    <2>3. \A t \in seen : InLog(o, t)
        BY <2>2, EmittedAtExit DEF Unreceived
    <2>4. \A i \in DOMAIN log[o] : log[o][i] \in seen
        BY DEF IInv, Typed, SinkOver
    <2> QED
        BY <2>2, <2>3, <2>4 DEF InLog
<1> QED
    BY <1>1, Invariance, PTL

(* Nothing is probed that the configuration does not name, cancelled or    *)
(* not: no block is overrun, no port and no host is made up.               *)
ProbesOnlyNamed == \A w \in Worker : job[w] # None => job[w] \in Names(config)

THEOREM ScanProbesOnlyNamed == Spec => []ProbesOnlyNamed
<1>1. IInv => ProbesOnlyNamed
    BY DEF IInv, Typed, OnlyNamed, ProbesOnlyNamed
<1> QED
    BY <1>1, Invariance, PTL
=============================================================================
