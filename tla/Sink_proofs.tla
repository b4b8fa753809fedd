----------------------------- MODULE Sink_proofs -----------------------------
(***************************************************************************)
(* Lemmas about the sink, for any records, queue capacity and number of    *)
(* outputs: what each of its steps does to the records it holds, to their  *)
(* order and to their being held once.  The programs that own a sink cite  *)
(* them.                                                                   *)
(***************************************************************************)
EXTENDS Sink, TLAPS

(* The types the lemmas need: records of some set R. *)
SinkOver(R) ==
    /\ ch \in Seq(R)
    /\ nextOut \in Outputs
    /\ log \in [Outputs -> Seq(R)]
    /\ writing \in R \cup {None}

Distinct(s) == \A i, j \in DOMAIN s : s[i] = s[j] => i = j

(* A record the sink holds: buffered, being written, or written everywhere. *)
Held(r) == InChannel(r) \/ (writing # None /\ writing = r) \/ InLog(NumOutputs, r)

(* No record is held in two places. *)
HeldOnce ==
    /\ Distinct(ch) /\ Distinct(log[NumOutputs])
    /\ \A r : InChannel(r) => ~InLog(NumOutputs, r)
    /\ writing # None => ~InChannel(writing) /\ ~InLog(NumOutputs, writing)

(* Between two records every output is at the same point. *)
InStep == SameOrder /\ (writing = None => nextOut = 1)

(* run() returns when there is nothing left to write, Clean comes after.   *)
Drains ==
    /\ done => chClosed /\ ch = <<>> /\ writing = None
    /\ cleaned > 0 => done
-----------------------------------------------------------------------------
LEMMA OutputRange ==
    /\ NumOutputs \in Nat \ {0}
    /\ NumOutputs \in Outputs /\ 1 \in Outputs
    /\ \A o \in Outputs : o \in Nat /\ (o # NumOutputs => o + 1 \in Outputs /\ o < NumOutputs)
BY SinkAssumption DEF Outputs

LEMMA AppendContents ==
    ASSUME NEW S, NEW s \in Seq(S), NEW x \in S
    PROVE  /\ Append(s, x) \in Seq(S)
           /\ Len(Append(s, x)) = Len(s) + 1
           /\ \A y : (\E k \in DOMAIN Append(s, x) : Append(s, x)[k] = y)
                       <=> y = x \/ \E k \in DOMAIN s : s[k] = y
<1>1. /\ Append(s, x) \in Seq(S)
      /\ Len(Append(s, x)) = Len(s) + 1
      /\ DOMAIN s = 1..Len(s)
      /\ DOMAIN Append(s, x) = 1..(Len(s) + 1)
      /\ Len(s) \in Nat
    OBVIOUS
<1>2. /\ \A k \in 1..Len(s) : Append(s, x)[k] = s[k]
      /\ Append(s, x)[Len(s) + 1] = x
    OBVIOUS
<1> QED
    BY <1>1, <1>2

LEMMA TailContents ==
    ASSUME NEW S, NEW s \in Seq(S), s # <<>>
    PROVE  /\ Head(s) \in S
           /\ Tail(s) \in Seq(S)
           /\ Len(Tail(s)) = Len(s) - 1
           /\ Len(s) \in Nat \ {0}
           /\ \A y : (\E k \in DOMAIN s : s[k] = y)
                       <=> y = Head(s) \/ \E k \in DOMAIN Tail(s) : Tail(s)[k] = y
<1>1. /\ Head(s) \in S
      /\ Tail(s) \in Seq(S)
      /\ Len(Tail(s)) = Len(s) - 1
      /\ Len(s) \in Nat \ {0}
      /\ DOMAIN s = 1..Len(s)
      /\ DOMAIN Tail(s) = 1..(Len(s) - 1)
    OBVIOUS
<1>2. /\ \A k \in 1..(Len(s) - 1) : Tail(s)[k] = s[k + 1]
      /\ Head(s) = s[1]
    OBVIOUS
<1>3. \A k \in 1..Len(s) : k = 1 \/ (k - 1 \in 1..(Len(s) - 1) /\ k = (k - 1) + 1)
    BY <1>1
<1>4. ASSUME NEW y, NEW k \in 1..Len(s), s[k] = y
      PROVE  y = Head(s) \/ \E j \in 1..(Len(s) - 1) : Tail(s)[j] = y
    BY <1>2, <1>3, <1>4
<1>5. ASSUME NEW y, NEW j \in 1..(Len(s) - 1), Tail(s)[j] = y
      PROVE  \E k \in 1..Len(s) : s[k] = y
    <2>1. j + 1 \in 1..Len(s)
        BY <1>1
    <2> QED
        BY <1>2, <1>5, <2>1
<1>6. 1 \in 1..Len(s)
    BY <1>1
<1> QED
    BY <1>1, <1>2, <1>4, <1>5, <1>6

LEMMA AppendDistinct ==
    ASSUME NEW S, NEW s \in Seq(S), NEW x \in S, Distinct(s), \A k \in DOMAIN s : s[k] # x
    PROVE  Distinct(Append(s, x))
<1>1. /\ DOMAIN s = 1..Len(s)
      /\ DOMAIN Append(s, x) = 1..(Len(s) + 1)
      /\ Len(s) \in Nat
      /\ \A k \in 1..Len(s) : Append(s, x)[k] = s[k]
      /\ Append(s, x)[Len(s) + 1] = x
    OBVIOUS
<1> SUFFICES ASSUME NEW i \in 1..(Len(s) + 1), NEW j \in 1..(Len(s) + 1),
                    Append(s, x)[i] = Append(s, x)[j]
             PROVE  i = j
    BY <1>1 DEF Distinct
<1>2. CASE i \in 1..Len(s) /\ j \in 1..Len(s)
    BY <1>1, <1>2 DEF Distinct
<1>3. CASE i = Len(s) + 1 \/ j = Len(s) + 1
    BY <1>1, <1>3
<1> QED
    BY <1>1, <1>2, <1>3

LEMMA TailDistinct ==
    ASSUME NEW S, NEW s \in Seq(S), s # <<>>, Distinct(s)
    PROVE  /\ Distinct(Tail(s))
           /\ \A k \in DOMAIN Tail(s) : Tail(s)[k] # Head(s)
<1>1. /\ DOMAIN s = 1..Len(s)
      /\ DOMAIN Tail(s) = 1..(Len(s) - 1)
      /\ Len(s) \in Nat \ {0}
      /\ \A k \in 1..(Len(s) - 1) : Tail(s)[k] = s[k + 1]
      /\ Head(s) = s[1]
    OBVIOUS
<1>2. \A k \in 1..(Len(s) - 1) : k + 1 \in 1..Len(s) /\ k + 1 # 1
    BY <1>1
<1>3. 1 \in 1..Len(s)
    BY <1>1
<1>4. Distinct(Tail(s))
    <2> SUFFICES ASSUME NEW i \in 1..(Len(s) - 1), NEW j \in 1..(Len(s) - 1),
                        Tail(s)[i] = Tail(s)[j]
                 PROVE  i = j
        BY <1>1 DEF Distinct
    <2>1. i + 1 = j + 1
        BY <1>1, <1>2 DEF Distinct
    <2> QED
        BY <1>1, <2>1
<1>5. ASSUME NEW k \in 1..(Len(s) - 1)
      PROVE  Tail(s)[k] # Head(s)
    BY <1>1, <1>2, <1>3 DEF Distinct
<1> QED
    BY <1>1, <1>4, <1>5
-----------------------------------------------------------------------------
(* Send: the channel takes a record that is nowhere in the sink. *)
LEMMA EnqueueHolds ==
    ASSUME NEW R, SinkOver(R), NEW rec \in R, Enqueue(rec)
    PROVE  /\ ch' \in Seq(R) /\ UNCHANGED <<nextOut, log, writing>>
           /\ \A r : InChannel(r)' <=> r = rec \/ InChannel(r)
           /\ \A r : Held(r)' <=> r = rec \/ Held(r)
<1>1. ch \in Seq(R) /\ ch' = Append(ch, rec) /\ UNCHANGED <<nextOut, log, writing>>
    BY DEF SinkOver, Enqueue
<1>2. ch' \in Seq(R) /\ \A r : InChannel(r)' <=> r = rec \/ InChannel(r)
    BY <1>1, AppendContents DEF InChannel
<1> QED
    BY <1>1, <1>2 DEF Held, InLog

LEMMA EnqueueHeldOnce ==
    ASSUME NEW R, SinkOver(R), HeldOnce, NEW rec \in R, Enqueue(rec), ~Held(rec)
    PROVE  HeldOnce'
<1>1. /\ UNCHANGED <<nextOut, log, writing>>
      /\ \A r : InChannel(r)' <=> r = rec \/ InChannel(r)
    BY EnqueueHolds
<1>2. Distinct(ch')
    <2>1. \A k \in DOMAIN ch : ch[k] # rec
        BY DEF Held, InChannel
    <2>2. ch \in Seq(R) /\ ch' = Append(ch, rec) /\ Distinct(ch)
        BY DEF SinkOver, Enqueue, HeldOnce
    <2> QED
        BY <2>1, <2>2, AppendDistinct
<1>3. \A r : InLog(NumOutputs, r)' <=> InLog(NumOutputs, r)
    BY <1>1 DEF InLog
<1>4. \A r : InChannel(r)' => ~InLog(NumOutputs, r)'
    BY <1>1, <1>3 DEF HeldOnce, Held
<1>5. writing' # None => ~InChannel(writing)' /\ ~InLog(NumOutputs, writing)'
    BY <1>1, <1>3 DEF HeldOnce, Held
<1> QED
    BY <1>1, <1>2, <1>4, <1>5 DEF HeldOnce

(* run(): what is written was held, and stays held in one place. *)
LEMMA DequeueHolds ==
    ASSUME NEW R, SinkOver(R), HeldOnce, Dequeue
    PROVE  SinkOver(R)' /\ HeldOnce' /\ \A r : Held(r)' => Held(r)
<1>1. /\ ch \in Seq(R) /\ ch # <<>> /\ writing = None
      /\ ch' = Tail(ch) /\ writing' = Head(ch) /\ UNCHANGED <<nextOut, log>>
    BY DEF Dequeue, SinkOver
<1>2. /\ Tail(ch) \in Seq(R) /\ Head(ch) \in R
      /\ \A r : InChannel(r) <=> r = writing' \/ InChannel(r)'
    BY <1>1, TailContents DEF InChannel
<1>3. Distinct(ch') /\ ~InChannel(writing)'
    BY <1>1, TailDistinct DEF HeldOnce, InChannel
<1>4. \A r : InLog(NumOutputs, r)' <=> InLog(NumOutputs, r)
    BY <1>1 DEF InLog
<1>5. SinkOver(R)'
    BY <1>1, <1>2 DEF SinkOver
<1>6. HeldOnce'
    BY <1>1, <1>2, <1>3, <1>4 DEF HeldOnce
<1>7. \A r : Held(r)' => Held(r)
    BY <1>2, <1>4 DEF Held
<1> QED
    BY <1>5, <1>6, <1>7

LEMMA WriteAppends ==
    ASSUME NEW R, SinkOver(R), Write
    PROVE  \A r : InLog(NumOutputs, r)'
                     <=> (nextOut = NumOutputs /\ r = writing) \/ InLog(NumOutputs, r)
<1>1. /\ writing \in R /\ nextOut \in Outputs /\ log \in [Outputs -> Seq(R)]
      /\ log' = [log EXCEPT ![nextOut] = Append(@, writing)]
    BY DEF Write, SinkOver
<1>2. log[NumOutputs] \in Seq(R) /\ writing \in R
    BY <1>1, OutputRange
<1>3. log'[NumOutputs] = IF nextOut = NumOutputs THEN Append(log[NumOutputs], writing)
                                                 ELSE log[NumOutputs]
    BY <1>1, OutputRange
<1>4. \A s \in Seq(R), x \in R : \A y :
         (\E k \in DOMAIN Append(s, x) : Append(s, x)[k] = y)
             <=> y = x \/ \E k \in DOMAIN s : s[k] = y
    BY AppendContents
<1>5. \A y : (\E k \in DOMAIN Append(log[NumOutputs], writing) :
                  Append(log[NumOutputs], writing)[k] = y)
             <=> y = writing \/ \E k \in DOMAIN log[NumOutputs] : log[NumOutputs][k] = y
    BY <1>2, <1>4
<1> QED
    BY <1>3, <1>5 DEF InLog

LEMMA WriteHolds ==
    ASSUME NEW R, SinkOver(R), HeldOnce, Write
    PROVE  SinkOver(R)' /\ HeldOnce' /\ \A r : Held(r)' => Held(r)
<1>1. /\ writing \in R /\ writing # None /\ nextOut \in Outputs
      /\ log \in [Outputs -> Seq(R)]
      /\ log' = [log EXCEPT ![nextOut] = Append(@, writing)]
      /\ IF nextOut = NumOutputs
         THEN writing' = None /\ nextOut' = 1
         ELSE writing' = writing /\ nextOut' = nextOut + 1
      /\ ch' = ch
    BY DEF Write, SinkOver
<1>2. log[nextOut] \in Seq(R) /\ Append(log[nextOut], writing) \in Seq(R)
    BY <1>1, AppendContents
<1>3. log' \in [Outputs -> Seq(R)]
    BY <1>1, <1>2
<1>4. SinkOver(R)'
    BY <1>1, <1>3, OutputRange DEF SinkOver
<1>5. \A r : InChannel(r)' <=> InChannel(r)
    BY <1>1 DEF InChannel
<1>6. CASE nextOut = NumOutputs
    <2>1. log'[NumOutputs] = Append(log[NumOutputs], writing) /\ writing' = None
        BY <1>1, <1>6, OutputRange
    <2>2. \A r : InLog(NumOutputs, r)' <=> r = writing \/ InLog(NumOutputs, r)
        BY <1>6, WriteAppends
    <2>3. \A k \in DOMAIN log[NumOutputs] : log[NumOutputs][k] # writing
        BY <1>1 DEF HeldOnce, InLog
    <2>4. Distinct(log'[NumOutputs])
        BY <1>1, <1>2, <1>6, <2>1, <2>3, AppendDistinct DEF HeldOnce
    <2>5. HeldOnce'
        BY <1>1, <1>5, <2>1, <2>2, <2>4 DEF HeldOnce
    <2>6. \A r : Held(r)' => Held(r)
        BY <1>1, <1>5, <2>1, <2>2 DEF Held
    <2> QED
        BY <1>4, <2>5, <2>6
<1>7. CASE nextOut # NumOutputs
    <2>1. log'[NumOutputs] = log[NumOutputs] /\ writing' = writing
        BY <1>1, <1>7, OutputRange
    <2>2. \A r : InLog(NumOutputs, r)' <=> InLog(NumOutputs, r)
        BY <2>1 DEF InLog
    <2>3. HeldOnce'
        BY <1>1, <1>5, <2>1, <2>2 DEF HeldOnce
    <2>4. \A r : Held(r)' => Held(r)
        BY <1>5, <2>1, <2>2 DEF Held
    <2> QED
        BY <1>4, <2>3, <2>4
<1> QED
    BY <1>6, <1>7

LEMMA RunHolds ==
    ASSUME NEW R, SinkOver(R), HeldOnce, run
    PROVE  SinkOver(R)' /\ HeldOnce' /\ \A r : Held(r)' => Held(r)
<1>1. CASE RunReturns
    BY <1>1 DEF RunReturns, SinkOver, HeldOnce, Held, InChannel, InLog
<1> QED
    BY <1>1, DequeueHolds, WriteHolds DEF run

(* What the sink holds stays in it. *)
LEMMA RunLosesNothing ==
    ASSUME NEW R, SinkOver(R), None \notin R, run, NEW r, Held(r)
    PROVE  Held(r)'
<1>1. CASE RunReturns
    BY <1>1 DEF RunReturns, Held, InChannel, InLog
<1>2. CASE Dequeue
    <2>1. /\ ch \in Seq(R) /\ ch # <<>> /\ writing = None
          /\ ch' = Tail(ch) /\ writing' = Head(ch) /\ log' = log
        BY <1>2 DEF Dequeue, SinkOver
    <2>2. Head(ch) \in R /\ (InChannel(r) => r = Head(ch) \/ InChannel(r)')
        BY <2>1, TailContents DEF InChannel
    <2> QED
        BY <2>1, <2>2 DEF Held, InLog
<1>3. CASE Write
    <2>1. InChannel(r)' <=> InChannel(r)
        BY <1>3 DEF Write, InChannel
    <2>2. nextOut # NumOutputs => writing' = writing
        BY <1>3 DEF Write
    <2> QED
        BY <1>3, <2>1, <2>2, WriteAppends DEF Held
<1> QED
    BY <1>1, <1>2, <1>3 DEF run

(* The steps that touch no record. *)
LEMMA OthersHold ==
    ASSUME NEW R, SinkOver(R), CloseChannel \/ CleanOutput \/ SendOnClosed \/ UNCHANGED sinkVars
    PROVE  SinkOver(R)' /\ (HeldOnce => HeldOnce') /\ \A r : Held(r)' <=> Held(r)
<1>1. UNCHANGED <<ch, writing, log, nextOut>>
    BY DEF CloseChannel, CleanOutput, SendOnClosed, sinkVars
<1> QED
    BY <1>1 DEF SinkOver, HeldOnce, Held, InChannel, InLog
-----------------------------------------------------------------------------
(* The order of the writes, and what follows the end of run(). *)
LEMMA WriteInStep ==
    ASSUME NEW R, SinkOver(R), InStep, Write
    PROVE  InStep'
<1>1. /\ writing # None /\ nextOut \in Outputs
      /\ log \in [Outputs -> Seq(R)]
      /\ log' = [log EXCEPT ![nextOut] = Append(@, writing)]
      /\ IF nextOut = NumOutputs
         THEN writing' = None /\ nextOut' = 1
         ELSE writing' = writing /\ nextOut' = nextOut + 1
    BY DEF Write, SinkOver
<1>2. /\ \A o \in Outputs : o < nextOut => log[o] = Append(log[NumOutputs], writing)
      /\ \A o \in Outputs : o >= nextOut => log[o] = log[NumOutputs]
    BY DEF InStep, SameOrder
<1>3. \A o \in Outputs : log'[o] = IF o = nextOut THEN Append(log[o], writing) ELSE log[o]
    BY <1>1
<1>4. log[nextOut] = log[NumOutputs]
    BY <1>1, <1>2, OutputRange
<1>5. CASE nextOut = NumOutputs
    <2>1. \A o \in Outputs : o < nextOut \/ o = nextOut
        BY <1>5, OutputRange
    <2>2. \A o \in Outputs : log'[o] = Append(log[NumOutputs], writing)
        BY <1>2, <1>3, <1>4, <2>1, OutputRange
    <2>3. \A o \in Outputs : ~(o < 1)
        BY DEF Outputs
    <2> QED
        BY <1>1, <1>5, <2>2, <2>3, OutputRange DEF InStep, SameOrder
<1>6. CASE nextOut # NumOutputs
    <2>1. log'[NumOutputs] = log[NumOutputs]
        BY <1>3, <1>6, OutputRange
    <2>2. \A o \in Outputs : o < nextOut + 1 => o < nextOut \/ o = nextOut
        BY <1>1, OutputRange
    <2>3. \A o \in Outputs : o >= nextOut + 1 => o >= nextOut /\ o # nextOut
        BY <1>1, OutputRange
    <2>4. \A o \in Outputs : o < nextOut' => log'[o] = Append(log'[NumOutputs], writing')
        BY <1>1, <1>2, <1>3, <1>4, <1>6, <2>1, <2>2
    <2>5. \A o \in Outputs : o >= nextOut' => log'[o] = log'[NumOutputs]
        BY <1>1, <1>2, <1>3, <1>6, <2>1, <2>3
    <2> QED
        BY <1>1, <1>6, <2>4, <2>5 DEF InStep, SameOrder
<1> QED
    BY <1>5, <1>6

LEMMA DequeueInStep ==
    ASSUME InStep, Dequeue
    PROVE  InStep'
<1>1. nextOut = 1 /\ UNCHANGED <<nextOut, log>>
    BY DEF InStep, Dequeue
<1>2. \A o \in Outputs : ~(o < 1) /\ o >= 1
    BY DEF Outputs
<1> QED
    BY <1>1, <1>2 DEF InStep, SameOrder

LEMMA RunInStep ==
    ASSUME NEW R, SinkOver(R), InStep, run
    PROVE  InStep'
<1>1. CASE RunReturns
    BY <1>1 DEF RunReturns, InStep, SameOrder
<1> QED
    BY <1>1, DequeueInStep, WriteInStep DEF run

LEMMA OthersInStep ==
    ASSUME InStep, UNCHANGED <<writing, nextOut, log>>
    PROVE  InStep'
BY DEF InStep, SameOrder

LEMMA DrainsStep ==
    ASSUME Drains, \/ run \/ CloseChannel \/ CleanOutput \/ SendOnClosed
                   \/ UNCHANGED sinkVars \/ \E rec : Enqueue(rec)
    PROVE  Drains'
<1> USE DEF Drains
<1>1. CASE run
    BY <1>1 DEF run, Dequeue, Write, RunReturns
<1>2. CASE CloseChannel \/ CleanOutput \/ SendOnClosed \/ UNCHANGED sinkVars
    BY <1>2 DEF CloseChannel, CleanOutput, SendOnClosed, sinkVars
<1>3. CASE \E rec : Enqueue(rec)
    BY <1>3 DEF Enqueue
<1> QED
    BY <1>1, <1>2, <1>3

LEMMA DrainedBeforeClean == Drains => CleanAfterDrain
BY DEF Drains, CleanAfterDrain

(* No output is written a record twice: each has what the last one has,    *)
(* and perhaps the record in hand, which that one has not.                 *)
LEMMA WrittenOnce ==
    ASSUME NEW R, SinkOver(R), HeldOnce, InStep, NEW o \in Outputs
    PROVE  Distinct(log[o])
<1>1. log[NumOutputs] \in Seq(R) /\ nextOut \in Nat /\ o \in Nat
    BY OutputRange DEF SinkOver
<1>2. CASE o >= nextOut
    BY <1>2 DEF InStep, SameOrder, HeldOnce
<1>3. CASE o < nextOut
    <2>1. log[o] = Append(log[NumOutputs], writing)
        BY <1>3 DEF InStep, SameOrder
    <2>2. writing # None
        <3>1. ~(o < 1)
            BY DEF Outputs
        <3> QED
            BY <1>3, <3>1 DEF InStep
    <2>3. writing \in R /\ \A k \in DOMAIN log[NumOutputs] : log[NumOutputs][k] # writing
        BY <2>2 DEF SinkOver, HeldOnce, InLog
    <2> QED
        BY <1>1, <2>1, <2>3, AppendDistinct DEF HeldOnce
<1> QED
    BY <1>1, <1>2, <1>3
=============================================================================
