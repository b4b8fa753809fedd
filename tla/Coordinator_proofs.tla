------------------------- MODULE Coordinator_proofs -------------------------
(***************************************************************************)
(* Proofs about the coordinator, for any number of callers, workers,       *)
(* targets and outputs and any queue capacity: its state is well typed, a  *)
(* target is pushed to one worker at most, what was dealt is accounted     *)
(* for, a completed rendezvous is never aborted, the coordinator           *)
(* implements StaticPush, no record is written twice, and a shutdown       *)
(* leaves a record of every target that was pushed.                        *)
(***************************************************************************)
EXTENDS Coordinator, Sink_proofs

(* Who holds which slot: the first arrived slots are taken, once each, by  *)
(* the calls that got past register; ready marks the last arrival.         *)
Seating ==
    /\ \A c \in Caller : gt[c] \in {"idle", "called"} => slot[c] = None
    /\ \A c \in Caller : gt[c] \in {"wait", "push", "ok"} => slot[c] # None
    /\ \A c \in Caller : slot[c] # None => slot[c] < arrived
    /\ \A c, d \in Caller : slot[c] = slot[d] /\ slot[c] # None => c = d
    /\ \A k \in Slots(arrived) : \E c \in Caller : slot[c] = k
    /\ ready <=> arrived = Workers

(* Before the last arrival nothing is dealt; after, shares are disjoint.   *)
Dealing ==
    /\ ~ready => pending = {} /\ \A k \in Slots(Workers) : shards[k] = {}
    /\ \A j, k \in Slots(Workers) : j # k => shards[j] \cap shards[k] = {}
    /\ \A c \in Caller : gt[c] = "push" => ready
    /\ \A c \in Caller : slot[c] = None => sent[c] = {}
    /\ \A c \in Caller : slot[c] # None => sent[c] \subseteq shards[slot[c]]

Handles(c, t) == rr[c] \in {"claim", "send"} /\ cur[c] = t

(* Where results come from: a handler works on a target it has read, which *)
(* was sent to it, and no record of it has been made yet.                  *)
Results ==
    /\ \A c \in Caller : got[c] \subseteq sent[c]
    /\ \A c \in Caller : rr[c] \in {"claim", "send"} => cur[c] \in got[c]
    /\ \A t \in Target : Accepted(Real(t)) \/ Real(t) \in dropped =>
          \E c \in Caller : t \in got[c] /\ ~Handles(c, t)

IInv == TypeOK /\ Seating /\ Dealing /\ Results /\ Accounted
-----------------------------------------------------------------------------
(* The sink: what a Send adds to it, and that its consumer loses nothing.  *)

LEMMA EnqueueAccepts ==
    ASSUME SinkTypeOK(Record), NEW rec \in Record, Enqueue(rec)
    PROVE  /\ SinkTypeOK(Record)'
           /\ panicked' = panicked
           /\ \A r : Accepted(r)' <=> r = rec \/ Accepted(r)
<1>1. /\ ch \in Seq(Record) /\ Len(ch) < Capacity /\ Capacity \in Nat /\ Len(ch) \in Nat
      /\ ch' = Append(ch, rec)
      /\ chClosed' = chClosed /\ writing' = writing /\ nextOut' = nextOut
      /\ done' = done /\ log' = log /\ cleaned' = cleaned /\ panicked' = panicked
    BY SinkAssumption DEF SinkTypeOK, Enqueue
<1>2. ch' \in Seq(Record) /\ Len(ch') <= Capacity
    BY <1>1, AppendContents
<1>3. \A r : InChannel(r)' <=> r = rec \/ InChannel(r)
    BY <1>1, AppendContents DEF InChannel
<1> QED
    BY <1>1, <1>2, <1>3 DEF SinkTypeOK, Accepted, InLog

LEMMA RunKeeps ==
    ASSUME SinkTypeOK(Record), run
    PROVE  /\ SinkTypeOK(Record)'
           /\ panicked' = panicked
           /\ \A r \in Record : Accepted(r)' <=> Accepted(r)
<1>0. /\ None \notin Record
      /\ NumOutputs \in Nat \ {0} /\ NumOutputs \in Outputs /\ 1 \in Outputs
      /\ Capacity \in Nat \ {0}
    BY SinkAssumption, CoordinatorAssumption DEF Outputs
<1>1. CASE Dequeue
    <2>1. /\ ch \in Seq(Record) /\ ch # <<>> /\ Len(ch) <= Capacity /\ writing = None
          /\ ch' = Tail(ch) /\ writing' = Head(ch)
          /\ chClosed' = chClosed /\ nextOut' = nextOut
          /\ done' = done /\ log' = log /\ cleaned' = cleaned /\ panicked' = panicked
        BY <1>1 DEF Dequeue, SinkTypeOK
    <2>2. /\ ch' \in Seq(Record) /\ Len(ch') <= Capacity /\ writing' \in Record
        BY <1>0, <2>1, TailContents
    <2>3. \A r : InChannel(r) <=> r = writing' \/ InChannel(r)'
        <3>1. \A y : (\E k \in DOMAIN ch : ch[k] = y)
                      <=> y = Head(ch) \/ \E k \in DOMAIN Tail(ch) : Tail(ch)[k] = y
            BY <2>1, TailContents
        <3> QED
            BY <2>1, <3>1 DEF InChannel
    <2> QED
        BY <1>0, <2>1, <2>2, <2>3 DEF SinkTypeOK, Accepted, InLog
<1>2. CASE Write
    <2>1. /\ writing \in Record /\ nextOut \in Outputs /\ log \in [Outputs -> Seq(Record)]
          /\ log' = [log EXCEPT ![nextOut] = Append(@, writing)]
          /\ IF nextOut = NumOutputs
             THEN writing' = None /\ nextOut' = 1
             ELSE writing' = writing /\ nextOut' = nextOut + 1
          /\ ch' = ch /\ chClosed' = chClosed
          /\ done' = done /\ cleaned' = cleaned /\ panicked' = panicked
        BY <1>2 DEF Write, SinkTypeOK
    <2>2. /\ log[nextOut] \in Seq(Record)
          /\ Append(log[nextOut], writing) \in Seq(Record)
        BY <2>1, AppendContents
    <2>3. log' \in [Outputs -> Seq(Record)]
        BY <2>1, <2>2
    <2>4. nextOut' \in Outputs /\ writing' \in Record \cup {None}
        BY <1>0, <2>1 DEF Outputs
    <2>5. CASE nextOut = NumOutputs
        <3>1. log'[NumOutputs] = Append(log[NumOutputs], writing)
            BY <1>0, <2>1, <2>5
        <3>2. \A r : (\E k \in DOMAIN Append(log[NumOutputs], writing) :
                          Append(log[NumOutputs], writing)[k] = r)
                      <=> r = writing \/ \E k \in DOMAIN log[NumOutputs] : log[NumOutputs][k] = r
            BY <2>1, <2>2, <2>5, AppendContents
        <3>3. \A r : InLog(NumOutputs, r)' <=> r = writing \/ InLog(NumOutputs, r)
            BY <3>1, <3>2 DEF InLog
        <3> QED
            BY <1>0, <2>1, <2>3, <2>4, <2>5, <3>3 DEF SinkTypeOK, Accepted, InChannel
    <2>6. CASE nextOut # NumOutputs
        <3>1. log'[NumOutputs] = log[NumOutputs]
            BY <1>0, <2>1, <2>6
        <3> QED
            BY <1>0, <2>1, <2>3, <2>4, <2>6, <3>1 DEF SinkTypeOK, Accepted, InChannel, InLog
    <2> QED
        BY <2>5, <2>6
<1>3. CASE RunReturns
    BY <1>3 DEF RunReturns, SinkTypeOK, Accepted, InChannel, InLog
<1> QED
    BY <1>1, <1>2, <1>3 DEF run

(* Closing the channel, cleaning an output and a send that panics touch no *)
(* record.                                                                 *)
LEMMA OtherSinkSteps ==
    ASSUME SinkTypeOK(Record), CloseChannel \/ CleanOutput \/ SendOnClosed \/ UNCHANGED sinkVars
    PROVE  /\ SinkTypeOK(Record)'
           /\ panicked => panicked'
           /\ \A r : Accepted(r)' <=> Accepted(r)
<1>1. ch' = ch /\ writing' = writing /\ log' = log /\ nextOut' = nextOut /\ done' = done
    BY DEF CloseChannel, CleanOutput, SendOnClosed, sinkVars
<1>2. \A r : Accepted(r)' <=> Accepted(r)
    BY <1>1 DEF Accepted, InChannel, InLog
<1>3. cleaned' \in 0..NumOutputs
    BY SinkAssumption DEF SinkTypeOK, CloseChannel, CleanOutput, SendOnClosed, sinkVars
<1>4. chClosed' \in BOOLEAN /\ panicked' \in BOOLEAN /\ (panicked => panicked')
    BY DEF SinkTypeOK, CloseChannel, CleanOutput, SendOnClosed, sinkVars
<1> QED
    BY <1>1, <1>2, <1>3, <1>4 DEF SinkTypeOK
(* A Send ends in one of three ways: the sink has the record, the caller   *)
(* gave it up because its context is done, or the process has panicked.    *)
LEMMA SendEnds ==
    ASSUME TypeOK, NEW rec \in Record, Send(rec)
    PROVE  /\ SinkTypeOK(Record)'
           /\ dropped' \in SUBSET Record
           /\ panicked => panicked'
           /\ \/ /\ \A r : Accepted(r)' <=> r = rec \/ Accepted(r)
                 /\ dropped' = dropped
              \/ /\ \A r : Accepted(r)' <=> Accepted(r)
                 /\ ctxDone /\ dropped' = dropped \cup {rec}
              \/ /\ \A r : Accepted(r)' <=> Accepted(r)
                 /\ panicked' /\ dropped' = dropped
<1>0. SinkTypeOK(Record) /\ dropped \in SUBSET Record
    BY DEF TypeOK
<1>1. CASE Enqueue(rec) /\ UNCHANGED dropped
    BY <1>0, <1>1, EnqueueAccepts
<1>2. CASE SendOnClosed /\ UNCHANGED dropped
    <2>1. panicked'
        BY <1>2 DEF SendOnClosed
    <2> QED
        BY <1>0, <1>2, <2>1, OtherSinkSteps
<1>3. CASE Abandon(ctxDone) /\ dropped' = dropped \cup {rec}
    <2>1. ctxDone /\ UNCHANGED sinkVars
        BY <1>3 DEF Abandon
    <2> QED
        BY <1>0, <1>3, <2>1, OtherSinkSteps
<1> QED
    BY <1>1, <1>2, <1>3 DEF Send

LEMMA RecordOf ==
    ASSUME NEW t \in Target
    PROVE  Real(t) \in Record /\ Synthetic(t) \in Record
BY DEF Synthetic, Record

(* A result arrives as one target's only, with a port that kept or with    *)
(* another.                                                                *)
LEMMA RealOfOne ==
    ASSUME NEW t \in Target, NEW u \in Target, Real(t) = Real(u)
    PROVE  t = u
<1>1. Arrives(t) = Arrives(u)
    BY DEF Real
<1>2. CASE t \in TooWide /\ u \in TooWide
    BY <1>1, <1>2 DEF Arrives
<1>3. CASE t \notin TooWide \/ u \notin TooWide
    BY <1>1, <1>3, CoordinatorAssumption DEF Arrives
<1> QED
    BY <1>2, <1>3
-----------------------------------------------------------------------------
(* Typing.                                                                 *)

LEMMA InitTypeOK == Init => TypeOK
<1> SUFFICES ASSUME Init PROVE TypeOK
    OBVIOUS
<1>1. Workers \in Nat \ {0} /\ NumOutputs \in Nat \ {0} /\ Capacity \in Nat \ {0}
    BY CoordinatorAssumption, SinkAssumption
<1>2. SinkTypeOK(Record)
    <2>1. <<>> \in Seq(Record) /\ Len(<<>>) = 0
        OBVIOUS
    <2>2. 1 \in Outputs /\ 0 \in 0..NumOutputs /\ 0 <= Capacity
        BY <1>1 DEF Outputs
    <2>3. [o \in Outputs |-> <<>>] \in [Outputs -> Seq(Record)]
        BY <2>1
    <2> QED
        BY <2>1, <2>2, <2>3 DEF Init, NewSink, SinkTypeOK
<1>3. /\ arrived \in 0..Workers /\ shards \in [Slots(Workers) -> SUBSET Target]
      /\ slot \in [Caller -> Slots(Workers) \cup {None}]
    BY <1>1 DEF Init
<1>4. /\ srv \in {"serving", "stopped"} /\ remade \in SUBSET Caller /\ conn \in [Caller -> {"up", "down"}]
      /\ serve \in {"running", "nil", "abortErr", "acceptErr"}
      /\ timer \in {"off", "armed", "expired", "stopping"}
      /\ gt \in [Caller -> {"idle", "called", "wait", "push", "ok", "error"}]
      /\ rr \in [Caller -> {"idle", "recv", "claim", "send", "acked", "error"}]
      /\ mainPc \in {"select", "join", "copy", "report", "clean", "exit"}
    BY DEF Init
<1>5. /\ cur \in [Caller -> Target \cup {None}]
      /\ sent \in [Caller -> SUBSET Target] /\ got \in [Caller -> SUBSET Target]
      /\ ctxDone \in BOOLEAN /\ ready \in BOOLEAN /\ aborted \in BOOLEAN /\ runErr \in BOOLEAN
      /\ pending \in SUBSET Target /\ todo \in SUBSET Target /\ dropped \in SUBSET Record
    BY DEF Init
<1> QED
    BY <1>2, <1>3, <1>4, <1>5 DEF TypeOK

(* Dealing yields typed shards, disjoint ones, of nothing but what was     *)
(* drained.                                                                *)
LEMMA DealtShards ==
    ASSUME NEW D, NEW f \in EvenShards(D, Workers), D \in Drained
    PROVE  /\ D \in SUBSET Target
           /\ f \in [Slots(Workers) -> SUBSET Target]
           /\ \A k \in Slots(Workers) : f[k] \subseteq D
           /\ \A j, k \in Slots(Workers) : j # k => f[j] \cap f[k] = {}
<1>1. D \in SUBSET Target
    BY DEF Drained
<1>2. f \in [Slots(Workers) -> SUBSET D]
    BY DEF EvenShards
<1> QED
    BY <1>1, <1>2 DEF EvenShards

LEMMA TypeOKStep == TypeOK /\ Seating /\ Results /\ [Next]_vars => TypeOK'
<1> SUFFICES ASSUME TypeOK, Seating, Results, [Next]_vars PROVE TypeOK'
    OBVIOUS
<1> USE DEF rendezvousVars, serverVars, callVars, resultVars, mainVars
<1>0. /\ Workers \in Nat \ {0}
      /\ SinkTypeOK(Record)
      /\ UNCHANGED sinkVars => SinkTypeOK(Record)'
    BY CoordinatorAssumption, OtherSinkSteps DEF TypeOK
<1>1. ASSUME NEW c \in Caller, GetTargetsCall(c) PROVE TypeOK'
    BY <1>0, <1>1 DEF GetTargetsCall, TypeOK
<1>2. ASSUME NEW c \in Caller, Register(c) PROVE TypeOK'
    <2>1. arrived < Workers /\ arrived \in Nat /\ arrived + 1 \in 0..Workers
          /\ arrived \in Slots(Workers)
        BY <1>0, <1>2 DEF Register, TakeSlot, Deal, TypeOK, Slots
    <2>2. pending' \in SUBSET Target /\ shards' \in [Slots(Workers) -> SUBSET Target]
          /\ ready' \in BOOLEAN
        <3>1. CASE arrived + 1 = Workers
            <4>1. PICK D \in Drained : /\ pending' = pending \cup D
                                       /\ shards' \in EvenShards(D, Workers)
                BY <1>2, <3>1 DEF Register, TakeSlot, Deal
            <4>2. ready'
                BY <1>2, <3>1 DEF Register, TakeSlot, Deal
            <4> QED
                BY <4>1, <4>2, DealtShards DEF TypeOK
        <3>2. CASE arrived + 1 # Workers
            BY <1>2, <3>2 DEF Register, TakeSlot, Deal, TypeOK
        <3> QED
            BY <3>1, <3>2
    <2> QED
        BY <1>0, <1>2, <2>1, <2>2 DEF Register, TakeSlot, Deal, TypeOK
<1>3. ASSUME NEW c \in Caller, RegisterRejected(c) PROVE TypeOK'
    BY <1>0, <1>3 DEF RegisterRejected, TypeOK
<1>4. ASSUME NEW c \in Caller, Wake(c) PROVE TypeOK'
    BY <1>0, <1>4 DEF Wake, TypeOK
<1>5. ASSUME NEW c \in Caller, PushTarget(c) PROVE TypeOK'
    <2>1. PICK t \in Unsent(c) : sent' = [sent EXCEPT ![c] = @ \cup {t}]
        BY <1>5 DEF PushTarget
    <2>2. t \in Target
        BY <1>5, <2>1 DEF PushTarget, Unsent, TypeOK, Seating
    <2> QED
        BY <1>0, <1>5, <2>1, <2>2 DEF PushTarget, TypeOK
<1>6. ASSUME NEW c \in Caller, PushEnds(c) PROVE TypeOK'
    BY <1>0, <1>6 DEF PushEnds, TypeOK
<1>7. ASSUME NEW c \in Caller, ReportResultsCall(c) PROVE TypeOK'
    BY <1>0, <1>7 DEF ReportResultsCall, TypeOK
<1>8. ASSUME NEW c \in Caller, RecvResult(c) PROVE TypeOK'
    BY <1>0, <1>8 DEF RecvResult, TypeOK
<1>9. ASSUME NEW c \in Caller, RecvMalformed(c) PROVE TypeOK'
    BY <1>0, <1>9 DEF RecvMalformed, TypeOK
<1>10. ASSUME NEW c \in Caller, RecvEnds(c) PROVE TypeOK'
    BY <1>0, <1>10 DEF RecvEnds, TypeOK
<1>11. ASSUME NEW c \in Caller, Claim(c) PROVE TypeOK'
    BY <1>0, <1>11 DEF Claim, TypeOK
<1>12. ASSUME NEW c \in Caller, SendResult(c) PROVE TypeOK'
    <2>1. cur[c] \in Target
        BY <1>12 DEF SendResult, TypeOK, Results
    <2>2. SinkTypeOK(Record)' /\ dropped' \in SUBSET Record
        BY <1>12, <2>1, RecordOf, SendEnds DEF SendResult
    <2> QED
        BY <1>12, <2>2 DEF SendResult, TypeOK
<1>13. ASSUME NEW c \in Caller, Disconnect(c) \/ Reconnect(c) PROVE TypeOK'
    BY <1>0, <1>13 DEF Disconnect, Reconnect, TypeOK
<1>14. CASE ServeReturns
    BY <1>0, <1>14 DEF ServeReturns, ServeError, TimerStopped, TypeOK
<1>15. CASE ServeFails
    BY <1>0, <1>15 DEF ServeFails, ServeError, TimerStopped, TypeOK
<1>16. CASE TimerExpires
    BY <1>0, <1>16 DEF TimerExpires, TypeOK
<1>17. CASE OnRegisterTimeout
    BY <1>0, <1>17 DEF OnRegisterTimeout, TypeOK
<1>18. CASE AbortStops
    BY <1>0, <1>18 DEF AbortStops, StopServer, TypeOK
<1>19. CASE MainStop
    BY <1>0, <1>19 DEF MainStop, StopServer, TypeOK
<1>20. CASE MainJoin
    BY <1>0, <1>20 DEF MainJoin, TypeOK
<1>21. CASE CopyPending
    BY <1>0, <1>21 DEF CopyPending, TypeOK
<1>22. CASE SendUnresolved
    <2>1. PICK t \in todo : Send(Synthetic(t)) /\ todo' = todo \ {t}
        BY <1>22 DEF SendUnresolved
    <2>2. SinkTypeOK(Record)' /\ dropped' \in SUBSET Record
        BY <2>1, RecordOf, SendEnds DEF TypeOK
    <2> QED
        BY <1>22, <2>1, <2>2 DEF SendUnresolved, TypeOK
<1>23. CASE CloseSink
    BY <1>0, <1>23, OtherSinkSteps DEF CloseSink, TypeOK
<1>24. CASE CleanOutputs
    BY <1>0, <1>24, OtherSinkSteps DEF CleanOutputs, TypeOK
<1>25. CASE SinkRun
    BY <1>0, <1>25, RunKeeps DEF SinkRun, TypeOK
<1>26. CASE Cancel
    BY <1>0, <1>26 DEF Cancel, TypeOK
<1>27. CASE UNCHANGED vars
    BY <1>0, <1>27 DEF vars, TypeOK
<1> QED
    BY <1>1, <1>2, <1>3, <1>4, <1>5, <1>6, <1>7, <1>8, <1>9, <1>10, <1>11, <1>12,
       <1>13, <1>14, <1>15, <1>16, <1>17, <1>18, <1>19, <1>20, <1>21, <1>22, <1>23,
       <1>24, <1>25, <1>26, <1>27
    DEF Next, GetTargets, ReportResults, Server, Main, Terminated
-----------------------------------------------------------------------------
(* The inductive invariant.  Every step but those of the two handlers is   *)
(* quiet: it leaves the rendezvous, the calls and pending as they are, and *)
(* makes no record of a worker's result.                                   *)

Quiet ==
    /\ UNCHANGED <<arrived, shards, ready, slot, pending, gt, sent, rr, cur, got>>
    /\ panicked => panicked'
    /\ \A t \in Target : /\ Accepted(Real(t))' <=> Accepted(Real(t))
                         /\ Real(t) \in dropped' <=> Real(t) \in dropped

LEMMA QuietSteps ==
    ASSUME TypeOK,
           \/ \E c \in Caller : Disconnect(c) \/ Reconnect(c)
           \/ Server \/ Main \/ SinkRun \/ Cancel \/ UNCHANGED vars
    PROVE  Quiet
<1> USE DEF rendezvousVars, serverVars, callVars, resultVars, mainVars
<1>0. SinkTypeOK(Record)
    BY DEF TypeOK
<1>1. ASSUME UNCHANGED sinkVars
      PROVE  (panicked => panicked') /\ \A r : Accepted(r)' <=> Accepted(r)
    BY <1>0, <1>1, OtherSinkSteps
<1>2. ASSUME NEW c \in Caller, Disconnect(c) \/ Reconnect(c) PROVE Quiet
    BY <1>1, <1>2 DEF Disconnect, Reconnect, Quiet
<1>3. ASSUME Server PROVE Quiet
    BY <1>1, <1>3 DEF Server, ServeReturns, ServeFails, TimerExpires, OnRegisterTimeout,
                      AbortStops, Quiet
<1>4. CASE MainStop \/ MainJoin \/ CopyPending
    BY <1>1, <1>4 DEF MainStop, MainJoin, CopyPending, Quiet
<1>5. CASE SendUnresolved
    <2>1. PICK t \in todo : Send(Synthetic(t))
        BY <1>5 DEF SendUnresolved
    <2>2. t \in Target /\ Synthetic(t) \in Record
        BY <2>1, RecordOf DEF TypeOK
    <2>3. \A u \in Target : Real(u) # Synthetic(t)
        BY DEF Real, Synthetic
    <2>4. /\ panicked => panicked'
          /\ \A u \in Target : /\ Accepted(Real(u))' <=> Accepted(Real(u))
                               /\ Real(u) \in dropped' <=> Real(u) \in dropped
        BY <2>1, <2>2, <2>3, SendEnds
    <2> QED
        BY <1>5, <2>4 DEF SendUnresolved, Quiet
<1>6. CASE CloseSink \/ CleanOutputs
    BY <1>0, <1>6, OtherSinkSteps DEF CloseSink, CleanOutputs, Quiet
<1>7. CASE SinkRun
    BY <1>0, <1>7, RunKeeps, RecordOf DEF SinkRun, Quiet
<1>8. CASE Cancel
    BY <1>1, <1>8 DEF Cancel, Quiet
<1>9. CASE UNCHANGED vars
    BY <1>1, <1>9 DEF vars, Quiet
<1> QED
    BY <1>2, <1>3, <1>4, <1>5, <1>6, <1>7, <1>8, <1>9 DEF Main

LEMMA StepKinds ==
    ASSUME TypeOK, [Next]_vars
    PROVE  \/ \E c \in Caller : GetTargets(c) \/ ReportResults(c)
           \/ Quiet
BY QuietSteps DEF Next, Terminated

LEMMA SeatingStep == TypeOK /\ Seating /\ [Next]_vars => Seating'
<1> SUFFICES ASSUME TypeOK, Seating, [Next]_vars PROVE Seating'
    OBVIOUS
<1> USE DEF rendezvousVars
<1>0. Workers \in Nat \ {0} /\ None \notin Nat
    BY CoordinatorAssumption
<1>1. CASE Quiet
    BY <1>1 DEF Quiet, Seating
<1>2. ASSUME NEW c \in Caller, ReportResults(c) PROVE Seating'
    <2>1. UNCHANGED <<arrived, ready, slot, gt>>
        BY <1>2 DEF ReportResults, ReportResultsCall, RecvResult, RecvMalformed, RecvEnds,
                    Claim, SendResult, callVars
    <2> QED
        BY <2>1 DEF Seating
<1>3. ASSUME NEW c \in Caller, Register(c) PROVE Seating'
    <2>1. /\ slot' = [slot EXCEPT ![c] = arrived] /\ arrived' = arrived + 1
          /\ gt' = [gt EXCEPT ![c] = "wait"]
          /\ arrived \in Nat /\ arrived < Workers /\ slot[c] = None
          /\ ready' <=> arrived + 1 = Workers
        BY <1>3, <1>0 DEF Register, TakeSlot, Deal, TypeOK, Seating
    <2>2. /\ slot \in [Caller -> Slots(Workers) \cup {None}]
          /\ gt \in [Caller -> {"idle", "called", "wait", "push", "ok", "error"}]
        BY DEF TypeOK
    <2>3. \A d \in Caller : slot[d] # None => slot[d] \in Nat /\ slot[d] < arrived
        BY <1>0, <2>2 DEF Seating, Slots
    <2>4. /\ \A d \in Caller : gt'[d] \in {"idle", "called"} => slot'[d] = None
          /\ \A d \in Caller : gt'[d] \in {"wait", "push", "ok"} => slot'[d] # None
        BY <1>0, <2>1, <2>2 DEF Seating
    <2>5. \A d \in Caller : slot'[d] # None => slot'[d] < arrived'
        BY <1>0, <2>1, <2>2, <2>3
    <2>6. \A d, e \in Caller : slot'[d] = slot'[e] /\ slot'[d] # None => d = e
        BY <1>0, <2>1, <2>2, <2>3 DEF Seating
    <2>7. \A k \in Slots(arrived') : \E d \in Caller : slot'[d] = k
        <3>1. \A k \in Slots(arrived') : k \in Slots(arrived) \/ k = arrived
            BY <2>1 DEF Slots
        <3>2. \A k \in Slots(arrived) : \E d \in Caller \ {c} : slot[d] = k
            BY <1>0, <2>1 DEF Seating, Slots
        <3> QED
            BY <2>1, <2>2, <3>1, <3>2
    <2> QED
        BY <2>1, <2>4, <2>5, <2>6, <2>7 DEF Seating
<1>4. ASSUME NEW c \in Caller, GetTargetsCall(c) \/ RegisterRejected(c) \/ Wake(c) \/ PushEnds(c)
      PROVE Seating'
    <2>1. /\ UNCHANGED <<arrived, ready, slot>>
          /\ \/ gt[c] = "idle" /\ gt' = [gt EXCEPT ![c] = "called"]
             \/ gt' = [gt EXCEPT ![c] = "error"]
             \/ gt[c] = "wait" /\ gt' = [gt EXCEPT ![c] = "push"]
             \/ gt[c] = "push" /\ gt' = [gt EXCEPT ![c] = "ok"]
        BY <1>4 DEF GetTargetsCall, RegisterRejected, Wake, PushEnds
    <2> QED
        BY <2>1 DEF Seating, TypeOK
<1>5. ASSUME NEW c \in Caller, PushTarget(c) PROVE Seating'
    BY <1>5 DEF PushTarget, Seating
<1> QED
    BY <1>1, <1>2, <1>3, <1>4, <1>5, StepKinds DEF GetTargets
LEMMA DealingStep == TypeOK /\ Seating /\ Dealing /\ [Next]_vars => Dealing'
<1> SUFFICES ASSUME TypeOK, Seating, Dealing, [Next]_vars PROVE Dealing'
    OBVIOUS
<1> USE DEF rendezvousVars
<1>0. Workers \in Nat \ {0} /\ None \notin Nat
    BY CoordinatorAssumption
<1>1. CASE Quiet
    BY <1>1 DEF Quiet, Dealing
<1>2. ASSUME NEW c \in Caller, ReportResults(c) PROVE Dealing'
    <2>1. UNCHANGED <<shards, ready, slot, gt, sent>> /\ pending' \subseteq pending
        BY <1>2 DEF ReportResults, ReportResultsCall, RecvResult, RecvMalformed, RecvEnds,
                    Claim, SendResult, callVars
    <2> QED
        BY <2>1 DEF Dealing
<1>3. ASSUME NEW c \in Caller, Register(c), arrived + 1 = Workers PROVE Dealing'
    <2>1. PICK D \in Drained : shards' \in EvenShards(D, Workers)
        BY <1>3 DEF Register, TakeSlot, Deal
    <2>2. ready' /\ \A j, k \in Slots(Workers) : j # k => shards'[j] \cap shards'[k] = {}
        BY <1>3, <2>1, DealtShards DEF Register, TakeSlot, Deal
    <2>3. \A k \in Slots(Workers) : shards[k] = {}
        BY <1>0, <1>3 DEF Register, TakeSlot, Deal, Seating, Dealing
    <2>4. \A d \in Caller : sent[d] = {}
        BY <2>3 DEF Dealing, TypeOK
    <2> QED
        BY <1>3, <2>2, <2>4 DEF Register, TakeSlot, Deal, Dealing
<1>4. ASSUME NEW c \in Caller, Register(c), arrived + 1 # Workers PROVE Dealing'
    <2>1. /\ ~ready /\ slot[c] = None /\ gt' = [gt EXCEPT ![c] = "wait"]
          /\ UNCHANGED <<shards, ready, pending, sent>>
          /\ \A d \in Caller : slot'[d] = (IF d = c THEN arrived ELSE slot[d])
        BY <1>0, <1>4 DEF Register, TakeSlot, Deal, Seating, TypeOK
    <2>2. sent[c] = {} /\ \A d \in Caller : gt'[d] = "push" => gt[d] = "push"
        BY <2>1 DEF Dealing, TypeOK
    <2> QED
        BY <2>1, <2>2 DEF Dealing
<1>5. ASSUME NEW c \in Caller, GetTargetsCall(c) \/ RegisterRejected(c) \/ Wake(c) \/ PushEnds(c)
      PROVE Dealing'
    <2>1. /\ UNCHANGED <<shards, ready, slot, pending, sent>>
          /\ \/ gt' = [gt EXCEPT ![c] = "called"]
             \/ gt' = [gt EXCEPT ![c] = "error"]
             \/ ready /\ gt' = [gt EXCEPT ![c] = "push"]
             \/ gt' = [gt EXCEPT ![c] = "ok"]
        BY <1>5 DEF GetTargetsCall, RegisterRejected, Wake, PushEnds
    <2>2. \A d \in Caller : gt'[d] = "push" => ready
        BY <2>1 DEF Dealing, TypeOK
    <2> QED
        BY <2>1, <2>2 DEF Dealing
<1>6. ASSUME NEW c \in Caller, PushTarget(c) PROVE Dealing'
    <2>1. PICK t \in Unsent(c) : sent' = [sent EXCEPT ![c] = @ \cup {t}]
        BY <1>6 DEF PushTarget
    <2>2. slot[c] # None /\ t \in shards[slot[c]]
        BY <1>6, <2>1 DEF PushTarget, Seating, Unsent
    <2>3. \A d \in Caller : sent'[d] = IF d = c THEN sent[c] \cup {t} ELSE sent[d]
        BY <2>1 DEF TypeOK
    <2>4. UNCHANGED <<shards, ready, slot, pending, gt>>
        BY <1>6 DEF PushTarget
    <2> QED
        BY <2>2, <2>3, <2>4 DEF Dealing
<1> QED
    BY <1>1, <1>2, <1>3, <1>4, <1>5, <1>6, StepKinds DEF GetTargets

LEMMA ResultsStep == TypeOK /\ Results /\ [Next]_vars => Results'
<1> SUFFICES ASSUME TypeOK, Results, [Next]_vars PROVE Results'
    OBVIOUS
<1> USE DEF resultVars
<1>0. UNCHANGED sinkVars => \A r : Accepted(r)' <=> Accepted(r)
    BY OtherSinkSteps DEF TypeOK
<1>1. CASE Quiet
    BY <1>1 DEF Quiet, Results, Handles
<1>2. ASSUME NEW c \in Caller, GetTargets(c) PROVE Results'
    <2>1. /\ UNCHANGED <<rr, cur, got, dropped, sinkVars>>
          /\ \A d \in Caller : sent[d] \subseteq sent'[d]
        BY <1>2 DEF GetTargets, GetTargetsCall, Register, TakeSlot, Deal,
                    RegisterRejected, Wake, PushTarget,
                    PushEnds, TypeOK
    <2> QED
        BY <1>0, <2>1 DEF Results, Handles
<1>3. ASSUME NEW c \in Caller, ReportResultsCall(c) \/ RecvEnds(c) \/ Claim(c) PROVE Results'
    <2>1. /\ UNCHANGED <<sent, cur, got, dropped, sinkVars>>
          /\ \/ rr[c] \notin {"claim", "send"} /\ rr'[c] \notin {"claim", "send"}
             \/ rr[c] = "claim" /\ rr'[c] = "send"
          /\ \A d \in Caller \ {c} : rr'[d] = rr[d]
        BY <1>3 DEF ReportResultsCall, RecvEnds, Claim, callVars, TypeOK
    <2>2. \A d \in Caller : rr'[d] \in {"claim", "send"} <=> rr[d] \in {"claim", "send"}
        BY <2>1
    <2> QED
        BY <1>0, <2>1, <2>2 DEF Results, Handles
<1>4. ASSUME NEW c \in Caller, RecvMalformed(c) PROVE Results'
    <2>1. /\ UNCHANGED <<sent, rr, cur, dropped, sinkVars>>
          /\ \A d \in Caller : got[d] \subseteq got'[d] /\ got'[d] \subseteq got[d] \cup sent[d]
        BY <1>4 DEF RecvMalformed, callVars, TypeOK
    <2> QED
        BY <1>0, <2>1 DEF Results, Handles
<1>5. ASSUME NEW c \in Caller, RecvResult(c) PROVE Results'
    <2>1. PICK t \in sent[c] \ got[c] : /\ got' = [got EXCEPT ![c] = @ \cup {t}]
                                       /\ cur' = [cur EXCEPT ![c] = t]
        BY <1>5 DEF RecvResult
    <2>2. /\ rr' = [rr EXCEPT ![c] = "claim"]
          /\ UNCHANGED <<sent, dropped, sinkVars>> /\ rr[c] = "recv"
        BY <1>5 DEF RecvResult, callVars
    <2>0. /\ got \in [Caller -> SUBSET Target] /\ cur \in [Caller -> Target \cup {None}]
          /\ rr \in [Caller -> {"idle", "recv", "claim", "send", "acked", "error"}]
        BY DEF TypeOK
    <2>3. /\ got'[c] = got[c] \cup {t} /\ cur'[c] = t /\ rr'[c] = "claim"
          /\ \A d \in Caller \ {c} : got'[d] = got[d] /\ cur'[d] = cur[d] /\ rr'[d] = rr[d]
        BY <2>0, <2>1, <2>2
    <2>4. \A d \in Caller, u \in Target :
              u \in got[d] /\ ~Handles(d, u) => u \in got'[d] /\ ~Handles(d, u)'
        <3>1. \A u \in got[c] : u \in got'[c] /\ u # cur'[c]
            BY <2>1, <2>3
        <3> QED
            BY <2>3, <3>1 DEF Handles
    <2> QED
        BY <1>0, <2>1, <2>2, <2>3, <2>4 DEF Results
<1>6. ASSUME NEW c \in Caller, SendResult(c) PROVE Results'
    <2>1. /\ rr[c] = "send" /\ UNCHANGED <<sent, got>>
          /\ rr' = [rr EXCEPT ![c] = "recv"] /\ cur' = [cur EXCEPT ![c] = None]
          /\ Send(Real(cur[c]))
        BY <1>6 DEF SendResult, callVars
    <2>2. cur[c] \in got[c] /\ cur[c] \in Target
        BY <2>1 DEF Results, TypeOK
    <2>3. \A d \in Caller : /\ cur'[d] = IF d = c THEN None ELSE cur[d]
                           /\ rr'[d] = IF d = c THEN "recv" ELSE rr[d]
        BY <2>1 DEF TypeOK
    <2>4. \A t \in Target : Accepted(Real(t))' \/ Real(t) \in dropped'
                               => t = cur[c] \/ Accepted(Real(t)) \/ Real(t) \in dropped
        <3>1. \A t \in Target : Real(t) = Real(cur[c]) => t = cur[c]
            BY <2>2, RealOfOne
        <3> QED
            BY <2>1, <2>2, <3>1, RecordOf, SendEnds
    <2>5. \A d \in Caller, t \in Target : ~Handles(d, t) => ~Handles(d, t)'
        BY <2>3 DEF Handles
    <2>6. \A t \in Target : Accepted(Real(t))' \/ Real(t) \in dropped' =>
              \E d \in Caller : t \in got[d] /\ ~Handles(d, t)'
        <3>1. \A t \in Target : t = cur[c] => t \in got[c] /\ ~Handles(c, t)'
            BY <2>2, <2>3 DEF Handles
        <3> QED
            BY <2>4, <2>5, <3>1 DEF Results
    <2> QED
        BY <2>1, <2>3, <2>6 DEF Results
<1> QED
    BY <1>1, <1>2, <1>3, <1>4, <1>5, <1>6, StepKinds DEF ReportResults
LEMMA AccountedStep ==
    TypeOK /\ Seating /\ Dealing /\ Results /\ Accounted /\ [Next]_vars => Accounted'
<1> SUFFICES ASSUME TypeOK, Seating, Dealing, Results, Accounted, [Next]_vars PROVE Accounted'
    OBVIOUS
<1> USE DEF rendezvousVars, resultVars, callVars
<1>0. /\ Workers \in Nat \ {0}
      /\ UNCHANGED sinkVars => (panicked => panicked') /\ \A r : Accepted(r)' <=> Accepted(r)
      /\ \A k \in Slots(Workers) : shards[k] \subseteq Target
    BY CoordinatorAssumption, OtherSinkSteps DEF TypeOK
<1>1. CASE Quiet
    BY <1>0, <1>1 DEF Quiet, Accounted, InHand
<1>2. ASSUME NEW c \in Caller, Register(c), arrived + 1 = Workers PROVE Accounted'
    <2>1. PICK D \in Drained : pending' = pending \cup D /\ shards' \in EvenShards(D, Workers)
        BY <1>2 DEF Register, TakeSlot, Deal
    <2>2. \A k \in Slots(Workers) : shards'[k] \subseteq pending'
        BY <2>1, DealtShards
    <2> QED
        BY <2>2 DEF Accounted
<1>3. ASSUME NEW c \in Caller, GetTargets(c), ~(Register(c) /\ arrived + 1 = Workers)
      PROVE  Accounted'
    <2>1. UNCHANGED <<shards, pending, rr, cur, dropped, sinkVars>>
        BY <1>3 DEF GetTargets, GetTargetsCall, Register, TakeSlot, Deal,
                    RegisterRejected, Wake, PushTarget, PushEnds
    <2> QED
        BY <1>0, <2>1 DEF Accounted, InHand
<1>4. ASSUME NEW c \in Caller,
             ReportResultsCall(c) \/ RecvResult(c) \/ RecvMalformed(c) \/ RecvEnds(c)
      PROVE  Accounted'
    <2>1. /\ UNCHANGED <<shards, pending, dropped, sinkVars>>
          /\ rr[c] # "send"
          /\ \A d \in Caller \ {c} : rr'[d] = rr[d] /\ cur'[d] = cur[d]
        BY <1>4 DEF ReportResultsCall, RecvResult, RecvMalformed, RecvEnds, TypeOK
    <2>2. \A t : InHand(t) => InHand(t)'
        BY <2>1 DEF InHand
    <2> QED
        BY <1>0, <2>1, <2>2 DEF Accounted
<1>5. ASSUME NEW c \in Caller, Claim(c) PROVE Accounted'
    <2>1. /\ UNCHANGED <<shards, cur, dropped, sinkVars>>
          /\ pending' = pending \ {Arrives(cur[c])}
          /\ rr' = [rr EXCEPT ![c] = "send"]
        BY <1>5 DEF Claim
    <2>2. \A d \in Caller : rr[d] = "send" => rr'[d] = "send"
        BY <2>1 DEF TypeOK
    <2>3. rr'[c] = "send"
        BY <2>1 DEF TypeOK
    <2>4. \A t : InHand(t) \/ t = cur[c] => InHand(t)'
        BY <2>1, <2>2, <2>3 DEF InHand
    <2>5. \A t \in Target : t \in pending => t \in pending' \/ t = cur[c]
        <3>1. cur[c] \in Target
            BY <1>5 DEF Claim, Results, TypeOK
        <3> QED
            BY <2>1, <3>1, CoordinatorAssumption DEF Arrives
    <2> QED
        BY <1>0, <2>1, <2>4, <2>5 DEF Accounted
<1>6. ASSUME NEW c \in Caller, SendResult(c) PROVE Accounted'
    <2>1. /\ rr[c] = "send" /\ UNCHANGED <<shards, pending>>
          /\ \A d \in Caller \ {c} : rr'[d] = rr[d] /\ cur'[d] = cur[d]
          /\ Send(Real(cur[c]))
        BY <1>6 DEF SendResult, TypeOK
    <2>2. PICK u \in Target : u = cur[c]
        BY <2>1 DEF Results, TypeOK
    <2>3. \A t : InHand(t) => t = u \/ InHand(t)'
        BY <2>1, <2>2 DEF InHand
    <2>4. Real(u) \in Record /\ Send(Real(u))
        BY <2>1, <2>2, RecordOf
    <2>5. /\ panicked => panicked'
          /\ \A r \in Record : Accepted(r) \/ r \in dropped => Accepted(r)' \/ r \in dropped'
          /\ panicked' \/ Accepted(Real(u))' \/ Real(u) \in dropped'
        BY <2>4, SendEnds
    <2>6. ASSUME NEW k \in Slots(Workers), NEW t \in shards'[k], ~panicked'
          PROVE  t \in pending' \/ InHand(t)' \/ Accepted(Real(t))' \/ Real(t) \in dropped'
        <3>1. t \in Target /\ t \in shards[k] /\ Real(t) \in Record /\ ~panicked
            BY <1>0, <2>1, <2>5, <2>6, RecordOf
        <3>2. t \in pending \/ InHand(t) \/ Accepted(Real(t)) \/ Real(t) \in dropped
            BY <3>1 DEF Accounted
        <3> QED
            BY <2>1, <2>3, <2>5, <2>6, <3>1, <3>2
    <2> QED
        BY <2>6 DEF Accounted
<1> QED
    BY <1>1, <1>2, <1>3, <1>4, <1>5, <1>6, StepKinds DEF ReportResults, GetTargets

LEMMA InitIInv == Init => IInv
<1> SUFFICES ASSUME Init PROVE IInv
    OBVIOUS
<1>1. Workers \in Nat \ {0} /\ None \notin Record
    BY CoordinatorAssumption
<1>2. TypeOK
    BY InitTypeOK
<1>3. Seating /\ Dealing
    BY <1>1 DEF Init, Seating, Dealing, Slots
<1>4. \A t \in Target : ~Accepted(Real(t)) /\ Real(t) \notin dropped
    BY <1>1, RecordOf, SinkAssumption DEF Init, NewSink, Accepted, InChannel, InLog, Outputs
<1>5. Results /\ Accounted
    BY <1>4 DEF Init, Results, Accounted
<1> QED
    BY <1>2, <1>3, <1>5 DEF IInv

LEMMA StepIInv == IInv /\ [Next]_vars => IInv'
BY TypeOKStep, SeatingStep, DealingStep, ResultsStep, AccountedStep DEF IInv

(* The invariant holds in every reachable state, however the calls of any  *)
(* number of workers, the timer, a shutdown and the sink interleave.       *)
THEOREM Invariance == Spec => []IInv
BY InitIInv, StepIInv, PTL DEF Spec

(* Every variable of the coordinator and of its sink keeps its type: the   *)
(* slots register hands out stay within the shards, the queue within its   *)
(* capacity.                                                               *)
THEOREM TypeCorrect == Spec => []TypeOK
<1>1. IInv => TypeOK
    BY DEF IInv
<1> QED
    BY <1>1, Invariance, PTL

LEMMA PushedOnceInv == IInv => PushedOnce
<1> SUFFICES ASSUME IInv, NEW c \in Caller, NEW d \in Caller, c # d
             PROVE  sent[c] \cap sent[d] = {}
    BY DEF PushedOnce
<1>1. CASE slot[c] = None \/ slot[d] = None
    BY <1>1 DEF IInv, Dealing
<1>2. CASE slot[c] # None /\ slot[d] # None
    <2>1. slot[c] \in Slots(Workers) /\ slot[d] \in Slots(Workers) /\ slot[c] # slot[d]
        BY <1>2 DEF IInv, TypeOK, Seating
    <2>2. shards[slot[c]] \cap shards[slot[d]] = {}
        BY <2>1 DEF IInv, Dealing
    <2> QED
        BY <1>2, <2>2 DEF IInv, Dealing
<1> QED
    BY <1>1, <1>2

(* A target is sent to one worker at most: register hands out each index   *)
(* once, and a shard shares no target with another.                        *)
THEOREM PushedToOne == Spec => []PushedOnce
BY PushedOnceInv, Invariance, PTL

(* No target that was dealt is forgotten: ReportResults takes it out of    *)
(* pending only to put its record in the sink, or to give it up in a Send. *)
THEOREM NothingForgotten == Spec => []Accounted
<1>1. IInv => Accounted
    BY DEF IInv
<1> QED
    BY <1>1, Invariance, PTL

(* The timer's function never aborts a rendezvous register has completed.  *)
THEOREM ReadyIsFinal == Spec => NoAbortOnceReady
<1>1. IInv /\ [Next]_vars => [ready => aborted' = aborted]_vars
    <2> SUFFICES ASSUME IInv, Next, ready PROVE aborted' = aborted
        OBVIOUS
    <2> USE DEF serverVars
    <2>1. ASSUME NEW c \in Caller, GetTargets(c) PROVE aborted' = aborted
        BY <2>1 DEF GetTargets, GetTargetsCall, Register, TakeSlot, Deal,
                    RegisterRejected, Wake, PushTarget,
                    PushEnds
    <2>2. ASSUME NEW c \in Caller, ReportResults(c) PROVE aborted' = aborted
        BY <2>2 DEF ReportResults, ReportResultsCall, RecvResult, RecvMalformed, RecvEnds,
                    Claim, SendResult
    <2>3. ASSUME NEW c \in Caller, Disconnect(c) \/ Reconnect(c) PROVE aborted' = aborted
        BY <2>3 DEF Disconnect, Reconnect
    <2>4. CASE OnRegisterTimeout
        <3>1. arrived >= Workers
            BY CoordinatorAssumption DEF IInv, Seating
        <3> QED
            BY <2>4, <3>1 DEF OnRegisterTimeout, AllArrived
    <2>5. CASE ServeReturns \/ ServeFails \/ TimerExpires \/ AbortStops
        BY <2>5 DEF ServeReturns, ServeFails, TimerExpires, AbortStops
    <2>6. CASE Main
        BY <2>6 DEF Main, MainStop, MainJoin, CopyPending, SendUnresolved, CloseSink, CleanOutputs
    <2>7. CASE SinkRun \/ Cancel \/ Terminated
        BY <2>7 DEF SinkRun, Cancel, Terminated, vars
    <2> QED
        BY <2>1, <2>2, <2>3, <2>4, <2>5, <2>6, <2>7 DEF Next, Server
<1> QED
    BY <1>1, Invariance, PTL DEF Spec, NoAbortOnceReady
-----------------------------------------------------------------------------
(* The coordinator implements StaticPush.                                  *)

Answered == {t \in Target : Accepted(Real(t))}
Lost == {t \in Target : Real(t) \in dropped}

LEMMA SameShards ==
    ASSUME NEW n, NEW D
    PROVE  Push!Slots(n) = Slots(n) /\ Push!EvenShards(D, n) = EvenShards(D, n)
<1>1. Push!Slots(n) = Slots(n)
    BY DEF Push!Slots, Slots
<1>2. \A len, i : Push!ShardSize(len, n, i) = ShardSize(len, n, i)
    BY DEF Push!ShardSize, ShardSize
<1>3. \A S : Push!Cardinality(S) = Cardinality(S)
    BY DEF Push!Cardinality, Cardinality
<1> QED
    BY <1>1, <1>2, <1>3 DEF Push!EvenShards, EvenShards

(* The last arrival finds every other slot taken, an earlier one does not. *)
LEMMA RegisterSits ==
    ASSUME IInv, NEW c \in Caller, Register(c)
    PROVE  Push!Sit(c)
<1> USE DEF rendezvousVars
<1>0. /\ Workers \in Nat \ {0} /\ None \notin Nat
      /\ Push!Slots(Workers) = Slots(Workers)
      /\ \A D : Push!EvenShards(D, Workers) = EvenShards(D, Workers)
    BY CoordinatorAssumption, SameShards
<1>1. /\ slot[c] = None /\ arrived \in Slots(Workers)
      /\ slot' = [slot EXCEPT ![c] = arrived]
      /\ \A d \in Caller : slot[d] # arrived
    BY <1>0 DEF Register, TakeSlot, Deal, IInv, TypeOK, Seating, Slots
<1>2. /\ sent' = sent /\ ctxDone' = ctxDone
      /\ Answered' = Answered /\ Lost' = Lost
    BY OtherSinkSteps DEF Register, TakeSlot, Deal, Answered, Lost, IInv, TypeOK
<1>3. \/ /\ \E j \in Slots(Workers) \ {arrived} : \A d \in Caller : slot[d] # j
         /\ UNCHANGED <<shards, ready>>
      \/ /\ \A j \in Slots(Workers) \ {arrived} : \E d \in Caller : slot[d] = j
         /\ ready' = TRUE
         /\ \E D \in (IF ctxDone THEN SUBSET Target ELSE {Target}) :
               shards' \in EvenShards(D, Workers)
    <2>1. CASE arrived + 1 = Workers
        <3>1. \A j \in Slots(Workers) \ {arrived} : \E d \in Caller : slot[d] = j
            BY <1>0, <1>1, <2>1 DEF IInv, Seating, Slots
        <3> QED
            BY <2>1, <3>1 DEF Register, TakeSlot, Deal, Drained
    <2>2. CASE arrived + 1 # Workers
        <3>1. /\ arrived + 1 \in Slots(Workers) \ {arrived}
              /\ \A d \in Caller : slot[d] # arrived + 1
            BY <1>0, <1>1, <2>2 DEF IInv, TypeOK, Seating, Slots
        <3> QED
            BY <2>2, <3>1 DEF Register, TakeSlot, Deal
    <2> QED
        BY <2>1, <2>2
<1> QED
    BY <1>0, <1>1, <1>2, <1>3 DEF Push!Sit, Answered, Lost

(* Until a Send takes a record, the answered and the lost stay as they are. *)
LEMMA PushTargetPushes ==
    ASSUME IInv, NEW c \in Caller, PushTarget(c)
    PROVE  \E t \in Target : Push!Push(c, t)
<1>1. PICK t \in Unsent(c) : sent' = [sent EXCEPT ![c] = @ \cup {t}]
    BY DEF PushTarget
<1>2. slot[c] # None /\ t \in shards[slot[c]] \ sent[c] /\ t \in Target /\ ready
    BY <1>1 DEF PushTarget, Unsent, IInv, Seating, Dealing, TypeOK
<1>3. /\ slot' = slot /\ shards' = shards /\ ready' = ready /\ ctxDone' = ctxDone
      /\ Answered' = Answered /\ Lost' = Lost
    BY OtherSinkSteps DEF PushTarget, Answered, Lost, IInv, TypeOK, rendezvousVars
<1> QED
    BY <1>1, <1>2, <1>3 DEF Push!Push, Answered, Lost

(* A result that is sent is of a target its worker was pushed, and no      *)
(* earlier Send was of that target.                                        *)
LEMMA SendResultAnswers ==
    ASSUME IInv, NEW c \in Caller, SendResult(c)
    PROVE  (\E t \in Target : Push!Answer(t) \/ Push!Lose(t)) \/ UNCHANGED Push!vars
<1>1. /\ rr[c] = "send" /\ Send(Real(cur[c]))
      /\ slot' = slot /\ shards' = shards /\ ready' = ready /\ ctxDone' = ctxDone
      /\ sent' = sent
    BY DEF SendResult, rendezvousVars, callVars
<1>2. PICK u \in Target : u = cur[c]
    BY <1>1 DEF IInv, Results, TypeOK
<1>3. Real(u) \in Record /\ Send(Real(u))
    BY <1>1, <1>2, RecordOf
<1>4. u \in got[c] /\ u \in sent[c] /\ Handles(c, u)
    BY <1>1, <1>2 DEF IInv, Results, Handles
<1>5. u \notin Answered \cup Lost
    <2>1. SUFFICES ASSUME Accepted(Real(u)) \/ Real(u) \in dropped PROVE FALSE
        BY DEF Answered, Lost
    <2>2. PICK d \in Caller : u \in got[d] /\ ~Handles(d, u)
        BY <2>1 DEF IInv, Results
    <2>3. d # c /\ u \in sent[d]
        BY <1>4, <2>2 DEF IInv, Results
    <2> QED
        BY <1>4, <2>3, PushedOnceInv DEF PushedOnce
<1>6. \A t \in Target : Real(t) = Real(u) => t = u
    BY RealOfOne
<1>7. \/ Answered' = Answered \cup {u} /\ Lost' = Lost
      \/ Answered' = Answered /\ Lost' = Lost \cup {u} /\ ctxDone
      \/ Answered' = Answered /\ Lost' = Lost
    <2>1. \/ /\ \A r : Accepted(r)' <=> r = Real(u) \/ Accepted(r)
             /\ dropped' = dropped
          \/ /\ \A r : Accepted(r)' <=> Accepted(r)
             /\ ctxDone /\ dropped' = dropped \cup {Real(u)}
          \/ /\ \A r : Accepted(r)' <=> Accepted(r)
             /\ dropped' = dropped
        BY <1>3, SendEnds DEF IInv
    <2> QED
        BY <1>6, <2>1 DEF Answered, Lost
<1>8. Push!Owed(u)
    BY <1>4, <1>5 DEF Push!Owed, Answered, Lost
<1> QED
    BY <1>1, <1>7, <1>8 DEF Push!Answer, Push!Lose, Push!vars, Answered, Lost

(* Everything else is a step StaticPush does not see, or its Stop.         *)
LEMMA QuietStutters ==
    ASSUME Quiet, ctxDone' = ctxDone \/ ctxDone' = TRUE
    PROVE  Push!Stop \/ UNCHANGED Push!vars
<1>1. Answered' = Answered /\ Lost' = Lost
    BY DEF Quiet, Answered, Lost
<1> QED
    BY <1>1 DEF Quiet, Push!Stop, Push!vars, Answered, Lost

LEMMA StepRefines == IInv /\ [Next]_vars => [Push!Next]_(Push!vars)
<1> SUFFICES ASSUME IInv, [Next]_vars PROVE Push!Next \/ UNCHANGED Push!vars
    OBVIOUS
<1> USE DEF rendezvousVars, serverVars, callVars, resultVars, mainVars
<1>1. TypeOK
    BY DEF IInv
<1>2. ASSUME UNCHANGED <<slot, shards, ready, sent, dropped, ctxDone, sinkVars>>
      PROVE  UNCHANGED Push!vars
    BY <1>1, <1>2, OtherSinkSteps DEF Push!vars, TypeOK
<1>3. ASSUME NEW c \in Caller, Register(c) PROVE Push!Next
    BY <1>3, RegisterSits DEF Push!Next
<1>4. ASSUME NEW c \in Caller, PushTarget(c) PROVE Push!Next
    BY <1>4, PushTargetPushes DEF Push!Next
<1>5. ASSUME NEW c \in Caller, SendResult(c) PROVE Push!Next \/ UNCHANGED Push!vars
    BY <1>5, SendResultAnswers DEF Push!Next
<1>6. ASSUME NEW c \in Caller,
             \/ GetTargetsCall(c) \/ RegisterRejected(c) \/ Wake(c) \/ PushEnds(c)
             \/ ReportResultsCall(c) \/ RecvResult(c) \/ RecvMalformed(c) \/ RecvEnds(c)
             \/ Claim(c)
      PROVE  UNCHANGED Push!vars
    BY <1>2, <1>6 DEF GetTargetsCall, RegisterRejected, Wake, PushEnds, ReportResultsCall,
                      RecvResult, RecvMalformed, RecvEnds, Claim
<1>7. CASE Quiet
    <2>1. ctxDone' = ctxDone \/ ctxDone' = TRUE
        BY DEF Next, GetTargets, GetTargetsCall, Register, TakeSlot, Deal,
               RegisterRejected, Wake, PushTarget,
               PushEnds, ReportResults, ReportResultsCall, RecvResult, RecvMalformed, RecvEnds,
               Claim, SendResult, Disconnect, Reconnect, Server, ServeReturns, ServeFails, TimerExpires,
               OnRegisterTimeout, AbortStops, Main, MainStop, MainJoin, CopyPending,
               SendUnresolved, CloseSink, CleanOutputs, SinkRun, Cancel, Terminated, vars
    <2> QED
        BY <1>7, <2>1, QuietStutters DEF Push!Next
<1> QED
    BY <1>1, <1>3, <1>4, <1>5, <1>6, <1>7, StepKinds DEF GetTargets, ReportResults

LEMMA InitRefines == Init => Push!Init
<1> SUFFICES ASSUME Init PROVE Push!Init
    OBVIOUS
<1>1. \A t \in Target : ~Accepted(Real(t)) /\ Real(t) \notin dropped
    BY CoordinatorAssumption, RecordOf, SinkAssumption
    DEF Init, NewSink, Accepted, InChannel, InLog, Outputs
<1> QED
    BY <1>1, SameShards DEF Init, Push!Init

(* The rendezvous, the streams, the pending map and the sink together keep *)
(* the promise of StaticPush: one deal, each worker its own share, each    *)
(* target answered at most once and by the worker it was pushed to, none   *)
(* lost before the run is being shut down.                                 *)
THEOREM CoordinatorImplementsPush == Spec => ImplementsStaticPush
BY InitRefines, StepRefines, Invariance, PTL DEF Spec, ImplementsStaticPush, Push!Spec

-----------------------------------------------------------------------------
(* Why the coordinator ends: who stopped the server, what Serve returned   *)
(* of it, and what the main goroutine kept.                                *)
Told ==
    /\ srv = "stopped" => ctxDone \/ aborted
    /\ timer = "stopping" => aborted
    /\ serve = "nil" => ctxDone
    /\ mainPc = "join" => ctxDone
    /\ mainPc \in {"copy", "report", "clean", "exit"} /\ ~ctxDone => runErr

LEMMA ToldStep == Told /\ [Next]_vars => Told'
<1> SUFFICES ASSUME Told, [Next]_vars PROVE Told'
    OBVIOUS
<1> USE DEF Told, rendezvousVars, serverVars, callVars, resultVars, mainVars
<1>1. ASSUME NEW c \in Caller, GetTargets(c) PROVE Told'
    BY <1>1 DEF GetTargets, GetTargetsCall, Register, RegisterRejected, Wake, PushTarget,
                PushEnds
<1>2. ASSUME NEW c \in Caller, ReportResults(c) PROVE Told'
    BY <1>2 DEF ReportResults, ReportResultsCall, RecvResult, RecvMalformed, RecvEnds,
                Claim, SendResult
<1>3. ASSUME NEW c \in Caller, Disconnect(c) \/ Reconnect(c) PROVE Told'
    BY <1>3 DEF Disconnect, Reconnect
<1>4. CASE ServeReturns \/ ServeFails
    BY <1>4 DEF ServeReturns, ServeFails, ServeError, TimerStopped
<1>5. CASE TimerExpires \/ OnRegisterTimeout \/ AbortStops
    BY <1>5 DEF TimerExpires, OnRegisterTimeout, AbortStops, StopServer
<1>6. CASE MainStop \/ MainJoin
    BY <1>6 DEF MainStop, StopServer, MainJoin
<1>7. CASE CopyPending \/ SendUnresolved \/ CloseSink \/ CleanOutputs
    BY <1>7 DEF CopyPending, SendUnresolved, CloseSink, CleanOutputs
<1>8. CASE SinkRun \/ Cancel \/ UNCHANGED vars
    BY <1>8 DEF SinkRun, Cancel, vars
<1> QED
    BY <1>1, <1>2, <1>3, <1>4, <1>5, <1>6, <1>7, <1>8 DEF Next, Server, Main, Terminated

(* A coordinator that was not told to stop exits with an error: an abort   *)
(* or a failed listener is never taken for a shutdown, whichever goroutine *)
(* stops the server and whenever its timer's function runs.                *)
THEOREM CleanExitIsTold == Spec => []CleanExitOnlyWhenTold
<1>1. Init => Told
    BY DEF Init, Told
<1>2. Told => CleanExitOnlyWhenTold
    BY DEF Told, CleanExitOnlyWhenTold
<1> QED
    BY <1>1, <1>2, ToldStep, PTL DEF Spec
-----------------------------------------------------------------------------
(* What the outputs are given: no record twice, and after a shutdown a     *)
(* record for every target that was pushed.  This rests on the invariant   *)
(* above and on the sink's lemmas.                                         *)

(* A synthetic record is made of each target that ReportUnresolved copied, *)
(* once, and of no other.                                                  *)
MadeOnce ==
    /\ mainPc \in {"select", "join", "copy"} => \A t \in Target : ~Held(Synthetic(t))
    /\ mainPc = "report" => \A t \in todo : ~Held(Synthetic(t))

OutInv == HeldOnce /\ InStep /\ Drains /\ MadeOnce

(* How a step of the coordinator moves the sink and ReportUnresolved. *)
BeforeReport == {"select", "join", "copy"}
ReportGoesOn ==
    /\ mainPc' \in BeforeReport => mainPc \in BeforeReport
    /\ mainPc' = "report" => mainPc = "copy" \/ (mainPc = "report" /\ todo' \subseteq todo)

LEMMA OutputSteps ==
    ASSUME TypeOK, [Next]_vars
    PROVE  \/ \E c \in Caller : rr[c] = "send" /\ Enqueue(Real(cur[c])) /\ UNCHANGED <<mainPc, todo>>
           \/ \E t \in todo : /\ mainPc = "report" /\ mainPc' = mainPc
                              /\ Enqueue(Synthetic(t)) /\ todo' = todo \ {t}
           \/ run /\ UNCHANGED <<mainPc, todo>>
           \/ ReportGoesOn /\ (CloseChannel \/ CleanOutput \/ SendOnClosed \/ UNCHANGED sinkVars)
<1> USE DEF rendezvousVars, serverVars, callVars, resultVars, mainVars, ReportGoesOn, BeforeReport
<1>1. ASSUME NEW c \in Caller, GetTargets(c) PROVE ReportGoesOn /\ UNCHANGED sinkVars
    BY <1>1 DEF GetTargets, GetTargetsCall, Register, RegisterRejected, Wake, PushTarget, PushEnds
<1>2. ASSUME NEW c \in Caller, ReportResultsCall(c) \/ RecvResult(c) \/ RecvMalformed(c)
                               \/ RecvEnds(c) \/ Claim(c) \/ Disconnect(c) \/ Reconnect(c)
      PROVE  ReportGoesOn /\ UNCHANGED sinkVars
    BY <1>2 DEF ReportResultsCall, RecvResult, RecvMalformed, RecvEnds, Claim, Disconnect,
                Reconnect
<1>3. ASSUME NEW c \in Caller, SendResult(c)
      PROVE  /\ rr[c] = "send" /\ UNCHANGED <<mainPc, todo>>
             /\ Enqueue(Real(cur[c])) \/ SendOnClosed \/ UNCHANGED sinkVars
    BY <1>3 DEF SendResult, Send, Abandon
<1>4. ASSUME Server \/ Cancel \/ UNCHANGED vars PROVE ReportGoesOn /\ UNCHANGED sinkVars
    BY <1>4 DEF Server, ServeReturns, ServeFails, TimerExpires, OnRegisterTimeout, AbortStops,
                Cancel, vars
<1>5. ASSUME MainStop \/ MainJoin \/ CopyPending PROVE ReportGoesOn /\ UNCHANGED sinkVars
    BY <1>5 DEF MainStop, MainJoin, CopyPending
<1>6. ASSUME SendUnresolved
      PROVE  \E t \in todo : /\ mainPc = "report" /\ mainPc' = mainPc /\ todo' = todo \ {t}
                             /\ Enqueue(Synthetic(t)) \/ SendOnClosed \/ UNCHANGED sinkVars
    BY <1>6 DEF SendUnresolved, Send, Abandon
<1>7. ASSUME CloseSink \/ CleanOutputs
      PROVE  ReportGoesOn /\ (CloseChannel \/ CleanOutput)
    BY <1>7 DEF CloseSink, CleanOutputs
<1>8. ASSUME SinkRun PROVE run /\ UNCHANGED <<mainPc, todo>>
    BY <1>8 DEF SinkRun
<1> QED
    BY <1>1, <1>2, <1>3, <1>4, <1>5, <1>6, <1>7, <1>8 DEF Next, ReportResults, Main, Terminated
-----------------------------------------------------------------------------
LEMMA SinkOfRecords == TypeOK => SinkOver(Record)
BY DEF TypeOK, SinkTypeOK, SinkOver

LEMMA HeldIsAccepted == \A r : Held(r) => Accepted(r)
BY DEF Held, Accepted

(* A result is sent by the one call that read it, and was not sent before. *)
LEMMA ResultIsNew ==
    ASSUME IInv, NEW c \in Caller, rr[c] = "send"
    PROVE  /\ cur[c] \in Target /\ Real(cur[c]) \in Record
           /\ ~Held(Real(cur[c]))
<1>1. cur[c] \in got[c] /\ got[c] \subseteq sent[c] /\ sent[c] \subseteq Target
    BY DEF IInv, Results, TypeOK
<1>2. cur[c] \in Target /\ Real(cur[c]) \in Record
    BY <1>1, RecordOf
<1>3. ASSUME Accepted(Real(cur[c])) PROVE FALSE
    <2>1. PICK d \in Caller : cur[c] \in got[d] /\ ~Handles(d, cur[c])
        BY <1>2, <1>3 DEF IInv, Results
    <2>2. cur[c] \in sent[d] /\ cur[c] \in sent[c]
        BY <1>1, <2>1 DEF IInv, Results
    <2>3. d = c
        BY <2>2, PushedOnceInv DEF PushedOnce
    <2> QED
        BY <2>1, <2>3 DEF Handles
<1> QED
    BY <1>2, <1>3, HeldIsAccepted

LEMMA OutInvStep == IInv /\ OutInv /\ [Next]_vars => OutInv'
<1> SUFFICES ASSUME IInv, OutInv, [Next]_vars PROVE OutInv'
    OBVIOUS
<1>1. TypeOK /\ SinkOver(Record) /\ HeldOnce /\ InStep /\ Drains /\ MadeOnce
    BY SinkOfRecords DEF IInv, OutInv
<1>2. todo' \subseteq Target /\ todo \subseteq Target
    BY StepIInv DEF IInv, TypeOK
<1>3. \A t, u : Synthetic(t) # Real(u) /\ (Synthetic(t) = Synthetic(u) => t = u)
    BY DEF Synthetic, Real
<1>4. ASSUME NEW c \in Caller, rr[c] = "send", Enqueue(Real(cur[c])), UNCHANGED <<mainPc, todo>>
      PROVE  OutInv'
    <2>1. Real(cur[c]) \in Record /\ ~Held(Real(cur[c]))
        BY <1>4, ResultIsNew
    <2>2. /\ UNCHANGED <<nextOut, log, writing>>
          /\ \A r : Held(r)' <=> r = Real(cur[c]) \/ Held(r)
        BY <1>1, <1>4, <2>1, EnqueueHolds
    <2>3. HeldOnce'
        BY <1>1, <1>4, <2>1, EnqueueHeldOnce
    <2>4. InStep' /\ Drains'
        BY <1>1, <1>4, <2>2, OthersInStep, DrainsStep
    <2>5. MadeOnce'
        BY <1>1, <1>3, <1>4, <2>2 DEF MadeOnce
    <2> QED
        BY <2>3, <2>4, <2>5 DEF OutInv
<1>5. ASSUME NEW t \in todo, mainPc = "report", mainPc' = mainPc,
             Enqueue(Synthetic(t)), todo' = todo \ {t}
      PROVE  OutInv'
    <2>1. Synthetic(t) \in Record /\ ~Held(Synthetic(t))
        BY <1>1, <1>2, <1>5, RecordOf DEF MadeOnce
    <2>2. /\ UNCHANGED <<nextOut, log, writing>>
          /\ \A r : Held(r)' <=> r = Synthetic(t) \/ Held(r)
        BY <1>1, <1>5, <2>1, EnqueueHolds
    <2>3. HeldOnce'
        BY <1>1, <1>5, <2>1, EnqueueHeldOnce
    <2>4. InStep' /\ Drains'
        BY <1>1, <1>5, <2>2, OthersInStep, DrainsStep
    <2>5. MadeOnce'
        BY <1>1, <1>3, <1>5, <2>2 DEF MadeOnce
    <2> QED
        BY <2>3, <2>4, <2>5 DEF OutInv
<1>6. ASSUME run, UNCHANGED <<mainPc, todo>>
      PROVE  OutInv'
    <2>1. HeldOnce' /\ \A r : Held(r)' => Held(r)
        BY <1>1, <1>6, RunHolds
    <2>2. InStep' /\ Drains'
        BY <1>1, <1>6, RunInStep, DrainsStep
    <2>3. MadeOnce'
        BY <1>1, <1>6, <2>1 DEF MadeOnce
    <2> QED
        BY <2>1, <2>2, <2>3 DEF OutInv
<1>7. ASSUME ReportGoesOn, CloseChannel \/ CleanOutput \/ SendOnClosed \/ UNCHANGED sinkVars
      PROVE  OutInv'
    <2>1. HeldOnce' /\ \A r : Held(r)' <=> Held(r)
        BY <1>1, <1>7, OthersHold
    <2>2. UNCHANGED <<writing, nextOut, log>>
        BY <1>7 DEF CloseChannel, CleanOutput, SendOnClosed, sinkVars
    <2>3. InStep' /\ Drains'
        BY <1>1, <1>7, <2>2, OthersInStep, DrainsStep
    <2>4. MadeOnce'
        BY <1>1, <1>2, <1>7, <2>1 DEF MadeOnce, ReportGoesOn, BeforeReport
    <2> QED
        BY <2>1, <2>3, <2>4 DEF OutInv
<1> QED
    BY <1>1, <1>4, <1>5, <1>6, <1>7, OutputSteps

LEMMA InitOutInv == Init => OutInv
<1> SUFFICES ASSUME Init PROVE OutInv
    OBVIOUS
<1> USE DEF Init, NewSink
<1>1. log[NumOutputs] = <<>> /\ \A o \in Outputs : log[o] = <<>> /\ ~(o < 1)
    BY OutputRange DEF Outputs
<1>2. \A r : ~Held(r)
    BY <1>1 DEF Held, InChannel, InLog
<1>3. HeldOnce
    BY <1>1 DEF HeldOnce, Distinct, InChannel, InLog
<1>4. InStep /\ Drains
    BY <1>1, OutputRange DEF InStep, SameOrder, Drains
<1>5. MadeOnce
    BY <1>2 DEF MadeOnce
<1> QED
    BY <1>3, <1>4, <1>5 DEF OutInv

LEMMA OutInvariance == Spec => [](IInv /\ OutInv)
<1>1. Init => IInv /\ OutInv
    BY InitIInv, InitOutInv
<1>2. IInv /\ OutInv /\ [Next]_vars => (IInv /\ OutInv)'
    BY StepIInv, OutInvStep
<1> QED
    BY <1>1, <1>2, PTL DEF Spec

(* No output of the coordinator is written a record twice, whatever is     *)
(* reported while ReportUnresolved sends (ReportResults, sink.go).         *)
THEOREM WritesOnce == Spec => []NoDuplicates
<1>1. IInv /\ OutInv => NoDuplicates
    <2> SUFFICES ASSUME IInv, OutInv, NEW o \in Outputs PROVE Distinct(log[o])
        BY DEF NoDuplicates, Distinct
    <2> QED
        BY SinkOfRecords, WrittenOnce DEF IInv, OutInv
<1> QED
    BY <1>1, OutInvariance, PTL

(* Its outputs see one order, and are cleaned after the last write. *)
THEOREM OutputsAgree == Spec => [](SameOrder /\ CleanAfterDrain)
<1>1. IInv /\ OutInv => SameOrder /\ CleanAfterDrain
    BY DrainedBeforeClean DEF OutInv, InStep
<1> QED
    BY <1>1, OutInvariance, PTL
-----------------------------------------------------------------------------
(* After a shutdown.  Nothing is pushed once Serve has returned nil, so    *)
(* what ReportUnresolved copied is all there is to report.                 *)

Reported(t) == Accepted(Synthetic(t)) \/ Synthetic(t) \in dropped

Shutdown ==
    /\ srv = "stopped" => \A c \in Caller : conn[c] = "down"
    /\ serve = "nil" => srv = "stopped"
    /\ mainPc \notin {"select", "join"} => serve # "running"
    /\ mainPc \in {"clean", "exit"} => todo = {}
    /\ mainPc = "exit" => done /\ ~panicked

CopyIsAll ==
    mainPc \in {"report", "clean", "exit"} /\ serve = "nil" =>
        \A c \in Caller : \A t \in sent[c] :
            t \in pending => t \in todo \/ Reported(t) \/ panicked

LEMMA ShutdownStep == TypeOK /\ Shutdown /\ [Next]_vars => Shutdown'
<1> SUFFICES ASSUME TypeOK, Shutdown, [Next]_vars PROVE Shutdown'
    OBVIOUS
<1> USE DEF Shutdown, rendezvousVars, serverVars, callVars, resultVars, mainVars, sinkVars, Alive
<1>1. ASSUME NEW c \in Caller, GetTargets(c) PROVE Shutdown'
    BY <1>1 DEF GetTargets, GetTargetsCall, Register, RegisterRejected, Wake, PushTarget, PushEnds
<1>2. ASSUME NEW c \in Caller, ReportResultsCall(c) \/ RecvResult(c) \/ RecvMalformed(c)
                               \/ RecvEnds(c) \/ Claim(c)
      PROVE  Shutdown'
    BY <1>2 DEF ReportResultsCall, RecvResult, RecvMalformed, RecvEnds, Claim
<1>3. ASSUME NEW c \in Caller, SendResult(c) PROVE Shutdown'
    BY <1>3 DEF SendResult
<1>4. ASSUME NEW c \in Caller, Disconnect(c) \/ Reconnect(c) PROVE Shutdown'
    BY <1>4 DEF Disconnect, Reconnect, TypeOK
<1>5. CASE ServeReturns \/ ServeFails
    BY <1>5 DEF ServeReturns, ServeFails, ServeError
<1>6. CASE TimerExpires \/ OnRegisterTimeout \/ AbortStops
    BY <1>6 DEF TimerExpires, OnRegisterTimeout, AbortStops, StopServer
<1>7. CASE MainStop \/ MainJoin \/ CopyPending
    BY <1>7 DEF MainStop, StopServer, MainJoin, CopyPending
<1>8. CASE SendUnresolved
    BY <1>8 DEF SendUnresolved
<1>9. CASE CloseSink \/ CleanOutputs
    BY <1>9 DEF CloseSink, CloseChannel, CleanOutputs, CleanOutput
<1>10. CASE SinkRun \/ Cancel \/ UNCHANGED vars
    BY <1>10 DEF SinkRun, Cancel, vars
<1> QED
    BY <1>1, <1>2, <1>3, <1>4, <1>5, <1>6, <1>7, <1>8, <1>9, <1>10
    DEF Next, ReportResults, Server, Main, Terminated

(* What is reported or panicked stays so. *)
LEMMA ReportedStays ==
    ASSUME IInv, [Next]_vars
    PROVE  /\ panicked => panicked'
           /\ \A t \in Target : Reported(t) => Reported(t)'
<1>1. TypeOK /\ SinkTypeOK(Record)
    BY DEF IInv, TypeOK
<1>2. /\ panicked => panicked'
      /\ \A r \in Record : Accepted(r) => Accepted(r)'
    <2>1. ASSUME NEW rec \in Record, Enqueue(rec)
          PROVE  (panicked => panicked') /\ \A r \in Record : Accepted(r) => Accepted(r)'
        BY <1>1, <2>1, EnqueueAccepts
    <2>2. todo \subseteq Target
        BY <1>1 DEF TypeOK
    <2> QED
        BY <1>1, <2>1, <2>2, OutputSteps, RecordOf, ResultIsNew, RunKeeps, OtherSinkSteps
<1>3. dropped \subseteq dropped'
    <2> USE DEF rendezvousVars, serverVars, callVars, resultVars, mainVars
    <2>1. ASSUME NEW c \in Caller, GetTargets(c) PROVE dropped' = dropped
        BY <2>1 DEF GetTargets, GetTargetsCall, Register, RegisterRejected, Wake, PushTarget,
                    PushEnds
    <2>2. ASSUME NEW c \in Caller, ReportResults(c) PROVE dropped \subseteq dropped'
        BY <2>2 DEF ReportResults, ReportResultsCall, RecvResult, RecvMalformed, RecvEnds,
                    Claim, SendResult, Send
    <2>3. ASSUME NEW c \in Caller, Disconnect(c) \/ Reconnect(c) PROVE dropped' = dropped
        BY <2>3 DEF Disconnect, Reconnect
    <2>4. CASE Server \/ SinkRun \/ Cancel \/ UNCHANGED vars
        BY <2>4 DEF Server, ServeReturns, ServeFails, TimerExpires, OnRegisterTimeout,
                    AbortStops, SinkRun, Cancel, vars
    <2>5. CASE Main
        BY <2>5 DEF Main, MainStop, MainJoin, CopyPending, SendUnresolved, Send, CloseSink,
                    CleanOutputs
    <2> QED
        BY <2>1, <2>2, <2>3, <2>4, <2>5 DEF Next, Terminated
<1> QED
    BY <1>2, <1>3, RecordOf DEF Reported

LEMMA CopyIsAllStep == IInv /\ Shutdown /\ CopyIsAll /\ [Next]_vars => CopyIsAll'
<1> SUFFICES ASSUME IInv, Shutdown, CopyIsAll, [Next]_vars,
                    mainPc' \in {"report", "clean", "exit"}, serve' = "nil",
                    NEW c \in Caller, NEW t \in sent'[c], t \in pending'
             PROVE  t \in todo' \/ Reported(t)' \/ panicked'
    BY DEF CopyIsAll
<1> USE DEF rendezvousVars, serverVars, callVars, resultVars, mainVars
<1>1. CASE CopyPending
    BY <1>1 DEF CopyPending
<1>2. CASE ~CopyPending
    <2>1. mainPc \in {"report", "clean", "exit"} /\ serve = "nil" /\ sent' = sent
        <3>1. ASSUME NEW d \in Caller, GetTargets(d)
              PROVE  UNCHANGED <<mainPc, serve>> /\ (sent' = sent \/ srv = "serving" \/ conn[d] = "up")
            BY <3>1 DEF GetTargets, GetTargetsCall, Register, RegisterRejected, Wake,
                        PushTarget, PushEnds
        <3>2. ASSUME NEW d \in Caller, ReportResults(d) \/ Disconnect(d) \/ Reconnect(d)
              PROVE  UNCHANGED <<mainPc, serve, sent>>
            BY <3>2 DEF ReportResults, ReportResultsCall, RecvResult, RecvMalformed, RecvEnds,
                        Claim, SendResult, Disconnect, Reconnect
        <3>3. CASE ServeReturns \/ ServeFails
            BY <3>3 DEF ServeReturns, ServeFails, Shutdown
        <3>4. CASE TimerExpires \/ OnRegisterTimeout \/ AbortStops \/ SinkRun \/ Cancel
                   \/ UNCHANGED vars
            BY <3>4 DEF TimerExpires, OnRegisterTimeout, AbortStops, SinkRun, Cancel, vars
        <3>5. CASE MainStop \/ MainJoin
            BY <3>5 DEF MainStop, MainJoin
        <3>6. CASE SendUnresolved \/ CloseSink \/ CleanOutputs
            BY <3>6 DEF SendUnresolved, CloseSink, CleanOutputs
        <3> QED
            BY <1>2, <3>1, <3>2, <3>3, <3>4, <3>5, <3>6
            DEF Next, Server, Main, Terminated, Shutdown
    <2>2. t \in sent[c] /\ t \in Target
        BY <2>1 DEF IInv, TypeOK
    <2>3. t \in pending
        <3>1. ASSUME NEW d \in Caller, Register(d) PROVE pending' = pending
            <4>1. ready
                <5>1. slot[c] # None /\ slot[c] \in Slots(Workers)
                    BY <2>2 DEF IInv, Dealing, TypeOK
                <5> QED
                    BY <2>2, <5>1 DEF IInv, Dealing
            <4>2. arrived >= Workers
                BY <4>1, CoordinatorAssumption DEF IInv, Seating
            <4> QED
                BY <3>1, <4>2, CoordinatorAssumption DEF Register, IInv, TypeOK
        <3>2. ASSUME NEW d \in Caller, GetTargets(d) PROVE pending' = pending
            BY <3>1, <3>2 DEF GetTargets, GetTargetsCall, RegisterRejected, Wake, PushTarget,
                              PushEnds
        <3>3. ASSUME NEW d \in Caller, ReportResults(d) \/ Disconnect(d) \/ Reconnect(d)
              PROVE  pending' \subseteq pending
            BY <3>3 DEF ReportResults, ReportResultsCall, RecvResult, RecvMalformed, RecvEnds,
                        Claim, SendResult, Disconnect, Reconnect
        <3>4. CASE Server \/ SinkRun \/ Cancel \/ UNCHANGED vars
            BY <3>4 DEF Server, ServeReturns, ServeFails, TimerExpires, OnRegisterTimeout,
                        AbortStops, SinkRun, Cancel, vars
        <3>5. CASE Main
            BY <3>5 DEF Main, MainStop, MainJoin, CopyPending, SendUnresolved, CloseSink,
                        CleanOutputs
        <3> QED
            BY <3>2, <3>3, <3>4, <3>5 DEF Next, Terminated
    <2>4. t \in todo \/ Reported(t) \/ panicked
        BY <2>1, <2>2, <2>3 DEF CopyIsAll
    <2>5. t \in todo => t \in todo' \/ Reported(t)' \/ panicked'
        <3>1. CASE SendUnresolved
            <4>1. PICK u \in todo : Send(Synthetic(u)) /\ todo' = todo \ {u}
                BY <3>1 DEF SendUnresolved
            <4>2. Synthetic(u) \in Record
                BY <4>1, RecordOf DEF IInv, TypeOK
            <4>3. Reported(u)' \/ panicked'
                BY <4>1, <4>2, SendEnds DEF IInv, Reported
            <4> QED
                BY <4>1, <4>3
        <3>2. CASE UNCHANGED todo
            BY <3>2
        <3>3. SendUnresolved \/ UNCHANGED todo
            <4>1. ASSUME NEW d \in Caller, GetTargets(d) PROVE UNCHANGED todo
                BY <4>1 DEF GetTargets, GetTargetsCall, Register, RegisterRejected, Wake,
                            PushTarget, PushEnds
            <4>2. ASSUME NEW d \in Caller, ReportResults(d) \/ Disconnect(d) \/ Reconnect(d)
                  PROVE  UNCHANGED todo
                BY <4>2 DEF ReportResults, ReportResultsCall, RecvResult, RecvMalformed,
                            RecvEnds, Claim, SendResult, Disconnect, Reconnect
            <4>3. CASE Server \/ SinkRun \/ Cancel \/ UNCHANGED vars
                BY <4>3 DEF Server, ServeReturns, ServeFails, TimerExpires, OnRegisterTimeout,
                            AbortStops, SinkRun, Cancel, vars
            <4>4. CASE MainStop \/ MainJoin \/ CloseSink \/ CleanOutputs
                BY <4>4 DEF MainStop, MainJoin, CloseSink, CleanOutputs
            <4> QED
                BY <1>2, <4>1, <4>2, <4>3, <4>4 DEF Next, Main, Terminated
        <3> QED
            BY <3>1, <3>2, <3>3
    <2> QED
        BY <2>2, <2>4, <2>5, ReportedStays
<1> QED
    BY <1>1, <1>2

(* At the exit run() has returned: what the sink has accepted is written. *)
LEMMA AcceptedIsWritten ==
    ASSUME Drains, done, NEW r \in Record, Accepted(r)
    PROVE  InLog(NumOutputs, r)
<1>1. ch = <<>> /\ writing = None /\ r # None
    BY CoordinatorAssumption DEF Drains
<1> QED
    BY <1>1 DEF Accepted, InChannel

(* Once a coordinator that was told to stop is gone, each target it pushed *)
(* is in the output, or was given up in a Send, or is with a call that     *)
(* Stop left running.                                                      *)
THEOREM ShutdownReports == Spec => []NothingVanishes
<1>1. Init => Shutdown /\ CopyIsAll
    BY DEF Init, Shutdown, CopyIsAll
<1>2. IInv /\ Shutdown /\ CopyIsAll /\ [Next]_vars => (Shutdown /\ CopyIsAll)'
    BY ShutdownStep, CopyIsAllStep DEF IInv
<1>3. IInv /\ OutInv /\ Shutdown /\ CopyIsAll => NothingVanishes
    <2> SUFFICES ASSUME IInv, OutInv, Shutdown, CopyIsAll, mainPc = "exit", serve = "nil",
                        NEW c \in Caller, NEW t \in sent[c]
                 PROVE  \/ InLog(NumOutputs, Real(t)) \/ InLog(NumOutputs, Synthetic(t))
                        \/ Real(t) \in dropped \/ Synthetic(t) \in dropped
                        \/ InHand(t)
        BY DEF NothingVanishes
    <2>1. done /\ ~panicked /\ todo = {} /\ Drains
        BY DEF Shutdown, OutInv
    <2>2. slot[c] \in Slots(Workers) /\ t \in shards[slot[c]] /\ t \in Target
        BY DEF IInv, Dealing, TypeOK
    <2>3. t \in pending \/ InHand(t) \/ Accepted(Real(t)) \/ Real(t) \in dropped
        BY <2>1, <2>2 DEF IInv, Accounted
    <2>4. t \in pending => Reported(t)
        BY <2>1 DEF CopyIsAll
    <2>5. Real(t) \in Record /\ Synthetic(t) \in Record
        BY <2>2, RecordOf
    <2> QED
        BY <2>1, <2>3, <2>4, <2>5, AcceptedIsWritten DEF Reported
<1> QED
    BY <1>1, <1>2, <1>3, OutInvariance, PTL DEF Spec
=============================================================================
