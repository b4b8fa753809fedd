------------------------- MODULE Distributed_proofs -------------------------
(***************************************************************************)
(* Proofs about a distributed scan, for any number of workers, targets and *)
(* outputs: what the two ends of each stream know of each other, and what  *)
(* a worker's success is worth.                                            *)
(*                                                                         *)
(* A step of the scan is a step of the coordinator or one of a worker, so  *)
(* what Coordinator_proofs shows of every coordinator holds here too; the  *)
(* rest of the invariant relates the two ends of each stream.              *)
(***************************************************************************)
EXTENDS Distributed, Coordinator_proofs

Phases == {"starting", "running", "closed", "ok", "failed"}

(* The two ends of the streams: a worker has received no more than it was  *)
(* sent, reports no more than it has received, and no more is read.        *)
Streams ==
    /\ rx \in [Caller -> SUBSET Target]
    /\ tx \in [Caller -> SUBSET Target]
    /\ ended \in [Caller -> BOOLEAN]
    /\ phase \in [Caller -> Phases]
    /\ \A c \in Caller : /\ rx[c] \subseteq sent[c]
                         /\ tx[c] \subseteq rx[c] \ Unencodable
                         /\ got[c] \subseteq tx[c]

(* What the end of a GetTargets call says: a whole shard was sent, or the  *)
(* caller was turned away, aborted or disconnected.                        *)
TargetCalls ==
    \A c \in Caller :
        /\ gt[c] = "ok" => slot[c] # None /\ ready /\ sent[c] = shards[slot[c]]
        /\ gt[c] = "error" => slot[c] = None \/ aborted \/ Cut(c)

(* What a worker has when its target stream is over: its shard, or it has  *)
(* none, or the rendezvous was aborted, or its connection was made again.  *)
(* Then it receives no more, and the call's end is final.                  *)
Over(c) ==
    \/ aborted \/ c \in remade
    \/ gt[c] \in {"ok", "error"} /\ slot[c] = None
    \/ gt[c] \in {"ok", "error"} /\ ready /\ rx[c] = shards[slot[c]]
TargetsOver == \A c \in Caller : ended[c] => Over(c)

(* ... and when it closes its result stream. *)
AtClose ==
    \A c \in Caller : phase[c] \in {"closed", "ok"} =>
        ended[c] /\ rx[c] \subseteq tx[c] \cup Unencodable

(* A stream is acknowledged once it is closed and read to its end. *)
Acks ==
    \A c \in Caller :
        /\ rr[c] = "acked" => phase[c] \notin {"starting", "running"} /\ got[c] = tx[c]
        /\ phase[c] = "ok" => rr[c] = "acked"

(* A result that was read is in its call's hands, in the sink's, or was    *)
(* given up; the call that panicked goes no further.                       *)
Kept(c, t) ==
    \/ Handles(c, t) \/ Accepted(Real(t))
    \/ ctxDone /\ Real(t) \in dropped
    \/ panicked /\ rr[c] = "recv"
ReadIsKept == \A c \in Caller : \A t \in got[c] \ Malformed : Kept(c, t)

(* ... and its target is not pending any more, when its port fits the wire. *)
Claimed ==
    \A c \in Caller : \A t \in got[c] \ (Malformed \cup TooWide) :
        t \in pending => rr[c] = "claim" /\ cur[c] = t

(* ReportUnresolved runs beside calls that may still be acknowledged only  *)
(* when Serve returned on its own.                                         *)
Joined ==
    /\ mainPc = "join" \/ (mainPc # "select" /\ ~runErr) => srv = "stopped"
    /\ mainPc \in BeforeReport => todo = {}

(* What an acknowledged worker reported is not reported as unresolved. *)
Unresolved(t) == t \in todo \/ Accepted(Synthetic(t))
Resolved ==
    \A c \in Caller : rr[c] = "acked" =>
        \A t \in got[c] \ (Malformed \cup TooWide) : Unresolved(t) => runErr

DInv ==
    /\ Streams /\ TargetCalls /\ TargetsOver /\ AtClose /\ Acks
    /\ ReadIsKept /\ Claimed /\ Joined /\ Resolved
-----------------------------------------------------------------------------
(* A step of the scan: of a worker, of a call, or of the rest of the       *)
(* coordinator, which touches no call.  A result stream that opens is a    *)
(* call's step that its worker sees.                                       *)
CallMoves(c) ==
    \/ GetTargets(c) \/ ReportResultsCall(c) \/ Claim(c) \/ SendResult(c)
    \/ Reads(c) \/ StreamEnds(c)

WorkersStay ==
    /\ UNCHANGED <<rx, tx, ended>>
    /\ \/ UNCHANGED phase
       \/ \E c \in Caller : phase[c] = "starting" /\ phase' = [phase EXCEPT ![c] = "running"]

LEMMA ScanSteps ==
    ASSUME TypeOK, [DNext]_allVars
    PROVE  \/ UNCHANGED vars /\ \E c \in Caller : WorkerStep(c)
           \/ /\ WorkersStay /\ [Next]_vars
              /\ Quiet \/ \E c \in Caller : CallMoves(c)
<1>1. ASSUME NEW c \in Caller, WorkerStep(c) PROVE UNCHANGED vars
    BY <1>1 DEF WorkerStep, WReceive, WEnd, WReport, WClose, WExit, Becomes
<1>2. ASSUME NEW c \in Caller, CallStep(c)
      PROVE  CallMoves(c) /\ Next
    BY <1>2 DEF CallStep, CallMoves, Reads, StreamEnds, GetTargets, ReportResults, Next
<1>3. ASSUME NEW c \in Caller, Asks(c)
      PROVE  CallMoves(c) /\ Next /\ UNCHANGED workerVars
    BY <1>3 DEF Asks, CallMoves, GetTargets, Next
<1>4. ASSUME NEW c \in Caller, Opens(c)
      PROVE  CallMoves(c) /\ Next /\ WorkersStay
    BY <1>4 DEF Opens, AsReporter!Open, CallMoves, ReportResults, Next, WorkersStay
<1>5. ASSUME Disturbance \/ ServeReturns \/ OnRegisterTimeout \/ AbortStops \/ Main \/ SinkRun
             \/ UNCHANGED vars
      PROVE  Quiet /\ [Next]_vars
    BY <1>5, QuietSteps DEF Disturbance, Server, Next
<1>6. UNCHANGED workerVars => WorkersStay
    BY DEF workerVars, WorkersStay
<1> QED
    BY <1>1, <1>2, <1>3, <1>4, <1>5, <1>6
    DEF DNext, Progress, CoordinatorStep, Disturbance, Ended, allVars

(* What no step of the coordinator takes back. *)
LEMMA Lasting ==
    ASSUME IInv, [Next]_vars
    PROVE  /\ \A c \in Caller : Cut(c) => Cut(c)'
           /\ remade \subseteq remade'
           /\ aborted => aborted'
           /\ ctxDone => ctxDone'
           /\ dropped \subseteq dropped'
           /\ ready => ready' /\ shards' = shards
           /\ \A c \in Caller : /\ sent[c] \subseteq sent'[c]
                                /\ slot[c] # None => slot'[c] = slot[c]
                                /\ gt[c] \in {"ok", "error"} =>
                                      UNCHANGED <<gt[c], slot[c], sent[c]>>
<1> USE DEF rendezvousVars, serverVars, callVars, resultVars, mainVars
<1>1. CASE \E d \in Caller : GetTargets(d)
    <2>1. PICK d \in Caller : GetTargets(d)
        BY <1>1
    <2>2. UNCHANGED <<conn, remade, aborted, ctxDone, dropped>>
        BY <2>1 DEF GetTargets, GetTargetsCall, Register, RegisterRejected, Wake, PushTarget,
                    PushEnds
    <2>3. ready => UNCHANGED <<ready, shards>>
        <3>1. ready => ~(arrived < Workers)
            BY CoordinatorAssumption DEF IInv, Seating
        <3>2. CASE Register(d)
            BY <3>1, <3>2 DEF Register
        <3>3. CASE ~Register(d)
            BY <2>1, <3>3 DEF GetTargets, GetTargetsCall, RegisterRejected, Wake, PushTarget,
                              PushEnds
        <3> QED
            BY <3>2, <3>3
    <2>4. /\ gt[d] \notin {"ok", "error"}
          /\ \A c \in Caller \ {d} : UNCHANGED <<gt[c], slot[c], sent[c]>>
          /\ sent[d] \subseteq sent'[d]
          /\ slot[d] # None => slot'[d] = slot[d]
        BY <2>1 DEF GetTargets, GetTargetsCall, Register, TakeSlot, RegisterRejected, Wake,
                    PushTarget, PushEnds, IInv, TypeOK, Seating
    <2> QED
        BY <2>2, <2>3, <2>4 DEF Cut
<1>2. ASSUME NEW d \in Caller, ReportResults(d)
      PROVE  /\ UNCHANGED <<conn, remade, aborted, ctxDone, ready, shards, sent, slot, gt>>
             /\ dropped \subseteq dropped'
    BY <1>2 DEF ReportResults, ReportResultsCall, RecvResult, RecvMalformed, RecvEnds, Claim,
                SendResult, Send
<1>3. ASSUME \/ \E d \in Caller : Disconnect(d) \/ Reconnect(d)
             \/ Server \/ SinkRun \/ Cancel \/ UNCHANGED vars
      PROVE  /\ UNCHANGED <<ready, shards, sent, slot, gt, dropped>>
             /\ (aborted => aborted') /\ (ctxDone => ctxDone')
             /\ remade \subseteq remade'
             /\ \A c \in Caller : conn[c] = "down" => conn'[c] = "down" \/ c \in remade'
    BY <1>3 DEF Disconnect, Reconnect, Server, ServeReturns, ServeFails, TimerExpires, OnRegisterTimeout,
                AbortStops, StopServer, SinkRun, Cancel, vars, IInv, TypeOK
<1>4. ASSUME Main
      PROVE  /\ UNCHANGED <<ready, shards, sent, slot, gt, aborted, ctxDone>>
             /\ dropped \subseteq dropped' /\ remade' = remade
             /\ \A c \in Caller : conn[c] = "down" => conn'[c] = "down"
    BY <1>4 DEF Main, MainStop, StopServer, MainJoin, CopyPending, SendUnresolved, Send,
                CloseSink, CleanOutputs
<1> QED
    BY <1>1, <1>2, <1>3, <1>4 DEF Next, Terminated, Cut
-----------------------------------------------------------------------------
(* What a step of worker c does to the streams. *)
LEMMA WorkerMoves ==
    ASSUME Streams, IInv, NEW c \in Caller, WorkerStep(c)
    PROVE  /\ UNCHANGED vars
           /\ \A d \in Caller \ {c} : UNCHANGED <<rx[d], tx[d], ended[d], phase[d]>>
           /\ \/ /\ ~ended[c] /\ phase[c] \in {"starting", "running"}
                 /\ UNCHANGED <<tx[c], ended[c], phase[c]>>
                 /\ \E t \in sent[c] \ rx[c] : t \in Target /\ rx'[c] = rx[c] \cup {t}
              \/ /\ phase[c] \in {"starting", "running"} /\ UNCHANGED <<rx[c], tx[c], phase[c]>>
                 /\ ~CutOff(c) /\ TargetsEnded(c) /\ ended'[c] = TRUE
              \/ /\ phase[c] = "running" /\ UNCHANGED <<rx[c], ended[c], phase[c]>>
                 /\ \E t \in rx[c] \ (tx[c] \cup Unencodable) : tx'[c] = tx[c] \cup {t}
              \/ /\ phase[c] = "running" /\ UNCHANGED <<rx[c], tx[c], ended[c]>>
                 /\ ended[c] /\ rx[c] \subseteq tx[c] \cup Unencodable
                 /\ phase'[c] = "closed"
              \/ /\ phase[c] = "closed" /\ UNCHANGED <<rx[c], tx[c], ended[c]>>
                 /\ rr[c] = "acked" /\ phase'[c] = "ok"
              \/ /\ phase[c] \in {"starting", "running", "closed"}
                 /\ UNCHANGED <<rx[c], tx[c], ended[c]>> /\ phase'[c] = "failed"
<1>0. /\ rx \in [Caller -> SUBSET Target] /\ tx \in [Caller -> SUBSET Target]
      /\ ended \in [Caller -> BOOLEAN] /\ phase \in [Caller -> Phases]
      /\ sent[c] \subseteq Target
    BY DEF Streams, IInv, TypeOK
<1>1. CASE WReceive(c)
    BY <1>0, <1>1 DEF WReceive, AsReporter!Receive
<1>2. CASE WEnd(c)
    BY <1>0, <1>2 DEF WEnd, AsReporter!End
<1>3. CASE WReport(c)
    <2>1. /\ UNCHANGED <<vars, rx, ended, phase>> /\ phase[c] = "running"
          /\ \E t \in rx[c] \ (tx[c] \cup Unencodable) : tx'[c] = tx[c] \cup {t}
        BY <1>3 DEF WReport, AsReporter!Report
    <2>2. \A d \in Caller \ {c} : tx'[d] = tx[d]
        BY <1>0, <1>3 DEF WReport
    <2> QED
        BY <2>1, <2>2
<1>4. CASE WClose(c)
    BY <1>0, <1>4 DEF WClose, Becomes, AsReporter!Close
<1>5. CASE WExit(c)
    BY <1>0, <1>5 DEF WExit, Becomes, AsReporter!Succeed, AsReporter!Fail
<1> QED
    BY <1>1, <1>2, <1>3, <1>4, <1>5 DEF WorkerStep

(* What a call reads, and when it is acknowledged. *)
LEMMA CallReads ==
    ASSUME IInv, NEW c \in Caller, CallMoves(c)
    PROVE  /\ \A d \in Caller \ {c} : UNCHANGED <<rr[d], cur[d], got[d]>>
           /\ \/ UNCHANGED got[c]
              \/ rr[c] = "recv" /\ got'[c] \subseteq tx[c]
           /\ \/ rr'[c] # "acked"
              \/ UNCHANGED <<rr[c], got[c]>>
              \/ /\ rr[c] = "recv" /\ conn[c] = "up"
                 /\ phase[c] = "closed" /\ got[c] = tx[c]
                 /\ UNCHANGED got[c]
           /\ rr[c] = "acked" => UNCHANGED <<rr[c], got[c]>>
<1> USE DEF callVars, resultVars, serverVars, mainVars, sinkVars
<1>0. /\ rr \in [Caller -> {"idle", "recv", "claim", "send", "acked", "error"}]
      /\ got \in [Caller -> SUBSET Target] /\ cur \in [Caller -> Target \cup {None}]
      /\ conn \in [Caller -> {"up", "down"}]
    BY DEF IInv, TypeOK
<1>1. ASSUME GetTargets(c) PROVE UNCHANGED <<rr, cur, got>>
    BY <1>1 DEF GetTargets, GetTargetsCall, Register, RegisterRejected, Wake, PushTarget,
                PushEnds
<1>2. CASE ReportResultsCall(c) \/ Claim(c) \/ SendResult(c)
    BY <1>0, <1>2 DEF ReportResultsCall, Claim, SendResult
<1>3. CASE Reads(c)
    BY <1>0, <1>3 DEF Reads, RecvResult, RecvMalformed
<1>4. CASE StreamEnds(c)
    BY <1>0, <1>4 DEF StreamEnds, RecvEnds
<1> QED
    BY <1>1, <1>2, <1>3, <1>4 DEF CallMoves

LEMMA StreamsStep == IInv /\ Streams /\ [DNext]_allVars => Streams'
<1> SUFFICES ASSUME IInv, Streams, [DNext]_allVars PROVE Streams'
    OBVIOUS
<1>1. ASSUME NEW c \in Caller, UNCHANGED vars, WorkerStep(c) PROVE Streams'
    <2>1. UNCHANGED <<sent, got>>
        BY <1>1 DEF vars, callVars, resultVars
    <2>2. /\ rx' \in [Caller -> SUBSET Target] /\ tx' \in [Caller -> SUBSET Target]
          /\ ended' \in [Caller -> BOOLEAN] /\ phase' \in [Caller -> Phases]
        <3> USE DEF Streams, Phases
        <3>1. CASE WReceive(c)
            <4>1. \A t \in sent[c] : t \in Target
                BY DEF IInv, TypeOK
            <4> QED
                BY <3>1, <4>1 DEF WReceive
        <3>2. CASE WReport(c)
            BY <3>2 DEF WReport
        <3>3. CASE WEnd(c)
            BY <3>3 DEF WEnd
        <3>4. CASE WClose(c) \/ WExit(c)
            BY <3>4 DEF WClose, WExit, Becomes
        <3> QED
            BY <1>1, <3>1, <3>2, <3>3, <3>4 DEF WorkerStep
    <2>3. \A d \in Caller : /\ rx'[d] \subseteq sent[d]
                            /\ tx'[d] \subseteq rx'[d] \ Unencodable
                            /\ got[d] \subseteq tx'[d]
        <3>1. /\ \A d \in Caller \ {c} : UNCHANGED <<rx[d], tx[d]>>
              /\ \/ UNCHANGED <<rx[c], tx[c]>>
                 \/ UNCHANGED tx[c] /\ \E t \in sent[c] : rx'[c] = rx[c] \cup {t}
                 \/ UNCHANGED rx[c] /\ \E t \in rx[c] \ Unencodable : tx'[c] = tx[c] \cup {t}
            BY <1>1, WorkerMoves
        <3> QED
            BY <3>1 DEF Streams
    <2> QED
        BY <2>1, <2>2, <2>3 DEF Streams
<1>2. ASSUME WorkersStay, [Next]_vars, NEW c \in Caller, CallMoves(c) PROVE Streams'
    <2>1. \A d \in Caller : sent[d] \subseteq sent'[d]
        BY <1>2, Lasting
    <2>2. \A d \in Caller : got'[d] = got[d] \/ got'[d] \subseteq tx[d]
        BY <1>2, CallReads
    <2> QED
        BY <1>2, <2>1, <2>2 DEF Streams, WorkersStay, Phases
<1>3. ASSUME WorkersStay, Quiet PROVE Streams'
    BY <1>3 DEF Streams, Quiet, WorkersStay, Phases
<1> QED
    BY <1>1, <1>2, <1>3, ScanSteps DEF IInv

LEMMA TargetCallsStep == IInv /\ TargetCalls /\ [DNext]_allVars => TargetCalls'
<1> SUFFICES ASSUME IInv, TargetCalls, [DNext]_allVars PROVE TargetCalls'
    OBVIOUS
<1>1. CASE UNCHANGED vars
    BY <1>1 DEF vars, rendezvousVars, serverVars, callVars, TargetCalls, Cut
<1>2. ASSUME [Next]_vars, UNCHANGED gt
      PROVE  TargetCalls'
    BY <1>2, Lasting DEF TargetCalls
<1>3. ASSUME NEW c \in Caller, [Next]_vars, GetTargets(c) PROVE TargetCalls'
    <2>1. /\ gt'[c] = "ok" => /\ gt[c] = "push" /\ Unsent(c) = {}
                              /\ UNCHANGED <<slot, ready, sent, shards>>
          /\ gt'[c] = "error" => slot'[c] = None \/ aborted' \/ Cut(c)'
          /\ \A d \in Caller \ {c} : gt'[d] = gt[d]
        BY <1>3 DEF GetTargets, GetTargetsCall, Register, RegisterRejected, Wake, PushTarget,
                    PushEnds, rendezvousVars, serverVars, Cut, IInv, TypeOK, Seating
    <2>2. gt'[c] = "ok" => slot[c] # None /\ ready /\ sent[c] = shards[slot[c]]
        BY <2>1 DEF Unsent, IInv, Seating, Dealing
    <2>3. ASSUME NEW d \in Caller \ {c}
          PROVE  /\ gt'[d] = "ok" => slot'[d] # None /\ ready' /\ sent'[d] = shards'[slot'[d]]
                 /\ gt'[d] = "error" => slot'[d] = None \/ aborted' \/ Cut(d)'
        BY <1>3, <2>1, Lasting DEF TargetCalls
    <2> QED
        BY <2>1, <2>2, <2>3 DEF TargetCalls
<1>4. ASSUME NEW c \in Caller, CallMoves(c), ~GetTargets(c) PROVE UNCHANGED gt
    BY <1>4 DEF CallMoves, ReportResultsCall, Claim, SendResult, Reads, RecvResult,
                RecvMalformed, StreamEnds, RecvEnds, callVars
<1>5. Quiet => UNCHANGED gt
    BY DEF Quiet
<1> QED
    BY <1>1, <1>2, <1>3, <1>4, <1>5, ScanSteps DEF IInv

(* A worker sees the end of a live stream after all that was put on it. *)
LEMMA TargetsOverStep ==
    IInv /\ Streams /\ TargetCalls /\ TargetsOver /\ [DNext]_allVars => TargetsOver'
<1> SUFFICES ASSUME IInv, Streams, TargetCalls, TargetsOver, [DNext]_allVars PROVE TargetsOver'
    OBVIOUS
<1>1. ASSUME NEW c \in Caller, UNCHANGED vars, WorkerStep(c) PROVE TargetsOver'
    <2>1. UNCHANGED <<gt, slot, aborted, remade, ready, shards>>
        BY <1>1 DEF vars, callVars, rendezvousVars, serverVars
    <2>2. ended'[c] => (ended[c] /\ UNCHANGED rx[c])
                       \/ (~CutOff(c) /\ TargetsEnded(c) /\ UNCHANGED rx[c])
        BY <1>1, WorkerMoves
    <2>3. ~CutOff(c) /\ TargetsEnded(c) => Over(c)
        BY DEF CutOff, Cut, TargetsEnded, Over, TargetCalls
    <2>4. \A d \in Caller \ {c} : UNCHANGED <<rx[d], ended[d]>>
        BY <1>1, WorkerMoves
    <2> QED
        BY <2>1, <2>2, <2>3, <2>4 DEF TargetsOver, Over
<1>2. ASSUME WorkersStay, [Next]_vars PROVE TargetsOver'
    BY <1>2, Lasting DEF TargetsOver, Over, WorkersStay
<1> QED
    BY <1>1, <1>2, ScanSteps DEF IInv

LEMMA AtCloseStep == IInv /\ Streams /\ AtClose /\ [DNext]_allVars => AtClose'
<1> SUFFICES ASSUME IInv, Streams, AtClose, [DNext]_allVars PROVE AtClose'
    OBVIOUS
<1>1. ASSUME NEW c \in Caller, UNCHANGED vars, WorkerStep(c) PROVE AtClose'
    BY <1>1, WorkerMoves DEF AtClose
<1>2. ASSUME WorkersStay PROVE AtClose'
    BY <1>2 DEF AtClose, WorkersStay, Streams
<1> QED
    BY <1>1, <1>2, ScanSteps DEF IInv

LEMMA AcksStep == IInv /\ Streams /\ Acks /\ [DNext]_allVars => Acks'
<1> SUFFICES ASSUME IInv, Streams, Acks, [DNext]_allVars PROVE Acks'
    OBVIOUS
<1>1. ASSUME NEW c \in Caller, UNCHANGED vars, WorkerStep(c) PROVE Acks'
    <2>1. UNCHANGED <<rr, got>>
        BY <1>1 DEF vars, resultVars
    <2> QED
        BY <1>1, <2>1, WorkerMoves DEF Acks
<1>2. ASSUME WorkersStay, NEW c \in Caller, CallMoves(c) PROVE Acks'
    BY <1>2, CallReads DEF Acks, WorkersStay, Streams
<1>3. ASSUME WorkersStay, Quiet PROVE Acks'
    BY <1>3 DEF Acks, Quiet, WorkersStay, Streams
<1> QED
    BY <1>1, <1>2, <1>3, ScanSteps DEF IInv
-----------------------------------------------------------------------------
(* What becomes of the results that were read. *)

LEMMA ReadIsKeptStep == IInv /\ ReadIsKept /\ [DNext]_allVars => ReadIsKept'
<1> SUFFICES ASSUME IInv, ReadIsKept, [DNext]_allVars PROVE ReadIsKept'
    OBVIOUS
<1> USE DEF callVars, resultVars
<1>0. /\ rr \in [Caller -> {"idle", "recv", "claim", "send", "acked", "error"}]
      /\ got \in [Caller -> SUBSET Target] /\ cur \in [Caller -> Target \cup {None}]
      /\ \A c \in Caller : \A t \in got[c] : t \in Target
      /\ UNCHANGED sinkVars => \A r : Accepted(r)' <=> Accepted(r)
    BY OtherSinkSteps DEF IInv, TypeOK
<1>1. ASSUME [Next]_vars, Quiet PROVE ReadIsKept'
    BY <1>0, <1>1, Lasting DEF ReadIsKept, Kept, Handles, Quiet
<1>2. CASE UNCHANGED vars
    BY <1>1, <1>2, QuietSteps DEF IInv
<1>3. ASSUME NEW c \in Caller, GetTargets(c) PROVE ReadIsKept'
    <2>1. UNCHANGED <<rr, cur, got, dropped, ctxDone, sinkVars>>
        BY <1>3 DEF GetTargets, GetTargetsCall, Register, RegisterRejected, Wake, PushTarget,
                    PushEnds
    <2>2. UNCHANGED panicked
        BY <2>1 DEF sinkVars
    <2> QED
        BY <1>0, <2>1, <2>2 DEF ReadIsKept, Kept, Handles
<1>4. ASSUME NEW c \in Caller, ReportResultsCall(c) \/ Claim(c) \/ RecvMalformed(c) \/ RecvEnds(c)
      PROVE  ReadIsKept'
    <2>1. /\ UNCHANGED <<cur, dropped, ctxDone, sinkVars>> /\ ~panicked
          /\ \A d \in Caller : got'[d] \ Malformed = got[d] \ Malformed
          /\ \A d \in Caller : rr[d] \in {"claim", "send"} => rr'[d] \in {"claim", "send"}
        BY <1>0, <1>4 DEF ReportResultsCall, Claim, RecvMalformed, RecvEnds, Alive
    <2> QED
        BY <1>0, <2>1 DEF ReadIsKept, Kept, Handles
<1>5. ASSUME NEW c \in Caller, RecvResult(c) PROVE ReadIsKept'
    <2>1. /\ UNCHANGED <<dropped, ctxDone, sinkVars>> /\ ~panicked /\ rr[c] = "recv"
          /\ \A d \in Caller \ {c} : UNCHANGED <<rr[d], cur[d], got[d]>>
        BY <1>0, <1>5 DEF RecvResult, Alive
    <2>2. \A t \in got'[c] : t \in got[c] \/ (rr'[c] = "claim" /\ cur'[c] = t)
        BY <1>0, <1>5 DEF RecvResult
    <2>3. panicked' = panicked /\ \A r : Accepted(r)' <=> Accepted(r)
        BY <1>0, <2>1 DEF sinkVars
    <2>4. ASSUME NEW d \in Caller, NEW t \in got'[d] \ Malformed PROVE Kept(d, t)'
        <3>1. CASE t \in got[d]
            <4>1. Kept(d, t)
                BY <2>4, <3>1 DEF ReadIsKept
            <4> QED
                BY <2>1, <2>3, <4>1 DEF Kept, Handles
        <3>2. CASE t \notin got[d]
            BY <2>1, <2>2, <2>4, <3>2 DEF Kept, Handles
        <3> QED
            BY <3>1, <3>2
    <2> QED
        BY <2>4 DEF ReadIsKept
<1>6. ASSUME NEW c \in Caller, SendResult(c), [Next]_vars PROVE ReadIsKept'
    <2>1. /\ UNCHANGED <<got, ctxDone>> /\ rr[c] = "send" /\ rr'[c] = "recv" /\ ~panicked
          /\ \A d \in Caller \ {c} : UNCHANGED <<rr[d], cur[d]>>
          /\ Send(Real(cur[c]))
        BY <1>0, <1>6 DEF SendResult, Alive
    <2>2. PICK u \in Target : u = cur[c]
        BY <2>1, ResultIsNew
    <2>3. Real(u) \in Record /\ Send(Real(u))
        BY <2>1, <2>2, RecordOf
    <2>4. /\ \A r \in Record : Accepted(r) => Accepted(r)'
          /\ dropped \subseteq dropped'
          /\ \/ Accepted(Real(u))'
             \/ ctxDone /\ Real(u) \in dropped'
             \/ panicked'
        BY <2>3, SendEnds DEF IInv
    <2>5. ASSUME NEW d \in Caller, NEW t \in got[d] \ Malformed PROVE Kept(d, t)'
        <3>1. Real(t) \in Record
            BY <1>0, RecordOf
        <3>2. Handles(d, t) \/ Accepted(Real(t)) \/ (ctxDone /\ Real(t) \in dropped)
            BY <2>1 DEF ReadIsKept, Kept
        <3>3. CASE Handles(d, t) /\ d = c
            <4>1. t = u
                BY <2>2, <3>3 DEF Handles
            <4> QED
                BY <2>1, <2>4, <3>3, <4>1 DEF Kept
        <3>4. CASE Handles(d, t) /\ d # c
            BY <2>1, <3>4 DEF Handles, Kept
        <3> QED
            BY <2>1, <2>4, <3>1, <3>2, <3>3, <3>4 DEF Kept
    <2> QED
        BY <2>1, <2>5 DEF ReadIsKept
<1> QED
    BY <1>1, <1>2, <1>3, <1>4, <1>5, <1>6, ScanSteps DEF IInv, CallMoves, Reads, StreamEnds

LEMMA ClaimedStep == IInv /\ Claimed /\ [DNext]_allVars => Claimed'
<1> SUFFICES ASSUME IInv, Claimed, [DNext]_allVars PROVE Claimed'
    OBVIOUS
<1> USE DEF callVars, resultVars, rendezvousVars
<1>0. /\ rr \in [Caller -> {"idle", "recv", "claim", "send", "acked", "error"}]
      /\ got \in [Caller -> SUBSET Target] /\ cur \in [Caller -> Target \cup {None}]
    BY DEF IInv, TypeOK
<1>1. ASSUME Quiet PROVE Claimed'
    BY <1>1 DEF Claimed, Quiet
<1>2. CASE UNCHANGED vars
    BY <1>1, <1>2, QuietSteps DEF IInv
<1>3. ASSUME NEW c \in Caller, GetTargets(c) PROVE Claimed'
    <2>1. UNCHANGED <<rr, cur, got>>
        BY <1>3 DEF GetTargets, GetTargetsCall, Register, RegisterRejected, Wake, PushTarget,
                    PushEnds
    <2>2. CASE ready
        <3>1. pending' = pending
            <4>1. ~(arrived < Workers)
                BY <2>2, CoordinatorAssumption DEF IInv, Seating
            <4> QED
                BY <1>3, <4>1 DEF GetTargets, GetTargetsCall, Register, RegisterRejected, Wake,
                                  PushTarget, PushEnds
        <3> QED
            BY <2>1, <3>1 DEF Claimed
    <2>3. CASE ~ready
        <3>1. \A d \in Caller : slot[d] # None => shards[slot[d]] = {}
            BY <2>3 DEF IInv, Dealing, TypeOK
        <3>2. \A d \in Caller : got[d] = {}
            BY <3>1 DEF IInv, Dealing, Results
        <3> QED
            BY <2>1, <3>2 DEF Claimed
    <2> QED
        BY <2>2, <2>3
<1>4. ASSUME NEW c \in Caller, ReportResultsCall(c) \/ RecvMalformed(c) \/ RecvEnds(c) \/ SendResult(c)
      PROVE  Claimed'
    <2>1. /\ UNCHANGED pending /\ rr[c] # "claim"
          /\ \A d \in Caller : got'[d] \ (Malformed \cup TooWide) = got[d] \ (Malformed \cup TooWide)
          /\ \A d \in Caller \ {c} : UNCHANGED <<rr[d], cur[d]>>
        BY <1>0, <1>4 DEF ReportResultsCall, RecvMalformed, RecvEnds, SendResult
    <2> QED
        BY <2>1 DEF Claimed
<1>5. ASSUME NEW c \in Caller, RecvResult(c) PROVE Claimed'
    <2>1. /\ UNCHANGED pending /\ rr[c] = "recv"
          /\ \A d \in Caller \ {c} : UNCHANGED <<rr[d], cur[d], got[d]>>
          /\ \A t \in got'[c] : t \in got[c] \/ (rr'[c] = "claim" /\ cur'[c] = t)
        BY <1>0, <1>5 DEF RecvResult
    <2> QED
        BY <2>1 DEF Claimed
<1>6. ASSUME NEW c \in Caller, Claim(c) PROVE Claimed'
    <2>1. /\ UNCHANGED got /\ pending' = pending \ {Arrives(cur[c])}
          /\ \A d \in Caller \ {c} : UNCHANGED <<rr[d], cur[d]>>
        BY <1>0, <1>6 DEF Claim
    <2>2. cur[c] \notin TooWide => Arrives(cur[c]) = cur[c]
        BY DEF Arrives
    <2> QED
        BY <2>1, <2>2 DEF Claimed
<1> QED
    BY <1>1, <1>2, <1>3, <1>4, <1>5, <1>6, ScanSteps DEF IInv, CallMoves, Reads, StreamEnds
-----------------------------------------------------------------------------
(* What ReportUnresolved makes of what is left. *)

LEMMA JoinedStep == IInv /\ Shutdown /\ Joined /\ [DNext]_allVars => Joined'
<1> SUFFICES ASSUME IInv, Shutdown, Joined, [DNext]_allVars PROVE Joined'
    OBVIOUS
<1> USE DEF rendezvousVars, serverVars, callVars, resultVars, mainVars, Joined, BeforeReport
<1>1. CASE UNCHANGED vars
    BY <1>1 DEF vars
<1>2. ASSUME NEW c \in Caller, GetTargets(c) PROVE Joined'
    BY <1>2 DEF GetTargets, GetTargetsCall, Register, RegisterRejected, Wake, PushTarget,
                PushEnds
<1>3. ASSUME NEW c \in Caller, ReportResults(c) PROVE Joined'
    BY <1>3 DEF ReportResults, ReportResultsCall, RecvResult, RecvMalformed, RecvEnds, Claim,
                SendResult
<1>4. ASSUME NEW c \in Caller, Disconnect(c) \/ Reconnect(c) PROVE Joined'
    BY <1>4 DEF Disconnect, Reconnect
<1>5. CASE Server
    BY <1>5 DEF Server, ServeReturns, ServeFails, TimerExpires, OnRegisterTimeout, AbortStops,
                StopServer
<1>6. CASE MainStop \/ CopyPending \/ CloseSink \/ CleanOutputs
    BY <1>6 DEF MainStop, StopServer, CopyPending, CloseSink, CleanOutputs
<1>7. CASE MainJoin
    BY <1>7 DEF MainJoin, Shutdown
<1>8. CASE SendUnresolved
    BY <1>8 DEF SendUnresolved
<1>9. CASE SinkRun \/ Cancel
    BY <1>9 DEF SinkRun, Cancel
<1> QED
    BY <1>1, <1>2, <1>3, <1>4, <1>5, <1>6, <1>7, <1>8, <1>9, ScanSteps
    DEF IInv, Next, Main, Terminated

(* A target becomes unresolved when ReportUnresolved finds it in pending,  *)
(* and in no other way.                                                    *)
LEMMA BecomesUnresolved ==
    ASSUME IInv, [Next]_vars, NEW t \in Target, Unresolved(t)'
    PROVE  \/ Unresolved(t)
           \/ t \in pending /\ UNCHANGED <<rr, got, runErr>>
<1> USE DEF rendezvousVars, serverVars, callVars, resultVars, mainVars
<1>0. /\ TypeOK /\ Synthetic(t) \in Record
      /\ UNCHANGED sinkVars => \A r : Accepted(r)' <=> Accepted(r)
    BY RecordOf, OtherSinkSteps DEF IInv, TypeOK
<1>1. ASSUME NEW c \in Caller, GetTargets(c) PROVE UNCHANGED <<todo, sinkVars>>
    BY <1>1 DEF GetTargets, GetTargetsCall, Register, RegisterRejected, Wake, PushTarget,
                PushEnds
<1>2. ASSUME NEW c \in Caller, ReportResultsCall(c) \/ RecvResult(c) \/ RecvMalformed(c)
                               \/ RecvEnds(c) \/ Claim(c) \/ Disconnect(c) \/ Reconnect(c)
      PROVE  UNCHANGED <<todo, sinkVars>>
    BY <1>2 DEF ReportResultsCall, RecvResult, RecvMalformed, RecvEnds, Claim, Disconnect,
                Reconnect
<1>3. ASSUME NEW c \in Caller, SendResult(c) PROVE Unresolved(t)
    <2>1. rr[c] = "send" /\ Send(Real(cur[c])) /\ UNCHANGED todo
        BY <1>3 DEF SendResult
    <2>2. PICK u \in Target : u = cur[c]
        BY <2>1, ResultIsNew
    <2>3. Send(Real(u)) /\ Real(u) \in Record /\ Synthetic(t) # Real(u)
        BY <2>1, <2>2, RecordOf DEF Real, Synthetic
    <2>4. Accepted(Synthetic(t))' => Accepted(Synthetic(t))
        BY <1>0, <2>3, SendEnds
    <2> QED
        BY <2>1, <2>4 DEF Unresolved
<1>4. ASSUME Server \/ Cancel \/ MainStop \/ MainJoin \/ UNCHANGED vars
      PROVE  UNCHANGED <<todo, sinkVars>>
    BY <1>4 DEF Server, ServeReturns, ServeFails, TimerExpires, OnRegisterTimeout, AbortStops,
                Cancel, MainStop, MainJoin, vars
<1>5. CASE CopyPending
    BY <1>0, <1>5 DEF CopyPending, Unresolved
<1>6. CASE SendUnresolved
    <2>1. PICK u \in todo : Send(Synthetic(u)) /\ todo' = todo \ {u}
        BY <1>6 DEF SendUnresolved
    <2>2. u \in Target /\ Synthetic(u) \in Record
        BY <1>0, <2>1, RecordOf DEF TypeOK
    <2>3. Accepted(Synthetic(t))' => Accepted(Synthetic(t)) \/ Synthetic(t) = Synthetic(u)
        BY <1>0, <2>1, <2>2, SendEnds
    <2>4. Synthetic(t) = Synthetic(u) => t = u
        BY DEF Synthetic
    <2> QED
        BY <2>1, <2>3, <2>4 DEF Unresolved
<1>7. CASE CloseSink \/ CleanOutputs
    BY <1>0, <1>7, OtherSinkSteps DEF CloseSink, CleanOutputs, Unresolved, TypeOK
<1>8. CASE SinkRun
    BY <1>0, <1>8, RunKeeps DEF SinkRun, Unresolved, TypeOK
<1>9. CASE UNCHANGED <<todo, sinkVars>>
    BY <1>0, <1>9 DEF Unresolved
<1> QED
    BY <1>1, <1>2, <1>3, <1>4, <1>5, <1>6, <1>7, <1>8, <1>9
    DEF Next, ReportResults, Main, Terminated

(* The verdict of Serve is final before anything is unresolved. *)
LEMMA UnresolvedIsLate ==
    ASSUME IInv, OutInv, Joined, [Next]_vars, NEW t \in Target, Unresolved(t)
    PROVE  mainPc \notin BeforeReport /\ runErr' = runErr
<1> USE DEF rendezvousVars, serverVars, callVars, resultVars, mainVars
<1>1. Accepted(Synthetic(t)) => Held(Synthetic(t))
    BY RecordOf, CoordinatorAssumption DEF Accepted, Held
<1>2. mainPc \notin BeforeReport
    BY <1>1 DEF Unresolved, Joined, OutInv, MadeOnce, BeforeReport
<1>3. ASSUME NEW c \in Caller, GetTargets(c) \/ ReportResults(c) \/ Disconnect(c) \/ Reconnect(c)
      PROVE  UNCHANGED runErr
    BY <1>3 DEF GetTargets, GetTargetsCall, Register, RegisterRejected, Wake, PushTarget,
                PushEnds, ReportResults, ReportResultsCall, RecvResult, RecvMalformed, RecvEnds,
                Claim, SendResult, Disconnect, Reconnect
<1>4. ASSUME Server \/ SinkRun \/ Cancel \/ UNCHANGED vars PROVE UNCHANGED runErr
    BY <1>4 DEF Server, ServeReturns, ServeFails, TimerExpires, OnRegisterTimeout, AbortStops,
                SinkRun, Cancel, vars
<1>5. ASSUME Main PROVE UNCHANGED runErr
    BY <1>2, <1>5 DEF Main, MainStop, MainJoin, CopyPending, SendUnresolved, CloseSink,
                      CleanOutputs, BeforeReport
<1> QED
    BY <1>2, <1>3, <1>4, <1>5 DEF Next, Terminated

LEMMA ResolvedStep ==
    IInv /\ OutInv /\ Shutdown /\ Claimed /\ Joined /\ Resolved /\ [DNext]_allVars => Resolved'
<1> SUFFICES ASSUME IInv, OutInv, Shutdown, Claimed, Joined, Resolved, [DNext]_allVars,
                    NEW c \in Caller, rr'[c] = "acked",
                    NEW t \in got'[c] \ (Malformed \cup TooWide), Unresolved(t)'
             PROVE  runErr'
    BY DEF Resolved
<1>0. TypeOK /\ got[c] \subseteq Target
    BY DEF IInv, TypeOK
<1>1. [Next]_vars
    BY <1>0, ScanSteps
<1>2. \/ UNCHANGED <<rr[c], got[c]>>
      \/ rr[c] = "recv" /\ conn[c] = "up" /\ UNCHANGED got[c]
    <2>1. UNCHANGED vars => UNCHANGED <<rr, got>>
        BY DEF vars, resultVars
    <2>2. Quiet => UNCHANGED <<rr, got>>
        BY DEF Quiet
    <2> QED
        BY <1>0, <2>1, <2>2, ScanSteps, CallReads
<1>3. t \in got[c] \ (Malformed \cup TooWide) /\ t \in Target
    BY <1>0, <1>2
<1>4. CASE Unresolved(t)
    <2>1. mainPc \notin BeforeReport /\ runErr' = runErr
        BY <1>1, <1>3, <1>4, UnresolvedIsLate
    <2>2. runErr
        BY <1>2, <1>3, <1>4, <2>1 DEF Resolved, Joined, Shutdown, BeforeReport
    <2> QED
        BY <2>1, <2>2
<1>5. CASE ~Unresolved(t)
    <2>1. t \in pending /\ UNCHANGED rr
        BY <1>1, <1>3, <1>5, BecomesUnresolved
    <2> QED
        BY <1>3, <2>1 DEF Claimed
<1> QED
    BY <1>4, <1>5
-----------------------------------------------------------------------------
LEMMA InitDInv == DInit => IInv /\ OutInv /\ Shutdown /\ DInv
<1> SUFFICES ASSUME DInit PROVE IInv /\ OutInv /\ Shutdown /\ DInv
    OBVIOUS
<1>1. IInv /\ OutInv
    BY InitIInv, InitOutInv DEF DInit
<1>2. Shutdown /\ Joined
    BY DEF DInit, Init, Shutdown, Joined, BeforeReport
<1>3. Streams /\ TargetCalls /\ TargetsOver /\ AtClose /\ Acks
    BY DEF DInit, Init, Streams, Phases, TargetCalls, TargetsOver, AtClose, Acks
<1>4. ReadIsKept /\ Claimed /\ Resolved
    BY DEF DInit, Init, ReadIsKept, Claimed, Resolved
<1> QED
    BY <1>1, <1>2, <1>3, <1>4 DEF DInv

LEMMA StepDInv ==
    IInv /\ OutInv /\ Shutdown /\ DInv /\ [DNext]_allVars => (IInv /\ OutInv /\ Shutdown /\ DInv)'
<1> SUFFICES ASSUME IInv, OutInv, Shutdown, DInv, [DNext]_allVars
             PROVE  (IInv /\ OutInv /\ Shutdown /\ DInv)'
    OBVIOUS
<1>1. TypeOK /\ [Next]_vars
    BY ScanSteps DEF IInv
<1>2. IInv' /\ OutInv' /\ Shutdown'
    BY <1>1, StepIInv, OutInvStep, ShutdownStep
<1>3. DInv'
    BY StreamsStep, TargetCallsStep, TargetsOverStep, AtCloseStep, AcksStep, ReadIsKeptStep, ClaimedStep,
       JoinedStep, ResolvedStep DEF DInv
<1> QED
    BY <1>2, <1>3

(* What the two ends of the streams know of each other, in every state,    *)
(* whatever disconnects, stops or aborts the scan.                         *)
THEOREM ScanInvariance == DSpec => [](IInv /\ OutInv /\ Shutdown /\ DInv)
BY InitDInv, StepDInv, PTL DEF DSpec

(* Whatever a coordinator does in a scan, it does with workers that may    *)
(* send anything: what is proved of module Coordinator holds of a scan.    *)
THEOREM ScanIsCoordinator == DSpec => Spec
<1>1. DInit => Init
    BY DEF DInit
<1>2. IInv /\ [DNext]_allVars => [Next]_vars
    BY ScanSteps DEF IInv
<1> QED
    BY <1>1, <1>2, ScanInvariance, PTL DEF DSpec, Spec

(* A worker that exits with success has had its whole shard, unless the    *)
(* rendezvous was aborted, or its connection was made again and its target *)
(* stream with it gone; each result it could report is in the sink, or was *)
(* given up while the run was being stopped; and its target is neither     *)
(* pending nor reported as unresolved, unless Serve had returned on its    *)
(* own or the wire could not carry its port.                               *)
THEOREM WorkerSuccessIsRecorded == DSpec => []SuccessIsRecorded
<1>1. IInv /\ DInv => SuccessIsRecorded
    <2> SUFFICES ASSUME IInv, DInv, NEW c \in Caller, phase[c] = "ok"
                 PROVE  /\ slot[c] = None \/ aborted \/ c \in remade \/ rx[c] = shards[slot[c]]
                        /\ \A t \in rx[c] \cap Reportable :
                              /\ Accepted(Real(t)) \/ (ctxDone /\ Real(t) \in dropped)
                              /\ t \in TooWide \/ t \notin pending
                              /\ t \in todo \/ Accepted(Synthetic(t)) => runErr \/ t \in TooWide
        BY DEF SuccessIsRecorded
    <2>1. rr[c] = "acked" /\ got[c] = tx[c] /\ ended[c] /\ rx[c] \subseteq tx[c] \cup Unencodable
        BY DEF DInv, Acks, AtClose
    <2>2. slot[c] = None \/ aborted \/ c \in remade \/ rx[c] = shards[slot[c]]
        BY <2>1 DEF DInv, TargetsOver, Over
    <2>3. \A t \in rx[c] \cap Reportable : t \in got[c] \ Malformed
        BY <2>1 DEF Reportable
    <2>4. \A t \in got[c] \ Malformed : Accepted(Real(t)) \/ (ctxDone /\ Real(t) \in dropped)
        BY <2>1 DEF DInv, ReadIsKept, Kept, Handles
    <2>5. \A t \in got[c] \ (Malformed \cup TooWide) :
              /\ t \notin pending
              /\ t \in todo \/ Accepted(Synthetic(t)) => runErr
        BY <2>1 DEF DInv, Claimed, Resolved, Unresolved
    <2> QED
        BY <2>2, <2>3, <2>4, <2>5
<1> QED
    BY <1>1, ScanInvariance, PTL
=============================================================================
