------------------------------ MODULE Reporter ------------------------------
(***************************************************************************)
(* What a worker promises its coordinator: it receives one target at most  *)
(* before its result stream is open, and none once its target stream is    *)
(* over; it reports only targets it has received, each once; it closes its *)
(* result stream only when the target stream is over and it has reported   *)
(* all it received, but those whose result has no wire form, or when it    *)
(* was cut off or stopped; it succeeds only on an acknowledgement, and     *)
(* fails only when it was cut off or stopped.                              *)
(*                                                                         *)
(* It promises nothing about how its target stream ends: a stream that     *)
(* failed is over like a complete one.                                     *)
(***************************************************************************)
CONSTANTS Target,       \* the targets it may be sent
          Unencodable   \* those whose result has no wire form

VARIABLES received,     \* the targets it has received
          reported,     \* those whose result it has put on its stream
          ended,        \* its target stream is over
          phase,        \* "starting" (its result stream is not open yet),
                        \* "running", "closed", "ok", "failed"
          acked,        \* the coordinator has acknowledged the stream
          cutOff        \* its result stream may fail

vars == <<received, reported, ended, phase, acked, cutOff>>

Init ==
    /\ received = {} /\ reported = {}
    /\ ended = FALSE
    /\ phase = "starting"
    /\ acked = FALSE /\ cutOff = FALSE

Receive ==
    /\ ~ended
    /\ phase = "running" \/ (phase = "starting" /\ received = {})
    /\ \E t \in Target \ received : received' = received \cup {t}
    /\ UNCHANGED <<reported, ended, phase, acked, cutOff>>

End ==
    /\ ~ended /\ phase \in {"starting", "running"}
    /\ ended' = TRUE
    /\ UNCHANGED <<received, reported, phase, acked, cutOff>>

Open ==
    /\ phase = "starting"
    /\ phase' = "running"
    /\ UNCHANGED <<received, reported, ended, acked, cutOff>>

Report ==
    /\ phase = "running"
    /\ \E t \in received \ (reported \cup Unencodable) : reported' = reported \cup {t}
    /\ UNCHANGED <<received, ended, phase, acked, cutOff>>

Close ==
    /\ phase = "running" /\ ended
    /\ cutOff \/ received \subseteq reported \cup Unencodable
    /\ phase' = "closed"
    /\ UNCHANGED <<received, reported, ended, acked, cutOff>>

Acknowledge ==
    /\ phase = "closed"
    /\ acked' = TRUE
    /\ UNCHANGED <<received, reported, ended, phase, cutOff>>

Succeed ==
    /\ phase = "closed" /\ acked
    /\ phase' = "ok"
    /\ UNCHANGED <<received, reported, ended, acked, cutOff>>

Fail ==
    /\ phase \in {"starting", "running", "closed"} /\ cutOff
    /\ phase' = "failed"
    /\ UNCHANGED <<received, reported, ended, acked, cutOff>>

CutOff ==
    /\ cutOff' = TRUE
    /\ UNCHANGED <<received, reported, ended, phase, acked>>

Next == Receive \/ End \/ Open \/ Report \/ Close \/ Acknowledge \/ Succeed \/ Fail \/ CutOff

Spec == Init /\ [][Next]_vars
=============================================================================
