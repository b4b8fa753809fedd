----------------------------- MODULE StaticPush -----------------------------
(***************************************************************************)
(* What a distributed run promises, before any mutex, channel or stream:   *)
(* Workers callers take a seat each; when the last one is taken the        *)
(* targets are divided once and for all; each seat is pushed its own       *)
(* share; a target is answered at most once, by the worker it was pushed   *)
(* to; and an answer is lost only once the run is being shut down.         *)
(***************************************************************************)
EXTENDS Shards

CONSTANTS Caller,    \* the processes that ask for a share
          Workers,   \* the number of shares
          Target,    \* the targets to divide
          None       \* no seat

VARIABLES seat,      \* the seat each caller holds, or None
          share,     \* the share of each seat
          dealt,     \* the shares have been made
          pushed,    \* the targets each caller has been sent
          answered,  \* the targets whose result was accepted for output
          lost,      \* the targets whose result was given up
          stopping   \* the run is being shut down

vars == <<seat, share, dealt, pushed, answered, lost, stopping>>

Init ==
    /\ seat = [c \in Caller |-> None]
    /\ share = [k \in Slots(Workers) |-> {}]
    /\ dealt = FALSE
    /\ pushed = [c \in Caller |-> {}]
    /\ answered = {}
    /\ lost = {}
    /\ stopping = FALSE

(* A caller takes the next free seat. *)
Sit(c) ==
    /\ seat[c] = None
    /\ \E k \in Slots(Workers) :
          /\ \A d \in Caller : seat[d] # k
          /\ seat' = [seat EXCEPT ![c] = k]
          /\ \/ \E j \in Slots(Workers) \ {k} : \A d \in Caller : seat[d] # j
                /\ UNCHANGED <<share, dealt>>
             \/ /\ \A j \in Slots(Workers) \ {k} : \E d \in Caller : seat[d] = j
                /\ dealt' = TRUE
                /\ \E D \in (IF stopping THEN SUBSET Target ELSE {Target}) :
                      share' \in EvenShards(D, Workers)
    /\ UNCHANGED <<pushed, answered, lost, stopping>>

Push(c, t) ==
    /\ dealt
    /\ seat[c] # None
    /\ t \in share[seat[c]] \ pushed[c]
    /\ pushed' = [pushed EXCEPT ![c] = @ \cup {t}]
    /\ UNCHANGED <<seat, share, dealt, answered, lost, stopping>>

Owed(t) == t \notin answered \cup lost /\ \E c \in Caller : t \in pushed[c]

Answer(t) ==
    /\ Owed(t)
    /\ answered' = answered \cup {t}
    /\ UNCHANGED <<seat, share, dealt, pushed, lost, stopping>>

Lose(t) ==
    /\ stopping
    /\ Owed(t)
    /\ lost' = lost \cup {t}
    /\ UNCHANGED <<seat, share, dealt, pushed, answered, stopping>>

Stop ==
    /\ stopping' = TRUE
    /\ UNCHANGED <<seat, share, dealt, pushed, answered, lost>>

Next ==
    \/ \E c \in Caller : Sit(c)
    \/ \E c \in Caller, t \in Target : Push(c, t)
    \/ \E t \in Target : Answer(t) \/ Lose(t)
    \/ Stop

Spec == Init /\ [][Next]_vars
=============================================================================
