---------------------------- MODULE TargetStream ----------------------------
(***************************************************************************)
(* The target source (internal/target/source.go, cidr.go): one goroutine   *)
(* reads the entries in order, expands each into addresses, and offers     *)
(* every new target on one unbuffered channel and every error on another.  *)
(* An expansion comes from a goroutine of its own, which also watches the  *)
(* context: once it is done an expansion may end anywhere, and the next    *)
(* entry is then started.                                                  *)
(*                                                                         *)
(* A component, like Sink: the program that extends it says who receives.  *)
(***************************************************************************)
EXTENDS Entries

CONSTANT Configs    \* the configurations to consider

VARIABLES config,   \* the SourceConfig
          source,   \* what it parses to, entry by entry: the work of the producer
          srcPc,    \* the producer: "next", "range", "emit", "fail", "closed"
          entry,    \* the index of the entry it reads
          addr,     \* the address it expands it to next, or -1
          seen      \* the targets it has emitted: the keys, host:port

streamVars == <<config, source, srcPc, entry, addr, seen>>

StreamTypeOK ==
    /\ config \in Configs
    /\ srcPc \in {"next", "range", "emit", "fail", "closed"}
    /\ entry \in 1..(Len(source) + 1)
    /\ addr \in Address \cup {-1}
    /\ srcPc \in {"range", "emit", "fail"} => entry \in DOMAIN source
    /\ srcPc = "emit" => addr # -1
    /\ seen \in SUBSET [host : Text, port : Int]

StreamInit ==
    /\ config \in Configs
    /\ source = ParseSource(config)
    /\ srcPc = "next"
    /\ entry = 1
    /\ addr = -1
    /\ seen = {}

(* The target the goroutine has in hand.  A domain name is a range of one. *)
Offered ==
    LET e == source[entry]
    IN  [host |-> IF e.kind = "domain" THEN e.host ELSE AddressText(addr), port |-> e.port]
-----------------------------------------------------------------------------
(* The next entry: expand it, or fail on it; after the last, close both    *)
(* channels.                                                               *)
StartEntry ==
    /\ srcPc = "next"
    /\ entry \in DOMAIN source
    /\ LET e == source[entry]
       IN  /\ srcPc' = (IF e.kind = "invalid" THEN "fail" ELSE "range")
           /\ addr' = CASE e.kind = "range"   -> e.first
                        [] e.kind = "domain"  -> 0
                        [] e.kind = "invalid" -> -1
    /\ UNCHANGED <<config, source, entry, seen>>

SourceEnds ==
    /\ srcPc = "next"
    /\ entry = Len(source) + 1
    /\ srcPc' = "closed"
    /\ UNCHANGED <<config, source, entry, addr, seen>>

More == LET e == source[entry]
        IN  addr # -1 /\ (e.kind = "domain" \/ (e.kind = "range" /\ InRange(e, addr)))
NextOffer == IF source[entry].kind = "range" THEN NextAddress(addr) ELSE -1

(* Mutant of Known: no target is ever known. *)
Known_Never == FALSE

Known == Offered \in seen

(* An address arrives from the expansion; emit drops it if its key is known. *)
ExpandAddress ==
    /\ srcPc = "range"
    /\ More
    /\ IF Known
       THEN addr' = NextOffer /\ UNCHANGED <<srcPc, seen>>
       ELSE srcPc' = "emit" /\ seen' = seen \cup {Offered} /\ UNCHANGED addr
    /\ UNCHANGED <<config, source, entry>>

(* The expansion's channel is closed: it is complete, or it was cut short. *)
(* A domain name is not expanded, and so never cut short.                  *)
RangeEnds(ctxDone) ==
    /\ srcPc = "range"
    /\ ~More \/ (ctxDone /\ source[entry].kind = "range")
    /\ srcPc' = "next"
    /\ entry' = entry + 1
    /\ addr' = -1
    /\ UNCHANGED <<config, source, seen>>

(* The two selects, of emit and of fail: the receiver takes the value ... *)
TakeTarget ==
    /\ srcPc = "emit"
    /\ srcPc' = "range"
    /\ addr' = NextOffer
    /\ UNCHANGED <<config, source, entry, seen>>

(* Mutant of TakeError: a bad entry ends the whole source. *)
TakeError_EndsSource ==
    /\ srcPc = "fail"
    /\ srcPc' = "closed"
    /\ UNCHANGED <<config, source, entry, addr, seen>>

TakeError ==
    /\ srcPc = "fail"
    /\ srcPc' = "next"
    /\ entry' = entry + 1
    /\ UNCHANGED <<config, source, addr, seen>>

(* ... or the context is done, and the whole producer returns. *)
GiveUp(ctxDone) ==
    /\ srcPc \in {"emit", "fail"}
    /\ ctxDone
    /\ srcPc' = "closed"
    /\ UNCHANGED <<config, source, entry, addr, seen>>

Produce(ctxDone) ==
    \/ StartEntry \/ SourceEnds
    \/ ExpandAddress \/ RangeEnds(ctxDone)
    \/ GiveUp(ctxDone)
=============================================================================
