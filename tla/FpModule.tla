------------------------------ MODULE FpModule ------------------------------
(***************************************************************************)
(* Fingerprint modules: the verbs of internal/fpmodule/step.go and the     *)
(* three modules of internal/fpmodule/modules.  Next is given the state    *)
(* the module passed on, the packets of the last round and the connection  *)
(* ([state, packetRcv, tls]); payloads and values are not represented, a   *)
(* payload is empty or not.  "any" stands for every other module.          *)
(***************************************************************************)
EXTENDS Integers

CONSTANTS Endpoint,   \* the host and port pairs a probe may be sent to
          Asked       \* the NumPackets values that module "any" asks for

Unlimited == -1

ASSUME FpModuleAssumption == Asked \subseteq Nat \cup {Unlimited}

States == {"nil", "set"}
Outcomes == {"ok", "up", "unknown"}

Continue(numPackets, payload, state) ==
    [kind |-> "continue", numPackets |-> numPackets, payload |-> payload, state |-> state]
Restart(endpoint, state) == [kind |-> "restart", endpoint |-> endpoint, state |-> state]
ResultStep(outcome) == [kind |-> "result", outcome |-> outcome]
OK == ResultStep("ok")
ErrUp == ResultStep("up")
ErrUnknown == ResultStep("unknown")
-----------------------------------------------------------------------------
(* Mutant of tcpBanner: what a round received is not looked at. *)
tcpBanner_Hopeful(in) == IF in.state = "nil" THEN Continue(1, FALSE, "set") ELSE OK

tcpBanner(in) ==
    IF in.state = "nil" THEN Continue(1, FALSE, "set")
    ELSE IF in.packetRcv < 1 THEN ErrUp ELSE OK

httpBanner(in) ==
    IF in.state = "nil" THEN Continue(Unlimited, TRUE, "set")
    ELSE IF in.packetRcv < 1 THEN ErrUp ELSE OK

(* A connection without TLS is "none", one without a certificate "bare". *)
httpsCertif(in) ==
    CASE in.tls = "none" -> ErrUnknown
      [] in.tls = "bare" -> ErrUp
      [] in.tls = "cert" -> OK

AnyStep ==
    {ResultStep(o) : o \in Outcomes}
    \cup {Continue(n, p, s) : n \in Asked, p \in BOOLEAN, s \in States}
    \cup {Restart(e, s) : e \in Endpoint, s \in States}

(* What safeNext may return: a panic of a module is a result of its own. *)
safeNext(module, in) ==
    CASE module = "tcpbanner"    -> {tcpBanner(in)}
      [] module = "http"         -> {httpBanner(in)}
      [] module = "https_certif" -> {httpsCertif(in)}
      [] module = "any"          -> AnyStep \cup {ErrUnknown}

(* DefaultConfig's transport. *)
Transport(module, transports) ==
    CASE module \in {"tcpbanner", "http"} -> {"TCP"}
      [] module = "https_certif"          -> {"SSL"}
      [] module = "any"                   -> transports
=============================================================================
