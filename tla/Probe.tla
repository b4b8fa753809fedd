------------------------------- MODULE Probe -------------------------------
(***************************************************************************)
(* One probe: probeOne, sendRecv and sendAndWaitFirst                      *)
(* (internal/engine/probe.go), the dialing below them (dial.go) and the    *)
(* connection with its cancellation watcher (conn.go).                     *)
(*                                                                         *)
(* The network is the environment: a lookup, a dial, a handshake, a write  *)
(* or a read may have any outcome, and a peer may send for ever.  Time is  *)
(* not measured: a deadline is ahead of an operation or behind it.         *)
(***************************************************************************)
EXTENDS FpModule

CONSTANTS Original,        \* the endpoint the probe was asked for
          Domain,          \* the endpoints whose host is a domain name
          TriedAsWWW,      \* those looked up again with "www.": Config.WWW
          None,            \* no record yet
          Retry,           \* Config.Retry
          ConnectRetries,  \* Config.ConnectRetries
          PrivPorts,       \* Config.PrivPorts
          Modules,         \* the modules to consider
          Transports,      \* the values of Config.Transport for "any"
          MaxSteps,        \* bound: the steps a module takes before its result
          MaxPackets       \* bound: the packets of a round that are counted

eaccessMax == 2

ASSUME ProbeAssumption ==
    /\ Original \in Endpoint
    /\ TriedAsWWW \subseteq Domain /\ Domain \subseteq Endpoint
    /\ Retry \in Nat /\ ConnectRetries \in Nat
    /\ PrivPorts \in BOOLEAN
    /\ Modules \subseteq {"tcpbanner", "http", "https_certif", "any"}
    /\ Transports \subseteq {"TCP", "UDP", "SSL"}
    /\ MaxSteps \in Nat /\ MaxPackets \in Nat \ {0}

VARIABLES pc,
          module, transport,  \* Config.Module, Config.Transport
          ctxDone,      \* the scan is cancelled
          endpoint,     \* ctarget and cport
          state,        \* the State a module passes on: "nil" or "set"
          steps,        \* steps the module has taken
          attempt,      \* dialWithRetry's loop index
          binds,        \* dialWithPrivPorts' loop index
          open,         \* the number of sockets this probe has open
          watcher,      \* watchCancel: "off", "watching", "fired"
          deadline,     \* of the operation in flight: "ahead" or "past"
          tls,          \* the TLS state of the connection
          retryBudget,  \* resends left on this connection
          want,         \* NumPackets of the current Continue step
          hasPayload,   \* its payload is not empty
          packetRcv,    \* packets received in the round
          record,       \* what probeOne returned
          evidence,     \* (history) what the last connect attempt met
          dials,        \* (history) dials since the last (re)connect
          resends       \* (history) resends on this connection

runVars == <<module, transport, ctxDone>>
moduleVars == <<endpoint, state, steps>>
dialVars == <<attempt, binds, dials, evidence>>
connVars == <<open, watcher, deadline, tls>>
roundVars == <<want, hasPayload, packetRcv>>
budgetVars == <<retryBudget, resends>>
vars == <<pc, runVars, moduleVars, dialVars, connVars, roundVars, budgetVars, record>>

Init ==
    /\ pc = "start"
    /\ module \in Modules /\ transport \in Transport(module, Transports)
    /\ ctxDone = FALSE
    /\ endpoint = Original /\ state = "nil" /\ steps = 0
    /\ attempt = 0 /\ binds = 0 /\ dials = 0 /\ evidence = "none"
    /\ open = 0 /\ watcher = "off" /\ deadline = "ahead" /\ tls = "none"
    /\ want = 0 /\ hasPayload = FALSE /\ packetRcv = 0
    /\ retryBudget = 0 /\ resends = 0
    /\ record = None

(* e.record: always about the target that was asked for. *)
Finish(outcome) ==
    /\ record' = [target |-> Original, outcome |-> outcome]
    /\ pc' = "done"

(* liveConn.Close: stop the watcher, close the socket. *)
CloseConn ==
    /\ open' = open - 1
    /\ watcher' = "off"
    /\ UNCHANGED <<deadline, tls>>
-----------------------------------------------------------------------------
(* The reconnect loop, and what it calls to connect. *)
NotConnected == UNCHANGED <<runVars, moduleVars, connVars, roundVars, budgetVars>>

Start ==
    /\ pc = "start"
    /\ IF ctxDone
       THEN Finish("unknown") /\ UNCHANGED <<attempt, binds, dials>>
       ELSE /\ pc' = "lookup"
            /\ attempt' = 0 /\ binds' = 0 /\ dials' = 0
            /\ UNCHANGED record
    /\ evidence' = "none"
    /\ NotConnected

(* classifyConnectErr *)
Classify(err) == IF err = "refused" THEN "up" ELSE "unknown"

(* Mutant of MoreAttempts: one connect retry too many. *)
MoreAttempts_OneMore == attempt <= ConnectRetries

MoreAttempts == attempt < ConnectRetries

(* A dial ends in err: dialWithRetry backs off, or probeOne classifies it. *)
DialFailed(err) ==
    /\ evidence' = (IF err = "refused" THEN "refused" ELSE "none")
    /\ IF MoreAttempts
       THEN pc' = "backoff" /\ UNCHANGED record
       ELSE Finish(Classify(err))

(* lookup: an address needs no resolver, and a domain has a second chance. *)
Resolve ==
    /\ pc \in {"lookup", "lookupWWW"}
    /\ pc' = "dial"
    /\ UNCHANGED <<dialVars, record>>
    /\ NotConnected

LookupFails ==
    /\ pc \in {"lookup", "lookupWWW"}
    /\ endpoint \in Domain
    /\ IF pc = "lookup" /\ endpoint \in TriedAsWWW
       THEN pc' = "lookupWWW" /\ UNCHANGED <<evidence, record>>
       ELSE DialFailed("other")
    /\ UNCHANGED <<attempt, binds, dials>>
    /\ NotConnected

(* The connection is live: a watcher, a budget and an empty round. *)
GoLive ==
    /\ pc' = "next"
    /\ watcher' = "watching"
    /\ retryBudget' = Retry /\ resends' = 0
    /\ want' = 0 /\ hasPayload' = FALSE /\ packetRcv' = 0
    /\ evidence' = "connected"

(* The socket connects; the context was still live. *)
Connect ==
    /\ pc = "dial"
    /\ ~ctxDone
    /\ dials' = dials + 1
    /\ open' = open + 1
    /\ tls' = "none"
    /\ IF transport = "SSL"
       THEN pc' = "handshake" /\ UNCHANGED <<watcher, budgetVars, roundVars, evidence>>
       ELSE GoLive
    /\ UNCHANGED <<runVars, moduleVars, attempt, binds, deadline, record>>

(* The local address or the connect fails. *)
ConnectFails ==
    /\ pc = "dial"
    /\ dials' = dials + 1
    /\ \E err \in (IF ctxDone THEN {"other"} ELSE {"refused", "other"}) : DialFailed(err)
    /\ UNCHANGED <<attempt, binds>>
    /\ NotConnected

(* EACCES: another privileged port is tried, eaccessMax more times. *)
BindRefused ==
    /\ pc = "dial"
    /\ ~ctxDone
    /\ dials' = dials + 1
    /\ IF PrivPorts /\ binds < eaccessMax
       THEN binds' = binds + 1 /\ UNCHANGED <<pc, evidence, record>>
       ELSE DialFailed("other") /\ UNCHANGED binds
    /\ UNCHANGED attempt
    /\ NotConnected

(* crypto/tls ends no handshake without a certificate of the server's. *)
HandshakeSucceeds ==
    /\ pc = "handshake"
    /\ GoLive
    /\ tls' = "cert"
    /\ UNCHANGED <<runVars, moduleVars, attempt, binds, dials, open, deadline, record>>

(* Mutant of HandshakeFails: the raw socket is not closed. *)
HandshakeFails_LeavesSocket ==
    /\ pc = "handshake"
    /\ \E err \in {"refused", "other"} : DialFailed(err)
    /\ UNCHANGED <<attempt, binds, dials>>
    /\ NotConnected

HandshakeFails ==
    /\ pc = "handshake"
    /\ open' = open - 1
    /\ \E err \in {"refused", "other"} : DialFailed(err)
    /\ UNCHANGED <<runVars, moduleVars, attempt, binds, dials, watcher, deadline, tls,
                   roundVars, budgetVars>>

(* The select between the backoff timer and the context. *)
Backoff ==
    /\ pc = "backoff"
    /\ \/ pc' = "lookup" /\ attempt' = attempt + 1 /\ binds' = 0 /\ UNCHANGED <<evidence, record>>
       \/ ctxDone /\ Finish("unknown") /\ evidence' = "none" /\ UNCHANGED <<attempt, binds>>
    /\ UNCHANGED dials
    /\ NotConnected

Dial ==
    \/ Resolve \/ LookupFails
    \/ Connect \/ ConnectFails \/ BindRefused
    \/ HandshakeSucceeds \/ HandshakeFails
    \/ Backoff
-----------------------------------------------------------------------------
(* The callback loop: what Next, or safeNext after a panic, answers. *)
Answers ==
    {step \in safeNext(module, [state |-> state, packetRcv |-> packetRcv, tls |-> tls]) :
        step.kind = "result" \/ steps < MaxSteps}

NextResult ==
    /\ pc = "next"
    /\ \E step \in Answers : step.kind = "result" /\ Finish(step.outcome)
    /\ CloseConn
    /\ UNCHANGED <<runVars, moduleVars, dialVars, roundVars, budgetVars>>

NextRestart ==
    /\ pc = "next"
    /\ \E step \in Answers :
          step.kind = "restart" /\ endpoint' = step.endpoint /\ state' = step.state
    /\ steps' = steps + 1
    /\ CloseConn
    /\ pc' = "start"
    /\ UNCHANGED <<runVars, dialVars, roundVars, budgetVars, record>>

(* Mutant of Budget: each round gets a fresh one. *)
Budget_Fresh == Retry

(* The resends a round may use: what earlier rounds have left. *)
Budget == retryBudget

NextContinue ==
    /\ pc = "next"
    /\ \E step \in Answers :
          /\ step.kind = "continue"
          /\ want' = step.numPackets /\ hasPayload' = step.payload /\ state' = step.state
    /\ steps' = steps + 1
    /\ packetRcv' = 0
    /\ retryBudget' = Budget
    /\ pc' = "armWrite"
    /\ UNCHANGED <<runVars, endpoint, dialVars, connVars, resends, record>>

(* A module may upgrade the connection before it answers: its handshake    *)
(* has a deadline, which is cleared afterwards.                            *)
UpgradeTLS ==
    /\ pc = "next" /\ module = "any" /\ tls = "none"
    /\ steps < MaxSteps
    /\ steps' = steps + 1
    /\ pc' = "upgrade"
    /\ deadline' = "ahead"
    /\ UNCHANGED <<runVars, endpoint, state, dialVars, open, watcher, tls, roundVars, budgetVars, record>>

UpgradeEnds ==
    /\ pc = "upgrade"
    /\ tls' = "none" \/ (deadline = "ahead" /\ tls' = "cert")
    /\ pc' = "next"
    /\ deadline' = "ahead"
    /\ UNCHANGED <<runVars, moduleVars, dialVars, open, watcher, roundVars, budgetVars, record>>
-----------------------------------------------------------------------------
(* writeAll and readOne: set the deadline, then do the operation. *)
InRound == UNCHANGED <<runVars, moduleVars, dialVars, want, hasPayload>>

Arm ==
    /\ pc \in {"armWrite", "armRead"}
    /\ deadline' = "ahead"
    /\ pc' = (IF pc = "armWrite" THEN "write" ELSE "read")
    /\ UNCHANGED <<open, watcher, tls, packetRcv, budgetVars, record>>
    /\ InRound

(* Once the deadline is past, the operation can only fail. *)
Write ==
    /\ pc = "write"
    /\ pc' = "round" \/ (deadline = "ahead" /\ pc' = "armRead")
    /\ UNCHANGED <<connVars, packetRcv, budgetVars, record>>
    /\ InRound

(* The count saturates at the bound, the reading goes on. *)
OneMore == IF packetRcv < MaxPackets THEN packetRcv + 1 ELSE packetRcv

(* A packet arrives: the first of the round or one more. *)
ReadPacket ==
    /\ pc = "read" /\ deadline = "ahead"
    /\ packetRcv' = OneMore
    /\ pc' = "collect"
    /\ UNCHANGED <<connVars, budgetVars, record>>
    /\ InRound

(* An empty datagram, read without error: as the first of a round it ends  *)
(* it with nothing, as a later one it counts as a packet.                  *)
ReadEmpty ==
    /\ pc = "read" /\ deadline = "ahead"
    /\ transport = "UDP" /\ tls = "none"
    /\ IF packetRcv = 0
       THEN pc' = "next" /\ UNCHANGED packetRcv
       ELSE pc' = "collect" /\ packetRcv' = OneMore
    /\ UNCHANGED <<connVars, budgetVars, record>>
    /\ InRound

(* A timeout, an end of file or an error. *)
ReadFails ==
    /\ pc = "read"
    /\ pc' = (IF packetRcv = 0 THEN "round" ELSE "respond")
    /\ UNCHANGED <<connVars, packetRcv, budgetVars, record>>
    /\ InRound

(* Mutant of PayFor: the budget is overdrawn. *)
PayFor_Overdrawn == retryBudget' = retryBudget - 1

PayFor == retryBudget > 0 /\ retryBudget' = retryBudget - 1

(* sendAndWaitFirst, after a round that received nothing. *)
EmptyRound ==
    /\ pc = "round"
    /\ \/ hasPayload /\ PayFor /\ resends' = resends + 1 /\ pc' = "armWrite"
       \/ ~(hasPayload /\ retryBudget > 0) /\ pc' = "next" /\ UNCHANGED budgetVars
    /\ UNCHANGED <<connVars, packetRcv, record>>
    /\ InRound

(* Mutants of WantsMore: one packet more than was asked for; the packets   *)
(* are not counted.                                                        *)
WantsMore_OneMore == want = Unlimited \/ packetRcv <= want
WantsMore_Always == TRUE

(* The condition of sendRecv's loop. *)
WantsMore == want = Unlimited \/ packetRcv < want

Collect ==
    /\ pc = "collect"
    /\ pc' = (IF WantsMore THEN "armRead" ELSE "respond")
    /\ UNCHANGED <<connVars, packetRcv, budgetVars, record>>
    /\ InRound

(* sendRecv returns packets to the module, or stops the probe: none were   *)
(* wanted.                                                                 *)
Respond ==
    /\ pc = "respond"
    /\ IF want = 0 /\ packetRcv > 0
       THEN CloseConn /\ Finish("up")
       ELSE pc' = "next" /\ UNCHANGED <<connVars, record>>
    /\ UNCHANGED <<packetRcv, budgetVars>>
    /\ InRound

SendRecv ==
    \/ Arm \/ Write \/ ReadPacket \/ ReadEmpty \/ ReadFails
    \/ EmptyRound \/ Collect \/ Respond
-----------------------------------------------------------------------------
(* watchCancel: once, whatever the connection is doing. *)
WatchCancel ==
    /\ watcher = "watching" /\ ctxDone
    /\ watcher' = "fired"
    /\ deadline' = "past"
    /\ UNCHANGED <<pc, runVars, moduleVars, dialVars, open, tls, roundVars, budgetVars, record>>

Cancel ==
    /\ ~ctxDone
    /\ ctxDone' = TRUE
    /\ UNCHANGED <<pc, module, transport, moduleVars, dialVars, connVars, roundVars, budgetVars, record>>

Returned == pc = "done" /\ UNCHANGED vars

probeOne ==
    \/ Start \/ Dial
    \/ NextResult \/ NextRestart \/ NextContinue \/ UpgradeTLS \/ UpgradeEnds
    \/ SendRecv

Next == probeOne \/ WatchCancel \/ Cancel \/ Returned

(* Lookups, dials, writes and reads have a timeout, so each of these steps *)
(* ends; a dial's handshake has none, and ends if the context is done or   *)
(* if the peer goes on with it.  The watcher's goroutine runs.             *)
Fairness ==
    /\ WF_vars(pc # "handshake" /\ probeOne)
    /\ WF_vars(ctxDone /\ HandshakeFails)
    /\ WF_vars(WatchCancel)

Spec == Init /\ [][Next]_vars /\ Fairness
-----------------------------------------------------------------------------
Connected == {"next", "upgrade", "armWrite", "write", "armRead", "read", "round", "collect", "respond"}

TypeOK ==
    /\ pc \in {"start", "lookup", "lookupWWW", "dial", "handshake", "backoff", "done"} \cup Connected
    /\ module \in Modules /\ transport \in Transport(module, Transports)
    /\ ctxDone \in BOOLEAN
    /\ endpoint \in Endpoint /\ state \in States /\ steps \in 0..MaxSteps
    /\ attempt \in 0..ConnectRetries /\ binds \in 0..eaccessMax
    /\ open \in Nat /\ watcher \in {"off", "watching", "fired"}
    /\ deadline \in {"ahead", "past"} /\ tls \in {"none", "cert"}
    /\ want \in Asked \cup {0, 1, Unlimited} /\ hasPayload \in BOOLEAN
    /\ packetRcv \in 0..MaxPackets
    /\ retryBudget \in 0..Retry
    /\ record \in {None} \cup [target : Endpoint, outcome : Outcomes]
    /\ evidence \in {"none", "refused", "connected"}
    /\ dials \in Nat /\ resends \in Nat

(* A probe holds one socket while it talks to the peer, and none once it   *)
(* has returned or between two connections, with no watcher left behind:   *)
(* failed handshakes, restarts, hard stops and results included.           *)
NoSocketLeft ==
    /\ open = (IF pc \in Connected \cup {"handshake"} THEN 1 ELSE 0)
    /\ watcher # "off" <=> pc \in Connected

(* The record is about the target that was asked for, wherever a module    *)
(* restarted the probe, and what a module of the repository reports it has *)
(* seen: "ok" rests on a packet of the last round or on a certificate,     *)
(* "up" on a peer that was reached or refused, and no probe that was       *)
(* connected ends as "unknown", cancelled or not.                          *)
OutcomeIsEarned ==
    record # None =>
        /\ record.target = Original
        /\ module # "any" =>
              CASE record.outcome = "ok"      -> evidence = "connected" /\ (packetRcv > 0 \/ tls = "cert")
                [] record.outcome = "up"      -> evidence # "none"
                [] record.outcome = "unknown" -> evidence = "none"

(* The rounds of a connection resend within one budget, which a restart    *)
(* renews, and a module is told that its payload met silence only once the *)
(* budget is spent; but for a datagram socket, where an empty datagram     *)
(* ends the round at once.                                                 *)
ResendsWithinBudget ==
    /\ pc \in Connected => resends <= Retry
    /\ pc = "next" /\ hasPayload /\ packetRcv = 0 /\ transport # "UDP" => resends = Retry

(* A (re)connect dials at most once per connect attempt and per privileged *)
(* port tried.                                                             *)
DialsBounded ==
    dials <= (ConnectRetries + 1) * (IF PrivPorts THEN eaccessMax + 1 ELSE 1)

(* The module is handed what its step asked for and never more; nothing,   *)
(* if it asked for nothing.                                                *)
PacketsAsAsked == pc = "next" /\ want # Unlimited => packetRcv <= want

(* A probe returns a record, if its module comes to a result; but for a    *)
(* handshake the peer leaves unfinished, in a scan that is not cancelled,  *)
(* and for a peer that goes on sending to a module that asked for all.     *)
Returns ==
    \/ <>(pc = "done")
    \/ <>[](pc = "handshake" /\ ~ctxDone)
    \/ <>[](want = Unlimited /\ pc \in {"armRead", "read", "collect"})
-----------------------------------------------------------------------------
(* What the documentation says, and a run of the code refutes. *)

(* README, -max-duration: "a scan needs to stop after N minutes regardless *)
(* of what's left".                                                        *)
CancelStopsProbe == ctxDone ~> pc = "done"

(* run: "modCfg.Timeout, which only bounds a single dial/read/write"; the  *)
(* handshake is the end of a dial.                                         *)
HandshakeEnds == pc = "handshake" ~> pc # "handshake"
=============================================================================
