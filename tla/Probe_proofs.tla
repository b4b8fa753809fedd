---------------------------- MODULE Probe_proofs ----------------------------
(***************************************************************************)
(* Proofs about a probe, for any numbers of retries, steps and packets,    *)
(* any endpoints and every module: its state is well typed, it leaves no   *)
(* socket, dials and resends within its budgets, hands a module what it    *)
(* asked for, and returns an outcome that its last connection supports.    *)
(***************************************************************************)
EXTENDS Probe, TLAPS

(* The connect attempts of a (re)connect and what each has dialed so far.  *)
PerAttempt == IF PrivPorts THEN eaccessMax + 1 ELSE 1
DialsCounted ==
    /\ pc = "backoff" => attempt < ConnectRetries
    /\ binds < PerAttempt
    /\ dials <= attempt * PerAttempt
                + (IF pc \in {"lookup", "lookupWWW", "dial"} THEN binds ELSE PerAttempt)

(* What is left of the budget and what was taken from it are all of it.    *)
BudgetShared ==
    /\ pc \in Connected => resends + retryBudget = Retry
    /\ pc \in {"collect", "respond"} => packetRcv > 0
    /\ pc \in {"next", "upgrade"} /\ hasPayload /\ packetRcv = 0 /\ transport # "UDP"
          => retryBudget = 0

(* How many packets a round may have at each of its steps. *)
PacketsCounted ==
    /\ pc \in {"armWrite", "write", "round"} => packetRcv = 0
    /\ want # Unlimited =>
          /\ pc \in {"next", "upgrade"} => packetRcv <= want
          /\ pc \in {"armRead", "read"} => packetRcv = 0 \/ packetRcv < want
          /\ pc \in {"collect", "respond"} => packetRcv <= want \/ want = 0

(* What is known of the connection a module decides on. *)
Evidence ==
    /\ pc # "done" => record = None
    /\ pc \in Connected => evidence = "connected"
    /\ pc \in Connected /\ transport = "SSL" => tls = "cert"
    /\ pc = "upgrade" => tls = "none"

IInv ==
    /\ TypeOK /\ NoSocketLeft
    /\ DialsCounted /\ BudgetShared /\ PacketsCounted
    /\ Evidence /\ OutcomeIsEarned
-----------------------------------------------------------------------------
(* What a module may answer, and after how many steps. *)
LEMMA AnswerKinds ==
    ASSUME TypeOK, NEW step \in Answers
    PROVE  /\ step.kind = "result" => step.outcome \in Outcomes
           /\ step.kind = "continue" =>
                 /\ step.numPackets \in Asked \cup {0, 1, Unlimited}
                 /\ step.payload \in BOOLEAN /\ step.state \in States
           /\ step.kind = "restart" => step.endpoint \in Endpoint /\ step.state \in States
           /\ step.kind # "result" => steps + 1 \in 0..MaxSteps
<1> DEFINE in == [state |-> state, packetRcv |-> packetRcv, tls |-> tls]
<1> USE DEF Continue, Restart, ResultStep, OK, ErrUp, ErrUnknown, Outcomes, States
<1>1. step \in safeNext(module, in) /\ (step.kind = "result" \/ steps < MaxSteps)
    BY DEF Answers
<1>2. module \in {"tcpbanner", "http", "https_certif", "any"}
    BY ProbeAssumption DEF TypeOK
<1>3. step.kind # "result" => steps + 1 \in 0..MaxSteps
    BY <1>1, ProbeAssumption DEF TypeOK
<1>4. CASE module = "tcpbanner"
    <2>1. step = tcpBanner(in)
        BY <1>1, <1>4 DEF safeNext
    <2>2. CASE state = "nil"
        BY <1>3, <2>1, <2>2 DEF tcpBanner
    <2>3. CASE state # "nil"
        BY <1>3, <2>1, <2>3 DEF tcpBanner
    <2> QED
        BY <2>2, <2>3
<1>5. CASE module = "http"
    <2>1. step = httpBanner(in)
        BY <1>1, <1>5 DEF safeNext
    <2>2. CASE state = "nil"
        BY <1>3, <2>1, <2>2 DEF httpBanner
    <2>3. CASE state # "nil"
        BY <1>3, <2>1, <2>3 DEF httpBanner
    <2> QED
        BY <2>2, <2>3
<1>6. CASE module = "https_certif"
    <2>1. step = httpsCertif(in)
        BY <1>1, <1>6 DEF safeNext
    <2>2. tls \in {"none", "cert"}
        BY DEF TypeOK
    <2> QED
        BY <1>3, <2>1, <2>2 DEF httpsCertif
<1>7. CASE module = "any"
    <2>1. step \in AnyStep \cup {ErrUnknown}
        BY <1>1, <1>7 DEF safeNext
    <2> QED
        BY <1>3, <2>1 DEF AnyStep
<1> QED
    BY <1>2, <1>4, <1>5, <1>6, <1>7

(* A dial that fails is tried again or is the end of the probe. *)
LEMMA DialFailedEnds ==
    ASSUME TypeOK, NEW err \in {"refused", "other"}, DialFailed(err)
    PROVE  /\ evidence' \in {"none", "refused"}
           /\ \/ pc' = "backoff" /\ attempt < ConnectRetries /\ record' = record
              \/ /\ pc' = "done"
                 /\ record' \in [target : Endpoint, outcome : Outcomes]
                 /\ record'.target = Original
                 /\ record'.outcome = (IF evidence' = "refused" THEN "up" ELSE "unknown")
<1>1. Classify(err) \in Outcomes
    BY DEF Classify, Outcomes
<1>2. CASE MoreAttempts
    BY <1>2 DEF DialFailed, MoreAttempts
<1>3. CASE ~MoreAttempts
    <2>1. pc' = "done" /\ record' = [target |-> Original, outcome |-> Classify(err)]
        BY <1>3 DEF DialFailed, Finish
    <2>2. evidence' = (IF err = "refused" THEN "refused" ELSE "none")
        BY DEF DialFailed
    <2>3. Classify(err) = (IF evidence' = "refused" THEN "up" ELSE "unknown")
        BY <2>2 DEF Classify
    <2> QED
        BY <1>1, <2>1, <2>2, <2>3, ProbeAssumption
<1> QED
    BY <1>2, <1>3

(* A module of the repository that comes to a result has the grounds for   *)
(* it: a packet of the last round, or a connection without one.            *)
LEMMA AnswersEarned ==
    ASSUME TypeOK, NEW step \in Answers, step.kind = "result", module # "any",
           transport = "SSL" => tls = "cert"
    PROVE  \/ step.outcome = "up"
           \/ step.outcome = "ok" /\ (packetRcv > 0 \/ tls = "cert")
<1> DEFINE in == [state |-> state, packetRcv |-> packetRcv, tls |-> tls]
<1> USE DEF Continue, ResultStep, OK, ErrUp, ErrUnknown
<1>1. step \in safeNext(module, in) /\ packetRcv \in Nat
    BY ProbeAssumption DEF Answers, TypeOK
<1>2. CASE module = "tcpbanner"
    BY <1>1, <1>2 DEF safeNext, tcpBanner
<1>3. CASE module = "http"
    BY <1>1, <1>3 DEF safeNext, httpBanner
<1>4. CASE module = "https_certif"
    <2>1. step = httpsCertif(in)
        BY <1>1, <1>4 DEF safeNext
    <2>2. tls = "cert"
        BY <1>4 DEF TypeOK, Transport
    <2> QED
        BY <2>1, <2>2 DEF httpsCertif
<1> QED
    BY <1>2, <1>3, <1>4, ProbeAssumption DEF TypeOK

(* A record that says what the last connection supports is earned, and so  *)
(* is none.                                                                *)
LEMMA RecordEarned ==
    ASSUME NEW outcome \in Outcomes,
           record' = [target |-> Original, outcome |-> outcome],
           module' # "any" =>
              \/ outcome = "ok" /\ evidence' = "connected" /\ (packetRcv' > 0 \/ tls' = "cert")
              \/ outcome = "up" /\ evidence' # "none"
              \/ outcome = "unknown" /\ evidence' = "none"
    PROVE  OutcomeIsEarned'
<1>1. record'.target = Original /\ record'.outcome = outcome
    OBVIOUS
<1>2. CASE module' = "any"
    BY <1>1, <1>2 DEF OutcomeIsEarned
<1>3. CASE module' # "any" /\ outcome = "ok"
    BY <1>1, <1>3 DEF OutcomeIsEarned
<1>4. CASE module' # "any" /\ outcome = "up"
    BY <1>1, <1>4 DEF OutcomeIsEarned
<1>5. CASE module' # "any" /\ outcome = "unknown"
    BY <1>1, <1>5 DEF OutcomeIsEarned
<1> QED
    BY <1>2, <1>3, <1>4, <1>5

LEMMA Unrecorded ==
    ASSUME record' = None
    PROVE  OutcomeIsEarned'
BY DEF OutcomeIsEarned
-----------------------------------------------------------------------------
(* Every step keeps the types; a socket that is closed was open. *)
LEMMA TypeOKStep ==
    TypeOK /\ NoSocketLeft /\ BudgetShared /\ DialsCounted /\ [Next]_vars => TypeOK'
<1> SUFFICES ASSUME TypeOK, NoSocketLeft, BudgetShared, DialsCounted, [Next]_vars PROVE TypeOK'
    OBVIOUS
<1> USE ProbeAssumption, FpModuleAssumption
        DEF runVars, moduleVars, dialVars, connVars, roundVars, budgetVars, Connected, Outcomes
<1>1. CASE Start
    <2>1. pc' \in {"start", "lookup", "lookupWWW", "dial", "handshake", "backoff", "done"} \cup Connected
        BY <1>1 DEF Start, NotConnected, Finish, TypeOK
    <2>2. /\ module' \in Modules /\ transport' \in Transport(module', Transports)
          /\ ctxDone' \in BOOLEAN
          /\ endpoint' \in Endpoint /\ state' \in States /\ steps' \in 0..MaxSteps
        BY <1>1 DEF Start, NotConnected, Finish, TypeOK
    <2>3. attempt' \in 0..ConnectRetries /\ binds' \in 0..eaccessMax
        BY <1>1 DEF Start, NotConnected, Finish, TypeOK, eaccessMax, DialsCounted
    <2>4. /\ open' \in Nat /\ watcher' \in {"off", "watching", "fired"}
          /\ deadline' \in {"ahead", "past"} /\ tls' \in {"none", "cert"}
        BY <1>1 DEF Start, NotConnected, Finish, TypeOK
    <2>5. want' \in Asked \cup {0, 1, Unlimited} /\ hasPayload' \in BOOLEAN
        BY <1>1 DEF Start, NotConnected, Finish, TypeOK
    <2>6. packetRcv' \in 0..MaxPackets /\ retryBudget' \in 0..Retry
        BY <1>1 DEF Start, NotConnected, Finish, TypeOK
    <2>7. record' \in {None} \cup [target : Endpoint, outcome : Outcomes]
        BY <1>1 DEF Start, NotConnected, Finish, TypeOK, Outcomes
    <2>8. evidence' \in {"none", "refused", "connected"} /\ dials' \in Nat /\ resends' \in Nat
        BY <1>1 DEF Start, NotConnected, Finish, TypeOK
    <2> QED
        BY <2>1, <2>2, <2>3, <2>4, <2>5, <2>6, <2>7, <2>8 DEF TypeOK
<1>2. CASE Resolve
    BY <1>2 DEF Resolve, NotConnected, TypeOK, NoSocketLeft, BudgetShared, DialsCounted
<1>3. CASE LookupFails
    <2>1. pc' \in {"start", "lookup", "lookupWWW", "dial", "handshake", "backoff", "done"} \cup Connected
        BY <1>3, DialFailedEnds DEF LookupFails, NotConnected, TypeOK
    <2>2. /\ module' \in Modules /\ transport' \in Transport(module', Transports)
          /\ ctxDone' \in BOOLEAN
          /\ endpoint' \in Endpoint /\ state' \in States /\ steps' \in 0..MaxSteps
        BY <1>3, DialFailedEnds DEF LookupFails, NotConnected, TypeOK
    <2>3. attempt' \in 0..ConnectRetries /\ binds' \in 0..eaccessMax
        BY <1>3, DialFailedEnds DEF LookupFails, NotConnected, TypeOK, eaccessMax,
           DialsCounted
    <2>4. /\ open' \in Nat /\ watcher' \in {"off", "watching", "fired"}
          /\ deadline' \in {"ahead", "past"} /\ tls' \in {"none", "cert"}
        BY <1>3, DialFailedEnds DEF LookupFails, NotConnected, TypeOK
    <2>5. want' \in Asked \cup {0, 1, Unlimited} /\ hasPayload' \in BOOLEAN
        BY <1>3, DialFailedEnds DEF LookupFails, NotConnected, TypeOK
    <2>6. packetRcv' \in 0..MaxPackets /\ retryBudget' \in 0..Retry
        BY <1>3, DialFailedEnds DEF LookupFails, NotConnected, TypeOK
    <2>7. record' \in {None} \cup [target : Endpoint, outcome : Outcomes]
        BY <1>3, DialFailedEnds DEF LookupFails, NotConnected, TypeOK, Outcomes
    <2>8. evidence' \in {"none", "refused", "connected"} /\ dials' \in Nat /\ resends' \in Nat
        BY <1>3, DialFailedEnds DEF LookupFails, NotConnected, TypeOK
    <2> QED
        BY <2>1, <2>2, <2>3, <2>4, <2>5, <2>6, <2>7, <2>8 DEF TypeOK
<1>4. CASE Connect
    <2>1. pc' \in {"start", "lookup", "lookupWWW", "dial", "handshake", "backoff", "done"} \cup Connected
        BY <1>4 DEF Connect, GoLive, TypeOK
    <2>2. /\ module' \in Modules /\ transport' \in Transport(module', Transports)
          /\ ctxDone' \in BOOLEAN
          /\ endpoint' \in Endpoint /\ state' \in States /\ steps' \in 0..MaxSteps
        BY <1>4 DEF Connect, GoLive, TypeOK
    <2>3. attempt' \in 0..ConnectRetries /\ binds' \in 0..eaccessMax
        BY <1>4 DEF Connect, GoLive, TypeOK, eaccessMax, DialsCounted
    <2>4. /\ open' \in Nat /\ watcher' \in {"off", "watching", "fired"}
          /\ deadline' \in {"ahead", "past"} /\ tls' \in {"none", "cert"}
        BY <1>4 DEF Connect, GoLive, TypeOK
    <2>5. want' \in Asked \cup {0, 1, Unlimited} /\ hasPayload' \in BOOLEAN
        BY <1>4 DEF Connect, GoLive, TypeOK
    <2>6. packetRcv' \in 0..MaxPackets /\ retryBudget' \in 0..Retry
        BY <1>4 DEF Connect, GoLive, TypeOK
    <2>7. record' \in {None} \cup [target : Endpoint, outcome : Outcomes]
        BY <1>4 DEF Connect, GoLive, TypeOK, Outcomes
    <2>8. evidence' \in {"none", "refused", "connected"} /\ dials' \in Nat /\ resends' \in Nat
        BY <1>4 DEF Connect, GoLive, TypeOK
    <2> QED
        BY <2>1, <2>2, <2>3, <2>4, <2>5, <2>6, <2>7, <2>8 DEF TypeOK
<1>5. CASE ConnectFails
    BY <1>5, DialFailedEnds DEF ConnectFails, NotConnected, TypeOK, NoSocketLeft,
       BudgetShared, DialsCounted
<1>6. CASE BindRefused
    <2>1. pc' \in {"start", "lookup", "lookupWWW", "dial", "handshake", "backoff", "done"} \cup Connected
        BY <1>6, DialFailedEnds DEF BindRefused, NotConnected, TypeOK
    <2>2. /\ module' \in Modules /\ transport' \in Transport(module', Transports)
          /\ ctxDone' \in BOOLEAN
          /\ endpoint' \in Endpoint /\ state' \in States /\ steps' \in 0..MaxSteps
        BY <1>6, DialFailedEnds DEF BindRefused, NotConnected, TypeOK
    <2>3. attempt' \in 0..ConnectRetries /\ binds' \in 0..eaccessMax
        BY <1>6, DialFailedEnds DEF BindRefused, NotConnected, TypeOK, eaccessMax,
           DialsCounted
    <2>4. /\ open' \in Nat /\ watcher' \in {"off", "watching", "fired"}
          /\ deadline' \in {"ahead", "past"} /\ tls' \in {"none", "cert"}
        BY <1>6, DialFailedEnds DEF BindRefused, NotConnected, TypeOK
    <2>5. want' \in Asked \cup {0, 1, Unlimited} /\ hasPayload' \in BOOLEAN
        BY <1>6, DialFailedEnds DEF BindRefused, NotConnected, TypeOK
    <2>6. packetRcv' \in 0..MaxPackets /\ retryBudget' \in 0..Retry
        BY <1>6, DialFailedEnds DEF BindRefused, NotConnected, TypeOK
    <2>7. record' \in {None} \cup [target : Endpoint, outcome : Outcomes]
        BY <1>6, DialFailedEnds DEF BindRefused, NotConnected, TypeOK, Outcomes
    <2>8. evidence' \in {"none", "refused", "connected"} /\ dials' \in Nat /\ resends' \in Nat
        BY <1>6, DialFailedEnds DEF BindRefused, NotConnected, TypeOK
    <2> QED
        BY <2>1, <2>2, <2>3, <2>4, <2>5, <2>6, <2>7, <2>8 DEF TypeOK
<1>7. CASE HandshakeSucceeds
    <2>1. pc' \in {"start", "lookup", "lookupWWW", "dial", "handshake", "backoff", "done"} \cup Connected
        BY <1>7 DEF HandshakeSucceeds, GoLive, TypeOK
    <2>2. /\ module' \in Modules /\ transport' \in Transport(module', Transports)
          /\ ctxDone' \in BOOLEAN
          /\ endpoint' \in Endpoint /\ state' \in States /\ steps' \in 0..MaxSteps
        BY <1>7 DEF HandshakeSucceeds, GoLive, TypeOK
    <2>3. attempt' \in 0..ConnectRetries /\ binds' \in 0..eaccessMax
        BY <1>7 DEF HandshakeSucceeds, GoLive, TypeOK, eaccessMax, DialsCounted
    <2>4. /\ open' \in Nat /\ watcher' \in {"off", "watching", "fired"}
          /\ deadline' \in {"ahead", "past"} /\ tls' \in {"none", "cert"}
        BY <1>7 DEF HandshakeSucceeds, GoLive, TypeOK
    <2>5. want' \in Asked \cup {0, 1, Unlimited} /\ hasPayload' \in BOOLEAN
        BY <1>7 DEF HandshakeSucceeds, GoLive, TypeOK
    <2>6. packetRcv' \in 0..MaxPackets /\ retryBudget' \in 0..Retry
        BY <1>7 DEF HandshakeSucceeds, GoLive, TypeOK
    <2>7. record' \in {None} \cup [target : Endpoint, outcome : Outcomes]
        BY <1>7 DEF HandshakeSucceeds, GoLive, TypeOK, Outcomes
    <2>8. evidence' \in {"none", "refused", "connected"} /\ dials' \in Nat /\ resends' \in Nat
        BY <1>7 DEF HandshakeSucceeds, GoLive, TypeOK
    <2> QED
        BY <2>1, <2>2, <2>3, <2>4, <2>5, <2>6, <2>7, <2>8 DEF TypeOK
<1>8. CASE HandshakeFails
    BY <1>8, DialFailedEnds DEF HandshakeFails, TypeOK, NoSocketLeft, BudgetShared,
       DialsCounted
<1>9. CASE Backoff
    <2>1. pc' \in {"start", "lookup", "lookupWWW", "dial", "handshake", "backoff", "done"} \cup Connected
        BY <1>9 DEF Backoff, NotConnected, Finish, TypeOK
    <2>2. /\ module' \in Modules /\ transport' \in Transport(module', Transports)
          /\ ctxDone' \in BOOLEAN
          /\ endpoint' \in Endpoint /\ state' \in States /\ steps' \in 0..MaxSteps
        BY <1>9 DEF Backoff, NotConnected, Finish, TypeOK
    <2>3. attempt' \in 0..ConnectRetries /\ binds' \in 0..eaccessMax
        BY <1>9 DEF Backoff, NotConnected, Finish, TypeOK, eaccessMax, DialsCounted
    <2>4. /\ open' \in Nat /\ watcher' \in {"off", "watching", "fired"}
          /\ deadline' \in {"ahead", "past"} /\ tls' \in {"none", "cert"}
        BY <1>9 DEF Backoff, NotConnected, Finish, TypeOK
    <2>5. want' \in Asked \cup {0, 1, Unlimited} /\ hasPayload' \in BOOLEAN
        BY <1>9 DEF Backoff, NotConnected, Finish, TypeOK
    <2>6. packetRcv' \in 0..MaxPackets /\ retryBudget' \in 0..Retry
        BY <1>9 DEF Backoff, NotConnected, Finish, TypeOK
    <2>7. record' \in {None} \cup [target : Endpoint, outcome : Outcomes]
        BY <1>9 DEF Backoff, NotConnected, Finish, TypeOK, Outcomes
    <2>8. evidence' \in {"none", "refused", "connected"} /\ dials' \in Nat /\ resends' \in Nat
        BY <1>9 DEF Backoff, NotConnected, Finish, TypeOK
    <2> QED
        BY <2>1, <2>2, <2>3, <2>4, <2>5, <2>6, <2>7, <2>8 DEF TypeOK
<1>10. CASE NextResult
    BY <1>10, AnswerKinds DEF NextResult, CloseConn, Finish, TypeOK, NoSocketLeft,
       BudgetShared, DialsCounted
<1>11. CASE NextRestart
    BY <1>11, AnswerKinds DEF NextRestart, CloseConn, TypeOK, NoSocketLeft,
       BudgetShared, DialsCounted
<1>12. CASE NextContinue
    BY <1>12, AnswerKinds DEF NextContinue, Budget, TypeOK, NoSocketLeft, BudgetShared,
       DialsCounted
<1>13. CASE UpgradeTLS
    BY <1>13 DEF UpgradeTLS, TypeOK, NoSocketLeft, BudgetShared, DialsCounted
<1>14. CASE UpgradeEnds
    BY <1>14 DEF UpgradeEnds, TypeOK, NoSocketLeft, BudgetShared, DialsCounted
<1>15. CASE Arm
    BY <1>15 DEF Arm, InRound, TypeOK, NoSocketLeft, BudgetShared, DialsCounted
<1>16. CASE Write
    BY <1>16 DEF Write, InRound, TypeOK, NoSocketLeft, BudgetShared, DialsCounted
<1>17. CASE ReadPacket
    BY <1>17 DEF ReadPacket, OneMore, InRound, TypeOK, NoSocketLeft, BudgetShared,
       DialsCounted
<1>18. CASE ReadEmpty
    BY <1>18 DEF ReadEmpty, OneMore, InRound, TypeOK, NoSocketLeft, BudgetShared,
       DialsCounted
<1>19. CASE ReadFails
    BY <1>19 DEF ReadFails, InRound, TypeOK, NoSocketLeft, BudgetShared, DialsCounted
<1>20. CASE EmptyRound
    BY <1>20 DEF EmptyRound, PayFor, InRound, TypeOK, NoSocketLeft, BudgetShared,
       DialsCounted
<1>21. CASE Collect
    BY <1>21 DEF Collect, WantsMore, InRound, TypeOK, NoSocketLeft, BudgetShared,
       DialsCounted
<1>22. CASE Respond
    BY <1>22 DEF Respond, CloseConn, InRound, Finish, TypeOK, NoSocketLeft,
       BudgetShared, DialsCounted
<1>23. CASE WatchCancel
    BY <1>23 DEF WatchCancel, TypeOK, NoSocketLeft, BudgetShared, DialsCounted
<1>24. CASE Cancel
    BY <1>24 DEF Cancel, TypeOK, NoSocketLeft, BudgetShared, DialsCounted
<1>25. CASE UNCHANGED vars
    BY <1>25 DEF vars, TypeOK, NoSocketLeft, BudgetShared, DialsCounted
<1> QED
    BY <1>1, <1>2, <1>3, <1>4, <1>5, <1>6, <1>7, <1>8, <1>9, <1>10, <1>11,
       <1>12, <1>13, <1>14, <1>15, <1>16, <1>17, <1>18, <1>19, <1>20, <1>21,
       <1>22, <1>23, <1>24, <1>25
    DEF Next, probeOne, Dial, SendRecv, Returned

(* Each way into a connection opens one socket, each way out closes it. *)
LEMMA NoSocketLeftStep == TypeOK /\ NoSocketLeft /\ [Next]_vars => NoSocketLeft'
<1> SUFFICES ASSUME TypeOK, NoSocketLeft, [Next]_vars PROVE NoSocketLeft'
    OBVIOUS
<1> USE ProbeAssumption, FpModuleAssumption
        DEF runVars, moduleVars, dialVars, connVars, roundVars, budgetVars, Connected
<1>1. CASE Start
    BY <1>1 DEF Start, NotConnected, Finish, NoSocketLeft
<1>2. CASE Resolve
    BY <1>2 DEF Resolve, NotConnected, NoSocketLeft
<1>3. CASE LookupFails
    BY <1>3, DialFailedEnds DEF LookupFails, NotConnected, NoSocketLeft
<1>4. CASE Connect
    BY <1>4 DEF Connect, GoLive, NoSocketLeft
<1>5. CASE ConnectFails
    BY <1>5, DialFailedEnds DEF ConnectFails, NotConnected, NoSocketLeft
<1>6. CASE BindRefused
    BY <1>6, DialFailedEnds DEF BindRefused, NotConnected, NoSocketLeft
<1>7. CASE HandshakeSucceeds
    BY <1>7 DEF HandshakeSucceeds, GoLive, NoSocketLeft
<1>8. CASE HandshakeFails
    BY <1>8, DialFailedEnds DEF HandshakeFails, NoSocketLeft
<1>9. CASE Backoff
    BY <1>9 DEF Backoff, NotConnected, Finish, NoSocketLeft
<1>10. CASE NextResult
    BY <1>10 DEF NextResult, CloseConn, Finish, NoSocketLeft
<1>11. CASE NextRestart
    BY <1>11 DEF NextRestart, CloseConn, NoSocketLeft
<1>12. CASE NextContinue
    BY <1>12 DEF NextContinue, Budget, NoSocketLeft
<1>13. CASE UpgradeTLS
    BY <1>13 DEF UpgradeTLS, NoSocketLeft
<1>14. CASE UpgradeEnds
    BY <1>14 DEF UpgradeEnds, NoSocketLeft
<1>15. CASE Arm
    BY <1>15 DEF Arm, InRound, NoSocketLeft
<1>16. CASE Write
    BY <1>16 DEF Write, InRound, NoSocketLeft
<1>17. CASE ReadPacket
    BY <1>17 DEF ReadPacket, OneMore, InRound, NoSocketLeft
<1>18. CASE ReadEmpty
    BY <1>18 DEF ReadEmpty, OneMore, InRound, NoSocketLeft
<1>19. CASE ReadFails
    BY <1>19 DEF ReadFails, InRound, NoSocketLeft
<1>20. CASE EmptyRound
    BY <1>20 DEF EmptyRound, PayFor, InRound, NoSocketLeft
<1>21. CASE Collect
    BY <1>21 DEF Collect, WantsMore, InRound, NoSocketLeft
<1>22. CASE Respond
    BY <1>22 DEF Respond, CloseConn, InRound, Finish, NoSocketLeft
<1>23. CASE WatchCancel
    BY <1>23 DEF WatchCancel, NoSocketLeft
<1>24. CASE Cancel
    BY <1>24 DEF Cancel, NoSocketLeft
<1>25. CASE UNCHANGED vars
    BY <1>25 DEF vars, NoSocketLeft
<1> QED
    BY <1>1, <1>2, <1>3, <1>4, <1>5, <1>6, <1>7, <1>8, <1>9, <1>10, <1>11,
       <1>12, <1>13, <1>14, <1>15, <1>16, <1>17, <1>18, <1>19, <1>20, <1>21,
       <1>22, <1>23, <1>24, <1>25
    DEF Next, probeOne, Dial, SendRecv, Returned

(* A dial is paid for by its connect attempt or by the port it tries. *)
LEMMA DialsCountedStep == TypeOK /\ DialsCounted /\ [Next]_vars => DialsCounted'
<1> SUFFICES ASSUME TypeOK, DialsCounted, [Next]_vars PROVE DialsCounted'
    OBVIOUS
<1> USE ProbeAssumption, FpModuleAssumption
        DEF runVars, moduleVars, dialVars, connVars, roundVars, budgetVars, PerAttempt, eaccessMax, Connected
<1>1. CASE Start
    BY <1>1 DEF Start, NotConnected, Finish, DialsCounted, TypeOK
<1>2. CASE Resolve
    BY <1>2 DEF Resolve, NotConnected, DialsCounted, TypeOK
<1>3. CASE LookupFails
    BY <1>3, DialFailedEnds DEF LookupFails, NotConnected, DialsCounted, TypeOK
<1>4. CASE Connect
    BY <1>4 DEF Connect, GoLive, DialsCounted, TypeOK
<1>5. CASE ConnectFails
    BY <1>5, DialFailedEnds DEF ConnectFails, NotConnected, DialsCounted, TypeOK
<1>6. CASE BindRefused
    BY <1>6, DialFailedEnds DEF BindRefused, NotConnected, DialsCounted, TypeOK
<1>7. CASE HandshakeSucceeds
    BY <1>7 DEF HandshakeSucceeds, GoLive, DialsCounted, TypeOK
<1>8. CASE HandshakeFails
    BY <1>8, DialFailedEnds DEF HandshakeFails, DialsCounted, TypeOK
<1>9. CASE Backoff
    BY <1>9 DEF Backoff, NotConnected, Finish, DialsCounted, TypeOK
<1>10. CASE NextResult
    BY <1>10 DEF NextResult, CloseConn, Finish, DialsCounted, TypeOK
<1>11. CASE NextRestart
    BY <1>11 DEF NextRestart, CloseConn, DialsCounted, TypeOK
<1>12. CASE NextContinue
    BY <1>12 DEF NextContinue, Budget, DialsCounted, TypeOK
<1>13. CASE UpgradeTLS
    BY <1>13 DEF UpgradeTLS, DialsCounted, TypeOK
<1>14. CASE UpgradeEnds
    BY <1>14 DEF UpgradeEnds, DialsCounted, TypeOK
<1>15. CASE Arm
    BY <1>15 DEF Arm, InRound, DialsCounted, TypeOK
<1>16. CASE Write
    BY <1>16 DEF Write, InRound, DialsCounted, TypeOK
<1>17. CASE ReadPacket
    BY <1>17 DEF ReadPacket, OneMore, InRound, DialsCounted, TypeOK
<1>18. CASE ReadEmpty
    BY <1>18 DEF ReadEmpty, OneMore, InRound, DialsCounted, TypeOK
<1>19. CASE ReadFails
    BY <1>19 DEF ReadFails, InRound, DialsCounted, TypeOK
<1>20. CASE EmptyRound
    BY <1>20 DEF EmptyRound, PayFor, InRound, DialsCounted, TypeOK
<1>21. CASE Collect
    BY <1>21 DEF Collect, WantsMore, InRound, DialsCounted, TypeOK
<1>22. CASE Respond
    BY <1>22 DEF Respond, CloseConn, InRound, Finish, DialsCounted, TypeOK
<1>23. CASE WatchCancel
    BY <1>23 DEF WatchCancel, DialsCounted, TypeOK
<1>24. CASE Cancel
    BY <1>24 DEF Cancel, DialsCounted, TypeOK
<1>25. CASE UNCHANGED vars
    BY <1>25 DEF vars, DialsCounted, TypeOK
<1> QED
    BY <1>1, <1>2, <1>3, <1>4, <1>5, <1>6, <1>7, <1>8, <1>9, <1>10, <1>11,
       <1>12, <1>13, <1>14, <1>15, <1>16, <1>17, <1>18, <1>19, <1>20, <1>21,
       <1>22, <1>23, <1>24, <1>25
    DEF Next, probeOne, Dial, SendRecv, Returned

(* A resend moves one unit of the budget. *)
LEMMA BudgetSharedStep == TypeOK /\ BudgetShared /\ PacketsCounted /\ [Next]_vars => BudgetShared'
<1> SUFFICES ASSUME TypeOK, BudgetShared, PacketsCounted, [Next]_vars PROVE BudgetShared'
    OBVIOUS
<1> USE ProbeAssumption, FpModuleAssumption
        DEF runVars, moduleVars, dialVars, connVars, roundVars, budgetVars, Connected
<1>1. CASE Start
    BY <1>1 DEF Start, NotConnected, Finish, BudgetShared, PacketsCounted, TypeOK
<1>2. CASE Resolve
    BY <1>2 DEF Resolve, NotConnected, BudgetShared, PacketsCounted, TypeOK
<1>3. CASE LookupFails
    BY <1>3, DialFailedEnds DEF LookupFails, NotConnected, BudgetShared,
       PacketsCounted, TypeOK
<1>4. CASE Connect
    BY <1>4 DEF Connect, GoLive, BudgetShared, PacketsCounted, TypeOK
<1>5. CASE ConnectFails
    BY <1>5, DialFailedEnds DEF ConnectFails, NotConnected, BudgetShared,
       PacketsCounted, TypeOK
<1>6. CASE BindRefused
    BY <1>6, DialFailedEnds DEF BindRefused, NotConnected, BudgetShared,
       PacketsCounted, TypeOK
<1>7. CASE HandshakeSucceeds
    BY <1>7 DEF HandshakeSucceeds, GoLive, BudgetShared, PacketsCounted, TypeOK
<1>8. CASE HandshakeFails
    BY <1>8, DialFailedEnds DEF HandshakeFails, BudgetShared, PacketsCounted, TypeOK
<1>9. CASE Backoff
    BY <1>9 DEF Backoff, NotConnected, Finish, BudgetShared, PacketsCounted, TypeOK
<1>10. CASE NextResult
    BY <1>10 DEF NextResult, CloseConn, Finish, BudgetShared, PacketsCounted, TypeOK
<1>11. CASE NextRestart
    BY <1>11 DEF NextRestart, CloseConn, BudgetShared, PacketsCounted, TypeOK
<1>12. CASE NextContinue
    BY <1>12 DEF NextContinue, Budget, BudgetShared, PacketsCounted, TypeOK
<1>13. CASE UpgradeTLS
    BY <1>13 DEF UpgradeTLS, BudgetShared, PacketsCounted, TypeOK
<1>14. CASE UpgradeEnds
    BY <1>14 DEF UpgradeEnds, BudgetShared, PacketsCounted, TypeOK
<1>15. CASE Arm
    BY <1>15 DEF Arm, InRound, BudgetShared, PacketsCounted, TypeOK
<1>16. CASE Write
    BY <1>16 DEF Write, InRound, BudgetShared, PacketsCounted, TypeOK
<1>17. CASE ReadPacket
    BY <1>17 DEF ReadPacket, OneMore, InRound, BudgetShared, PacketsCounted, TypeOK
<1>18. CASE ReadEmpty
    BY <1>18 DEF ReadEmpty, OneMore, InRound, BudgetShared, PacketsCounted, TypeOK
<1>19. CASE ReadFails
    BY <1>19 DEF ReadFails, InRound, BudgetShared, PacketsCounted, TypeOK
<1>20. CASE EmptyRound
    BY <1>20 DEF EmptyRound, PayFor, InRound, BudgetShared, PacketsCounted, TypeOK
<1>21. CASE Collect
    BY <1>21 DEF Collect, WantsMore, InRound, BudgetShared, PacketsCounted, TypeOK
<1>22. CASE Respond
    BY <1>22 DEF Respond, CloseConn, InRound, Finish, BudgetShared, PacketsCounted,
       TypeOK
<1>23. CASE WatchCancel
    BY <1>23 DEF WatchCancel, BudgetShared, PacketsCounted, TypeOK
<1>24. CASE Cancel
    BY <1>24 DEF Cancel, BudgetShared, PacketsCounted, TypeOK
<1>25. CASE UNCHANGED vars
    BY <1>25 DEF vars, BudgetShared, PacketsCounted, TypeOK
<1> QED
    BY <1>1, <1>2, <1>3, <1>4, <1>5, <1>6, <1>7, <1>8, <1>9, <1>10, <1>11,
       <1>12, <1>13, <1>14, <1>15, <1>16, <1>17, <1>18, <1>19, <1>20, <1>21,
       <1>22, <1>23, <1>24, <1>25
    DEF Next, probeOne, Dial, SendRecv, Returned

(* A round stops reading at the count that was asked for. *)
LEMMA PacketsCountedStep == TypeOK /\ PacketsCounted /\ [Next]_vars => PacketsCounted'
<1> SUFFICES ASSUME TypeOK, PacketsCounted, [Next]_vars PROVE PacketsCounted'
    OBVIOUS
<1> USE ProbeAssumption, FpModuleAssumption
        DEF runVars, moduleVars, dialVars, connVars, roundVars, budgetVars, Connected, Unlimited
<1>1. CASE Start
    BY <1>1 DEF Start, NotConnected, Finish, PacketsCounted, TypeOK
<1>2. CASE Resolve
    BY <1>2 DEF Resolve, NotConnected, PacketsCounted, TypeOK
<1>3. CASE LookupFails
    BY <1>3, DialFailedEnds DEF LookupFails, NotConnected, PacketsCounted, TypeOK
<1>4. CASE Connect
    BY <1>4 DEF Connect, GoLive, PacketsCounted, TypeOK
<1>5. CASE ConnectFails
    BY <1>5, DialFailedEnds DEF ConnectFails, NotConnected, PacketsCounted, TypeOK
<1>6. CASE BindRefused
    BY <1>6, DialFailedEnds DEF BindRefused, NotConnected, PacketsCounted, TypeOK
<1>7. CASE HandshakeSucceeds
    BY <1>7 DEF HandshakeSucceeds, GoLive, PacketsCounted, TypeOK
<1>8. CASE HandshakeFails
    BY <1>8, DialFailedEnds DEF HandshakeFails, PacketsCounted, TypeOK
<1>9. CASE Backoff
    BY <1>9 DEF Backoff, NotConnected, Finish, PacketsCounted, TypeOK
<1>10. CASE NextResult
    BY <1>10, AnswerKinds DEF NextResult, CloseConn, Finish, PacketsCounted, TypeOK
<1>11. CASE NextRestart
    BY <1>11, AnswerKinds DEF NextRestart, CloseConn, PacketsCounted, TypeOK
<1>12. CASE NextContinue
    BY <1>12, AnswerKinds DEF NextContinue, Budget, PacketsCounted, TypeOK
<1>13. CASE UpgradeTLS
    BY <1>13 DEF UpgradeTLS, PacketsCounted, TypeOK
<1>14. CASE UpgradeEnds
    BY <1>14 DEF UpgradeEnds, PacketsCounted, TypeOK
<1>15. CASE Arm
    BY <1>15 DEF Arm, InRound, PacketsCounted, TypeOK
<1>16. CASE Write
    BY <1>16 DEF Write, InRound, PacketsCounted, TypeOK
<1>17. CASE ReadPacket
    BY <1>17 DEF ReadPacket, OneMore, InRound, PacketsCounted, TypeOK
<1>18. CASE ReadEmpty
    BY <1>18 DEF ReadEmpty, OneMore, InRound, PacketsCounted, TypeOK
<1>19. CASE ReadFails
    BY <1>19 DEF ReadFails, InRound, PacketsCounted, TypeOK
<1>20. CASE EmptyRound
    BY <1>20 DEF EmptyRound, PayFor, InRound, PacketsCounted, TypeOK
<1>21. CASE Collect
    BY <1>21 DEF Collect, WantsMore, InRound, PacketsCounted, TypeOK
<1>22. CASE Respond
    BY <1>22 DEF Respond, CloseConn, InRound, Finish, PacketsCounted, TypeOK
<1>23. CASE WatchCancel
    BY <1>23 DEF WatchCancel, PacketsCounted, TypeOK
<1>24. CASE Cancel
    BY <1>24 DEF Cancel, PacketsCounted, TypeOK
<1>25. CASE UNCHANGED vars
    BY <1>25 DEF vars, PacketsCounted, TypeOK
<1> QED
    BY <1>1, <1>2, <1>3, <1>4, <1>5, <1>6, <1>7, <1>8, <1>9, <1>10, <1>11,
       <1>12, <1>13, <1>14, <1>15, <1>16, <1>17, <1>18, <1>19, <1>20, <1>21,
       <1>22, <1>23, <1>24, <1>25
    DEF Next, probeOne, Dial, SendRecv, Returned

(* Nothing is recorded before the end, and a TLS connection keeps its state. *)
LEMMA EvidenceStep == TypeOK /\ Evidence /\ [Next]_vars => Evidence'
<1> SUFFICES ASSUME TypeOK, Evidence, [Next]_vars PROVE Evidence'
    OBVIOUS
<1> USE ProbeAssumption, FpModuleAssumption
        DEF runVars, moduleVars, dialVars, connVars, roundVars, budgetVars, Connected
<1>1. CASE Start
    BY <1>1 DEF Start, NotConnected, Finish, Evidence
<1>2. CASE Resolve
    BY <1>2 DEF Resolve, NotConnected, Evidence
<1>3. CASE LookupFails
    BY <1>3, DialFailedEnds DEF LookupFails, NotConnected, Evidence
<1>4. CASE Connect
    BY <1>4 DEF Connect, GoLive, Evidence
<1>5. CASE ConnectFails
    BY <1>5, DialFailedEnds DEF ConnectFails, NotConnected, Evidence
<1>6. CASE BindRefused
    BY <1>6, DialFailedEnds DEF BindRefused, NotConnected, Evidence
<1>7. CASE HandshakeSucceeds
    BY <1>7 DEF HandshakeSucceeds, GoLive, Evidence
<1>8. CASE HandshakeFails
    BY <1>8, DialFailedEnds DEF HandshakeFails, Evidence
<1>9. CASE Backoff
    BY <1>9 DEF Backoff, NotConnected, Finish, Evidence
<1>10. CASE NextResult
    BY <1>10 DEF NextResult, CloseConn, Finish, Evidence
<1>11. CASE NextRestart
    BY <1>11 DEF NextRestart, CloseConn, Evidence
<1>12. CASE NextContinue
    BY <1>12 DEF NextContinue, Budget, Evidence
<1>13. CASE UpgradeTLS
    BY <1>13 DEF UpgradeTLS, Evidence
<1>14. CASE UpgradeEnds
    BY <1>14 DEF UpgradeEnds, Evidence
<1>15. CASE Arm
    BY <1>15 DEF Arm, InRound, Evidence
<1>16. CASE Write
    BY <1>16 DEF Write, InRound, Evidence
<1>17. CASE ReadPacket
    BY <1>17 DEF ReadPacket, OneMore, InRound, Evidence
<1>18. CASE ReadEmpty
    BY <1>18 DEF ReadEmpty, OneMore, InRound, Evidence
<1>19. CASE ReadFails
    BY <1>19 DEF ReadFails, InRound, Evidence
<1>20. CASE EmptyRound
    BY <1>20 DEF EmptyRound, PayFor, InRound, Evidence
<1>21. CASE Collect
    BY <1>21 DEF Collect, WantsMore, InRound, Evidence
<1>22. CASE Respond
    BY <1>22 DEF Respond, CloseConn, InRound, Finish, Evidence
<1>23. CASE WatchCancel
    BY <1>23 DEF WatchCancel, Evidence
<1>24. CASE Cancel
    BY <1>24 DEF Cancel, Evidence
<1>25. CASE UNCHANGED vars
    BY <1>25 DEF vars, Evidence
<1> QED
    BY <1>1, <1>2, <1>3, <1>4, <1>5, <1>6, <1>7, <1>8, <1>9, <1>10, <1>11,
       <1>12, <1>13, <1>14, <1>15, <1>16, <1>17, <1>18, <1>19, <1>20, <1>21,
       <1>22, <1>23, <1>24, <1>25
    DEF Next, probeOne, Dial, SendRecv, Returned

(* The record is made once, on what the last connect attempt has met. *)
LEMMA OutcomeStep == TypeOK /\ Evidence /\ OutcomeIsEarned /\ [Next]_vars => OutcomeIsEarned'
<1> SUFFICES ASSUME TypeOK, Evidence, OutcomeIsEarned, [Next]_vars PROVE OutcomeIsEarned'
    OBVIOUS
<1> USE ProbeAssumption, FpModuleAssumption
        DEF runVars, moduleVars, dialVars, connVars, roundVars, budgetVars, Connected, Outcomes
<1>1. CASE Start
    <2>1. evidence' = "none"
        BY <1>1 DEF Start
    <2>2. CASE ctxDone
        <3>1. record' = [target |-> Original, outcome |-> "unknown"]
            BY <1>1, <2>2 DEF Start, Finish
        <3> QED
            BY <2>1, <3>1, RecordEarned DEF Outcomes
    <2>3. CASE ~ctxDone
        BY <1>1, <2>3, Unrecorded DEF Start, Evidence
    <2> QED
        BY <2>2, <2>3
<1>2. CASE Resolve
    BY <1>2 DEF Resolve, NotConnected, OutcomeIsEarned, Evidence
<1>3. CASE LookupFails
    BY <1>3, DialFailedEnds DEF LookupFails, NotConnected, OutcomeIsEarned, Evidence
<1>4. CASE Connect
    BY <1>4 DEF Connect, GoLive, OutcomeIsEarned, Evidence
<1>5. CASE ConnectFails
    BY <1>5, DialFailedEnds DEF ConnectFails, NotConnected, OutcomeIsEarned, Evidence
<1>6. CASE BindRefused
    BY <1>6, DialFailedEnds DEF BindRefused, NotConnected, OutcomeIsEarned, Evidence
<1>7. CASE HandshakeSucceeds
    BY <1>7 DEF HandshakeSucceeds, GoLive, OutcomeIsEarned, Evidence
<1>8. CASE HandshakeFails
    BY <1>8, DialFailedEnds DEF HandshakeFails, OutcomeIsEarned, Evidence
<1>9. CASE Backoff
    <2>1. \/ record' = None
          \/ record' = [target |-> Original, outcome |-> "unknown"] /\ evidence' = "none"
        BY <1>9 DEF Backoff, Finish, Evidence
    <2> QED
        BY <2>1, RecordEarned, Unrecorded DEF Outcomes
<1>10. CASE NextResult
    <2>1. PICK step \in Answers :
             step.kind = "result" /\ record' = [target |-> Original, outcome |-> step.outcome]
        BY <1>10 DEF NextResult, Finish
    <2>2. /\ evidence = "connected"
          /\ UNCHANGED <<module, packetRcv, tls, evidence>>
        BY <1>10 DEF NextResult, CloseConn, Evidence, Connected
    <2>3. ASSUME module # "any"
          PROVE  \/ step.outcome = "up"
                 \/ step.outcome = "ok" /\ (packetRcv > 0 \/ tls = "cert")
        <3>1. transport = "SSL" => tls = "cert"
            BY <1>10 DEF NextResult, Evidence, Connected
        <3> QED
            BY <2>1, <2>3, <3>1, AnswersEarned
    <2>4. step.outcome \in Outcomes
        BY <2>1, AnswerKinds
    <2> QED
        BY <2>1, <2>2, <2>3, <2>4, RecordEarned
<1>11. CASE NextRestart
    BY <1>11 DEF NextRestart, CloseConn, OutcomeIsEarned, Evidence
<1>12. CASE NextContinue
    BY <1>12 DEF NextContinue, Budget, OutcomeIsEarned, Evidence
<1>13. CASE UpgradeTLS
    BY <1>13 DEF UpgradeTLS, OutcomeIsEarned, Evidence
<1>14. CASE UpgradeEnds
    BY <1>14 DEF UpgradeEnds, OutcomeIsEarned, Evidence
<1>15. CASE Arm
    BY <1>15 DEF Arm, InRound, OutcomeIsEarned, Evidence
<1>16. CASE Write
    BY <1>16 DEF Write, InRound, OutcomeIsEarned, Evidence
<1>17. CASE ReadPacket
    BY <1>17 DEF ReadPacket, OneMore, InRound, OutcomeIsEarned, Evidence
<1>18. CASE ReadEmpty
    BY <1>18 DEF ReadEmpty, OneMore, InRound, OutcomeIsEarned, Evidence
<1>19. CASE ReadFails
    BY <1>19 DEF ReadFails, InRound, OutcomeIsEarned, Evidence
<1>20. CASE EmptyRound
    BY <1>20 DEF EmptyRound, PayFor, InRound, OutcomeIsEarned, Evidence
<1>21. CASE Collect
    BY <1>21 DEF Collect, WantsMore, InRound, OutcomeIsEarned, Evidence
<1>22. CASE Respond
    <2>1. evidence' = "connected"
        BY <1>22 DEF Respond, InRound, Connected, Evidence
    <2>2. CASE want = 0 /\ packetRcv > 0
        <3>1. record' = [target |-> Original, outcome |-> "up"]
            BY <1>22, <2>2 DEF Respond, Finish
        <3> QED
            BY <2>1, <3>1, RecordEarned DEF Outcomes
    <2>3. CASE ~(want = 0 /\ packetRcv > 0)
        BY <1>22, <2>3, Unrecorded DEF Respond, Evidence
    <2> QED
        BY <2>2, <2>3
<1>23. CASE WatchCancel
    BY <1>23 DEF WatchCancel, OutcomeIsEarned, Evidence
<1>24. CASE Cancel
    BY <1>24 DEF Cancel, OutcomeIsEarned, Evidence
<1>25. CASE UNCHANGED vars
    BY <1>25 DEF vars, OutcomeIsEarned, Evidence
<1> QED
    BY <1>1, <1>2, <1>3, <1>4, <1>5, <1>6, <1>7, <1>8, <1>9, <1>10, <1>11,
       <1>12, <1>13, <1>14, <1>15, <1>16, <1>17, <1>18, <1>19, <1>20, <1>21,
       <1>22, <1>23, <1>24, <1>25
    DEF Next, probeOne, Dial, SendRecv, Returned

-----------------------------------------------------------------------------
LEMMA InitIInv == Init => IInv
<1> SUFFICES ASSUME Init PROVE IInv
    OBVIOUS
<1> USE ProbeAssumption, FpModuleAssumption DEF Init
<1>1. TypeOK
    <2>1. pc \in {"start"} /\ module \in Modules /\ transport \in Transport(module, Transports)
        OBVIOUS
    <2>2. ctxDone \in BOOLEAN /\ endpoint \in Endpoint
        OBVIOUS
    <2>8. state \in States /\ steps \in 0..MaxSteps
        BY DEF States
    <2>3. attempt \in 0..ConnectRetries /\ binds \in 0..eaccessMax
        BY DEF eaccessMax
    <2>4. /\ open \in Nat /\ watcher \in {"off", "watching", "fired"}
          /\ deadline \in {"ahead", "past"} /\ tls \in {"none", "cert"}
        OBVIOUS
    <2>5. want \in Asked \cup {0, 1, Unlimited} /\ hasPayload \in BOOLEAN
        OBVIOUS
    <2>6. packetRcv \in 0..MaxPackets /\ retryBudget \in 0..Retry
        OBVIOUS
    <2>7. /\ record = None
          /\ evidence \in {"none", "refused", "connected"} /\ dials \in Nat /\ resends \in Nat
        OBVIOUS
    <2> QED
        BY <2>1, <2>2, <2>3, <2>4, <2>5, <2>6, <2>7, <2>8 DEF TypeOK
<1>2. NoSocketLeft
    BY DEF NoSocketLeft, Connected
<1>3. DialsCounted
    BY DEF DialsCounted, PerAttempt, eaccessMax
<1>4. BudgetShared
    BY DEF BudgetShared, Connected
<1>5. PacketsCounted
    BY DEF PacketsCounted
<1>6. Evidence /\ OutcomeIsEarned
    BY DEF Evidence, OutcomeIsEarned, Connected
<1> QED
    BY <1>1, <1>2, <1>3, <1>4, <1>5, <1>6 DEF IInv

LEMMA StepIInv == IInv /\ [Next]_vars => IInv'
BY TypeOKStep, NoSocketLeftStep, DialsCountedStep, BudgetSharedStep,
   PacketsCountedStep, EvidenceStep, OutcomeStep DEF IInv

LEMMA Invariance == Spec => []IInv
BY InitIInv, StepIInv, PTL DEF Spec

(* The state of every probe is well typed (probe.go, dial.go, conn.go). *)
THEOREM ProbeTyped == Spec => []TypeOK
<1>1. IInv => TypeOK
    BY DEF IInv
<1> QED
    BY <1>1, Invariance, PTL

(* Whatever a module, the network or a cancellation does, a probe leaves no *)
(* socket and no watcher behind (liveConn.Close, dialConn's error paths).  *)
THEOREM ProbeLeavesNoSocket == Spec => []NoSocketLeft
<1>1. IInv => NoSocketLeft
    BY DEF IInv
<1> QED
    BY <1>1, Invariance, PTL

(* The outcome probeOne records is supported by its last connection, for   *)
(* any number of restarts, retries and rounds.                             *)
THEOREM ProbeOutcomeEarned == Spec => []OutcomeIsEarned
<1>1. IInv => OutcomeIsEarned
    BY DEF IInv
<1> QED
    BY <1>1, Invariance, PTL

(* Config.Retry bounds the resends of a connection over all of its rounds, *)
(* and is used up before a module is told of silence (sendAndWaitFirst).   *)
THEOREM ProbeResendsBounded == Spec => []ResendsWithinBudget
<1>1. IInv => ResendsWithinBudget
    BY ProbeAssumption DEF IInv, TypeOK, BudgetShared, ResendsWithinBudget, Connected
<1> QED
    BY <1>1, Invariance, PTL

(* dialWithRetry and dialWithPrivPorts together dial no more often than    *)
(* their two budgets allow.                                                *)
THEOREM ProbeDialsBounded == Spec => []DialsBounded
<1>1. IInv => DialsBounded
    <2> SUFFICES ASSUME IInv PROVE DialsBounded
        OBVIOUS
    <2>1. /\ attempt \in 0..ConnectRetries /\ binds \in Nat /\ dials \in Nat
          /\ ConnectRetries \in Nat
        BY ProbeAssumption DEF IInv, TypeOK, eaccessMax
    <2>2. binds <= PerAttempt /\ dials <= attempt * PerAttempt + PerAttempt
        BY <2>1 DEF IInv, DialsCounted, PerAttempt, eaccessMax
    <2> QED
        BY <2>1, <2>2 DEF DialsBounded, PerAttempt, eaccessMax
<1> QED
    BY <1>1, Invariance, PTL

(* sendRecv hands a module no more packets than its step asked for. *)
THEOREM ProbePacketsAsAsked == Spec => []PacketsAsAsked
<1>1. IInv => PacketsAsAsked
    BY DEF IInv, PacketsCounted, PacketsAsAsked
<1> QED
    BY <1>1, Invariance, PTL
=============================================================================
