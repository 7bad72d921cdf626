---------------------------- MODULE ConnManager ----------------------------
(***************************************************************************)
(* connmgr/connmanager.go: one handler goroutine owns the pending and the  *)
(* established connection requests; every other goroutine talks to it      *)
(* through an unbuffered channel, so one action is one message that the    *)
(* handler takes and all it does with it.  A request is its id.  It has at *)
(* most one goroutine or timer that works for it (gpc): registering it,    *)
(* dialling, reporting the result, waiting for a retry or replacing it.    *)
(* Delays are left out, and with them retryCount and failedAttempts, which *)
(* only determine delays.  GetNewAddress is configured.                    *)
(***************************************************************************)
EXTENDS Integers, FiniteSets, TLAPS

CONSTANTS
    MaxReqs,   \* bound: the number of requests
    MaxFails,  \* bound: the dials that fail
    Target     \* TargetOutbound

VARIABLES
    connReqCount,  \* ids given so far
    permanent,     \* the requests with the Permanent flag
    state,         \* state[r]: the ConnState, "none" before registration
    pending,       \* the handler's map of pending requests
    conns,         \* the handler's map of established requests
    gpc,           \* gpc[r]: what the goroutine of request r does
    fails,         \* how many dials have failed
    open,          \* the requests with a dialled connection nobody closed
    hpc,           \* the handler: "off", "run" or "done"
    listening,     \* the listener goroutine: "off", "run" or "done"
    toStart,       \* NewConnReq goroutines that Start still has to launch
    stopFlag,      \* the atomic stop flag; set before quit is closed
    quit,          \* the quit channel is closed
    removed,       \* history: requests the handler was told to give up
    lessened       \* history: a caller removed a request or cancelled one

reqVars == <<connReqCount, permanent>>
netVars == <<open, fails>>
runVars == <<hpc, listening, toStart, stopFlag, quit>>
cmVars == <<reqVars, state, pending, conns, gpc, netVars, runVars, removed, lessened>>

Ids == 1 .. MaxReqs
Given == 1 .. connReqCount

CmInit ==
    /\ connReqCount = 0 /\ permanent = {} /\ state = [r \in Ids |-> "none"]
    /\ pending = {} /\ conns = {} /\ gpc = [r \in Ids |-> "none"] /\ open = {} /\ fails = 0
    /\ hpc = "off" /\ listening = "off" /\ toStart = 0 /\ stopFlag = FALSE /\ quit = FALSE
    /\ removed = {} /\ lessened = FALSE

Goes(r, l) == gpc' = [gpc EXCEPT ![r] = l]
Becomes(r, s) == state' = [state EXCEPT ![r] = s]

-----------------------------------------------------------------------------
\* Start runs the handler and the listener; the number of requests to make is
\* what TargetOutbound leaves after the ids that are already given.
Start ==
    /\ hpc = "off"
    /\ hpc' = "run" /\ listening' = "run"
    /\ toStart' = IF connReqCount < Target THEN Target - connReqCount ELSE 0
    /\ UNCHANGED <<reqVars, state, pending, conns, gpc, netVars, stopFlag, quit, removed, lessened>>

\* One of these goroutines: NewConnReq gives the request its id and offers it,
\* or returns at once when the manager stops.
StartsNewConnReq ==
    /\ toStart > 0 /\ toStart' = toStart - 1
    /\ IF stopFlag THEN UNCHANGED <<connReqCount, gpc>>
       ELSE /\ connReqCount < MaxReqs /\ connReqCount' = connReqCount + 1
            /\ Goes(connReqCount + 1, "register")
    /\ UNCHANGED <<permanent, state, pending, conns, netVars, hpc, listening, stopFlag, quit, removed, lessened>>

\* A caller connects a request of its own.
ConnectCall(isPermanent) ==
    /\ ~stopFlag /\ connReqCount < MaxReqs
    /\ connReqCount' = connReqCount + 1
    /\ permanent' = IF isPermanent THEN permanent \cup {connReqCount + 1} ELSE permanent
    /\ Goes(connReqCount + 1, "registerOwn")
    /\ UNCHANGED <<state, pending, conns, netVars, runVars, removed, lessened>>

\* registerPending: the handler notes the request; its goroutine goes on to
\* GetNewAddress or, for a caller's request, to Dial.
registerPending(r) ==
    /\ hpc = "run" /\ gpc[r] \in {"register", "registerOwn"}
    /\ Becomes(r, "Pending") /\ pending' = pending \cup {r}
    /\ Goes(r, IF gpc[r] = "register" THEN "address" ELSE "dial")
    /\ UNCHANGED <<reqVars, conns, netVars, runVars, removed, lessened>>

\* GetNewAddress fails, or Connect follows.
GetNewAddress(r) ==
    /\ gpc[r] = "address"
    /\ \E l \in {"failed", "connect"} : Goes(r, l)
    /\ UNCHANGED <<reqVars, state, pending, conns, netVars, runVars, removed, lessened>>

\* Connect of a request with an id, by NewConnReq or by the timer of a retry.
Connect(r) ==
    /\ gpc[r] \in {"connect", "retry"}
    /\ Goes(r, IF stopFlag \/ state[r] = "Canceled" THEN "none" ELSE "dial")
    /\ UNCHANGED <<reqVars, state, pending, conns, netVars, runVars, removed, lessened>>

DialSucceeds(r) ==
    /\ gpc[r] = "dial" /\ Goes(r, "connected") /\ open' = open \cup {r}
    /\ UNCHANGED <<fails, reqVars, state, pending, conns, runVars, removed, lessened>>

DialFails(r) ==
    /\ gpc[r] = "dial" /\ fails < MaxFails /\ fails' = fails + 1 /\ Goes(r, "failed")
    /\ UNCHANGED <<reqVars, state, pending, conns, open, runVars, removed, lessened>>

\* A goroutine that waits for the handler gives up when the manager quits; a
\* connection it has dialled stays open.
GivesUp(r) ==
    /\ quit /\ gpc[r] \in {"register", "registerOwn", "connected", "failed", "replace"}
    /\ Goes(r, IF gpc[r] = "replace" THEN "renew" ELSE "none")
    /\ UNCHANGED <<reqVars, state, pending, conns, netVars, runVars, removed, lessened>>

-----------------------------------------------------------------------------
\* Mutant of handleConnected: the connection of a cancelled request stays open.
handleConnectedLeaks(r) ==
    /\ hpc = "run" /\ gpc[r] = "connected" /\ Goes(r, "none")
    /\ IF r \in pending
       THEN Becomes(r, "Established") /\ conns' = conns \cup {r} /\ pending' = pending \ {r}
       ELSE UNCHANGED <<state, conns, pending>>
    /\ UNCHANGED <<netVars, reqVars, runVars, removed, lessened>>

\* The connection of a request that is no longer pending is closed.
handleConnected(r) ==
    /\ hpc = "run" /\ gpc[r] = "connected" /\ Goes(r, "none")
    /\ IF r \in pending
       THEN /\ Becomes(r, "Established") /\ conns' = conns \cup {r} /\ pending' = pending \ {r}
            /\ UNCHANGED open
       ELSE open' = open \ {r} /\ UNCHANGED <<state, conns, pending>>
    /\ UNCHANGED <<fails, reqVars, runVars, removed, lessened>>

\* handleFailedConn: where the request goes on.  Nothing happens once the
\* manager stops; a permanent request, or one to be reconnected, is retried;
\* any other is removed and replaced.
AfterFailure(r, triggerReconnect) ==
    IF stopFlag THEN "none"
    ELSE IF r \in permanent \/ triggerReconnect THEN "retry" ELSE "replace"

\* The failure of a request that is no longer pending is ignored.
handleFailed(r) ==
    /\ hpc = "run" /\ gpc[r] = "failed"
    /\ IF r \in pending
       THEN Becomes(r, "Failing") /\ Goes(r, AfterFailure(r, FALSE))
       ELSE Goes(r, "none") /\ UNCHANGED state
    /\ UNCHANGED <<reqVars, pending, conns, netVars, runVars, removed, lessened>>

\* A message for a pending request cancels it.
CancelPending(r) ==
    /\ Becomes(r, "Canceled") /\ pending' = pending \ {r} /\ removed' = removed \cup {r}
    /\ UNCHANGED <<conns, open>>

\* handleDisconnected with retry = FALSE, for a known request.
DropRequest(r) ==
    IF r \in conns
    THEN /\ conns' = conns \ {r} /\ open' = open \ {r} /\ Becomes(r, "Disconnected")
         /\ removed' = removed \cup {r}
         /\ UNCHANGED pending
    ELSE CancelPending(r)

\* A caller removes a request; an unknown one is only logged.
Remove(r) ==
    /\ hpc = "run" /\ r \in conns \cup pending
    /\ DropRequest(r) /\ lessened' = TRUE
    /\ UNCHANGED <<fails, reqVars, gpc, runVars>>

\* The goroutine that replaces a failed request removes it first, unless the
\* caller did so meanwhile or the manager stops.
ReplaceRemoves(r) ==
    /\ gpc[r] = "replace" /\ Goes(r, "renew")
    /\ \/ stopFlag /\ UNCHANGED <<state, pending, conns, open, removed>>
       \/ hpc = "run" /\ r \in conns \cup pending /\ DropRequest(r)
       \/ hpc = "run" /\ r \notin conns \cup pending
          /\ UNCHANGED <<state, pending, conns, open, removed>>
    /\ UNCHANGED <<fails, reqVars, runVars, lessened>>

\* Mutant of ReplaceRenews: the replacement is forgotten.
ReplaceForgets(r) ==
    /\ gpc[r] = "renew" /\ Goes(r, "none")
    /\ UNCHANGED <<reqVars, state, pending, conns, netVars, runVars, removed, lessened>>

\* Then NewConnReq makes a new request, which the goroutine works for.
ReplaceRenews(r) ==
    /\ gpc[r] = "renew"
    /\ IF stopFlag THEN Goes(r, "none") /\ UNCHANGED connReqCount
       ELSE /\ connReqCount < MaxReqs /\ connReqCount' = connReqCount + 1
            /\ gpc' = [gpc EXCEPT ![r] = "none", ![connReqCount + 1] = "register"]
    /\ UNCHANGED <<permanent, state, pending, conns, netVars, runVars, removed, lessened>>

\* Mutant of Disconnect: the request is not put back among the pending ones.
DisconnectForgets(r, triggerReconnect) ==
    /\ hpc = "run" /\ r \in conns \cup pending
    /\ IF r \in conns
       THEN /\ conns' = conns \ {r} /\ open' = open \ {r}
            /\ IF Cardinality(conns \ {r}) < Target \/ r \in permanent
               THEN Becomes(r, "Pending") /\ Goes(r, AfterFailure(r, triggerReconnect))
               ELSE UNCHANGED <<state, gpc>>
            /\ UNCHANGED <<pending, removed, lessened>>
       ELSE CancelPending(r) /\ lessened' = TRUE /\ UNCHANGED gpc
    /\ UNCHANGED <<fails, reqVars, runVars>>

\* handleDisconnected with retry = TRUE: an established connection is closed
\* and, if it is permanent or too few are left, the request is pending again.
Disconnect(r, triggerReconnect) ==
    /\ hpc = "run" /\ r \in conns \cup pending
    /\ IF r \in conns
       THEN /\ conns' = conns \ {r} /\ open' = open \ {r}
            /\ IF Cardinality(conns \ {r}) < Target \/ r \in permanent
               THEN /\ Becomes(r, "Pending") /\ pending' = pending \cup {r}
                    /\ Goes(r, AfterFailure(r, triggerReconnect))
               ELSE UNCHANGED <<state, pending, gpc>>
            /\ UNCHANGED <<removed, lessened>>
       ELSE CancelPending(r) /\ lessened' = TRUE /\ UNCHANGED gpc
    /\ UNCHANGED <<fails, reqVars, runVars>>

-----------------------------------------------------------------------------
\* Stop sets the flag, closes the listeners and then the quit channel.
Stop ==
    /\ ~stopFlag /\ stopFlag' = TRUE
    /\ UNCHANGED <<reqVars, state, pending, conns, gpc, netVars, hpc, listening, toStart, quit, removed, lessened>>

StopCloses ==
    /\ stopFlag /\ ~quit /\ quit' = TRUE
    /\ UNCHANGED <<reqVars, state, pending, conns, gpc, netVars, hpc, listening, toStart, stopFlag, removed, lessened>>

\* The handler takes the quit case of its select.
HandlerEnds ==
    /\ hpc = "run" /\ quit /\ hpc' = "done"
    /\ UNCHANGED <<reqVars, state, pending, conns, gpc, netVars, listening, toStart, stopFlag, quit, removed, lessened>>

\* listenHandler: the closed listener returns an error and the loop ends.
ListenerEnds ==
    /\ listening = "run" /\ stopFlag /\ listening' = "done"
    /\ UNCHANGED <<reqVars, state, pending, conns, gpc, netVars, hpc, toStart, stopFlag, quit, removed, lessened>>

-----------------------------------------------------------------------------
CarrierStep(r) ==
    \/ registerPending(r) \/ GetNewAddress(r) \/ Connect(r) \/ DialSucceeds(r) \/ DialFails(r) \/ GivesUp(r)
    \/ handleConnected(r) \/ handleFailed(r) \/ ReplaceRemoves(r) \/ ReplaceRenews(r)

CmNext ==
    \/ Start \/ StartsNewConnReq \/ Stop \/ StopCloses \/ HandlerEnds \/ ListenerEnds
    \/ \E isPermanent \in BOOLEAN : ConnectCall(isPermanent)
    \/ \E r \in Given : \/ CarrierStep(r) \/ Remove(r)
                        \/ \E t \in BOOLEAN : Disconnect(r, t)

CmSpec == CmInit /\ [][CmNext]_cmVars

\* Goroutines run, and after MaxFails failures every dial answers.
CmFairness ==
    /\ WF_cmVars(StartsNewConnReq \/ StopCloses \/ HandlerEnds \/ ListenerEnds)
    /\ \A r \in Ids : WF_cmVars(CarrierStep(r))

-----------------------------------------------------------------------------
\* Every field has its type.
CmTypeOK ==
    /\ connReqCount \in 0 .. MaxReqs /\ permanent \subseteq Given
    /\ state \in [Ids -> {"none", "Pending", "Failing", "Canceled", "Established", "Disconnected"}]
    /\ pending \subseteq Given /\ conns \subseteq Given /\ open \subseteq Given
    /\ gpc \in [Ids -> {"none", "register", "registerOwn", "address", "connect", "dial",
                       "connected", "failed", "retry", "replace", "renew"}]
    /\ hpc \in {"off", "run", "done"} /\ listening \in {"off", "run", "done"}
    /\ fails \in 0 .. MaxFails /\ toStart \in 0 .. Target /\ stopFlag \in BOOLEAN /\ quit \in BOOLEAN
    /\ removed \subseteq Given /\ lessened \in BOOLEAN

\* A request that was removed or cancelled is never connected or pending again,
\* although its dial may still be under way, and its state says so.
RemovedStaysRemoved ==
    /\ removed \cap (pending \cup conns) = {}
    /\ \A r \in removed : state[r] \in {"Canceled", "Disconnected"}

\* Until the manager quits, every open connection belongs to an established
\* request or is about to be handed to the handler: none leaks when a request
\* is cancelled while it is dialled.
NoConnectionLeaks ==
    ~quit => \A r \in open : r \in conns \/ gpc[r] = "connected"

\* As long as the manager runs, each pending request has exactly one goroutine or
\* timer that works for it, and an established one has none: no request stays
\* pending for ever and none is dialled while it is connected.
PendingIsServed ==
    /\ ~stopFlag => \A r \in pending : gpc[r] # "none"
    /\ \A r \in conns : gpc[r] = "none" /\ state[r] = "Established" /\ r \notin pending

\* After Start the requests that are alive or about to be made are never fewer
\* than TargetOutbound, unless a caller took one away.
TargetKept ==
    hpc # "off" /\ ~stopFlag /\ ~lessened =>
        toStart + Cardinality({r \in Given : \/ r \in pending \cup conns
                                            \/ gpc[r] \in {"register", "registerOwn", "replace", "renew"}})
            >= Target

\* A permanent request is connected again and again, whatever its disconnects
\* and failures, unless it is removed or the manager stops.
PermanentConnects ==
    \A r \in Ids : (r \in permanent /\ hpc = "run") ~> (r \in conns \cup removed \/ stopFlag)

\* After Stop the handler, the listener and every goroutine end, so Wait returns.
ManagerStops ==
    (stopFlag /\ hpc # "off") ~>
        (hpc = "done" /\ listening = "done" /\ \A r \in Ids : gpc[r] = "none")
-----------------------------------------------------------------------------
\* The inductive invariant, request by request.  A request that is not
\* registered yet is in none of the handler's sets, and ids that are not given
\* have no goroutine; what is pending has not been cancelled, so Connect goes on
\* with it; a goroutine that renews has removed its request, unless the manager
\* stops.
Sound(q) ==
    /\ q \in removed => q \notin pending \cup conns /\ state[q] \in {"Canceled", "Disconnected"}
    /\ ~quit /\ q \in open => q \in conns \/ gpc[q] = "connected"
    /\ q \in pending => state[q] \in {"Pending", "Failing"} /\ (stopFlag \/ gpc[q] \notin {"none", "renew"})
    /\ q \in conns => gpc[q] = "none" /\ state[q] = "Established" /\ q \notin pending
    /\ gpc[q] # "none" => q \in Given
    /\ gpc[q] \in {"register", "registerOwn"} => q \notin removed \cup pending \cup conns

CmInd == CmTypeOK /\ (quit => stopFlag) /\ \A q \in Ids : Sound(q)

\* Every step of the handler, of a goroutine and of a caller keeps CmInd.
LEMMA CmStep ==
  ASSUME MaxReqs \in Nat, MaxFails \in Nat, Target \in Nat, CmInd, [CmNext]_cmVars
  PROVE  CmInd'
<1> USE DEF CmInd, Ids, Given, Goes, Becomes, reqVars, netVars, runVars
<1>1. CASE Start
  BY <1>1 DEF Start, CmTypeOK, Sound
<1>2. CASE StartsNewConnReq
  BY <1>2 DEF StartsNewConnReq, CmTypeOK, Sound
<1>3. CASE Stop
  BY <1>3 DEF Stop, CmTypeOK, Sound
<1>4. CASE StopCloses
  BY <1>4 DEF StopCloses, CmTypeOK, Sound
<1>5. CASE HandlerEnds
  BY <1>5 DEF HandlerEnds, CmTypeOK, Sound
<1>6. CASE ListenerEnds
  BY <1>6 DEF ListenerEnds, CmTypeOK, Sound
<1>7. ASSUME NEW isPermanent \in BOOLEAN, ConnectCall(isPermanent)
      PROVE  CmInd'
  BY <1>7 DEF ConnectCall, CmTypeOK, Sound
<1>8. ASSUME NEW r \in Given, CarrierStep(r)
      PROVE  CmInd'
  <2>1. CASE registerPending(r)
    BY <1>8, <2>1 DEF registerPending, CmTypeOK, Sound
  <2>2. CASE GetNewAddress(r)
    BY <1>8, <2>2 DEF GetNewAddress, CmTypeOK, Sound
  <2>3. CASE Connect(r)
    BY <1>8, <2>3 DEF Connect, CmTypeOK, Sound
  <2>4. CASE DialSucceeds(r)
    BY <1>8, <2>4 DEF DialSucceeds, CmTypeOK, Sound
  <2>5. CASE DialFails(r)
    BY <1>8, <2>5 DEF DialFails, CmTypeOK, Sound
  <2>6. CASE GivesUp(r)
    BY <1>8, <2>6 DEF GivesUp, CmTypeOK, Sound
  <2>7. CASE handleConnected(r)
    <3>1. CmTypeOK' /\ (quit => stopFlag)'
      BY <1>8, <2>7 DEF handleConnected, CmTypeOK
    <3>2. ASSUME NEW q \in Ids PROVE Sound(q)'
      <4>1. CASE q = r
        BY <1>8, <2>7, <4>1 DEF handleConnected, CmTypeOK, Sound
      <4>2. CASE q # r
        <5>1. Sound(q)
          OBVIOUS
        <5> QED
          BY <1>8, <2>7, <4>2, <5>1 DEF handleConnected, CmTypeOK, Sound
      <4> QED
        BY <4>1, <4>2
    <3> QED
      BY <3>1, <3>2
  <2>8. CASE handleFailed(r)
    BY <1>8, <2>8 DEF handleFailed, AfterFailure, CmTypeOK, Sound
  <2>9. CASE ReplaceRemoves(r)
    <3>1. CmTypeOK' /\ (quit => stopFlag)'
      BY <1>8, <2>9 DEF ReplaceRemoves, DropRequest, CancelPending, CmTypeOK
    <3>2. ASSUME NEW q \in Ids PROVE Sound(q)'
      <4>1. CASE q = r
        BY <1>8, <2>9, <4>1 DEF ReplaceRemoves, DropRequest, CancelPending, CmTypeOK, Sound
      <4>2. CASE q # r
        <5>1. Sound(q)
          OBVIOUS
        <5> QED
          BY <1>8, <2>9, <4>2, <5>1 DEF ReplaceRemoves, DropRequest, CancelPending, CmTypeOK, Sound
      <4> QED
        BY <4>1, <4>2
    <3> QED
      BY <3>1, <3>2
  <2>10. CASE ReplaceRenews(r)
    BY <1>8, <2>10 DEF ReplaceRenews, CmTypeOK, Sound
  <2> QED
    BY <1>8, <2>1, <2>2, <2>3, <2>4, <2>5, <2>6, <2>7, <2>8, <2>9, <2>10 DEF CarrierStep
<1>9. ASSUME NEW r \in Given, Remove(r)
      PROVE  CmInd'
  <2>1. CmTypeOK' /\ (quit => stopFlag)'
    BY <1>9 DEF Remove, DropRequest, CancelPending, CmTypeOK
  <2>2. ASSUME NEW q \in Ids PROVE Sound(q)'
    <3>1. CASE q = r
      BY <1>9, <3>1 DEF Remove, DropRequest, CancelPending, CmTypeOK, Sound
    <3>2. CASE q # r
      <4>1. Sound(q)
        OBVIOUS
      <4> QED
        BY <1>9, <3>2, <4>1 DEF Remove, DropRequest, CancelPending, CmTypeOK, Sound
    <3> QED
      BY <3>1, <3>2
  <2> QED
    BY <2>1, <2>2
<1>10. ASSUME NEW r \in Given, NEW t \in BOOLEAN, Disconnect(r, t)
       PROVE  CmInd'
  <2>1. CmTypeOK' /\ (quit => stopFlag)'
    BY <1>10 DEF Disconnect, AfterFailure, CancelPending, CmTypeOK
  <2>2. ASSUME NEW q \in Ids PROVE Sound(q)'
    <3>1. CASE q = r
      BY <1>10, <3>1 DEF Disconnect, AfterFailure, CancelPending, CmTypeOK, Sound
    <3>2. CASE q # r
      <4>1. Sound(q)
        OBVIOUS
      <4> QED
        BY <1>10, <3>2, <4>1 DEF Disconnect, AfterFailure, CancelPending, CmTypeOK, Sound
    <3> QED
      BY <3>1, <3>2
  <2> QED
    BY <2>1, <2>2
<1>11. CASE UNCHANGED cmVars
  BY <1>11 DEF cmVars, CmTypeOK, Sound
<1> QED
  BY <1>1, <1>2, <1>3, <1>4, <1>5, <1>6, <1>7, <1>8, <1>9, <1>10, <1>11 DEF CmNext

\* However many requests are made and dials fail, and for every TargetOutbound: a
\* removed request stays removed, no connection leaks and every pending request
\* is worked for.
THEOREM RequestsSafe ==
  ASSUME MaxReqs \in Nat, MaxFails \in Nat, Target \in Nat
  PROVE  CmSpec => [](RemovedStaysRemoved /\ NoConnectionLeaks /\ PendingIsServed)
<1>1. CmInit => CmInd
  <2> SUFFICES ASSUME CmInit PROVE CmInd
    OBVIOUS
  <2> USE DEF CmInit, Ids, Given
  <2>1. stopFlag \in BOOLEAN /\ quit \in BOOLEAN /\ lessened \in BOOLEAN
    BY Zenon
  <2>2. gpc \in [Ids -> {"none"}] /\ state \in [Ids -> {"none"}]
    BY Zenon
  <2>3. CmTypeOK
    BY <2>1, <2>2 DEF CmTypeOK
  <2>4. ASSUME NEW q \in Ids PROVE Sound(q)
    BY DEF Sound
  <2> QED
    BY <2>3, <2>4 DEF CmInd
<1>2. CmInd /\ [CmNext]_cmVars => CmInd'
  BY CmStep
<1>3. CmInd => RemovedStaysRemoved /\ NoConnectionLeaks /\ PendingIsServed
  BY DEF CmInd, CmTypeOK, Sound, RemovedStaysRemoved, NoConnectionLeaks, PendingIsServed, Ids, Given
<1> QED
  BY <1>1, <1>2, <1>3, PTL DEF CmSpec
=============================================================================
