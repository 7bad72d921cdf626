------------------------------- MODULE Stall -------------------------------
(***************************************************************************)
(* The deadlines of a peer's expected responses (peer/peer.go,             *)
(* maybeAddDeadline and stallHandler).  Module Peer has the goroutines and *)
(* channels around it; here is the time.                                   *)
(*                                                                         *)
(* Time passes in units, and a tick of the stall ticker is handled within  *)
(* the unit it comes in.  Nothing is followed after the disconnect.        *)
(***************************************************************************)
EXTENDS Integers, FiniteSets

CONSTANTS
  Requests,              \* the messages that are sent here
  stallTickInterval,
  stallResponseTimeout,
  MaxTime                \* bound: of the time of a behaviour

VARIABLES
  now,
  ticked,            \* whether the tick of this time was handled
  pendingResponses,  \* [command -> deadline]
  input,             \* of inHandler: "reads", "received" or "calls"
  startTime,         \* handlersStartTime
  deadlineOffset,
  sent,              \* history: [command -> when it came to be expected last]
  lastCall,          \* history: the last time a callback ran
  stalled            \* the time of the disconnect, or Never

vars == <<now, ticked, pendingResponses, input, startTime, deadlineOffset, sent, lastCall, stalled>>

Never == -1

\* One of these answers a request.
Expected(request) ==
  CASE request = "version" -> {"verack"}
    [] request \in {"mempool", "getblocks"} -> {"inv"}
    [] request = "getdata" -> {"block", "merkleblock", "tx", "notfound"}
    [] request = "getheaders" -> {"headers"}

Responses == UNION {Expected(request) : request \in Requests}

Timeout(request) == IF request = "getheaders" THEN 3 * stallResponseTimeout ELSE stallResponseTimeout

Init ==
  /\ now = 0 /\ ticked = TRUE /\ pendingResponses = <<>>
  /\ input = "reads" /\ startTime = 0 /\ deadlineOffset = 0
  /\ sent = [c \in Responses |-> 0] /\ lastCall = -stallTickInterval /\ stalled = Never

----------------------------------------------------------------------------
IsTick == now % stallTickInterval = 0

Pass ==
  /\ now < MaxTime
  /\ stalled = Never
  /\ IsTick => ticked
  /\ now' = now + 1 /\ ticked' = FALSE
  /\ lastCall' = IF input = "calls" THEN now + 1 ELSE lastCall
  /\ UNCHANGED <<pendingResponses, input, startTime, deadlineOffset, sent, stalled>>

maybeAddDeadline(request) ==
  [c \in DOMAIN pendingResponses \cup Expected(request) |->
    IF c \in Expected(request) THEN now + Timeout(request) ELSE pendingResponses[c]]

Send(request) ==
  /\ stalled = Never
  /\ pendingResponses' = maybeAddDeadline(request)
  /\ sent' = [c \in Responses |-> IF c \in Expected(request) THEN now ELSE sent[c]]
  /\ UNCHANGED <<now, ticked, input, startTime, deadlineOffset, lastCall, stalled>>

\* MUTANT: only the response itself is no longer expected.
GroupAlone(response) == {response}

\* The commands of which one was expected.
Group(response) ==
  IF response \in Expected("getdata") THEN Expected("getdata") ELSE {response}

Receive(response) ==
  /\ stalled = Never
  /\ input = "reads"
  /\ input' = "received"
  /\ pendingResponses' = [c \in DOMAIN pendingResponses \ Group(response) |-> pendingResponses[c]]
  /\ UNCHANGED <<now, ticked, startTime, deadlineOffset, sent, lastCall, stalled>>

HandlerStart ==
  /\ stalled = Never
  /\ input = "received"
  /\ input' = "calls" /\ startTime' = now /\ lastCall' = now
  /\ UNCHANGED <<now, ticked, pendingResponses, deadlineOffset, sent, stalled>>

HandlerDone ==
  /\ stalled = Never
  /\ input = "calls"
  /\ input' = "reads"
  /\ deadlineOffset' = deadlineOffset + (now - startTime)
  /\ UNCHANGED <<now, ticked, pendingResponses, startTime, sent, lastCall, stalled>>

ResetOffset == 0

Tick ==
  LET offset == deadlineOffset + (IF input = "calls" THEN now - startTime ELSE 0) IN
    /\ IsTick /\ ~ticked
    /\ ticked' = TRUE
    /\ stalled' = IF stalled = Never /\ \E c \in DOMAIN pendingResponses : now >= pendingResponses[c] + offset
                  THEN now ELSE stalled
    /\ deadlineOffset' = ResetOffset
    /\ UNCHANGED <<now, pendingResponses, input, startTime, sent, lastCall>>

Next ==
  \/ Pass \/ HandlerStart \/ HandlerDone \/ Tick
  \/ \E request \in Requests : Send(request)
  \/ \E response \in Responses : Receive(response)

Spec == Init /\ [][Next]_vars

----------------------------------------------------------------------------
\* The time a response is waited for.
Waits(c) == IF c = "headers" THEN 3 * stallResponseTimeout ELSE stallResponseTimeout

\* A peer is disconnected when a response is overdue by a tick and callbacks
\* have not run since the tick before, however long they took earlier and
\* whatever other responses came; and only with a response overdue that no
\* member of its group has answered (stallHandler).
StallsFound ==
  /\ \A c \in DOMAIN pendingResponses :
       /\ now > sent[c] + Waits(c) + stallTickInterval
       /\ now > lastCall + 2 * stallTickInterval
       => stalled # Never
  /\ stalled # Never =>
       \E request \in Requests : \A c \in Expected(request) :
         c \in DOMAIN pendingResponses /\ stalled >= sent[c] + Waits(c)
============================================================================
