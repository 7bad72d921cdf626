-------------------------------- MODULE Peer --------------------------------
(***************************************************************************)
(* The goroutines of a connected peer (peer/peer.go): inHandler reads and  *)
(* handles messages, queueHandler orders what is to be sent, outHandler    *)
(* writes it, stallHandler watches both, pingHandler pings; callers queue  *)
(* messages and wait on a channel for their confirmation; Disconnect can   *)
(* come from any of them, from the idle timer or from a caller.            *)
(*                                                                         *)
(* A message is its name.  Messages in Msgs have a doneChan (with room for *)
(* the one value sent to it); Plain stands for the pings, pongs and        *)
(* inventory messages, which have none.  Disconnect sets the flag, closes  *)
(* the connection and the quit channel in one step: what others can do in  *)
(* between they can also do right after it.                                *)
(***************************************************************************)
EXTENDS Integers, FiniteSets, SequencesExt, TLAPS

CONSTANTS
    Msgs,        \* messages with a doneChan
    Reject,      \* the one of them that inHandler sends before it gives up
    Plain,       \* a message without doneChan
    MaxPlain,    \* bound: pings and inventory items
    MaxReceived, \* bound: messages that inHandler handles
    MaxTrickle,  \* inventory items in one message (maxInvTrickleSize)
    NoMsg

VARIABLES
    disconnect,   \* the disconnect flag and the quit channel
    mst,          \* mst[m]: where the QueueMessage call for m is
    done,         \* done[m]: values sent to the doneChan of m
    received,     \* how many messages inHandler has read
    plain,        \* how many plain messages and items were made
    outputQueue,  \* the channel to queueHandler
    invChan,      \* outputInvChan: the number of items in it
    invSendQueue, \* items that wait for the trickle
    pendingMsgs,  \* messages queueHandler has not passed on
    waiting,      \* its flag: outHandler has a message
    qpc,          \* queueHandler
    sendQueue,    \* the channel to outHandler, capacity 1
    sendDone,     \* sendDoneQueue: values in it, capacity 1
    opc, omsg,    \* outHandler and the message it writes
    ipc,          \* inHandler
    stallControl, \* the number of commands for stallHandler in its channel, capacity 1
    spc,          \* stallHandler
    ioStopped,    \* its flag
    ppc,          \* pingHandler
    unsent        \* history: the queued messages with doneChan not yet written, in order

callVars == <<mst, done, unsent>>
queueVars == <<outputQueue, invChan, invSendQueue, pendingMsgs, waiting, qpc>>
outVars == <<opc, omsg>>
inVars == <<ipc, received>>
stallVars == <<spc, ioStopped>>
peerVars == <<disconnect, callVars, plain, queueVars, sendQueue, sendDone, outVars, inVars,
              stallControl, stallVars, ppc>>

PeerInit ==
    /\ disconnect = FALSE /\ mst = [m \in Msgs |-> "new"] /\ done = [m \in Msgs |-> 0] /\ unsent = <<>>
    /\ plain = 0 /\ outputQueue = <<>> /\ invChan = 0 /\ invSendQueue = 0
    /\ pendingMsgs = <<>> /\ waiting = FALSE /\ qpc = "off"
    /\ sendQueue = <<>> /\ sendDone = 0 /\ opc = "off" /\ omsg = NoMsg
    /\ ipc = "off" /\ received = 0 /\ stallControl = 0
    /\ spc = "off" /\ ioStopped = FALSE /\ ppc = "off"

\* One value for the doneChan of each message in S.
Confirm(S) == done' = [m \in Msgs |-> IF m \in S THEN done[m] + 1 ELSE done[m]]

\* start: the negotiation is over and the goroutines are launched.
start ==
    /\ qpc = "off"
    /\ qpc' = "loop" /\ opc' = "loop" /\ ipc' = "read" /\ spc' = "loop" /\ ppc' = "loop"
    /\ UNCHANGED <<disconnect, callVars, received, plain, outputQueue, invChan, invSendQueue, pendingMsgs,
                   waiting, sendQueue, sendDone, omsg, stallControl, ioStopped>>

\* The flag is set, and the order of what is still to be sent matters no more.
Disconnects == disconnect' = TRUE /\ unsent' = <<>>

\* Disconnect by a caller, the idle timer, or the remote side.
Disconnect ==
    /\ ~disconnect /\ Disconnects
    /\ UNCHANGED <<mst, done, plain, queueVars, sendQueue, sendDone, outVars, inVars, stallControl,
                   stallVars, ppc>>

-----------------------------------------------------------------------------
\* QueueMessage first asks whether the peer is connected; if it is not, the
\* message is confirmed at once.
QueueMessage(m) ==
    /\ mst[m] = "new" /\ (m = Reject => ipc = "reject")
    /\ mst' = [mst EXCEPT ![m] = IF disconnect THEN "refused" ELSE "checked"]
    /\ Confirm(IF disconnect THEN {m} ELSE {})
    /\ UNCHANGED <<disconnect, unsent, plain, queueVars, sendQueue, sendDone, outVars, inVars, stallControl,
                   stallVars, ppc>>

\* Then it is put into the channel, which has room; queueHandler may have ended
\* meanwhile.
Enqueue(m) ==
    /\ mst[m] = "checked"
    /\ mst' = [mst EXCEPT ![m] = IF qpc = "done" THEN "late" ELSE "queued"]
    /\ outputQueue' = Append(outputQueue, m)
    /\ unsent' = IF disconnect THEN unsent ELSE Append(unsent, m)
    /\ UNCHANGED <<disconnect, done, plain, invChan, invSendQueue, pendingMsgs, waiting, qpc,
                   sendQueue, sendDone, outVars, inVars, stallControl, stallVars, ppc>>

\* pingHandler queues a ping, in the same two steps, and ends on quit.
Ping ==
    /\ ppc = "loop" /\ ~disconnect /\ plain < MaxPlain
    /\ plain' = plain + 1 /\ ppc' = "send"
    /\ UNCHANGED <<disconnect, callVars, queueVars, sendQueue, sendDone, outVars, inVars, stallControl,
                   stallVars>>

PingSends ==
    /\ ppc = "send" /\ ppc' = "loop" /\ outputQueue' = Append(outputQueue, Plain)
    /\ UNCHANGED <<disconnect, callVars, plain, invChan, invSendQueue, pendingMsgs, waiting, qpc,
                   sendQueue, sendDone, outVars, inVars, stallControl, stallVars>>

PingEnds ==
    /\ ppc = "loop" /\ disconnect /\ ppc' = "done"
    /\ UNCHANGED <<disconnect, callVars, plain, queueVars, sendQueue, sendDone, outVars, inVars,
                   stallControl, stallVars>>

QueueInventory ==
    /\ ~disconnect /\ plain < MaxPlain
    /\ plain' = plain + 1 /\ invChan' = invChan + 1
    /\ UNCHANGED <<disconnect, callVars, outputQueue, invSendQueue, pendingMsgs, waiting, qpc,
                   sendQueue, sendDone, outVars, inVars, stallControl, stallVars, ppc>>

-----------------------------------------------------------------------------
\* queuePacket for each message of ms in turn: the first goes to outHandler
\* if that has none, all others wait.  The send blocks if sendQueue is full.
queuePackets(ms) ==
    /\ IF waiting THEN pendingMsgs' = pendingMsgs \o ms /\ UNCHANGED sendQueue
       ELSE /\ sendQueue = <<>>
            /\ sendQueue' = <<Head(ms)>> /\ pendingMsgs' = pendingMsgs \o Tail(ms)
    /\ waiting' = TRUE

QueueTakes ==
    /\ qpc = "loop" /\ outputQueue # <<>>
    /\ outputQueue' = Tail(outputQueue) /\ queuePackets(<<Head(outputQueue)>>)
    /\ UNCHANGED <<disconnect, callVars, plain, invChan, invSendQueue, qpc, sendDone, outVars,
                   inVars, stallControl, stallVars, ppc>>

\* outHandler is ready for the next message, if there is one.
QueueSent ==
    /\ qpc = "loop" /\ sendDone = 1 /\ sendDone' = 0
    /\ IF pendingMsgs = <<>> THEN waiting' = FALSE /\ UNCHANGED <<pendingMsgs, sendQueue>>
       ELSE /\ sendQueue = <<>> /\ sendQueue' = <<Head(pendingMsgs)>>
            /\ pendingMsgs' = Tail(pendingMsgs) /\ UNCHANGED waiting
    /\ UNCHANGED <<disconnect, callVars, plain, outputQueue, invChan, invSendQueue, qpc, outVars,
                   inVars, stallControl, stallVars, ppc>>

\* A block is announced at once, other inventory waits for the trickle.
QueueInv ==
    /\ qpc = "loop" /\ invChan > 0 /\ invChan' = invChan - 1
    /\ \/ queuePackets(<<Plain>>) /\ UNCHANGED invSendQueue
       \/ invSendQueue' = invSendQueue + 1 /\ UNCHANGED <<pendingMsgs, waiting, sendQueue>>
    /\ UNCHANGED <<disconnect, callVars, plain, outputQueue, qpc, sendDone, outVars, inVars,
                   stallControl, stallVars, ppc>>

\* The trickle empties its queue into as many messages as are needed for the k
\* items that the peer does not know.
Trickle ==
    /\ qpc = "loop" /\ ~disconnect /\ invSendQueue > 0 /\ invSendQueue' = 0
    /\ \E k \in 0 .. invSendQueue :
          IF k = 0 THEN UNCHANGED <<pendingMsgs, waiting, sendQueue>>
          ELSE queuePackets([i \in 1 .. (k + MaxTrickle - 1) \div MaxTrickle |-> Plain])
    /\ UNCHANGED <<disconnect, callVars, plain, outputQueue, invChan, qpc, sendDone, outVars, inVars,
                   stallControl, stallVars, ppc>>

\* On quit the pending messages are confirmed, then what is in the channels.
QueueQuits ==
    /\ qpc = "loop" /\ disconnect
    /\ qpc' = "drain" /\ pendingMsgs' = <<>> /\ Confirm(ToSet(pendingMsgs))
    /\ UNCHANGED <<disconnect, mst, unsent, plain, outputQueue, invChan, invSendQueue, waiting, sendQueue,
                   sendDone, outVars, inVars, stallControl, stallVars, ppc>>

\* Mutant of QueueDrains: the callers of what is in the channel are forgotten.
QueueDrainsSilently ==
    /\ qpc = "drain" /\ outputQueue # <<>> /\ outputQueue' = Tail(outputQueue)
    /\ UNCHANGED <<disconnect, callVars, plain, invChan, invSendQueue, pendingMsgs, waiting, qpc,
                   sendQueue, sendDone, outVars, inVars, stallControl, stallVars, ppc>>

QueueDrains ==
    /\ qpc = "drain"
    /\ \/ /\ outputQueue # <<>> /\ outputQueue' = Tail(outputQueue)
          /\ Confirm({Head(outputQueue)}) /\ UNCHANGED invChan
       \/ invChan > 0 /\ invChan' = invChan - 1 /\ UNCHANGED <<outputQueue, done>>
    /\ UNCHANGED <<disconnect, mst, unsent, plain, invSendQueue, pendingMsgs, waiting, qpc, sendQueue,
                   sendDone, outVars, inVars, stallControl, stallVars, ppc>>

QueueEnds ==
    /\ qpc = "drain" /\ outputQueue = <<>> /\ invChan = 0 /\ qpc' = "done"
    /\ UNCHANGED <<disconnect, callVars, plain, outputQueue, invChan, invSendQueue, pendingMsgs,
                   waiting, sendQueue, sendDone, outVars, inVars, stallControl, stallVars, ppc>>

-----------------------------------------------------------------------------
\* outHandler takes a message and tells stallHandler.
OutTakes ==
    /\ opc = "loop" /\ sendQueue # <<>>
    /\ omsg' = Head(sendQueue) /\ sendQueue' = Tail(sendQueue) /\ opc' = "stall"
    /\ UNCHANGED <<disconnect, callVars, plain, queueVars, sendDone, inVars, stallControl,
                   stallVars, ppc>>

OutStall ==
    /\ opc = "stall" /\ stallControl = 0
    /\ stallControl' = 1 /\ opc' = "write"
    /\ UNCHANGED <<disconnect, callVars, plain, queueVars, sendQueue, sendDone, omsg, inVars,
                   stallVars, ppc>>

\* writeMessage succeeds, or does nothing because the peer is disconnecting; the
\* message is confirmed and queueHandler will be told.
OutWrites ==
    /\ opc = "write" /\ opc' = "sent" /\ omsg' = NoMsg /\ Confirm({omsg})
    /\ unsent' = IF ~disconnect /\ omsg \in Msgs THEN Tail(unsent) ELSE unsent
    /\ UNCHANGED <<disconnect, mst, plain, queueVars, sendQueue, sendDone, inVars, stallControl,
                   stallVars, ppc>>

\* The write fails, because of the network or because a Disconnect closed the
\* connection under it: the peer is disconnected and the message confirmed, but
\* queueHandler is not told.
OutWriteFails ==
    /\ opc = "write"
    /\ Disconnects /\ opc' = "loop" /\ omsg' = NoMsg /\ Confirm({omsg})
    /\ UNCHANGED <<mst, plain, queueVars, sendQueue, sendDone, inVars, stallControl,
                   stallVars, ppc>>

OutSignals ==
    /\ opc = "sent" /\ sendDone = 0 /\ sendDone' = 1 /\ opc' = "loop"
    /\ UNCHANGED <<disconnect, callVars, plain, queueVars, sendQueue, omsg, inVars,
                   stallControl, stallVars, ppc>>

\* Mutant of OutQuits: outHandler does not wait for queueHandler.
OutQuitsAtOnce ==
    /\ opc = "loop" /\ disconnect /\ opc' = "drain"
    /\ UNCHANGED <<disconnect, callVars, plain, queueVars, sendQueue, sendDone, omsg, inVars,
                   stallControl, stallVars, ppc>>

\* On quit it waits for queueHandler and confirms what is left.
OutQuits ==
    /\ \/ opc = "loop" /\ disconnect /\ opc' = "wait"
       \/ opc = "wait" /\ qpc = "done" /\ opc' = "drain"
    /\ UNCHANGED <<disconnect, callVars, plain, queueVars, sendQueue, sendDone, omsg, inVars,
                   stallControl, stallVars, ppc>>

OutDrains ==
    /\ opc = "drain"
    /\ IF sendQueue = <<>> THEN opc' = "done" /\ UNCHANGED <<sendQueue, done>>
       ELSE sendQueue' = Tail(sendQueue) /\ Confirm({Head(sendQueue)}) /\ UNCHANGED opc
    /\ UNCHANGED <<disconnect, mst, unsent, plain, queueVars, sendDone, omsg, inVars, stallControl,
                   stallVars, ppc>>

-----------------------------------------------------------------------------
\* inHandler reads a message, or fails: then it ends, after a reject message
\* when the peer is still connected and the error deserves one.
InReads ==
    /\ ipc = "read"
    /\ \/ disconnect /\ ipc' = "ending" /\ UNCHANGED received
       \/ ~disconnect /\ ipc' \in {"reject", "ending"} /\ UNCHANGED received
       \/ ~disconnect /\ received < MaxReceived /\ received' = received + 1 /\ ipc' = "received"
    /\ UNCHANGED <<disconnect, callVars, plain, queueVars, sendQueue, sendDone, outVars,
                   stallControl, stallVars, ppc>>

\* It tells stallHandler of the message, the start and the end of its handling.
InStall ==
    /\ ipc \in {"received", "started", "handled"} /\ stallControl = 0
    /\ stallControl' = 1
    /\ ipc' = CASE ipc = "received" -> "started"
                [] ipc = "started"  -> "callback"
                [] ipc = "handled"  -> "read"
    /\ UNCHANGED <<disconnect, callVars, received, plain, queueVars, sendQueue, sendDone, outVars,
                   stallVars, ppc>>

\* The message is handled; a message that is out of place ends the peer, a
\* second version or verack after a reject message.
InCallback ==
    /\ ipc = "callback" /\ ipc' \in {"handled", "reject", "ending"}
    /\ UNCHANGED <<disconnect, callVars, received, plain, queueVars, sendQueue, sendDone, outVars,
                   stallControl, stallVars, ppc>>

\* PushRejectMsg returns when the reject message is confirmed.
InRejected ==
    /\ ipc = "reject" /\ done[Reject] > 0 /\ ipc' = "ending"
    /\ UNCHANGED <<disconnect, callVars, received, plain, queueVars, sendQueue, sendDone, outVars,
                   stallControl, stallVars, ppc>>

InEnds ==
    /\ ipc = "ending" /\ ipc' = "done" /\ Disconnects
    /\ UNCHANGED <<mst, done, received, plain, queueVars, sendQueue, sendDone, outVars, stallControl,
                   stallVars, ppc>>

-----------------------------------------------------------------------------
\* stallHandler notes what is sent and received.  The deadlines that this sets
\* and clears are left out: what they do is a Disconnect, by StallTick.
StallTakes ==
    /\ spc = "loop" /\ stallControl = 1 /\ stallControl' = 0
    /\ UNCHANGED <<disconnect, callVars, plain, queueVars, sendQueue, sendDone, outVars, inVars,
                   stallVars, ppc>>

\* A deadline has passed.
StallTick ==
    /\ spc = "loop" /\ ~disconnect /\ Disconnects
    /\ UNCHANGED <<mst, done, plain, queueVars, sendQueue, sendDone, outVars, inVars, stallControl,
                   stallVars, ppc>>

\* inQuit or outQuit is closed: the second time it sees one of them, whichever,
\* it drains its channel and ends.
StallQuits ==
    /\ spc = "loop" /\ (ipc = "done" \/ opc = "done")
    /\ ioStopped' = TRUE
    /\ IF ioStopped THEN spc' = "done" /\ stallControl' = 0
       ELSE UNCHANGED <<spc, stallControl>>
    /\ UNCHANGED <<disconnect, callVars, plain, queueVars, sendQueue, sendDone, outVars, inVars,
                   ppc>>

-----------------------------------------------------------------------------
QueueStep ==
    QueueTakes \/ QueueSent \/ QueueInv \/ Trickle \/ QueueQuits \/ QueueDrains \/ QueueEnds
OutStep ==
    OutTakes \/ OutStall \/ OutWrites \/ OutWriteFails \/ OutSignals \/ OutQuits \/ OutDrains
InStep == InReads \/ InStall \/ InCallback \/ InRejected \/ InEnds
StallStep == StallTakes \/ StallTick \/ StallQuits

PeerNext ==
    \/ start \/ Disconnect \/ Ping \/ PingSends \/ PingEnds \/ QueueInventory
    \/ \E m \in Msgs : QueueMessage(m) \/ Enqueue(m)
    \/ QueueStep \/ OutStep \/ InStep \/ StallStep

PeerSpec == PeerInit /\ [][PeerNext]_peerVars

\* What a peer does by itself.  A read may wait for ever while the peer is
\* connected, and a deadline need not pass.
PeerSystem ==
    \/ PingSends \/ PingEnds \/ QueueMessage(Reject) \/ \E m \in Msgs : Enqueue(m)
    \/ QueueStep \/ OutStep \/ StallTakes \/ StallQuits
    \/ (disconnect /\ InReads) \/ InStall \/ InCallback \/ InRejected \/ InEnds

\* Goroutines run, and writes and callbacks return.  The bounds leave finitely
\* many of these steps, so that no goroutine is passed over for ever.
PeerFairness == WF_peerVars(PeerSystem)

-----------------------------------------------------------------------------
\* Every field has its type.
PeerTypeOK ==
    /\ disconnect \in BOOLEAN /\ waiting \in BOOLEAN /\ ioStopped \in BOOLEAN
    /\ received \in 0 .. MaxReceived /\ plain \in 0 .. MaxPlain
    /\ mst \in [Msgs -> {"new", "refused", "checked", "queued", "late"}]
    /\ done \in [Msgs -> 0 .. 1]
    /\ outputQueue \in Seq(Msgs \cup {Plain}) /\ pendingMsgs \in Seq(Msgs \cup {Plain})
    /\ invChan \in 0 .. MaxPlain /\ invSendQueue \in 0 .. MaxPlain
    /\ sendQueue \in Seq(Msgs \cup {Plain}) /\ sendDone \in 0 .. 1
    /\ omsg \in Msgs \cup {Plain, NoMsg} /\ unsent \in Seq(Msgs)
    /\ stallControl \in 0 .. 1
    /\ qpc \in {"off", "loop", "drain", "done"} /\ ppc \in {"off", "loop", "send", "done"}
    /\ opc \in {"off", "loop", "stall", "write", "sent", "wait", "drain", "done"}
    /\ ipc \in {"off", "read", "received", "started", "callback", "handled", "reject", "ending", "done"}
    /\ spc \in {"off", "loop", "done"}

InFlight ==
    Len(sendQueue) + sendDone + (IF opc \in {"stall", "write", "sent"} THEN 1 ELSE 0)

\* At most one message is on its way to the network, and none unless the flag
\* is set: queueHandler and outHandler never block on each other's channel.
OneInFlight == InFlight <= 1 /\ (~waiting => InFlight = 0)

\* A message with a doneChan is confirmed at most once, and never while it is
\* still somewhere on its way: nobody sends a second value to a channel that
\* its owner has stopped reading.
ConfirmedOnce ==
    \A m \in Msgs :
        LET places == outputQueue \o pendingMsgs \o sendQueue \o <<omsg>>
        IN  done[m] + Cardinality({i \in 1 .. Len(places) : places[i] = m}) <= 1

\* Messages go out in the order they were queued: while the peer is connected,
\* what is on its way is what was queued and not yet written, in that order.
InOrder ==
    ~disconnect =>
        SelectSeq(<<omsg>> \o sendQueue \o pendingMsgs \o outputQueue, LAMBDA m : m \in Msgs)
            = unsent

\* No message is lost: one that was queued in time is confirmed or still in one
\* of the queues that somebody empties.
NothingLost ==
    \A m \in Msgs :
        mst[m] = "queued" /\ done[m] = 0 =>
            \/ omsg = m
            \/ m \in ToSet(sendQueue) /\ opc # "done"
            \/ m \in ToSet(pendingMsgs) /\ qpc = "loop"
            \/ m \in ToSet(outputQueue) /\ qpc # "done"

\* stallHandler ended while a goroutine that reports to it still runs.
StallGone == spc = "done" /\ ~(ipc = "done" /\ opc = "done")

\* Every message that was queued in time is confirmed, unless stallHandler
\* left its partner behind.
MessagesConfirmed ==
    \A m \in Msgs : (mst[m] = "queued" /\ qpc # "off") ~> (done[m] = 1 \/ StallGone)

\* After a disconnect all goroutines end, unless stallHandler left its partner
\* behind or the reject message came too late to be confirmed.
GoroutinesEnd ==
    (disconnect /\ qpc # "off") ~>
        \/ "done" = qpc /\ "done" = opc /\ "done" = ipc /\ "done" = spc /\ "done" = ppc
        \/ StallGone \/ mst[Reject] = "late"
-----------------------------------------------------------------------------
\* The channel to outHandler holds at most one message.
PeerInd ==
    /\ OneInFlight /\ sendDone \in 0 .. 1
    /\ sendQueue = <<>> \/ \E m : sendQueue = <<m>>

\* For all messages, whatever the bounds and the size of a trickle, queueHandler
\* and outHandler have at most one message between them, so that neither blocks on
\* the other's channel.
THEOREM NeitherBlocks == PeerSpec => []OneInFlight
<1>1. PeerInit => PeerInd
  BY DEF PeerInit, PeerInd, OneInFlight, InFlight
<1>2. PeerInd /\ [PeerNext]_peerVars => PeerInd'
  <2> SUFFICES ASSUME PeerInd, [PeerNext]_peerVars
               PROVE  PeerInd'
    OBVIOUS
  <2> USE DEF PeerInd, OneInFlight, InFlight, callVars, queueVars, outVars, inVars, stallVars
  <2>1. CASE UNCHANGED <<sendQueue, sendDone, opc, waiting>>
    BY <2>1
  <2>2. CASE start
    BY <2>2 DEF start
  <2>3. ASSUME NEW m \in Msgs, QueueMessage(m) \/ Enqueue(m)
        PROVE  PeerInd'
    BY <2>1, <2>3 DEF QueueMessage, Enqueue
  <2>4. CASE Disconnect \/ Ping \/ PingSends \/ PingEnds \/ QueueInventory
    BY <2>1, <2>4 DEF Disconnect, Ping, PingSends, PingEnds, QueueInventory
  <2>5. CASE QueueStep
    <3>1. ASSUME NEW ms, queuePackets(ms), UNCHANGED <<sendDone, opc>>
          PROVE  PeerInd'
      <4>1. CASE waiting
        BY <3>1, <4>1 DEF queuePackets
      <4>2. CASE ~waiting
        <5>1. PICK m : sendQueue' = <<m>>
          BY <3>1, <4>2 DEF queuePackets
        <5>2. waiting' /\ InFlight' = 1
          BY <3>1, <4>2, <5>1 DEF queuePackets
        <5> QED
          BY <3>1, <5>1, <5>2
      <4> QED
        BY <4>1, <4>2
    <3>2. CASE QueueTakes
      BY <3>1, <3>2 DEF QueueTakes
    <3>3. CASE QueueSent
      <4>1. CASE pendingMsgs = <<>>
        BY <3>3, <4>1 DEF QueueSent
      <4>2. CASE pendingMsgs # <<>>
        <5>1. PICK m : sendQueue' = <<m>>
          BY <3>3, <4>2 DEF QueueSent
        <5>2. waiting' = waiting /\ InFlight' = 1
          BY <3>3, <4>2, <5>1 DEF QueueSent
        <5> QED
          BY <3>3, <4>2, <5>1, <5>2 DEF QueueSent
      <4> QED
        BY <4>1, <4>2
    <3>4. CASE QueueInv
      BY <2>1, <3>1, <3>4 DEF QueueInv
    <3>5. CASE Trickle
      BY <2>1, <3>1, <3>5 DEF Trickle
    <3>6. CASE QueueQuits \/ QueueDrains \/ QueueEnds
      BY <2>1, <3>6 DEF QueueQuits, QueueDrains, QueueEnds
    <3> QED
      BY <2>5, <3>2, <3>3, <3>4, <3>5, <3>6 DEF QueueStep
  <2>6. CASE OutStep
    <3>1. CASE OutTakes
      BY <3>1 DEF OutTakes
    <3>2. CASE OutStall \/ OutWrites \/ OutWriteFails \/ OutSignals
      BY <3>2 DEF OutStall, OutWrites, OutWriteFails, OutSignals
    <3>3. CASE OutQuits
      BY <3>3 DEF OutQuits
    <3>4. CASE OutDrains
      BY <3>4 DEF OutDrains
    <3> QED
      BY <2>6, <3>1, <3>2, <3>3, <3>4 DEF OutStep
  <2>7. CASE InStep
    BY <2>1, <2>7 DEF InStep, InReads, InStall, InCallback, InRejected, InEnds
  <2>8. CASE StallStep
    BY <2>1, <2>8 DEF StallStep, StallTakes, StallTick, StallQuits
  <2>9. CASE UNCHANGED peerVars
    BY <2>1, <2>9 DEF peerVars
  <2> QED
    BY <2>2, <2>3, <2>4, <2>5, <2>6, <2>7, <2>8, <2>9 DEF PeerNext
<1>3. PeerInd => OneInFlight
  BY DEF PeerInd
<1> QED
  BY <1>1, <1>2, <1>3, PTL DEF PeerSpec
=============================================================================
