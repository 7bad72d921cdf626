------------------------ MODULE SubscriptionManager ------------------------
(***************************************************************************)
(* neutrino/blockntfns/manager.go: clients subscribe to the blocks of a    *)
(* chain, get a backlog and then every new block, cancel, and the manager  *)
(* stops at any moment.  The processes are the handler of the manager, the *)
(* clients, one delivery goroutine per subscription, Stop and the source   *)
(* of notifications (external).  A notification is the height of a block.  *)
(* The queue of a subscription is an unbounded FIFO that takes items while *)
(* it runs (ConcurrentQueue of lnd, external).                             *)
(***************************************************************************)
EXTENDS Integers, Sequences, TLAPS

CONSTANTS
    Clients,    \* each subscribes at most once
    MaxHeight,  \* bound: the highest block
    ChanCap,    \* the capacity of a client's channel (20 in the code)
    NoItem

VARIABLES
    tip,          \* the height of the chain of the source
    feed,         \* the notifications the handler has not received yet
    srcClosed,    \* the source closed its channel
    mpc,          \* where the handler is
    cur,          \* what it is working on: items and the subscriptions left
    subscribers,  \* the map of registered subscriptions
    mquit,        \* the quit channel of the manager is closed
    mstop,        \* where Stop is
    cpc,          \* cpc[c]: where client c is
    best,         \* best[c]: the height it asked to start after
    reply,        \* reply[c]: the content of its errChan
    queue, qup,   \* queue[c], qup[c]: its notification queue, and that it runs
    dpc, ditem,   \* dpc[c], ditem[c]: its delivery goroutine and what it holds
    nchan,        \* nchan[c]: the channel of the client
    nclosed,      \* nclosed[c]: that channel is closed
    squit,        \* squit[c]: the quit channel of the subscription is closed
    got           \* got[c]: history: what the client received

srcVars == <<tip, feed, srcClosed>>
mgrVars == <<mpc, cur, subscribers>>
cliVars == <<cpc, best, reply>>
qVars == <<queue, qup>>
delVars == <<dpc, ditem, nchan>>
subVars == <<srcVars, mgrVars, mquit, mstop, cliVars, qVars, delVars, nclosed, squit, got>>

Idle == [items |-> <<>>, left |-> {}]

SubInit ==
    /\ tip = 1 /\ feed = <<>> /\ srcClosed = FALSE
    /\ mpc = "off" /\ cur = Idle /\ subscribers = {}
    /\ mquit = FALSE /\ mstop = "no"
    /\ cpc = [c \in Clients |-> "new"] /\ best = [c \in Clients |-> 0]
    /\ reply = [c \in Clients |-> "none"]
    /\ queue = [c \in Clients |-> <<>>] /\ qup = [c \in Clients |-> FALSE]
    /\ dpc = [c \in Clients |-> "off"] /\ ditem = [c \in Clients |-> NoItem]
    /\ nchan = [c \in Clients |-> <<>>]
    /\ nclosed = [c \in Clients |-> FALSE] /\ squit = [c \in Clients |-> FALSE]
    /\ got = [c \in Clients |-> <<>>]

-----------------------------------------------------------------------------
\* The source connects a block, or closes its channel (external).
Extend ==
    /\ ~srcClosed /\ tip < MaxHeight
    /\ tip' = tip + 1 /\ feed' = Append(feed, tip + 1)
    /\ UNCHANGED <<srcClosed, mgrVars, mquit, mstop, cliVars, qVars, delVars, nclosed, squit, got>>

CloseSource ==
    /\ ~srcClosed /\ srcClosed' = TRUE
    /\ UNCHANGED <<tip, feed, mgrVars, mquit, mstop, cliVars, qVars, delVars, nclosed, squit, got>>

-----------------------------------------------------------------------------
\* Start runs the handler; it is called before Stop.
Start ==
    /\ mpc = "off" /\ ~mquit
    /\ mpc' = "loop"
    /\ UNCHANGED <<srcVars, cur, subscribers, mquit, mstop, cliVars, qVars, delVars, nclosed, squit, got>>

\* NewSubscription starts the queue and the delivery goroutine, then offers the
\* subscription to the handler.
NewSubscription(c, b) ==
    /\ cpc[c] = "new"
    /\ cpc' = [cpc EXCEPT ![c] = "offer"] /\ best' = [best EXCEPT ![c] = b]
    /\ qup' = [qup EXCEPT ![c] = TRUE] /\ dpc' = [dpc EXCEPT ![c] = "recv"]
    /\ UNCHANGED <<srcVars, mgrVars, mquit, mstop, reply, queue, ditem, nchan, nclosed, squit, got>>

\* NotificationsSinceHeight: the blocks after the given height up to the tip,
\* none for height 0 (external).
Backlog(b) == IF b = 0 THEN <<>> ELSE [i \in 1 .. tip - b |-> b + i]

\* The handler takes the subscription and fetches its backlog.
handleNewSubscription(c) ==
    /\ cpc[c] = "offer" /\ mpc = "loop"
    /\ cpc' = [cpc EXCEPT ![c] = "wait"]
    /\ mpc' = "backlog" /\ cur' = [items |-> Backlog(best[c]), left |-> {c}]
    /\ UNCHANGED <<srcVars, subscribers, mquit, mstop, best, reply, qVars, delVars, nclosed, squit, got>>

\* The backlog cannot be fetched: the client is told, nothing is registered.
BacklogFails(c) ==
    /\ cpc[c] = "offer" /\ mpc = "loop"
    /\ cpc' = [cpc EXCEPT ![c] = "wait"] /\ reply' = [reply EXCEPT ![c] = "err"]
    /\ UNCHANGED <<srcVars, mgrVars, mquit, mstop, best, qVars, delVars, nclosed, squit, got>>

\* notifySubscriber: the item goes into the queue, or the notification is
\* dropped because the subscription or the manager quits.
notifySubscriber(c, item) ==
    \/ qup[c] /\ queue' = [queue EXCEPT ![c] = Append(@, item)]
    \/ (squit[c] \/ mquit) /\ UNCHANGED queue

DeliverBacklog ==
    /\ mpc = "backlog" /\ cur.items # <<>>
    /\ \E c \in cur.left : notifySubscriber(c, Head(cur.items))
    /\ cur' = [cur EXCEPT !.items = Tail(@)]
    /\ UNCHANGED <<srcVars, mpc, subscribers, mquit, mstop, cliVars, qup, delVars, nclosed, squit, got>>

\* The mistake of registering the client without its backlog.
RegisterAtOnce ==
    /\ mpc = "backlog"
    /\ subscribers' = subscribers \cup cur.left
    /\ reply' = [c \in Clients |-> IF c \in cur.left THEN "ok" ELSE reply[c]]
    /\ mpc' = "loop" /\ cur' = Idle
    /\ UNCHANGED <<srcVars, mquit, mstop, cpc, best, qVars, delVars, nclosed, squit, got>>

\* With the backlog delivered the subscription is registered.
Register ==
    /\ mpc = "backlog" /\ cur.items = <<>>
    /\ subscribers' = subscribers \cup cur.left
    /\ reply' = [c \in Clients |-> IF c \in cur.left THEN "ok" ELSE reply[c]]
    /\ mpc' = "loop" /\ cur' = Idle
    /\ UNCHANGED <<srcVars, mquit, mstop, cpc, best, qVars, delVars, nclosed, squit, got>>

\* The client gets the answer; on an error it stops its queue.
GetReply(c) ==
    /\ cpc[c] = "wait" /\ reply[c] # "none"
    /\ cpc' = [cpc EXCEPT ![c] = IF reply[c] = "ok" THEN "open" ELSE "failed"]
    /\ qup' = [qup EXCEPT ![c] = reply[c] = "ok"]
    /\ UNCHANGED <<srcVars, mgrVars, mquit, mstop, best, reply, queue, delVars, nclosed, squit, got>>

\* The client gives up because the manager stops.
ManagerStopped(c) ==
    /\ cpc[c] \in {"offer", "wait"} /\ mquit
    /\ cpc' = [cpc EXCEPT ![c] = "failed"] /\ qup' = [qup EXCEPT ![c] = FALSE]
    /\ UNCHANGED <<srcVars, mgrVars, mquit, mstop, best, reply, queue, delVars, nclosed, squit, got>>

-----------------------------------------------------------------------------
\* A new block is passed to every subscriber, one at a time in any order.
NextNotification ==
    /\ mpc = "loop" /\ feed # <<>>
    /\ feed' = Tail(feed)
    /\ IF subscribers = {} THEN UNCHANGED <<mpc, cur>>
       ELSE mpc' = "notify" /\ cur' = [items |-> <<Head(feed)>>, left |-> subscribers]
    /\ UNCHANGED <<tip, srcClosed, subscribers, mquit, mstop, cliVars, qVars, delVars, nclosed, squit, got>>

notifySubscribers ==
    /\ mpc = "notify"
    /\ \E c \in cur.left :
          /\ notifySubscriber(c, Head(cur.items))
          /\ IF cur.left = {c} THEN mpc' = "loop" /\ cur' = Idle
             ELSE mpc' = mpc /\ cur' = [cur EXCEPT !.left = @ \ {c}]
    /\ UNCHANGED <<srcVars, subscribers, mquit, mstop, cliVars, qup, delVars, nclosed, squit, got>>

\* The handler ends when the source is exhausted or the manager quits.
HandlerEnds ==
    /\ mpc = "loop" /\ (mquit \/ (srcClosed /\ feed = <<>>))
    /\ mpc' = "done"
    /\ UNCHANGED <<srcVars, cur, subscribers, mquit, mstop, cliVars, qVars, delVars, nclosed, squit, got>>

-----------------------------------------------------------------------------
\* A client cancels; the call returns when the handler takes the request, or
\* when the manager quits.
CancelCall(c) ==
    /\ cpc[c] = "open"
    /\ cpc' = [cpc EXCEPT ![c] = "cancel"]
    /\ UNCHANGED <<srcVars, mgrVars, mquit, mstop, best, reply, qVars, delVars, nclosed, squit, got>>

\* The handler forgets the subscription and begins its cancel: the queue is
\* stopped and the quit channel closed.
handleCancelSubscription(c) ==
    /\ cpc[c] = "cancel" /\ mpc = "loop"
    /\ cpc' = [cpc EXCEPT ![c] = "gone"]
    /\ subscribers' = subscribers \ {c}
    /\ qup' = [qup EXCEPT ![c] = FALSE] /\ squit' = [squit EXCEPT ![c] = TRUE]
    /\ mpc' = "cancel" /\ cur' = [items |-> <<>>, left |-> {c}]
    /\ UNCHANGED <<srcVars, mquit, mstop, best, reply, queue, delVars, nclosed, got>>

\* The mistake of closing the channel without waiting.
CloseEarly ==
    /\ mpc = "cancel"
    /\ nclosed' = [c \in Clients |-> nclosed[c] \/ c \in cur.left]
    /\ mpc' = "loop" /\ cur' = Idle
    /\ UNCHANGED <<srcVars, subscribers, mquit, mstop, cliVars, qVars, delVars, squit, got>>

\* cancel waits for the delivery goroutine before it closes the channel.
FinishCancel ==
    /\ mpc = "cancel" /\ \A c \in cur.left : dpc[c] = "done"
    /\ nclosed' = [c \in Clients |-> nclosed[c] \/ c \in cur.left]
    /\ mpc' = "loop" /\ cur' = Idle
    /\ UNCHANGED <<srcVars, subscribers, mquit, mstop, cliVars, qVars, delVars, squit, got>>

\* The cancel gives up because the manager stops, which cancels for it.
CancelAbandoned(c) ==
    /\ cpc[c] = "cancel" /\ mquit
    /\ cpc' = [cpc EXCEPT ![c] = "gone"]
    /\ UNCHANGED <<srcVars, mgrVars, mquit, mstop, best, reply, qVars, delVars, nclosed, squit, got>>

-----------------------------------------------------------------------------
\* Stop closes the quit channel and waits for the handler.
Stop ==
    /\ mstop = "no" /\ mstop' = "handler" /\ mquit' = TRUE
    /\ UNCHANGED <<srcVars, mgrVars, cliVars, qVars, delVars, nclosed, squit, got>>

\* Then it cancels every subscription that is left, each in a goroutine.
StopCancels ==
    /\ mstop = "handler" /\ mpc \in {"off", "done"}
    /\ mstop' = "cancel"
    /\ qup' = [c \in Clients |-> qup[c] /\ c \notin subscribers]
    /\ squit' = [c \in Clients |-> squit[c] \/ c \in subscribers]
    /\ UNCHANGED <<srcVars, mgrVars, mquit, cliVars, queue, delVars, nclosed, got>>

StopCloses(c) ==
    /\ mstop = "cancel" /\ c \in subscribers /\ squit[c] /\ ~nclosed[c] /\ dpc[c] = "done"
    /\ nclosed' = [nclosed EXCEPT ![c] = TRUE]
    /\ UNCHANGED <<srcVars, mgrVars, mquit, mstop, cliVars, qVars, delVars, squit, got>>

\* Stop returns when every cancel has.
StopReturns ==
    /\ mstop = "cancel" /\ \A c \in subscribers : squit[c] => nclosed[c]
    /\ mstop' = "done"
    /\ UNCHANGED <<srcVars, mgrVars, mquit, cliVars, qVars, delVars, nclosed, squit, got>>

-----------------------------------------------------------------------------
\* The delivery goroutine moves items from the queue to the channel.
DeliveryReceives(c) ==
    /\ dpc[c] = "recv" /\ queue[c] # <<>>
    /\ ditem' = [ditem EXCEPT ![c] = Head(queue[c])]
    /\ queue' = [queue EXCEPT ![c] = Tail(@)]
    /\ dpc' = [dpc EXCEPT ![c] = "send"]
    /\ UNCHANGED <<srcVars, mgrVars, mquit, mstop, cliVars, qup, nchan, nclosed, squit, got>>

DeliverySends(c) ==
    /\ dpc[c] = "send" /\ Len(nchan[c]) < ChanCap
    /\ nchan' = [nchan EXCEPT ![c] = Append(@, ditem[c])]
    /\ ditem' = [ditem EXCEPT ![c] = NoItem]
    /\ dpc' = [dpc EXCEPT ![c] = "recv"]
    /\ UNCHANGED <<srcVars, mgrVars, mquit, mstop, cliVars, qVars, nclosed, squit, got>>


\* It ends when the subscription or the manager quits, also while it waits for
\* the client, and when its queue was stopped.
DeliveryEnds(c) ==
    /\ \/ dpc[c] \in {"recv", "send"} /\ (squit[c] \/ mquit)
       \/ dpc[c] = "recv" /\ ~qup[c]
    /\ dpc' = [dpc EXCEPT ![c] = "done"]
    /\ UNCHANGED <<srcVars, mgrVars, mquit, mstop, cliVars, qVars, ditem, nchan, nclosed, squit, got>>

\* The client reads its channel, for as long as it likes.
Receive(c) ==
    /\ cpc[c] = "open" /\ nchan[c] # <<>>
    /\ got' = [got EXCEPT ![c] = Append(@, Head(nchan[c]))]
    /\ nchan' = [nchan EXCEPT ![c] = Tail(@)]
    /\ UNCHANGED <<srcVars, mgrVars, mquit, mstop, cliVars, qVars, dpc, ditem, nclosed, squit>>

-----------------------------------------------------------------------------
\* Steps the manager's goroutines and the waiting callers take by themselves.
Scheduled(c) ==
    \/ handleNewSubscription(c) \/ GetReply(c) \/ ManagerStopped(c)
    \/ handleCancelSubscription(c) \/ CancelAbandoned(c) \/ StopCloses(c)
    \/ DeliveryReceives(c) \/ DeliverySends(c) \/ DeliveryEnds(c)

Handler ==
    \/ DeliverBacklog \/ Register \/ NextNotification \/ notifySubscribers
    \/ HandlerEnds \/ FinishCancel

SubNext ==
    \/ Extend \/ CloseSource \/ Start \/ Stop \/ StopCancels \/ StopReturns \/ Handler
    \/ \E c \in Clients : \/ \E b \in 0 .. tip : NewSubscription(c, b)
                          \/ BacklogFails(c) \/ CancelCall(c) \/ Receive(c) \/ Scheduled(c)

SubSpec == SubInit /\ [][SubNext]_subVars

\* Some goroutine that can run does so: the number of blocks and of calls is
\* bounded, so this is all the fairness that is needed.
SubSystem ==
    Handler \/ StopCancels \/ StopReturns \/ \E c \in Clients : Scheduled(c) \/ Receive(c)
SubFairness == WF_subVars(SubSystem)

-----------------------------------------------------------------------------
\* Every field has its type.
SubTypeOK ==
    /\ tip \in 1 .. MaxHeight /\ srcClosed \in BOOLEAN /\ feed \in Seq(1 .. MaxHeight)
    /\ mpc \in {"off", "loop", "backlog", "notify", "cancel", "done"}
    /\ cur \in [items : Seq(1 .. MaxHeight), left : SUBSET Clients]
    /\ subscribers \subseteq Clients
    /\ mquit \in BOOLEAN /\ mstop \in {"no", "handler", "cancel", "done"}
    /\ cpc \in [Clients -> {"new", "offer", "wait", "open", "failed", "cancel", "gone"}]
    /\ best \in [Clients -> 0 .. MaxHeight] /\ reply \in [Clients -> {"none", "ok", "err"}]
    /\ queue \in [Clients -> Seq(1 .. MaxHeight)] /\ qup \in [Clients -> BOOLEAN]
    /\ dpc \in [Clients -> {"off", "recv", "send", "done"}]
    /\ ditem \in [Clients -> 1 .. MaxHeight \cup {NoItem}]
    /\ nchan \in [Clients -> Seq(1 .. MaxHeight)] /\ got \in [Clients -> Seq(1 .. MaxHeight)]
    /\ nclosed \in [Clients -> BOOLEAN] /\ squit \in [Clients -> BOOLEAN]

\* Until Stop is called a client never misses a block: what it receives begins
\* with the block after the height it asked for, and no height is skipped
\* between the backlog and the notifications that follow it.
NoGap ==
    ~mquit => \A c \in Clients :
        LET s == (IF best[c] = 0 THEN <<>> ELSE <<best[c]>>) \o got[c]
        IN  \A i \in 1 .. Len(s) - 1 : s[i + 1] <= s[i] + 1

\* The channel of a client is closed only after its delivery goroutine has
\* ended: a send on a closed channel would panic.
NoSendOnClosed ==
    \A c \in Clients : nclosed[c] => dpc[c] = "done"

\* When Stop has returned, the channel of every client that holds a
\* subscription is closed and nothing delivers to it any more.
StopClosesAll ==
    mstop = "done" => \A c \in Clients : c \in subscribers \/ cpc[c] = "open" => nclosed[c]

\* Stop returns: it waits for the handler and for every delivery goroutine,
\* none of which may wait for something that never comes.
StopTerminates == mstop # "no" ~> mstop = "done"


\* A registered client that reads its channel receives every later block,
\* unless it cancels or the manager stops.
EveryBlockArrives ==
    \A c \in Clients, h \in 2 .. MaxHeight :
        (cpc[c] = "open" /\ best[c] \in 1 .. h - 1 /\ tip >= h /\ h \notin {feed[i] : i \in 1 .. Len(feed)})
            ~> \/ \E i \in 1 .. Len(got[c]) : got[c][i] = h
               \/ cpc[c] # "open" \/ mquit
-----------------------------------------------------------------------------
\* The inductive invariant.  A client that has not called has no goroutine and
\* no answer; one that was told "ok", or has returned with that, is registered;
\* and when Stop cancels, the handler is gone, so nobody registers any more.
Shapes ==
    /\ dpc = [c \in Clients |-> dpc[c]] /\ nclosed = [c \in Clients |-> nclosed[c]]
    /\ squit = [c \in Clients |-> squit[c]] /\ cpc = [c \in Clients |-> cpc[c]]
    /\ reply = [c \in Clients |-> reply[c]] /\ subscribers \subseteq Clients
    /\ cur = [items |-> cur.items, left |-> cur.left] /\ cur.left \subseteq Clients

ClientSound(c) ==
    /\ nclosed[c] => dpc[c] = "done"
    /\ cpc[c] = "new" => dpc[c] = "off"
    /\ cpc[c] \in {"new", "offer"} => reply[c] = "none" /\ ~(mpc = "backlog" /\ c \in cur.left)
    /\ cpc[c] = "open" \/ (cpc[c] = "wait" /\ reply[c] = "ok") => c \in subscribers
    /\ mstop \in {"cancel", "done"} /\ c \in subscribers => squit[c]
    /\ mstop = "done" /\ c \in subscribers => nclosed[c]

SubInd ==
    /\ Shapes /\ (mstop # "no" => mquit)
    /\ mstop \in {"cancel", "done"} => mpc \in {"off", "done"}
    /\ \A c \in Clients : ClientSound(c)

\* Every step of the manager, of a client and of a delivery keeps SubInd.
LEMMA SubStep ==
  ASSUME SubInd, [SubNext]_subVars
  PROVE  SubInd'
<1> USE DEF SubInd, Shapes, ClientSound, srcVars, mgrVars, cliVars, qVars, delVars
<1>1. CASE Extend
  BY <1>1 DEF Extend
<1>2. CASE CloseSource
  BY <1>2 DEF CloseSource
<1>3. CASE Start
  BY <1>3 DEF Start
<1>4. CASE Stop
  BY <1>4 DEF Stop
<1>5. CASE StopCancels
  BY <1>5 DEF StopCancels
<1>6. CASE StopReturns
  BY <1>6 DEF StopReturns
<1>7. CASE DeliverBacklog
  BY <1>7 DEF DeliverBacklog, notifySubscriber
<1>8. CASE Register
  BY <1>8 DEF Register, Idle
<1>9. CASE NextNotification
  BY <1>9 DEF NextNotification
<1>10. CASE notifySubscribers
  BY <1>10 DEF notifySubscribers, notifySubscriber, Idle
<1>11. CASE HandlerEnds
  BY <1>11 DEF HandlerEnds
<1>12. CASE FinishCancel
  BY <1>12 DEF FinishCancel, Idle
<1>13. ASSUME NEW c \in Clients, NEW b \in 0 .. tip, NewSubscription(c, b)
       PROVE  SubInd'
  BY <1>13 DEF NewSubscription
<1>14. ASSUME NEW c \in Clients, BacklogFails(c)
       PROVE  SubInd'
  BY <1>14 DEF BacklogFails
<1>15. ASSUME NEW c \in Clients, CancelCall(c)
       PROVE  SubInd'
  BY <1>15 DEF CancelCall
<1>16. ASSUME NEW c \in Clients, Receive(c)
       PROVE  SubInd'
  BY <1>16 DEF Receive
<1>17. ASSUME NEW c \in Clients, handleNewSubscription(c)
       PROVE  SubInd'
  BY <1>17 DEF handleNewSubscription
<1>18. ASSUME NEW c \in Clients, GetReply(c)
       PROVE  SubInd'
  BY <1>18 DEF GetReply
<1>19. ASSUME NEW c \in Clients, ManagerStopped(c)
       PROVE  SubInd'
  BY <1>19 DEF ManagerStopped
<1>20. ASSUME NEW c \in Clients, handleCancelSubscription(c)
       PROVE  SubInd'
  BY <1>20 DEF handleCancelSubscription
<1>21. ASSUME NEW c \in Clients, CancelAbandoned(c)
       PROVE  SubInd'
  BY <1>21 DEF CancelAbandoned
<1>22. ASSUME NEW c \in Clients, StopCloses(c)
       PROVE  SubInd'
  BY <1>22 DEF StopCloses
<1>23. ASSUME NEW c \in Clients, DeliveryReceives(c)
       PROVE  SubInd'
  BY <1>23 DEF DeliveryReceives
<1>24. ASSUME NEW c \in Clients, DeliverySends(c)
       PROVE  SubInd'
  BY <1>24 DEF DeliverySends
<1>25. ASSUME NEW c \in Clients, DeliveryEnds(c)
       PROVE  SubInd'
  BY <1>25 DEF DeliveryEnds
<1>26. CASE UNCHANGED subVars
  BY <1>26 DEF subVars
<1> QED
  BY <1>1, <1>2, <1>3, <1>4, <1>5, <1>6, <1>7, <1>8, <1>9, <1>10, <1>11, <1>12, <1>13, <1>14, <1>15, <1>16, <1>17, <1>18, <1>19, <1>20, <1>21, <1>22, <1>23, <1>24, <1>25, <1>26
     DEF SubNext, Handler, Scheduled

\* For every number of clients and every capacity of their channels: nothing is
\* sent on a closed channel, and when Stop has returned the channel of every
\* client that holds a subscription is closed.
THEOREM ClosedOnce == SubSpec => [](NoSendOnClosed /\ StopClosesAll)
<1>1. SubInit => SubInd
  BY DEF SubInit, SubInd, Shapes, ClientSound, Idle
<1>2. SubInd /\ [SubNext]_subVars => SubInd'
  BY SubStep
<1>3. SubInd => NoSendOnClosed /\ StopClosesAll
  BY DEF SubInd, ClientSound, NoSendOnClosed, StopClosesAll
<1> QED
  BY <1>1, <1>2, <1>3, PTL DEF SubSpec
=============================================================================
