------------------------------ MODULE MCNetwork ------------------------------
(***************************************************************************)
(* The connection manager, the goroutines of one peer, the negotiation of  *)
(* two peers and the handshake of the encrypted transport side by side:    *)
(* they meet only in the server that uses them, so one behaviour runs one  *)
(* of them (`which`) and leaves the others as they are before their start. *)
(***************************************************************************)
EXTENDS Integers, Sequences

CONSTANTS
    MaxReqs, MaxFails, Target,
    a, r, Msgs, Reject, Plain, MaxPlain, MaxReceived, MaxTrickle, NoMsg

VARIABLES
    which,
    connReqCount, permanent, state, pending, conns, gpc, fails, open, hpc, listening, toStart,
    stopFlag, quit, removed, lessened,
    disconnect, mst, done, received, plain, outputQueue, invChan, invSendQueue, pendingMsgs, waiting,
    qpc, sendQueue, sendDone, opc, omsg, ipc, stallControl, spc, ioStopped, ppc,
    unsent,
    session, wire, cut, damaged,
    hello, chan, sentNonces

C == INSTANCE ConnManager
P == INSTANCE Peer

\* The handshake alone: ends that agree, with and without garbage, and ends of
\* different networks.
End(net, garbageLen) == [net |-> net, garbageLen |-> garbageLen, decoys |-> 0]
Call(initiator, responder) == [initiator |-> initiator, responder |-> responder]
FirstCall == Call(End("main", 0), End("main", 1))
Calls == {FirstCall, Call(End("main", 1), End("main", 1)), Call(End("main", 1), End("test", 1))}
T == INSTANCE V2Transport WITH
        MaxGarbageLen <- 2, rekeyInterval <- 2, Calls <- Calls, Contents <- {"a"}, TooLong <- "long",
        MaxPackets <- 0, Faulty <- TRUE, p <- session

\* Old and new versions, an end that connects to itself, ends that refuse the
\* other and ends of another implementation.
Node(foreign, version, rejects, proc) ==
  [foreign |-> foreign, version |-> version, rejects |-> rejects, proc |-> proc]
Meet(outbound, inbound) == [outbound |-> outbound, inbound |-> inbound]
Here(version) == Node(FALSE, version, FALSE, "p")
There(version) == Node(FALSE, version, FALSE, "q")
Refusing == Node(FALSE, 3, TRUE, "q")
Foreign == Node(TRUE, 3, FALSE, "f")
FirstMeeting == Meet(Here(3), There(1))
Meetings == {FirstMeeting, Meet(Here(1), There(3)), Meet(Here(2), There(3)), Meet(Here(3), There(4)),
             Meet(Here(4), There(3)), Meet(Here(3), Here(3)), Meet(Here(3), Refusing),
             Meet(Refusing, Here(3)), Meet(Here(3), Foreign), Meet(Foreign, Here(3))}
H == INSTANCE PeerHandshake WITH
        Pairs <- Meetings, MinAcceptable <- 2, AddrV2Version <- 3, MaxForeign <- 4,
        ForeignVersions <- {1, 3}, DisconnectEarly <- FALSE, h <- hello

manager == <<connReqCount, permanent, state, pending, conns, gpc, fails, open, hpc, listening, toStart,
             stopFlag, quit, removed, lessened>>
peer == <<disconnect, mst, done, received, plain, outputQueue, invChan, invSendQueue, pendingMsgs, waiting,
          qpc, sendQueue, sendDone, opc, omsg, ipc, stallControl, spc, ioStopped, ppc,
          unsent>>
v2 == <<session, wire, cut, damaged>>
pair == <<hello, chan, sentNonces>>
vars == <<which, manager, peer, v2, pair>>

Init ==
  /\ which \in {"manager", "peer", "v2", "pair"}
  /\ C!CmInit /\ P!PeerInit /\ T!Init /\ H!Init
  /\ which # "v2" => session = [e \in T!Ends |-> T!NewPeer(FirstCall[e])]
  /\ which # "pair" => \A e \in H!Ends : hello[e].version = FirstMeeting[e].version

Manager == which = "manager" /\ C!CmNext /\ UNCHANGED <<which, peer, v2, pair>>
OnePeer == which = "peer" /\ P!PeerNext /\ UNCHANGED <<which, manager, v2, pair>>
Transport == which = "v2" /\ T!Next /\ UNCHANGED <<which, manager, peer, pair>>
TwoPeers == which = "pair" /\ H!Next /\ UNCHANGED <<which, manager, peer, v2>>

\* The fairness of the parts, each as long as it runs.
Fairness ==
  /\ WF_manager(which = "manager" /\ (C!StartsNewConnReq \/ C!StopCloses \/ C!HandlerEnds \/ C!ListenerEnds))
  /\ \A req \in C!Ids : WF_manager(which = "manager" /\ C!CarrierStep(req))
  /\ WF_peer(which = "peer" /\ P!PeerSystem)
  /\ \A e \in T!Ends : /\ WF_v2(which = "v2" /\ T!StartV2Handshake(e))
                        /\ WF_v2(which = "v2" /\ T!Receiving(e))
  /\ \A e \in H!Ends : /\ WF_pair(which = "pair" /\ H!Negotiation(e))
                        /\ WF_pair(which = "pair" /\ (H!StartReturns(e) \/ H!StartTimeout(e)))

FairSpec == Init /\ [][Manager \/ OnePeer \/ Transport \/ TwoPeers]_vars /\ Fairness

-----------------------------------------------------------------------------
\* The properties of the parts; they are explained in their modules.

\* A removed or cancelled request never comes back, and a connection that was
\* dialled for it is closed (handleConnected and handleFailed in connHandler).
LateResultsHarmless == C!CmTypeOK /\ C!RemovedStaysRemoved /\ C!NoConnectionLeaks

\* A pending request has exactly one goroutine or timer, and TargetOutbound
\* requests stay alive or are replaced (handleFailedConn).
RequestsServed == C!PendingIsServed /\ C!TargetKept

\* One message at a time is between queueHandler and the network, messages are
\* written in the order of QueueMessage while the peer is connected, and each is
\* confirmed at most once and, until then, in a queue that is still emptied
\* (queueHandler and outHandler, also on quit).
MessagesAccounted == P!PeerTypeOK /\ P!OneInFlight /\ P!ConfirmedOnce /\ P!NothingLost /\ P!InOrder

\* A peer that is live has agreed with the other end on the version, and is not
\* connected to itself (negotiateInboundProtocol, negotiateOutboundProtocol).
PeersAgree == H!LiveAgreed /\ H!SelfNeverLive

\* A permanent request connects again and again (handleFailedConn), and every
\* queued message is confirmed in the end (QueueMessage).
RequestsEnd == C!PermanentConnects /\ P!MessagesConfirmed

\* After Stop every goroutine of the manager ends, after Disconnect those of the
\* peer (Stop and Wait in connmanager.go, Disconnect in peer.go).
GoroutinesEnd == C!ManagerStops /\ P!GoroutinesEnd

\* Ends of one network complete the handshake of the encrypted transport
\* (CompleteHandshake), and a negotiation of peers ends with both goroutines
\* (start in peer.go).
HandshakesEnd == (which = "v2" => T!Established) /\ H!NegotiationEnds
=============================================================================
