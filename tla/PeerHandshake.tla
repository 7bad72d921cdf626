--------------------------- MODULE PeerHandshake ---------------------------
(***************************************************************************)
(* The version negotiation of peer/peer.go, from AssociateConnection to    *)
(* the moment start returns.  Two ends of one connection negotiate; each   *)
(* is a peer of this package or a foreign program that sends what it       *)
(* likes.  Every end runs two goroutines: start, which waits for the       *)
(* outcome or the timeout, and the one that negotiates and hands the       *)
(* outcome over in a channel.  The encrypted transport is one message      *)
(* here, "key": V2Transport has its steps.                                 *)
(***************************************************************************)
EXTENDS Integers, Sequences, FiniteSets

CONSTANTS
  Pairs,             \* who may meet: functions from Ends to
                     \* [foreign, version, rejects, proc]
  MinAcceptable,     \* MinAcceptableProtocolVersion
  AddrV2Version,     \* the first version with sendaddrv2
  MaxForeign,        \* bound: messages a foreign end sends
  ForeignVersions,   \* the versions it advertises
  DisconnectEarly    \* whether Disconnect may precede AssociateConnection

VARIABLES
  h,           \* [end -> the state of its Peer and its two goroutines]
  chan,        \* [end -> messages it sent and the other end has not read]
  sentNonces   \* [process -> the nonces of its version messages]

vars == <<h, chan, sentNonces>>

Ends == {"outbound", "inbound"}

Other(e) == CHOOSE o \in Ends : o # e

Min2(a, b) == IF a < b THEN a ELSE b

Init ==
  /\ \E pair \in Pairs :
       h = [e \in Ends |->
              [foreign |-> pair[e].foreign, version |-> pair[e].version,
               rejects |-> pair[e].rejects, proc |-> pair[e].proc,
               conn |-> "none", disconnect |-> FALSE, start |-> "idle",
               pc |-> "idle", negotiateErr |-> <<>>, pver |-> pair[e].version,
               versionKnown |-> FALSE, advertised |-> 0, sendAddrV2 |-> FALSE,
               verAckReceived |-> FALSE, count |-> 0]]
  /\ chan = [e \in Ends |-> <<>>]
  /\ sentNonces = [q \in {h[e].proc : e \in Ends} |-> {}]

Ours(e) == ~h[e].foreign

----------------------------------------------------------------------------
\* Reading and writing.

Closed(e) == h[e].conn = "closed" \/ h[Other(e)].conn = "closed"

\* A peer that is disconnecting writes nothing, and that is no error.
Writes(e, m) == ~h[e].disconnect /\ (m.cmd = "sendaddrv2" => h[e].pver >= AddrV2Version)

WriteFails(e, m) ==
  ~h[e].disconnect /\ (Closed(e) \/ (m.cmd = "sendaddrv2" /\ h[e].pver < AddrV2Version))

Written(e, m) == IF Writes(e, m) /\ ~Closed(e) THEN Append(chan[e], m) ELSE chan[e]

Readable(e) == h[e].conn # "closed" /\ chan[Other(e)] # <<>>

ReadFails(e) == h[e].conn = "closed" \/ (h[Other(e)].conn = "closed" /\ chan[Other(e)] = <<>>)

Rest(e) == [chan EXCEPT ![Other(e)] = Tail(@)]

Bare(cmd) == [cmd |-> cmd, version |-> 0, nonce |-> "none"]

----------------------------------------------------------------------------
\* AssociateConnection, Disconnect and start.

AssociateConnection(e) ==
  /\ h[e].conn = "none"
  /\ IF Ours(e)
     THEN h' = [h EXCEPT ![e].conn = "open", ![e].start = "waiting", ![e].pc = "transport"]
     ELSE h' = [h EXCEPT ![e].conn = "open"]
  /\ UNCHANGED <<chan, sentNonces>>

\* The address of an inbound connection cannot be converted.
BadAddress ==
  /\ h["inbound"].conn = "none"
  /\ Ours("inbound")
  /\ h' = [h EXCEPT !["inbound"].conn = IF h["inbound"].disconnect THEN "open" ELSE "closed",
                    !["inbound"].disconnect = TRUE]
  /\ UNCHANGED <<chan, sentNonces>>

\* Disconnect closes the connection there is; only its first call does.
Disconnected(q) ==
  [q EXCEPT !.disconnect = TRUE,
            !.conn = IF ~q.disconnect /\ q.conn = "open" THEN "closed" ELSE @]

Disconnect(e) ==
  /\ ~h[e].disconnect
  /\ h[e].conn = "open" \/ DisconnectEarly
  /\ h' = [h EXCEPT ![e] = Disconnected(@)]
  /\ UNCHANGED <<chan, sentNonces>>

\* start's select, which may take either of two ready cases.
StartReturns(e) ==
  /\ h[e].start = "waiting"
  /\ h[e].negotiateErr # <<>>
  /\ h' = [h EXCEPT ![e] = IF Head(h[e].negotiateErr) = "nil"
                           THEN [@ EXCEPT !.start = "live", !.negotiateErr = <<>>]
                           ELSE [Disconnected(@) EXCEPT !.start = "ended", !.negotiateErr = <<>>]]
  /\ UNCHANGED <<chan, sentNonces>>

StartTimeout(e) ==
  /\ h[e].start = "waiting"
  /\ h' = [h EXCEPT ![e] = [Disconnected(@) EXCEPT !.start = "ended"]]
  /\ UNCHANGED <<chan, sentNonces>>

----------------------------------------------------------------------------
\* The goroutine that negotiates.

\* The steps after the current one, in the order of the two functions.
negotiateProtocol(e) ==
  CASE h[e].pc = "transport"    -> "transport2"
    [] h[e].pc = "transport2"   -> IF e = "outbound" THEN "writeVersion" ELSE "readVersion"
    [] h[e].pc = "writeVersion" -> IF e = "outbound" THEN "readVersion" ELSE "writeSendAddrV2"
    [] h[e].pc = "readVersion"  -> IF e = "outbound" THEN "writeSendAddrV2" ELSE "writeVersion"
    [] h[e].pc = "writeSendAddrV2" -> "writeVerAck"
    [] h[e].pc = "writeVerAck"     -> "wait"
    [] h[e].pc = "wait"            -> "nil"

\* The keys are sent past writeMessage, disconnecting or not.
SendKey(e) ==
  /\ h[e].pc = "transport"
  /\ chan' = [chan EXCEPT ![e] = IF Closed(e) THEN @ ELSE Append(@, Bare("key"))]
  /\ h' = [h EXCEPT ![e].pc = negotiateProtocol(e)]
  /\ UNCHANGED sentNonces

ReadKey(e) ==
  /\ h[e].pc = "transport2"
  /\ Readable(e)
  /\ h' = [h EXCEPT ![e].pc = IF Head(chan[Other(e)]).cmd = "key" THEN negotiateProtocol(e) ELSE "error"]
  /\ chan' = Rest(e)
  /\ UNCHANGED sentNonces

\* What the three steps that write send.
Outgoing(e) ==
  CASE h[e].pc = "writeVersion"    -> [cmd |-> "version", version |-> h[e].version, nonce |-> e]
    [] h[e].pc = "writeSendAddrV2" -> Bare("sendaddrv2")
    [] h[e].pc = "writeVerAck"     -> Bare("verack")

\* writeLocalVersionMsg, writeSendAddrV2Msg and the verack.
WriteStep(e) ==
  /\ h[e].pc \in {"writeVersion", "writeSendAddrV2", "writeVerAck"}
  /\ sentNonces' = IF h[e].pc = "writeVersion"
                   THEN [sentNonces EXCEPT ![h[e].proc] = @ \cup {e}] ELSE sentNonces
  /\ chan' = [chan EXCEPT ![e] = Written(e, Outgoing(e))]
  /\ h' = [h EXCEPT ![e].pc = IF WriteFails(e, Outgoing(e)) THEN "error" ELSE negotiateProtocol(e)]

\* A version message of a stranger is recorded even when it is refused.
Accepts(e, m) == ~h[e].rejects /\ m.version >= MinAcceptable

\* MUTANT: the nonce is remembered by the end that sent it.
SelfConnectionOwn(e, m) == m.nonce = e

\* The nonce is one this process sent.
SelfConnection(e, m) == m.nonce \in sentNonces[h[e].proc]

readRemoteVersionMsg(e) ==
  LET m == Head(chan[Other(e)]) IN
  /\ h[e].pc = "readVersion"
  /\ Readable(e)
  /\ IF m.cmd # "version" \/ SelfConnection(e, m)
     THEN /\ h' = [h EXCEPT ![e].pc = "error"]
          /\ chan' = [Rest(e) EXCEPT ![e] =
                IF m.cmd # "version" /\ m.cmd # "unknown" THEN Written(e, Bare("reject")) ELSE @]
     ELSE /\ h' = [h EXCEPT ![e].advertised = m.version, ![e].versionKnown = TRUE,
                            ![e].pver = Min2(@, m.version),
                            ![e].pc = IF Accepts(e, m) THEN negotiateProtocol(e) ELSE "error"]
          /\ chan' = [Rest(e) EXCEPT ![e] = IF Accepts(e, m) THEN @ ELSE Written(e, Bare("reject"))]
  /\ UNCHANGED sentNonces

\* One turn of the loop of waitToFinishNegotiation.
waitToFinishNegotiation(e) ==
  LET m == Head(chan[Other(e)])
      decodes == m.cmd = "sendaddrv2" => h[e].pver >= AddrV2Version IN
  /\ h[e].pc = "wait"
  /\ Readable(e)
  /\ h' = [h EXCEPT ![e] =
        CASE m.cmd = "unknown" -> @
          [] m.cmd = "sendaddrv2" /\ decodes -> [@ EXCEPT !.sendAddrV2 = TRUE]
          [] m.cmd = "verack" -> [@ EXCEPT !.verAckReceived = TRUE, !.pc = negotiateProtocol(e)]
          [] OTHER -> [@ EXCEPT !.pc = "error"]]
  /\ chan' = Rest(e)
  /\ UNCHANGED sentNonces

NegotiationReadFails(e) ==
  /\ h[e].pc \in {"transport2", "readVersion", "wait"}
  /\ ReadFails(e)
  /\ h' = [h EXCEPT ![e].pc = "error"]
  /\ UNCHANGED <<chan, sentNonces>>

\* MUTANT: the channel has no buffer.
Unbuffered(e) == h[e].negotiateErr = <<>> /\ h[e].start = "waiting"

\* The outcome goes into a channel with room for one.
Room(e) == h[e].negotiateErr = <<>>

Outcome(e) ==
  /\ h[e].pc \in {"nil", "error"}
  /\ Room(e)
  /\ h' = [h EXCEPT ![e].pc = "done", ![e].negotiateErr = <<h[e].pc>>]
  /\ UNCHANGED <<chan, sentNonces>>

\* A foreign end sends any message and may close.  It waits until its last
\* message was read: sent earlier, it would be read in the same order.
Foreign(e) ==
  /\ h[e].foreign /\ h[e].conn = "open"
  /\ \/ /\ h[e].count < MaxForeign /\ chan[e] = <<>>
        /\ \E m \in {Bare(c) : c \in {"key", "verack", "sendaddrv2", "unknown", "other"}}
                    \cup [cmd : {"version"}, version : ForeignVersions, nonce : {"foreign"}] :
             chan' = [chan EXCEPT ![e] = Append(@, m)]
        /\ h' = [h EXCEPT ![e].count = @ + 1]
     \/ /\ h' = [h EXCEPT ![e].conn = "closed"]
        /\ UNCHANGED chan
  /\ UNCHANGED sentNonces

Negotiation(e) ==
  SendKey(e) \/ ReadKey(e) \/ WriteStep(e) \/ readRemoteVersionMsg(e)
    \/ waitToFinishNegotiation(e) \/ NegotiationReadFails(e) \/ Outcome(e)

Next ==
  \/ BadAddress
  \/ \E e \in Ends :
       \/ AssociateConnection(e) \/ Disconnect(e) \/ StartReturns(e) \/ StartTimeout(e)
       \/ SendKey(e) \/ ReadKey(e) \/ WriteStep(e) \/ readRemoteVersionMsg(e)
       \/ waitToFinishNegotiation(e) \/ NegotiationReadFails(e) \/ Outcome(e) \/ Foreign(e)

\* The goroutines run, and the timer of start fires.
Fairness ==
  \A e \in Ends : WF_vars(Negotiation(e)) /\ WF_vars(StartReturns(e) \/ StartTimeout(e))

Spec == Init /\ [][Next]_vars /\ Fairness

----------------------------------------------------------------------------
Live(e) == h[e].start = "live"

(* An end that start declares live has the other end's version, one that    *)
(* MinAcceptableProtocolVersion allows, and its verack; and if the other    *)
(* end is a peer of this package too, that one has read this end's version, *)
(* has not refused it, speaks the same negotiated version and has asked     *)
(* for addrv2.                                                              *)
LiveAgreed ==
  \A e \in Ends : Live(e) =>
    /\ h[e].versionKnown /\ h[e].verAckReceived
    /\ h[e].advertised >= MinAcceptable
    /\ Ours(Other(e)) =>
         /\ h[Other(e)].versionKnown
         /\ ~h[Other(e)].rejects
         /\ h[e].version >= MinAcceptable
         /\ h[e].pver = h[Other(e)].pver
         /\ h[e].sendAddrV2

(* A process that connected to itself never takes the connection for a      *)
(* live one.                                                                *)
SelfNeverLive ==
  \A e \in Ends :
    (Ours(e) /\ Ours(Other(e)) /\ h[e].proc = h[Other(e)].proc) => ~Live(e)

(* The goroutine that negotiates ends and start returns, whatever the other *)
(* end does, and an end that is not live has closed its connection.         *)
NegotiationEnds ==
  \A e \in Ends :
    (h[e].start = "waiting") ~>
       /\ h[e].pc = "done"
       /\ h[e].start = "live" \/ (h[e].start = "ended" /\ h[e].conn = "closed")
============================================================================
