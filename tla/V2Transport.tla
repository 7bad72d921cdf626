---------------------------- MODULE V2Transport ----------------------------
(***************************************************************************)
(* The encrypted transport of v2transport/: two ends of one connection     *)
(* exchange keys and garbage, derive their ciphers, find the other end's   *)
(* garbage terminator and then exchange packets.  A connection carries, in *)
(* each direction, a sequence of units: a key (64 bytes), garbage (one     *)
(* unit per byte), a terminator (16 bytes) and packets.  What is encrypted *)
(* is represented by the state of the ciphers it was encrypted with, and   *)
(* decrypts only under the same state.  A unit may be damaged on its way   *)
(* and the connection may be cut.                                          *)
(***************************************************************************)
EXTENDS Integers, Sequences, SequencesExt

CONSTANTS
  MaxGarbageLen,   \* the longest garbage an end may send
  rekeyInterval,   \* packets encrypted under one key
  Calls,           \* what the two callers may ask for: a set of functions from
                   \* Ends to [net, garbageLen, decoys]
  Contents,        \* what a packet may carry, TooLong included
  TooLong,         \* a content longer than maxContentLen
  MaxPackets,      \* bound: packets an end encrypts after the handshake
  Faulty           \* whether units may be damaged and the connection cut

VARIABLES
  p,      \* [end -> the state of its Peer]
  wire,   \* [end -> what it has sent and the other end has not yet read]
  cut,    \* whether the connection is closed
  damaged \* whether some unit was damaged

vars == <<p, wire, cut, damaged>>

Ends == {"initiator", "responder"}

Other(e) == CHOOSE o \in Ends : o # e

\* What an end shares with the other one: the key pair and the network.
NoSecret == [initiator |-> "none", responder |-> "none", net |-> "none"]

NewPeer(call) ==
  [pc |-> "start", net |-> call.net, garbageLen |-> call.garbageLen,
   decoys |-> call.decoys, secret |-> NoSecret, sendCtr |-> 0, recvL |-> 0,
   recvP |-> 0, skipped |-> <<>>, first |-> TRUE, sent |-> <<>>, got |-> <<>>]

Init ==
  /\ \E call \in Calls : p = [e \in Ends |-> NewPeer(call[e])]
  /\ wire = [e \in Ends |-> <<>>]
  /\ cut = FALSE
  /\ damaged = FALSE

\* A write to a closed connection reaches nobody.
Send(e, units) == wire' = IF cut THEN wire ELSE [wire EXCEPT ![e] = @ \o units]

Unit(kind, value) == [kind |-> kind, value |-> value, intact |-> TRUE]

\* The garbage is the only associated data there is: the bytes an end sent.
GarbageBytes(e) == [i \in 1..p[e].garbageLen |-> Unit("garbage", e)]

generateKeyAndGarbage(e) == <<Unit("key", e)>> \o GarbageBytes(e)

(* InitiateV2Handshake and RespondV2Handshake. *)
StartV2Handshake(e) ==
  /\ p[e].pc = "start"
  /\ IF p[e].garbageLen > MaxGarbageLen
     THEN /\ p' = [p EXCEPT ![e].pc = "failed"]
          /\ UNCHANGED wire
     ELSE /\ p' = [p EXCEPT ![e].pc = "key"]
          /\ Send(e, generateKeyAndGarbage(e))
  /\ UNCHANGED <<cut, damaged>>

(***************************************************************************)
(* The ciphers.  A cipher is given by the secret and the sender its key    *)
(* was derived for, the number of times it was rekeyed and the number of   *)
(* messages under the current key: the last two make up the nonce.         *)
(***************************************************************************)
\* MUTANT: the keys are derived without the shared secret.
cryptWithoutSecret(secret, sender, ctr) ==
  [secret |-> NoSecret, sender |-> sender, rekeys |-> ctr \div rekeyInterval,
   messages |-> ctr % rekeyInterval]

crypt(secret, sender, ctr) ==
  [secret |-> secret, sender |-> sender, rekeys |-> ctr \div rekeyInterval,
   messages |-> ctr % rekeyInterval]

Packet(secret, e, ctr, content, aad, ignore) ==
  Unit("packet", [cipher |-> crypt(secret, e, ctr), content |-> content,
                  aad |-> aad, ignore |-> ignore])

(***************************************************************************)
(* The first half of CompleteHandshake: the other end's key is read, the   *)
(* ciphers are created, and the terminator, the decoys and the version     *)
(* packet are sent.  V2EncPacket sends what it encrypts, and the decoys    *)
(* are then sent once more.  The garbage is the associated data of the     *)
(* first packet alone.                                                     *)
(***************************************************************************)
createV2Ciphers(e, theirs) ==
  [[NoSecret EXCEPT ![e] = e] EXCEPT ![Other(e)] = theirs, !.net = p[e].net]

DecoyPackets(secret, e) ==
  [i \in 1..2 * p[e].decoys |->
     LET n == (i - 1) \div 2 IN
       Packet(secret, e, n, "decoy", IF n = 0 THEN GarbageBytes(e) ELSE <<>>, TRUE)]

VersionPacket(secret, e) ==
  Packet(secret, e, p[e].decoys, "transportVersion",
         IF p[e].decoys = 0 THEN GarbageBytes(e) ELSE <<>>, FALSE)

\* An end whose unit was damaged in the middle reads it without noticing.
ReadKey(u) == IF u.kind = "key" /\ u.intact THEN u.value ELSE "wrong"

CompleteHandshake(e) ==
  /\ p[e].pc = "key"
  /\ wire[Other(e)] # <<>>
  /\ LET secret == createV2Ciphers(e, ReadKey(Head(wire[Other(e)]))) IN
       /\ p' = [p EXCEPT ![e].pc = "scan", ![e].secret = secret,
                         ![e].sendCtr = p[e].decoys + 1]
       /\ wire' = [wire EXCEPT
             ![Other(e)] = Tail(@),
             ![e] = IF cut THEN @
                    ELSE @ \o <<Unit("term", crypt(secret, e, 0))>>
                           \o DecoyPackets(secret, e)
                           \o <<VersionPacket(secret, e)>>]
  /\ UNCHANGED <<cut, damaged>>

(***************************************************************************)
(* The loop that skips garbage: compare the last bytes read with the       *)
(* terminator, and read one byte more, MaxGarbageLen times.  The last byte *)
(* read is not looked at again.                                            *)
(***************************************************************************)
IsTerminator(e, u) ==
  u.kind = "term" /\ u.intact /\ u.value = crypt(p[e].secret, Other(e), 0)

LooksAgain(e) == Len(p[e].skipped) < MaxGarbageLen

Scan(e) ==
  LET in == wire[Other(e)] IN
  /\ p[e].pc = "scan"
  /\ in # <<>>
  /\ LooksAgain(e)
  /\ p' = [p EXCEPT ![e] = IF IsTerminator(e, Head(in))
                           THEN [@ EXCEPT !.pc = "version"]
                           ELSE [@ EXCEPT !.skipped = Append(@, Head(in))]]
  /\ wire' = [wire EXCEPT ![Other(e)] = Tail(@)]
  /\ UNCHANGED <<cut, damaged>>

GarbageTermNotRecv(e) ==
  /\ p[e].pc = "scan"
  /\ ~LooksAgain(e)
  /\ p' = [p EXCEPT ![e].pc = "failed"]
  /\ UNCHANGED <<wire, cut, damaged>>

(***************************************************************************)
(* V2EncPacket, called with a message.  A content that is too long is      *)
(* refused before a cipher is touched.  A failed write costs the counters  *)
(* a step all the same.                                                    *)
(***************************************************************************)
V2EncPacket(e, content, ignore) ==
  /\ p[e].pc = "done"
  /\ content # TooLong
  /\ p[e].sendCtr < p[e].decoys + 1 + MaxPackets
  /\ p' = [p EXCEPT ![e].sendCtr = @ + 1,
                    ![e].sent = IF ignore THEN @ ELSE Append(@, content)]
  /\ Send(e, <<Packet(p[e].secret, e, p[e].sendCtr, content, <<>>, ignore)>>)
  /\ UNCHANGED <<cut, damaged>>

ContentLengthExceeded(e) ==
  /\ p[e].pc = "done"
  /\ TooLong \in Contents
  /\ UNCHANGED vars

(***************************************************************************)
(* One turn of V2ReceivePacket's loop.  The length is decrypted first: one *)
(* that was encrypted with another state of the cipher gives a number of   *)
(* bytes that has nothing to do with the packet, and the end reads bytes   *)
(* that do not decrypt or waits for bytes that do not come.  The           *)
(* associated data is that of the first packet after the terminator.       *)
(***************************************************************************)
Aad(e) == IF p[e].first THEN p[e].skipped ELSE <<>>

LengthDecrypts(e, u) ==
  u.kind = "packet" /\ u.value.cipher = crypt(p[e].secret, Other(e), p[e].recvL)

Decrypts(e, u) ==
  /\ u.kind = "packet"
  /\ u.intact
  /\ u.value.cipher = crypt(p[e].secret, Other(e), p[e].recvP)
  /\ u.value.aad = Aad(e)

\* What is done with a packet that is authentic.
Deliver(q, u) ==
  CASE u.value.ignore   -> q
    [] q.pc = "version" -> [q EXCEPT !.pc = "done"]
    [] q.pc = "done"    -> [q EXCEPT !.got = Append(@, u.value.content)]

V2ReceivePacket(e) ==
  /\ p[e].pc \in {"version", "done"}
  /\ wire[Other(e)] # <<>>
  /\ LET u == Head(wire[Other(e)])
         q == [p[e] EXCEPT !.recvL = @ + 1] IN
       /\ IF LengthDecrypts(e, u) /\ Decrypts(e, u)
          THEN p' = [p EXCEPT ![e] = Deliver([q EXCEPT !.recvP = @ + 1, !.first = FALSE], u)]
          ELSE \E pc \in IF LengthDecrypts(e, u) THEN {"failed"} ELSE {"failed", "waiting"} :
                 p' = [p EXCEPT ![e] = [q EXCEPT !.pc = pc]]
       /\ wire' = [wire EXCEPT ![Other(e)] = Tail(@)]
  /\ UNCHANGED <<cut, damaged>>

\* Receive on a closed connection that has been read to its end.
ReceiveFails(e) ==
  /\ cut
  /\ \/ p[e].pc \in {"key", "scan", "version", "done"} /\ wire[Other(e)] = <<>>
     \/ p[e].pc = "waiting"
  /\ p' = [p EXCEPT ![e].pc = "failed"]
  /\ UNCHANGED <<wire, cut, damaged>>

\* A unit is damaged on its way.
Damage(e) ==
  /\ Faulty /\ ~damaged
  /\ \E i \in DOMAIN wire[e] : wire' = [wire EXCEPT ![e][i].intact = FALSE]
  /\ damaged' = TRUE
  /\ UNCHANGED <<p, cut>>

\* The connection is closed, and the end of what was sent is lost with it.
Cut ==
  /\ Faulty /\ ~cut
  /\ cut' = TRUE
  /\ \E e \in Ends, n \in 0..1 :
       wire' = [wire EXCEPT ![e] = SubSeq(@, 1, Len(@) - (IF @ = <<>> THEN 0 ELSE n))]
  /\ UNCHANGED <<p, damaged>>

Receiving(e) == CompleteHandshake(e) \/ Scan(e) \/ GarbageTermNotRecv(e)
                  \/ V2ReceivePacket(e) \/ ReceiveFails(e)

Next ==
  \/ \E e \in Ends :
       \/ StartV2Handshake(e) \/ CompleteHandshake(e) \/ Scan(e)
       \/ GarbageTermNotRecv(e) \/ V2ReceivePacket(e) \/ ReceiveFails(e)
       \/ ContentLengthExceeded(e) \/ Damage(e)
       \/ \E c \in Contents, ignore \in BOOLEAN : V2EncPacket(e, c, ignore)
  \/ Cut

\* The goroutine that negotiates, and then the one that reads, run on.
Fairness == \A e \in Ends : WF_vars(StartV2Handshake(e)) /\ WF_vars(Receiving(e))

Spec == Init /\ [][Next]_vars /\ Fairness

----------------------------------------------------------------------------
(* The contents an end is given are the ones the other end encrypted, in    *)
(* their order and without a gap: no decoy, no damaged packet and no packet *)
(* of another session is ever returned by V2ReceivePacket.                  *)
Authentic ==
  \A e \in Ends : IsPrefix(p[e].got, p[Other(e)].sent)

(* An end whose CompleteHandshake returned without an error shares its      *)
(* session with the other end: the other end derived the same ciphers, for  *)
(* the same network.                                                        *)
SameSession ==
  \A e \in Ends : p[e].pc = "done" => p[Other(e)].secret = p[e].secret

Compatible ==
  /\ \A e \in Ends : p[e].garbageLen \in 0..MaxGarbageLen
  /\ p["initiator"].net = p["responder"].net

(* The handshake of two ends of one network with garbage below the limit    *)
(* and no decoys, as the peer calls it, comes to its end on both sides, if  *)
(* the connection has no fault until then.                                  *)
Established ==
  (Compatible /\ \A e \in Ends : p[e].decoys = 0 /\ p[e].garbageLen < MaxGarbageLen)
    ~> (damaged \/ cut \/ \A e \in Ends : p[e].pc = "done")
============================================================================
