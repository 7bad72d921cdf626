---------------------------- MODULE MuSigSession ----------------------------
(***************************************************************************)
(* Signers that make MuSig2 signatures together, each through a Context    *)
(* and its Sessions (nogoec/schnorr/musig2/context.go).  The messages      *)
(* between them are the callers' and arrive in any order: a signer         *)
(* registers the keys, the public nonces and the partial signatures of the *)
(* others one by one.  The s-th sessions of all signers belong together    *)
(* and sign message s.                                                     *)
(*                                                                         *)
(* A setup says who signs and how: keys (the signers' secret keys, in the  *)
(* order of WithKnownSigners), known (or WithNumSigners), shouldSort,      *)
(* options (see below), early (WithEarlyNonceGen), coordinated (nonces     *)
(* come combined) and sessions, the number of sessions.  A secret key and  *)
(* its public key are the same number in this group.                       *)
(*                                                                         *)
(* The algorithms of MuSig2 (nogoec/schnorr/musig2: keys.go, nonces.go,    *)
(* sign.go), in the group of module Schnorr.  A tweak is a number; N and   *)
(* above is too large for a scalar.  A public nonce is a pair of points, a *)
(* secret one a pair of scalars with the public key they were made for.    *)
(* options says how the aggregate key is tweaked: with [kind |-> "none"],  *)
(* "tweaks" and a list of [tweak, xOnly], "taproot" and a root, or         *)
(* "bip86".                                                                *)
(***************************************************************************)
EXTENDS Schnorr, TLC, FiniteSets

Add(a, b) == (a + b) % N

RECURSIVE Sum(_)
Sum(s) == IF s = <<>> THEN 0 ELSE Add(Head(s), Sum(Tail(s)))

Serialized(keys) == [i \in DOMAIN keys |-> SerializeCompressed(keys[i])]

----------------------------------------------------------------------------
\* keys.go

sortKeys(keys) == SortSeq(keys, LAMBDA P, Q : SerializeCompressed(P) < SerializeCompressed(Q))

keyHashFingerprint(keys) == TaggedHash("KeyAgg list", Serialized(keys))

\* 0 when all keys are the same.
secondUniqueKeyIndex(keys) ==
  LET others == {i \in DOMAIN keys : keys[i] # keys[1]} IN
    IF others = {} THEN 0 ELSE CHOOSE i \in others : \A j \in others : i <= j

aggregationCoefficient(keys, target) ==
  LET second == secondUniqueKeyIndex(keys) IN
    IF second # 0 /\ keys[second] = target THEN 1
    ELSE TaggedHash("KeyAgg coefficient", <<keyHashFingerprint(keys), SerializeCompressed(target)>>) % N

Accumulated(tweakAcc, g, tweak) == Add((tweakAcc * g) % N, tweak)

\* acc is [key, parityAcc, tweakAcc, err].
tweakKey(acc, t) ==
  LET g == IF t.xOnly /\ ~HasEvenY(acc.key) THEN Negate(1) ELSE 1
      Q == Add((g * acc.key) % N, t.tweak) IN
    IF acc.err \/ t.tweak >= N \/ Q = infinity THEN [acc EXCEPT !.err = TRUE]
    ELSE [key |-> Q, parityAcc |-> (acc.parityAcc * g) % N,
          tweakAcc |-> Accumulated(acc.tweakAcc, g, t.tweak), err |-> FALSE]

RECURSIVE tweakAll(_, _)
tweakAll(acc, tweaks) == IF tweaks = <<>> THEN acc ELSE tweakAll(tweakKey(acc, Head(tweaks)), Tail(tweaks))

PreTweakedKey(keys) ==
  Sum([i \in DOMAIN keys |-> (aggregationCoefficient(keys, keys[i]) * keys[i]) % N])

\* The tweaks that the options come to; the taproot ones commit to the key.
Tweaks(keys, options) ==
  LET x == SerializePubKey(PreTweakedKey(keys)) IN
    CASE options.kind = "none"    -> <<>>
      [] options.kind = "tweaks"  -> options.tweaks
      [] options.kind = "taproot" -> <<[tweak |-> TaggedHash("TapTweak", <<x, options.root>>), xOnly |-> TRUE]>>
      [] options.kind = "bip86"   -> <<[tweak |-> TaggedHash("TapTweak", <<x>>), xOnly |-> TRUE]>>

\* The final key is in key.
AggregateKeys(keys, options) ==
  tweakAll([key |-> PreTweakedKey(keys), parityAcc |-> 1, tweakAcc |-> 0, err |-> FALSE],
           Tweaks(keys, options))

----------------------------------------------------------------------------
\* nonces.go

\* A public nonce that does not parse.
Garbled == <<-1, -1>>

secNonceToPubNonce(sec) == <<sec.k1, sec.k2>>

\* rand is what the random source returned; the secret key is mixed with it.
genNonceAuxBytes(rand, priv, combinedKey, i) ==
  TaggedHash("MuSig/nonce",
    <<(priv + TaggedHash("MuSig/aux", <<rand>>)) % HashSize, SerializeCompressed(priv), combinedKey, i>>) % N

\* combinedKey is -1 when it is not known yet.
GenNonces(rand, priv, combinedKey) ==
  [k1  |-> genNonceAuxBytes(rand, priv, combinedKey, 0),
   k2  |-> genNonceAuxBytes(rand, priv, combinedKey, 1),
   pub |-> priv]

\* <<>> when one does not parse.
AggregateNonces(pubNonces) ==
  IF \E i \in DOMAIN pubNonces : pubNonces[i] = Garbled THEN <<>>
  ELSE <<Sum([i \in DOMAIN pubNonces |-> pubNonces[i][1]]), Sum([i \in DOMAIN pubNonces |-> pubNonces[i][2]])>>

----------------------------------------------------------------------------
\* sign.go

nonceBlinder(nonce, Q, m) ==
  TaggedHash("MuSig/noncecoef",
    <<SerializeCompressed(nonce[1]), SerializeCompressed(nonce[2]), SerializePubKey(Q), m>>) % N

Blinded(nonce, b) == Add(nonce[1], b * nonce[2])

\* The generator stands in for infinity.
computeSigningNonce(nonce, Q, m) ==
  LET R == Blinded(nonce, nonceBlinder(nonce, Q, m)) IN IF R = infinity THEN generator ELSE R

parity(P) == IF HasEvenY(P) THEN 1 ELSE Negate(1)

NoPartial == [S |-> -1, R |-> -1]


KeyFactor(Q) == (parity(Q.key) * Q.parityAcc) % N

\* s * G = R' + e * a * g * P
verifyPartialSig(sig, pubNonce, nonce, keys, P, m, options) ==
  LET Q == AggregateKeys(keys, options)
      b == nonceBlinder(nonce, Q.key, m)
      R == computeSigningNonce(nonce, Q.key, m)
      e == challenge(R, Q.key, m)
      a == aggregationCoefficient(keys, P) IN
    /\ ~Q.err
    /\ sig.S = (parity(R) * Blinded(pubNonce, b) + ((e * a) % N) * ((KeyFactor(Q) * P) % N)) % N

PartialSign(sec, priv, nonce, keys, m, options) ==
  LET Q   == AggregateKeys(keys, options)
      b   == nonceBlinder(nonce, Q.key, m)
      R   == computeSigningNonce(nonce, Q.key, m)
      e   == challenge(R, Q.key, m)
      a   == aggregationCoefficient(keys, priv)
      d   == (priv * KeyFactor(Q)) % N
      sig == [S |-> (parity(R) * Blinded(<<sec.k1, sec.k2>>, b) + ((e * a) % N) * d) % N, R |-> R] IN
    IF \/ sec.pub # priv
       \/ \A i \in DOMAIN keys : keys[i] # priv
       \/ Q.err \/ sec.k1 = 0 \/ sec.k2 = 0
       \/ ~verifyPartialSig(sig, secNonceToPubNonce(sec), nonce, keys, priv, m, options)
    THEN NoPartial ELSE sig

\* The tweaks' share of the signature is added at the end.
CombineSigs(R, sigs, keys, m, options) ==
  LET Q == AggregateKeys(keys, options)
      t == IF options.kind = "none" THEN 0
           ELSE (((challenge(R, Q.key, m) * Q.tweakAcc) % N) * parity(Q.key)) % N IN
    [r |-> SerializePubKey(R), s |-> Add(Sum([i \in DOMAIN sigs |-> sigs[i].S]), t)]

----------------------------------------------------------------------------
(* Contexts and sessions (context.go).                                    *)

CONSTANTS
  Setups,
  MayGarble,     \* a public nonce may arrive damaged
  CombineEarly   \* callers may pass on partial signatures before they sign

VARIABLES
  setup,
  ctx,   \* of each signer, NoContext before NewContext
  sess,  \* of each signer, its sessions
  uses   \* the random draws whose nonce has signed, in order

vars == <<setup, ctx, sess, uses>>

Signers == DOMAIN setup.keys

NoContext == [keySet |-> <<>>, numSigners |-> 0, combinedKey |-> -1, sessionNonce |-> <<>>, draws |-> 0, told |-> {}]

Init ==
  /\ setup \in Setups
  /\ ctx = [i \in Signers |-> NoContext]
  /\ sess = [i \in Signers |-> <<>>]
  /\ uses = <<>>

----------------------------------------------------------------------------
\* Contexts

\* The slice is the context's own: sorting it for the key hash sorts it for
\* all later uses.
SortedInPlace(keySet) == IF setup.shouldSort THEN sortKeys(keySet) ELSE keySet

Found(i, keySet) == \E j \in DOMAIN keySet : keySet[j] = setup.keys[i]

Aggregate(keySet) == AggregateKeys(IF setup.shouldSort THEN sortKeys(keySet) ELSE keySet, setup.options)

\* c is the context before.
combineSignerKeys(c) ==
  [c EXCEPT !.keySet = SortedInPlace(c.keySet), !.combinedKey = Aggregate(c.keySet).key]

Combines(i, c) == Found(i, c.keySet) /\ ~Aggregate(c.keySet).err

\* The n-th random draw of a signer, and the nonce made of it.
Rand(i, n) == 16 * i + n

Drawn(i, n, combinedKey) == [draw |-> <<i, n>>, sec |-> GenNonces(Rand(i, n), setup.keys[i], combinedKey)]

\* The early nonce is made before the combined key is in use.
WithNonce(i, c) ==
  IF setup.early THEN [c EXCEPT !.sessionNonce = <<Drawn(i, 1, -1)>>, !.draws = 1] ELSE c

NewContext(i) ==
  /\ ctx[i] = NoContext
  /\ LET known == [NoContext EXCEPT !.keySet = setup.keys, !.numSigners = Len(setup.keys), !.told = Signers]
         num   == [NoContext EXCEPT !.keySet = <<setup.keys[i]>>, !.numSigners = Len(setup.keys), !.told = {i}] IN
       \/ /\ setup.known
          /\ Combines(i, known)
          /\ ctx' = [ctx EXCEPT ![i] = WithNonce(i, combineSignerKeys(known))]
       \/ /\ ~setup.known
          /\ ctx' = [ctx EXCEPT ![i] = WithNonce(i, num)]
  /\ UNCHANGED <<setup, sess, uses>>

\* The key is kept even when the keys do not combine.
RegisterSigner(i, j) ==
  LET c == [ctx[i] EXCEPT !.keySet = Append(@, setup.keys[j]), !.told = @ \cup {j}] IN
    /\ ctx[i] # NoContext
    /\ j \notin ctx[i].told
    /\ Len(ctx[i].keySet) # ctx[i].numSigners
    /\ ctx' = [ctx EXCEPT ![i] = IF Len(c.keySet) = c.numSigners /\ Combines(i, c)
                                 THEN combineSignerKeys(c) ELSE c]
    /\ UNCHANGED <<setup, sess, uses>>

----------------------------------------------------------------------------
\* Sessions.  localNonces and sessionNonce are empty or hold one nonce; from
\* and combined are the signers whose nonce and partial signature have come.

Taken(c) == [c EXCEPT !.sessionNonce = <<>>]

NewSession(i) ==
  LET c     == ctx[i]
      nonce == IF c.sessionNonce # <<>> THEN c.sessionNonce[1] ELSE Drawn(i, c.draws + 1, c.combinedKey) IN
    /\ c # NoContext
    /\ Len(c.keySet) = c.numSigners
    /\ c.combinedKey # -1 \/ c.sessionNonce # <<>>  \* or the key is read through nil
    /\ Len(sess[i]) < setup.sessions
    /\ ctx' = [ctx EXCEPT ![i] = IF c.sessionNonce # <<>> THEN Taken(c) ELSE [c EXCEPT !.draws = @ + 1]]
    /\ sess' = [sess EXCEPT ![i] = Append(@,
         [localNonces |-> <<nonce>>, pubNonce |-> secNonceToPubNonce(nonce.sec),
          pubNonces |-> <<secNonceToPubNonce(nonce.sec)>>, from |-> {i}, combinedNonce |-> <<>>,
          msg |-> 0, ourSig |-> NoPartial, sigs |-> <<>>, combined |-> {i}, finalSig |-> NoSig])]
    /\ UNCHANGED <<setup, uses>>

\* The nonce that j published for its s-th session: an early one is there
\* before the session.
Published(j, s) ==
  IF s <= Len(sess[j]) THEN <<sess[j][s].pubNonce>>
  ELSE IF s = 1 /\ ctx[j].sessionNonce # <<>> THEN <<secNonceToPubNonce(ctx[j].sessionNonce[1].sec)>>
  ELSE <<>>

\* The nonces stay when the last one makes the aggregation fail.
RegisterPubNonce(i, s, j) ==
  LET t == sess[i][s] IN
    /\ ~setup.coordinated
    /\ j \notin t.from
    /\ Published(j, s) # <<>>
    /\ Len(t.pubNonces) # ctx[i].numSigners
    /\ t.combinedNonce = <<>>
    /\ \E nonce \in {Published(j, s)[1]} \cup (IF MayGarble THEN {Garbled} ELSE {}) :
         LET all == Append(t.pubNonces, nonce) IN
           sess' = [sess EXCEPT ![i][s] =
             [t EXCEPT !.pubNonces = all, !.from = @ \cup {j},
                       !.combinedNonce = IF Len(all) = ctx[i].numSigners THEN AggregateNonces(all) ELSE @]]
    /\ UNCHANGED <<setup, ctx, uses>>

\* What a coordinator sends once it has the nonces of all.
RegisterCombinedNonce(i, s) ==
  LET t == sess[i][s] IN
    /\ setup.coordinated
    /\ \A j \in Signers : Published(j, s) # <<>>
    /\ t.combinedNonce = <<>>
    /\ Len(t.pubNonces) <= 1
    /\ \E nonce \in {AggregateNonces([j \in Signers |-> Published(j, s)[1]])} :
         /\ infinity \notin {nonce[1], nonce[2]}
         /\ sess' = [sess EXCEPT ![i][s].combinedNonce = nonce]
    /\ UNCHANGED <<setup, ctx, uses>>

Blank(nonces) == <<>>

\* The session's Sign passes the key set as it is, in the order it has.
SignMessage(i, s) ==
  LET t == sess[i][s] IN
    /\ t.localNonces # <<>>
    /\ t.combinedNonce # <<>>
    /\ \E sig \in {PartialSign(t.localNonces[1].sec, setup.keys[i], t.combinedNonce, ctx[i].keySet, s, setup.options)} :
         /\ sess' = [sess EXCEPT ![i][s] =
              IF sig = NoPartial THEN [t EXCEPT !.localNonces = Blank(@)]
              ELSE [t EXCEPT !.localNonces = Blank(@), !.msg = s, !.ourSig = sig, !.sigs = Append(@, sig)]]
         /\ uses' = IF sig = NoPartial THEN uses ELSE Append(uses, t.localNonces[1].draw)
    /\ UNCHANGED <<setup, ctx>>

\* The partial signature of j, received by i.  A final signature that does
\* not verify is dropped; the partial ones stay.
CombineSig(i, s, j) ==
  LET t    == sess[i][s]
      sigs == Append(t.sigs, sess[j][s].ourSig)
      keys == IF setup.shouldSort THEN sortKeys(ctx[i].keySet) ELSE ctx[i].keySet IN
    /\ j \notin t.combined
    /\ s <= Len(sess[j])
    /\ sess[j][s].ourSig # NoPartial
    /\ CombineEarly \/ t.ourSig # NoPartial
    /\ Len(t.sigs) # Len(ctx[i].keySet)
    /\ \E sig \in {IF Len(sigs) = Len(ctx[i].keySet)
                   THEN CombineSigs(t.ourSig.R, sigs, keys, t.msg, setup.options) ELSE NoSig} :
         sess' = [sess EXCEPT ![i][s] =
           [t EXCEPT !.sigs = sigs, !.combined = @ \cup {j},
                     !.finalSig = IF sig # NoSig /\ Verify(sig, t.msg, ctx[i].combinedKey) THEN sig ELSE @]]
    /\ UNCHANGED <<setup, ctx, uses>>

Next ==
  \E i \in Signers :
    \/ NewContext(i)
    \/ \E j \in Signers : RegisterSigner(i, j)
    \/ NewSession(i)
    \/ \E s \in DOMAIN sess[i] :
         \/ \E j \in Signers : RegisterPubNonce(i, s, j)
         \/ RegisterCombinedNonce(i, s)
         \/ SignMessage(i, s)
         \/ \E j \in Signers : CombineSig(i, s, j)

Spec == Init /\ [][Next]_vars

----------------------------------------------------------------------------
\* What has negligible probability in a group of the real size: a key, a sum
\* of keys or nonces, or a secret nonce that is 0.
Degenerate(i, s) ==
  LET t == sess[i][s] IN
    \/ infinity \in {PreTweakedKey(ctx[i].keySet), ctx[i].combinedKey}
    \/ Blinded(t.combinedNonce, nonceBlinder(t.combinedNonce, ctx[i].combinedKey, s)) = infinity

\* No secret nonce makes two partial signatures, whatever sessions a context
\* starts and however often Sign is called: an early nonce goes to one
\* session only and a session's nonce is gone after Sign (context.go,
\* NewSession and Sign).
NonceOnce == \A a, b \in DOMAIN uses : a # b => uses[a] # uses[b]

\* Contexts that know all signers agree on the aggregate key, in whatever
\* order the keys came.
KeyAgreed ==
  \A i, j \in Signers : -1 \notin {ctx[i].combinedKey, ctx[j].combinedKey} => ctx[i].combinedKey = ctx[j].combinedKey

\* A session that holds the partial signatures of all signers, its own among
\* them, holds a signature of the message that verifies under the (tweaked)
\* aggregate key (CombineSig), and the signers' sessions hold the same one.
SessionsSign ==
  \A i \in Signers : \A s \in DOMAIN sess[i] :
    /\ /\ sess[i][s].combined = Signers
       /\ sess[i][s].ourSig # NoPartial
       /\ ~Degenerate(i, s)
       => /\ sess[i][s].finalSig # NoSig
          /\ Verify(sess[i][s].finalSig, s, ctx[i].combinedKey)
    /\ \A j \in Signers :
         s \in DOMAIN sess[j] /\ NoSig \notin {sess[i][s].finalSig, sess[j][s].finalSig}
           => sess[i][s].finalSig = sess[j][s].finalSig
============================================================================
