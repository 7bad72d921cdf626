------------------------------ MODULE Schnorr ------------------------------
(***************************************************************************)
(* BIP-340 signatures (nogoec/schnorr), in a group of small prime order N. *)
(* A point is its discrete logarithm, so that a scalar k times the         *)
(* generator is k and the point at infinity is 0.  Of a point and its      *)
(* negation one has an even y coordinate, and they share x, which is       *)
(* written as the number of the even one.  A hash of a list of numbers is  *)
(* a number below HashSize, which may be too large for a scalar.           *)
(*                                                                         *)
(* The curve and the hashes are external: N is 2^256 in the code, so that  *)
(* values met here by chance, such as an aggregate that is infinity, are   *)
(* not met there; the properties name the ones they set aside.             *)
(***************************************************************************)
EXTENDS Integers, Sequences

CONSTANTS
  N,                \* the order of the group, an odd prime
  HashSize,         \* of hashes; N or more
  TaggedHash(_, _)  \* of a tag and a list of numbers

infinity == 0

generator == 1

Negate(x) == (N - x) % N

\* Infinity has coordinates 0 and 0 in the code.
HasEvenY(P) == P <= N \div 2

\* The x coordinate.
SerializePubKey(P) == IF HasEvenY(P) THEN P ELSE Negate(P)

\* SerializeCompressed, as a number: the even points, then the odd ones.
SerializeCompressed(P) == IF HasEvenY(P) THEN P ELSE N + Negate(P)

\* The even point of an x coordinate.  Infinity's is on no point of the curve.
ParsePubKey(x) == x

challengeHash(x, P, m) == TaggedHash("BIP0340/challenge", <<x, SerializePubKey(P), m>>)

\* As a scalar, reduced.
challenge(R, P, m) == challengeHash(SerializePubKey(R), P, m) % N

\* sig is [r, s], pk an x coordinate.
schnorrVerify(sig, m, pk) ==
  LET P == ParsePubKey(pk)
      R == (sig.s + Negate(challengeHash(sig.r, P, m) % N) * P) % N IN
    /\ P # infinity
    /\ R # infinity
    /\ HasEvenY(R)
    /\ R = sig.r

Verify(sig, m, P) == schnorrVerify(sig, m, SerializePubKey(P))

NoSig == [r |-> -1, s |-> -1]

\* The two numbers of a signature, each below HashSize on the wire.
Serialize(sig) == <<sig.r, sig.s>>

\* A first number that is no coordinate is refused, the second is reduced.
ParseSignature(b) == IF b[1] >= N THEN NoSig ELSE [r |-> b[1], s |-> b[2] % N]

EvenNonce(k) == IF HasEvenY(k) THEN k ELSE Negate(k)

\* The signature with nonce k, checked unless the caller asked for speed.
schnorrSign(privKey, k, P, m, fastSign) ==
  LET e   == challengeHash(SerializePubKey(k), P, m)
      sig == [r |-> SerializePubKey(k), s |-> (EvenNonce(k) + e * privKey) % N] IN
    IF e < N /\ (fastSign \/ schnorrVerify(sig, m, SerializePubKey(P))) THEN sig ELSE NoSig

\* External: a scalar in 1..N-1.
NonceRFC6979(d, m, iteration) == 1 + (TaggedHash("rfc6979", <<d, m, iteration>>) % (N - 1))

EvenKey(d) == IF HasEvenY(d) THEN d ELSE Negate(d)

\* Another nonce is tried as long as signing fails.
RECURSIVE SignFrom(_, _, _, _)
SignFrom(d, m, fastSign, iteration) ==
  LET sig == schnorrSign(EvenKey(d), NonceRFC6979(EvenKey(d), m, iteration), d, m, fastSign) IN
    IF sig # NoSig THEN sig ELSE SignFrom(d, m, fastSign, iteration + 1)

\* The nonce that BIP-340 derives from the caller's random bytes; the
\* exclusive or of a hash with the key is a sum here.
SignCustomNonce(d, m, fastSign, auxData) ==
  LET t == (EvenKey(d) + TaggedHash("BIP0340/aux", <<auxData>>)) % HashSize
      k == TaggedHash("BIP0340/nonce", <<t, SerializePubKey(d), m>>) % N IN
    IF k = 0 THEN NoSig ELSE schnorrSign(EvenKey(d), k, d, m, fastSign)

\* auxData is -1 without the option.
Sign(d, m, fastSign, auxData) ==
  IF d = 0 THEN NoSig
  ELSE IF auxData # -1 THEN SignCustomNonce(d, m, fastSign, auxData)
  ELSE SignFrom(d, m, fastSign, 0)
============================================================================
