--------------------------- MODULE SchnorrSigner ---------------------------
(***************************************************************************)
(* A caller of the BIP-340 Sign (nogoec/schnorr/signature.go), with or     *)
(* without random bytes of its own and with or without the final check.    *)
(***************************************************************************)
EXTENDS Schnorr

CONSTANTS
  Hashes,    \* that are signed
  AuxDatas   \* random bytes of CustomNonce; -1 without

VARIABLES
  privKey,
  last      \* the call of Sign that was answered last

vars == <<privKey, last>>

NoCall == [hash |-> -1, fastSign |-> FALSE, auxData |-> -1, sig |-> NoSig]

Init == privKey \in 0..N-1 /\ last = NoCall

SignHash(m, fast, aux) ==
  /\ last' = [hash |-> m, fastSign |-> fast, auxData |-> aux, sig |-> Sign(privKey, m, fast, aux)]
  /\ UNCHANGED privKey

Next == \E m \in Hashes, fast \in BOOLEAN, aux \in AuxDatas : SignHash(m, fast, aux)

Spec == Init /\ [][Next]_vars

----------------------------------------------------------------------------
\* A signature that Sign returns verifies under the key's x coordinate once
\* it is written and parsed, also without the final check; a nonzero key gets
\* one unless the caller's random bytes led to no nonce or to a challenge too
\* large for a scalar.
SignaturesVerify ==
  /\ last.sig # NoSig => Verify(ParseSignature(Serialize(last.sig)), last.hash, privKey)
  /\ last # NoCall /\ privKey # 0 /\ last.auxData = -1 => last.sig # NoSig
============================================================================
