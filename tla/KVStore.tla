------------------------------- MODULE KVStore -------------------------------
(***************************************************************************)
(* What database.DB promises its users about metadata: one read-write      *)
(* transaction at a time, whose puts and deletes take effect all at once   *)
(* when it commits and not at all when it does not.  How and when the      *)
(* changes reach the disk is not visible.                                  *)
(***************************************************************************)
CONSTANTS Procs, Keys, Values, NoVal, NoProc

VARIABLES
    store,    \* the value of every key, NoVal when there is none
    writer,   \* the owner of the open read-write transaction
    puts,     \* the values it put
    removes   \* the keys it deleted

kvVars == <<store, writer, puts, removes>>

NoPuts == [k \in Keys |-> NoVal]

\* The contents s after the removals r and the puts u.
Apply(s, u, r) ==
    [k \in Keys |-> IF k \in r THEN NoVal ELSE IF u[k] # NoVal THEN u[k] ELSE s[k]]

KVInit == store = NoPuts /\ writer = NoProc /\ puts = NoPuts /\ removes = {}

KVBegin(p) ==
    /\ writer = NoProc
    /\ writer' = p
    /\ UNCHANGED <<store, puts, removes>>

KVPut(k, v) ==
    /\ writer # NoProc
    /\ puts' = [puts EXCEPT ![k] = v]
    /\ removes' = removes \ {k}
    /\ UNCHANGED <<store, writer>>

KVDelete(k) ==
    /\ writer # NoProc
    /\ puts' = [puts EXCEPT ![k] = NoVal]
    /\ removes' = removes \cup {k}
    /\ UNCHANGED <<store, writer>>

KVEnd == writer' = NoProc /\ puts' = NoPuts /\ removes' = {}

KVCommit == writer # NoProc /\ store' = Apply(store, puts, removes) /\ KVEnd

KVAbort == writer # NoProc /\ UNCHANGED store /\ KVEnd

KVNext ==
    \/ \E p \in Procs : KVBegin(p)
    \/ \E k \in Keys, v \in Values : KVPut(k, v)
    \/ \E k \in Keys : KVDelete(k)
    \/ KVCommit
    \/ KVAbort

KVSpec == KVInit /\ [][KVNext]_kvVars
=============================================================================
