--------------------------- MODULE LocalAddresses ---------------------------
(***************************************************************************)
(* The addresses of the node itself, and which of them it advertises to a  *)
(* peer (addrmgr/addrmanager.go).  An address is its kind; the map of      *)
(* local addresses is visited in any order, under lamtx.                   *)
(***************************************************************************)
EXTENDS Integers, FiniteSets

CONSTANTS Keys,        \* keys of local addresses
          Kind,        \* the kind of each
          Priorities   \* AddressPriority, from InterfacePrio = 0

\* ipv6 stands for native IPv6, tunnelled for 6to4 and the translation prefixes.
Kinds == {"torv3", "onioncat", "ipv4", "teredo", "tunnelled", "ipv6", "unroutable"}
Unreachable == 0
Default == 1
Teredo == 2
Ipv6Weak == 3
Ipv4 == 4
Ipv6Strong == 5
Private == 6

VARIABLES localAddresses,  \* the scores of the addresses added
          remote,          \* the kind of the peer GetBestLocalAddress is asked about, or "none"
          left,            \* the keys the loop has not visited
          best             \* [reach, score, key]; key is 0 as long as there is none

vars == <<localAddresses, remote, left, best>>
IsRoutable(kind) == kind # "unroutable"

AddLocalAddress(k, priority) ==
    LET ok == k \in DOMAIN localAddresses
        score == IF ok THEN priority + 1 ELSE priority
    IN  /\ remote = "none" /\ IsRoutable(Kind[k])
        /\ ok => localAddresses[k] < priority
        /\ localAddresses' = [j \in DOMAIN localAddresses \cup {k} |->
                                IF j = k THEN score ELSE localAddresses[j]]
        /\ UNCHANGED <<remote, left, best>>

getReachabilityFrom(local, rem) ==
    CASE ~IsRoutable(rem) -> Unreachable
      [] rem = "torv3" -> (CASE local = "torv3" -> Private [] local = "onioncat" -> Unreachable
                             [] local = "ipv4" -> Ipv4 [] OTHER -> Default)
      [] rem # "torv3" /\ local = "torv3" -> Default
      [] rem = "onioncat" /\ local # "torv3" ->
            (CASE local = "onioncat" -> Private [] local = "ipv4" -> Ipv4 [] OTHER -> Default)
      [] rem = "teredo" /\ local # "torv3" ->
            (CASE local = "teredo" -> Teredo [] local = "ipv4" -> Ipv4 [] OTHER -> Ipv6Weak)
      [] rem = "ipv4" /\ local # "torv3" -> IF local = "ipv4" THEN Ipv4 ELSE Unreachable
      [] rem \in {"ipv6", "tunnelled"} /\ local # "torv3" ->
            (CASE local = "teredo" -> Teredo [] local = "ipv4" -> Ipv4
               [] local = "tunnelled" -> Ipv6Weak [] OTHER -> Ipv6Strong)

None == [reach |-> 0, score |-> 0, key |-> 0]
GetBestLocalAddress(rem) ==
    /\ remote = "none" /\ remote' = rem
    /\ left' = DOMAIN localAddresses /\ best' = None
    /\ UNCHANGED localAddresses

Better(reach, score) == reach > best.reach \/ (reach = best.reach /\ score > best.score)
Visit(k) ==
    LET reach == getReachabilityFrom(Kind[k], remote)
    IN  /\ remote # "none" /\ k \in left
        /\ left' = left \ {k}
        /\ best' = IF Better(reach, localAddresses[k])
                   THEN [reach |-> reach, score |-> localAddresses[k], key |-> k] ELSE best
        /\ UNCHANGED <<localAddresses, remote>>
Return == /\ remote # "none" /\ left = {}
          /\ remote' = "none" /\ best' = None
          /\ UNCHANGED <<localAddresses, left>>

Init == localAddresses = << >> /\ remote = "none" /\ left = {} /\ best = None
Next == \/ \E k \in Keys : (\E p \in Priorities : AddLocalAddress(k, p)) \/ Visit(k)
        \/ \E rem \in Kinds : GetBestLocalAddress(rem)
        \/ Return

\* Whatever the order in which the map is visited, the address advertised is one that the peer reaches
\* best, and of those one with the highest score; an unroutable one is sent only if no address is
\* reachable and none has a score.
BestAdvertised ==
    remote # "none" /\ left = {} =>
        \A k \in DOMAIN localAddresses :
            LET reach == getReachabilityFrom(Kind[k], remote)
            IN  /\ reach <= best.reach
                /\ reach = best.reach => localAddresses[k] <= best.score
                /\ best.key = 0 => reach = 0 /\ localAddresses[k] = 0
=============================================================================
