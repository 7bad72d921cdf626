---------------------------- MODULE Broadcaster ----------------------------
(***************************************************************************)
(* neutrino/pushtx/broadcaster.go: transactions are sent once when a       *)
(* caller asks for it and again, in rounds, after every block and every    *)
(* tick, until they are confirmed.  The processes are the handler, at most *)
(* one goroutine that runs a round, the callers of Broadcast and           *)
(* MarkAsConfirmed, Stop, and the network (external), which answers a send *)
(* with nil, with an error of type Mempool or Confirmed, or with another.  *)
(***************************************************************************)
EXTENDS Integers, SequencesExt, TLAPS

CONSTANTS
    Txs,      \* the transactions
    Callers,  \* the goroutines that call Broadcast
    Parents,  \* Parents[t]: the transactions t spends
    NoTx

VARIABLES
    transactions,  \* what the handler rebroadcasts
    bpc,           \* the handler: "new", "loop" or "done"
    sem,           \* rebroadcastSem holds its token
    rpc,           \* the round: "off", "next" or "conf"
    rlist,         \* what it has left to send
    kpc, ktx,      \* kpc[k], ktx[k]: caller k of Broadcast and its transaction
    kreply,        \* kreply[k]: the content of its errChan
    marks,         \* the transactions with a MarkAsConfirmed under way
    bstop,         \* where Stop is
    mined,         \* external: the transactions in the chain
    accepted       \* history: the transactions whose Broadcast succeeded

bcVars == <<transactions, bpc, sem, rpc, rlist, kpc, ktx, kreply, marks, bstop, mined, accepted>>

bquit == bstop # "no"

BcInit ==
    /\ transactions = {} /\ bpc = "new" /\ sem = TRUE /\ rpc = "off" /\ rlist = <<>>
    /\ kpc = [k \in Callers |-> "idle"] /\ ktx = [k \in Callers |-> NoTx]
    /\ kreply = [k \in Callers |-> "none"]
    /\ marks = {} /\ bstop = "no" /\ mined = {} /\ accepted = {}

\* The answers of the network to a send of t (external).
Answers(t) == IF t \in mined THEN {"confirmed", "other"} ELSE {"nil", "mempool", "other"}

Mine(t) ==
    /\ t \notin mined /\ Parents[t] \subseteq mined
    /\ mined' = mined \cup {t}
    /\ UNCHANGED <<transactions, bpc, sem, rpc, rlist, kpc, ktx, kreply, marks, bstop, accepted>>

-----------------------------------------------------------------------------
\* Start subscribes to blocks and runs the handler; it is called before Stop.
StartBroadcaster ==
    /\ bpc = "new" /\ ~bquit
    /\ bpc' = "loop"
    /\ UNCHANGED <<transactions, sem, rpc, rlist, kpc, ktx, kreply, marks, bstop, mined, accepted>>

\* Broadcast: the request waits for the handler, the caller for its answer; both
\* waits end when the broadcaster quits.
BroadcastCall(k, t) ==
    /\ kpc[k] = "idle"
    /\ kpc' = [kpc EXCEPT ![k] = "request"] /\ ktx' = [ktx EXCEPT ![k] = t]
    /\ UNCHANGED <<transactions, bpc, sem, rpc, rlist, kreply, marks, bstop, mined, accepted>>

Keep(t) == transactions' = transactions \cup {t} /\ accepted' = accepted \cup {t}

\* The handler sends the transaction and keeps it unless the network refused it
\* for another reason than that it has it already.
HandleRequest(k) ==
    /\ bpc = "loop" /\ kpc[k] = "request"
    /\ \E a \in Answers(ktx[k]) :
          IF a \in {"nil", "mempool"}
          THEN Keep(ktx[k]) /\ kreply' = [kreply EXCEPT ![k] = "nil"]
          ELSE kreply' = [kreply EXCEPT ![k] = a] /\ UNCHANGED <<transactions, accepted>>
    /\ kpc' = [kpc EXCEPT ![k] = "wait"]
    /\ UNCHANGED <<bpc, sem, rpc, rlist, ktx, marks, bstop, mined>>

BroadcastReturns(k) ==
    /\ \/ kpc[k] = "wait" /\ kreply[k] # "none"
       \/ kpc[k] \in {"request", "wait"} /\ bquit
    /\ kpc' = [kpc EXCEPT ![k] = "idle"] /\ ktx' = [ktx EXCEPT ![k] = NoTx]
    /\ kreply' = [kreply EXCEPT ![k] = "none"]
    /\ UNCHANGED <<transactions, bpc, sem, rpc, rlist, marks, bstop, mined, accepted>>

\* MarkAsConfirmed: the send to confChan has no alternative.
MarkAsConfirmed(t) ==
    /\ t \in mined /\ t \notin marks
    /\ marks' = marks \cup {t}
    /\ UNCHANGED <<transactions, bpc, sem, rpc, rlist, kpc, ktx, kreply, bstop, mined, accepted>>

\* The handler receives a confirmation, from a caller or from the round.
HandleMark(t) ==
    /\ bpc = "loop" /\ t \in marks
    /\ transactions' = transactions \ {t} /\ marks' = marks \ {t}
    /\ UNCHANGED <<bpc, sem, rpc, rlist, kpc, ktx, kreply, bstop, mined, accepted>>

HandleConfirmed ==
    /\ bpc = "loop" /\ rpc = "conf"
    /\ transactions' = transactions \ {Head(rlist)}
    /\ rlist' = Tail(rlist) /\ rpc' = "next"
    /\ UNCHANGED <<bpc, sem, kpc, ktx, kreply, marks, bstop, mined, accepted>>

-----------------------------------------------------------------------------
\* DependencySort (external): parents before the transactions that spend them.
DependencySort(T) ==
    {s \in SetToAllKPermutations(T) :
        /\ ToSet(s) = T
        /\ \A i, j \in 1 .. Len(s) : s[i] \in Parents[s[j]] => i < j}

\* A block or a tick starts a round with a copy of the set, unless one runs.
triggerRebroadcast ==
    /\ bpc = "loop" /\ sem
    /\ sem' = FALSE /\ rpc' = "next" /\ rlist' \in DependencySort(transactions)
    /\ UNCHANGED <<transactions, bpc, kpc, ktx, kreply, marks, bstop, mined, accepted>>

\* The round sends the next transaction; one that is confirmed is reported to
\* the handler, all other answers only end its turn.
rebroadcast ==
    /\ rpc = "next" /\ rlist # <<>> /\ ~bquit
    /\ \E a \in Answers(Head(rlist)) :
          IF a = "confirmed" THEN rpc' = "conf" /\ UNCHANGED rlist
          ELSE rlist' = Tail(rlist) /\ UNCHANGED rpc
    /\ UNCHANGED <<transactions, bpc, sem, kpc, ktx, kreply, marks, bstop, mined, accepted>>

\* The mistake of not giving the token back.
RoundEndsKeepsToken ==
    /\ \/ rpc = "next" /\ (rlist = <<>> \/ bquit)
       \/ rpc = "conf" /\ bquit
    /\ rpc' = "off" /\ rlist' = <<>> /\ sem' = (rlist = <<>> /\ ~bquit /\ transactions = {})
    /\ UNCHANGED <<transactions, bpc, kpc, ktx, kreply, marks, bstop, mined, accepted>>

\* The round ends when all is sent or the broadcaster quits, also while it
\* waits for the handler; the token goes back.
RoundEnds ==
    /\ \/ rpc = "next" /\ (rlist = <<>> \/ bquit)
       \/ rpc = "conf" /\ bquit
    /\ rpc' = "off" /\ rlist' = <<>> /\ sem' = TRUE
    /\ UNCHANGED <<transactions, bpc, kpc, ktx, kreply, marks, bstop, mined, accepted>>

-----------------------------------------------------------------------------
\* Stop closes quit and waits for the handler and the round.
StopBroadcaster ==
    /\ bstop = "no" /\ bstop' = "wait"
    /\ UNCHANGED <<transactions, bpc, sem, rpc, rlist, kpc, ktx, kreply, marks, mined, accepted>>

BcHandlerEnds ==
    /\ bpc = "loop" /\ bquit
    /\ bpc' = "done"
    /\ UNCHANGED <<transactions, sem, rpc, rlist, kpc, ktx, kreply, marks, bstop, mined, accepted>>

BcStopReturns ==
    /\ bstop = "wait" /\ bpc # "loop" /\ rpc = "off"
    /\ bstop' = "done"
    /\ UNCHANGED <<transactions, bpc, sem, rpc, rlist, kpc, ktx, kreply, marks, mined, accepted>>

BcNext ==
    \/ \E t \in Txs : Mine(t) \/ MarkAsConfirmed(t) \/ HandleMark(t)
    \/ \E k \in Callers : \/ \E t \in Txs : BroadcastCall(k, t)
                          \/ HandleRequest(k) \/ BroadcastReturns(k)
    \/ HandleConfirmed \/ triggerRebroadcast \/ rebroadcast \/ RoundEnds
    \/ StartBroadcaster \/ StopBroadcaster \/ BcHandlerEnds \/ BcStopReturns

BcSpec == BcInit /\ [][BcNext]_bcVars

\* Goroutines that can run do so, the ticker keeps firing, and select serves
\* every channel that stays ready.  The steps of one goroutine, which never can
\* take two of them, share a condition.
BcFairness ==
    /\ \A t \in Txs : WF_bcVars(HandleMark(t))
    /\ \A k \in Callers : WF_bcVars(HandleRequest(k) \/ BroadcastReturns(k))
    /\ WF_bcVars(triggerRebroadcast \/ rebroadcast \/ HandleConfirmed \/ RoundEnds)
    /\ WF_bcVars(BcHandlerEnds \/ BcStopReturns)

-----------------------------------------------------------------------------
\* Every field has its type.
BcTypeOK ==
    /\ transactions \subseteq Txs /\ bpc \in {"new", "loop", "done"} /\ sem \in BOOLEAN
    /\ rpc \in {"off", "next", "conf"} /\ rlist \in Seq(Txs)
    /\ kpc \in [Callers -> {"idle", "request", "wait"}] /\ ktx \in [Callers -> Txs \cup {NoTx}]
    /\ kreply \in [Callers -> {"none", "nil", "confirmed", "other"}]
    /\ marks \subseteq Txs /\ bstop \in {"no", "wait", "done"}
    /\ mined \subseteq Txs /\ accepted \subseteq Txs

\* A transaction whose Broadcast succeeded is kept for rebroadcasting until it
\* is in the chain, whatever a round with an older copy of the set reports.
KeptUntilMined == accepted \ mined \subseteq transactions

\* Every transaction that is kept is sent again in some later round, unless it
\* is confirmed or the broadcaster stops.
SentAgain ==
    \A t \in Txs : t \in transactions ~> t \in ToSet(rlist) \/ t \notin transactions \/ bquit

\* Calls return: Broadcast and Stop always, MarkAsConfirmed unless the
\* broadcaster stops, after which nobody receives what it sends.
BcCallsReturn ==
    /\ \A k \in Callers : kpc[k] # "idle" /\ bpc # "new" ~> kpc[k] = "idle"
    /\ \A t \in Txs : t \in marks /\ bpc # "new" ~> t \notin marks \/ bquit
    /\ bquit ~> bstop = "done"
-----------------------------------------------------------------------------
\* Only a mined transaction is reported as confirmed, by a caller or the round.
BcInd ==
    /\ KeptUntilMined /\ marks \subseteq mined
    /\ rpc = "conf" => Head(rlist) \in mined

\* For every set of transactions, of callers and every order of their calls, what
\* a Broadcast accepted is kept until it is mined.
THEOREM Kept == BcSpec => []KeptUntilMined
<1>1. BcInit => BcInd
  BY DEF BcInit, BcInd, KeptUntilMined
<1>2. BcInd /\ [BcNext]_bcVars => BcInd'
  <2> SUFFICES ASSUME BcInd, [BcNext]_bcVars
               PROVE  BcInd'
    OBVIOUS
  <2> USE DEF BcInd, KeptUntilMined
  <2>1. ASSUME NEW t \in Txs, Mine(t) \/ MarkAsConfirmed(t) \/ HandleMark(t)
        PROVE  BcInd'
    BY <2>1 DEF Mine, MarkAsConfirmed, HandleMark
  <2>2. ASSUME NEW k \in Callers, NEW t \in Txs, BroadcastCall(k, t)
        PROVE  BcInd'
    BY <2>2 DEF BroadcastCall
  <2>3. ASSUME NEW k \in Callers, HandleRequest(k)
        PROVE  BcInd'
    BY <2>3 DEF HandleRequest, Keep
  <2>4. ASSUME NEW k \in Callers, BroadcastReturns(k)
        PROVE  BcInd'
    BY <2>4 DEF BroadcastReturns
  <2>5. CASE HandleConfirmed
    BY <2>5 DEF HandleConfirmed
  <2>6. CASE triggerRebroadcast
    BY <2>6 DEF triggerRebroadcast
  <2>7. CASE rebroadcast
    BY <2>7 DEF rebroadcast, Answers
  <2>8. CASE RoundEnds
    BY <2>8 DEF RoundEnds
  <2>9. CASE StartBroadcaster \/ StopBroadcaster \/ BcHandlerEnds \/ BcStopReturns
    BY <2>9 DEF StartBroadcaster, StopBroadcaster, BcHandlerEnds, BcStopReturns
  <2>10. CASE UNCHANGED bcVars
    BY <2>10 DEF bcVars
  <2> QED
    BY <2>1, <2>2, <2>3, <2>4, <2>5, <2>6, <2>7, <2>8, <2>9, <2>10 DEF BcNext
<1>3. BcInd => KeptUntilMined
  BY DEF BcInd
<1> QED
  BY <1>1, <1>2, <1>3, PTL DEF BcSpec
=============================================================================
