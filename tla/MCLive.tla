------------------------------- MODULE MCLive -------------------------------
(***************************************************************************)
(* What must happen in the end: the notifications, the batch writer and    *)
(* the broadcaster of neutrino, the transactions of ffldb and the          *)
(* goroutines of the proof-of-work engine, side by side.  They share no    *)
(* state: one behaviour runs one of them (`part`) and leaves the others as *)
(* they start, when none of them has anything to do.                       *)
(***************************************************************************)
EXTENDS Integers, Sequences

CONSTANTS p1, c1, parent, child, NoItem, NoTx, t1, t2, k1, v1, NoVal, NoProc

VARIABLES
    part,
    tip, feed, srcClosed, mpc, cur, subscribers, mquit, mstop, cpc, best, reply,
    queue, qup, dpc, ditem, nchan, nclosed, squit, got,
    adding, count, out, overflow, qpc, batch, ticking, wpc, wstop, saved,
    transactions, bpc, sem, rpc, rlist, kpc, ktx, kreply, marks, bstop, mined, accepted,
    ldb, cachedKeys, cachedRemove, pc, writable, snap, writeLock, pendingKeys, pendingRemove,
    closer, closed, allowed, raced,
    miner, headers, exitCh, closing, received

S == INSTANCE SubscriptionManager WITH Clients <- {c1}, MaxHeight <- 2, ChanCap <- 1
W == INSTANCE BatchWriter WITH Callers <- {p1}, MaxItems <- 3, OutCap <- 1, MaxBatch <- 2
B == INSTANCE Broadcaster WITH
        Callers <- {p1}, Txs <- {parent, child},
        Parents <- [t \in {parent, child} |-> IF t = child THEN {parent} ELSE {}]
D == INSTANCE DbCache WITH Procs <- {t1, t2}, Keys <- {k1}, Values <- {v1}

E == INSTANCE Engine WITH Miners <- {1, 2}, Batches <- {1}, Headers <- {1, 2}, batch <- headers

ntfn == <<tip, feed, srcClosed, mpc, cur, subscribers, mquit, mstop, cpc, best, reply,
          queue, qup, dpc, ditem, nchan, nclosed, squit, got>>
writer == <<adding, count, out, overflow, qpc, batch, ticking, wpc, wstop, saved>>
push == <<transactions, bpc, sem, rpc, rlist, kpc, ktx, kreply, marks, bstop, mined, accepted>>
tx == <<ldb, cachedKeys, cachedRemove, pc, writable, snap, writeLock, pendingKeys, pendingRemove,
        closer, closed, allowed, raced>>
engine == <<miner, headers, exitCh, closing, received>>
vars == <<part, ntfn, writer, push, tx, engine>>

Init ==
  /\ part \in {"ntfn", "batch", "push", "tx", "engine"}
  /\ S!SubInit /\ W!BwInit /\ B!BcInit /\ D!Init /\ E!Init

Ntfn == part = "ntfn" /\ S!SubNext /\ UNCHANGED <<part, writer, push, tx, engine>>
Batch == part = "batch" /\ W!BwNext /\ UNCHANGED <<part, ntfn, push, tx, engine>>
Push == part = "push" /\ B!BcNext /\ UNCHANGED <<part, ntfn, writer, tx, engine>>
Tx == part = "tx" /\ D!Next /\ UNCHANGED <<part, ntfn, writer, push, engine>>
Engine == part = "engine" /\ E!Next /\ UNCHANGED <<part, ntfn, writer, push, tx>>

Next == Ntfn \/ Batch \/ Push \/ Tx \/ Engine

\* The fairness of the modules (SubFairness, BwFairness, BcFairness and the
\* Fairness of DbCache and Engine), each for the part that runs: goroutines go
\* on when they can, and a lock that is free again and again is had.
Fairness ==
  /\ WF_ntfn(part = "ntfn" /\ S!SubSystem)
  /\ WF_writer(part = "batch" /\ (W!WriterStep \/ W!QueueStep \/ W!StopStep))
  /\ \A t \in {parent, child} : WF_push(part = "push" /\ B!HandleMark(t))
  /\ WF_push(part = "push" /\ (B!HandleRequest(p1) \/ B!BroadcastReturns(p1)))
  /\ WF_push(part = "push" /\ (B!triggerRebroadcast \/ B!rebroadcast \/ B!HandleConfirmed \/ B!RoundEnds))
  /\ WF_push(part = "push" /\ (B!BcHandlerEnds \/ B!BcStopReturns))
  /\ \A q \in {t1, t2} :
       /\ WF_tx(part = "tx" /\ (D!Step(q) \/ D!LockClose(q) \/ D!Finish(q)))
       /\ SF_tx(part = "tx" /\ D!LockWrite(q))
  /\ WF_tx(part = "tx" /\ (D!CloseLock \/ D!CloseFlush \/ D!CloseFails))
  /\ \A m \in {1, 2} : WF_engine(part = "engine" /\ (E!LeaveLoop(m) \/ E!Caller(m)))
  /\ WF_engine(part = "engine" /\ E!Working(1)) /\ WF_engine(part = "engine" /\ E!CloseReturn)

FairSpec == Init /\ [][Next]_vars /\ Fairness

-----------------------------------------------------------------------------
\* The properties of the parts; they are explained in their modules.


\* A client that reads receives every later block (manager.go), every filter is
\* written (batch_writer.go) and every kept transaction is sent again
\* (broadcaster.go), until Stop.
WorkIsDone == S!EveryBlockArrives /\ W!ItemsWritten /\ B!SentAgain
=============================================================================
