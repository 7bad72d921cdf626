------------------------------- MODULE Engine -------------------------------
(***************************************************************************)
(* The goroutines of the NogoPow engine (nogopow/nogopow.go): miners that  *)
(* Seal starts, the workers of VerifyHeaders, and Close, which all share   *)
(* one WaitGroup.  Whether a nonce solves a block is a choice.             *)
(*                                                                         *)
(* The callers: the one who seals reads the results or closes stop, in the *)
(* end; results has no buffer.  The results of a batch of headers have     *)
(* room for all.                                                           *)
(***************************************************************************)
EXTENDS Integers, FiniteSets

CONSTANTS
  Miners,    \* calls of Seal, each with its own block, results and stop
  Batches,   \* calls of VerifyHeaders
  Headers    \* of a batch

VARIABLES
  miner,     \* [miner -> [pc, stop]]
  batch,     \* [batch -> [pc, worker, results, open]]
  exitCh,    \* whether it is closed
  closing,   \* of Close: "no", "waits" or "returned"
  received   \* the miners whose block was received after Close returned

vars == <<miner, batch, exitCh, closing, received>>

NoMiner == [pc |-> "none", stop |-> FALSE]

NoBatch == [pc |-> "none", worker |-> [h \in Headers |-> "none"], results |-> 0, open |-> TRUE]

Init ==
  /\ miner = [m \in Miners |-> NoMiner]
  /\ batch = [b \in Batches |-> NoBatch]
  /\ exitCh = FALSE /\ closing = "no" /\ received = {}

----------------------------------------------------------------------------
Started(b) == {h \in Headers : batch[b].worker[h] = "runs"}

\* What the WaitGroup counts: goroutines that Add was called for and that
\* are not Done.
count == Cardinality({m \in Miners : miner[m].pc \in {"mines", "sends"}})
           + Cardinality({p \in Batches \X Headers : p[2] \in Started(p[1])})

Seal(m) ==
  /\ miner[m].pc = "none"
  /\ miner' = [miner EXCEPT ![m].pc = "mines"]
  /\ UNCHANGED <<batch, exitCh, closing, received>>

Ends(m) == miner[m].stop \/ exitCh

\* A round of the loop of mineBlock looks at both channels before it tries
\* the next nonce; one that does not solve the block changes nothing.
LeaveLoop(m) ==
  /\ miner[m].pc = "mines"
  /\ Ends(m)
  /\ miner' = [miner EXCEPT ![m].pc = "done"]
  /\ UNCHANGED <<batch, exitCh, closing, received>>

Solve(m) ==
  /\ miner[m].pc = "mines"
  /\ ~Ends(m)
  /\ miner' = [miner EXCEPT ![m].pc = "sends"]
  /\ UNCHANGED <<batch, exitCh, closing, received>>

\* The caller reads the block, or stop ends the wait; exitCh does not.
Receive(m) ==
  /\ miner[m].pc = "sends"
  /\ miner' = [miner EXCEPT ![m].pc = "done"]
  /\ received' = IF closing = "returned" THEN received \cup {m} ELSE received
  /\ UNCHANGED <<batch, exitCh, closing>>

StopSending(m) ==
  /\ miner[m].pc = "sends"
  /\ miner[m].stop
  /\ miner' = [miner EXCEPT ![m].pc = "done"]
  /\ UNCHANGED <<batch, exitCh, closing, received>>

Stop(m) ==
  /\ miner[m].pc # "none"
  /\ ~miner[m].stop
  /\ miner' = [miner EXCEPT ![m].stop = TRUE]
  /\ UNCHANGED <<batch, exitCh, closing, received>>

----------------------------------------------------------------------------
VerifyHeaders(b) ==
  /\ batch[b].pc = "none"
  /\ batch' = [batch EXCEPT ![b].pc = "spawns"]
  /\ UNCHANGED <<miner, exitCh, closing, received>>

\* The goroutine of the batch starts a worker per header, then it waits.
Spawn(b, h) ==
  /\ batch[b].pc = "spawns"
  /\ batch[b].worker[h] = "none"
  /\ batch' = [batch EXCEPT ![b].worker[h] = "runs",
                            ![b].pc = IF {g \in Headers : batch[b].worker[g] = "none"} = {h} THEN "waits" ELSE @]
  /\ UNCHANGED <<miner, exitCh, closing, received>>

\* A worker sends one result, of VerifyHeader or nil after abort, to a
\* channel that has room.
Verify(b, h) ==
  /\ batch[b].worker[h] = "runs"
  /\ batch' = [batch EXCEPT ![b].worker[h] = IF batch[b].open THEN "done" ELSE "panics", ![b].results = @ + 1]
  /\ UNCHANGED <<miner, exitCh, closing, received>>

\* Wait returns when it finds the count of all goroutines zero.
CloseResults(b) ==
  /\ batch[b].pc = "waits"
  /\ count = 0
  /\ batch' = [batch EXCEPT ![b].pc = "done", ![b].open = FALSE]
  /\ UNCHANGED <<miner, exitCh, closing, received>>

----------------------------------------------------------------------------
Close ==
  /\ closing = "no"
  /\ exitCh' = TRUE /\ closing' = "waits"
  /\ UNCHANGED <<miner, batch, received>>

CloseReturn ==
  /\ closing = "waits"
  /\ count = 0
  /\ closing' = "returned"
  /\ UNCHANGED <<miner, batch, exitCh, received>>

Caller(m) == Receive(m) \/ StopSending(m)

Working(b) == CloseResults(b) \/ \E h \in Headers : Spawn(b, h) \/ Verify(b, h)

Next ==
  \/ \E m \in Miners : Seal(m) \/ LeaveLoop(m) \/ Solve(m) \/ Caller(m) \/ Stop(m)
  \/ \E b \in Batches : VerifyHeaders(b) \/ Working(b)
  \/ Close \/ CloseReturn

\* Goroutines go on, and the callers of Seal read their results; no miner
\* has to find a solution.
Fairness ==
  /\ \A m \in Miners : WF_vars(LeaveLoop(m) \/ Caller(m))
  /\ \A b \in Batches : WF_vars(Working(b))
  /\ WF_vars(CloseReturn)

Spec == Init /\ [][Next]_vars /\ Fairness

----------------------------------------------------------------------------
\* Nobody receives a block after Close has returned, also of a Seal that came
\* late; no worker finds its channel closed, and a closed one holds a result
\* for every header: the waits for one shared count are long enough (mineBlock,
\* VerifyHeaders, Close).
NothingAfterClose ==
  /\ received = {}
  /\ \A b \in Batches :
       /\ \A h \in Headers : batch[b].worker[h] # "panics"
       /\ ~batch[b].open => batch[b].results = Cardinality(Headers)

\* Close returns, and ends the mining and with it the wait of VerifyHeaders:
\* a batch gets a result per header in any case, but its channel is closed
\* only when no miner is left, since they share the WaitGroup.
CloseEnds ==
  /\ (closing = "waits") ~> (closing = "returned")
  /\ \A b \in Batches :
       /\ (batch[b].pc = "spawns") ~> (batch[b].results = Cardinality(Headers))
       /\ (batch[b].pc = "waits" /\ exitCh) ~> ~batch[b].open
============================================================================
