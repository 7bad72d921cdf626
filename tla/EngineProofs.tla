---------------------------- MODULE EngineProofs ----------------------------
(***************************************************************************)
(* Proofs about Engine for any number of miners, batches and headers.      *)
(***************************************************************************)
EXTENDS Engine, FiniteSetTheorems, TLAPS

\* The callers and the headers of a batch are finitely many.
CallsFinite == IsFiniteSet(Miners) /\ IsFiniteSet(Batches) /\ IsFiniteSet(Headers)

Sent(b) == {h \in Headers : batch[b].worker[h] \in {"done", "panics"}}

\* When Close has returned no miner holds a block, nor can it find one.
MinersInv ==
  /\ miner \in [Miners -> [pc : {"none", "mines", "sends", "done"}, stop : BOOLEAN]]
  /\ closing # "no" => exitCh
  /\ closing = "returned" => \A m \in Miners : miner[m].pc # "sends"
  /\ received = {}

BatchType ==
  [pc : {"none", "spawns", "waits", "done"}, worker : [Headers -> {"none", "runs", "done", "panics"}],
   results : Nat, open : BOOLEAN]

\* The results of a batch are those of the workers that sent one, and the
\* channel is closed when all have.
BatchInv(b) ==
  /\ batch[b].results = Cardinality(Sent(b))
  /\ \A h \in Headers : batch[b].worker[h] # "panics"
  /\ batch[b].pc = "none" => \A h \in Headers : batch[b].worker[h] = "none"
  /\ batch[b].pc \in {"waits", "done"} => \A h \in Headers : batch[b].worker[h] # "none"
  /\ ~batch[b].open => batch[b].pc = "done" /\ \A h \in Headers : batch[b].worker[h] = "done"

\* The strengthening of NothingAfterClose.
EInv == MinersInv /\ batch \in [Batches -> BatchType] /\ \A b \in Batches : BatchInv(b)

\* When the WaitGroup counts nothing, no goroutine that it counts is left.
LEMMA CountZero ==
  ASSUME CallsFinite, count = 0
  PROVE  /\ \A m \in Miners : miner[m].pc \notin {"mines", "sends"}
         /\ \A b \in Batches, h \in Headers : batch[b].worker[h] # "runs"
  <1> DEFINE M == {m \in Miners : miner[m].pc \in {"mines", "sends"}}
             W == {p \in Batches \X Headers : p[2] \in Started(p[1])}
  <1>1. IsFiniteSet(M) /\ IsFiniteSet(W)
    <2>1. IsFiniteSet(Batches \X Headers)
      BY FS_Product DEF CallsFinite
    <2> QED
      BY <2>1, FS_Subset DEF CallsFinite
  <1>2. Cardinality(M) \in Nat /\ Cardinality(W) \in Nat
    BY <1>1, FS_CardinalityType
  <1>3. Cardinality(M) = 0 /\ Cardinality(W) = 0
    <2>1. Cardinality(M) + Cardinality(W) = 0
      BY DEF count
    <2> HIDE DEF M, W
    <2> QED
      BY <1>2, <2>1
  <1>4. M = {} /\ W = {}
    BY <1>1, <1>3, FS_EmptySet
  <1>5. ASSUME NEW b \in Batches, NEW h \in Headers, batch[b].worker[h] = "runs"
        PROVE  FALSE
    <2>1. <<b, h>> \in W
      BY <1>5 DEF Started
    <2> QED
      BY <1>4, <2>1
  <1> QED
    BY <1>4, <1>5

\* A worker that sends its result adds one to the results that were sent.
LEMMA SendCounts ==
  ASSUME CallsFinite, EInv, NEW b \in Batches, NEW h \in Headers, Verify(b, h)
  PROVE  batch'[b].results = Cardinality(Sent(b)')
  <1> DEFINE S == Sent(b)
  <1>1. IsFiniteSet(S)
    BY FS_Subset DEF CallsFinite, Sent
  <1>2. Cardinality(S \cup {h}) = Cardinality(S) + 1
    <2>1. h \notin S
      BY DEF Verify, Sent
    <2> QED
      BY <1>1, <2>1, FS_AddElement
  <1>3. Sent(b)' = S \cup {h}
    BY DEF EInv, BatchType, Verify, Sent
  <1>4. batch'[b].results = batch[b].results + 1 /\ batch[b].results = Cardinality(S)
    BY DEF EInv, BatchType, BatchInv, Verify
  <1> QED
    BY <1>2, <1>3, <1>4

\* What a miner, its caller or Close does leaves the batches alone.
LEMMA MinersKeep ==
  ASSUME CallsFinite, EInv,
         \/ \E m \in Miners : Seal(m) \/ LeaveLoop(m) \/ Solve(m) \/ Caller(m) \/ Stop(m)
         \/ Close \/ CloseReturn
  PROVE  MinersInv' /\ UNCHANGED batch
  <1> USE DEF EInv
  <1>1. ASSUME NEW m \in Miners, Seal(m)
        PROVE  MinersInv' /\ UNCHANGED batch
    BY <1>1 DEF Seal, MinersInv
  <1>2. ASSUME NEW m \in Miners, LeaveLoop(m)
        PROVE  MinersInv' /\ UNCHANGED batch
    BY <1>2 DEF LeaveLoop, MinersInv
  <1>3. ASSUME NEW m \in Miners, Solve(m)
        PROVE  MinersInv' /\ UNCHANGED batch
    BY <1>3 DEF Solve, MinersInv, Ends
  <1>4. ASSUME NEW m \in Miners, Receive(m)
        PROVE  MinersInv' /\ UNCHANGED batch
    BY <1>4 DEF Receive, MinersInv
  <1>5. ASSUME NEW m \in Miners, StopSending(m)
        PROVE  MinersInv' /\ UNCHANGED batch
    BY <1>5 DEF StopSending, MinersInv
  <1>6. ASSUME NEW m \in Miners, Stop(m)
        PROVE  MinersInv' /\ UNCHANGED batch
    BY <1>6 DEF Stop, MinersInv
  <1>7. CASE Close
    BY <1>7 DEF Close, MinersInv
  <1>8. CASE CloseReturn
    <2>1. \A m \in Miners : miner[m].pc # "sends"
      BY <1>8, CountZero DEF CloseReturn
    <2> QED
      BY <1>8, <2>1 DEF CloseReturn, MinersInv
  <1> QED
    BY <1>1, <1>2, <1>3, <1>4, <1>5, <1>6, <1>7, <1>8 DEF Caller

\* What the goroutines of a batch do leaves the miners and the other batches
\* alone.
LEMMA BatchKeeps ==
  ASSUME CallsFinite, EInv, NEW b \in Batches, VerifyHeaders(b) \/ Working(b)
  PROVE  /\ BatchInv(b)'
         /\ \E r \in BatchType : batch' = [batch EXCEPT ![b] = r]
         /\ UNCHANGED <<miner, exitCh, closing, received>>
  <1>1. ASSUME VerifyHeaders(b)
        PROVE  /\ BatchInv(b)'
               /\ \E r \in BatchType : batch' = [batch EXCEPT ![b] = r]
    <2> DEFINE r == [batch[b] EXCEPT !.pc = "spawns"]
    <2>1. r \in BatchType /\ batch' = [batch EXCEPT ![b] = r]
      BY <1>1 DEF VerifyHeaders, EInv, BatchType
    <2>2. Sent(b)' = Sent(b)
      BY <1>1 DEF VerifyHeaders, EInv, BatchType, Sent
    <2>3. BatchInv(b)'
      BY <1>1, <2>2 DEF VerifyHeaders, EInv, BatchType, BatchInv
    <2> QED
      BY <2>1, <2>3
  <1>2. ASSUME NEW h \in Headers, Spawn(b, h)
        PROVE  /\ BatchInv(b)'
               /\ \E r \in BatchType : batch' = [batch EXCEPT ![b] = r]
    <2> DEFINE r == [batch[b] EXCEPT !.worker[h] = "runs",
                                     !.pc = IF {g \in Headers : batch[b].worker[g] = "none"} = {h} THEN "waits" ELSE @]
    <2>1. r \in BatchType /\ batch' = [batch EXCEPT ![b] = r]
      BY <1>2 DEF Spawn, EInv, BatchType
    <2>2. Sent(b)' = Sent(b)
      BY <1>2 DEF Spawn, EInv, BatchType, Sent
    <2>3. BatchInv(b)'
      BY <1>2, <2>2 DEF Spawn, EInv, BatchType, BatchInv
    <2> QED
      BY <2>1, <2>3
  <1>3. ASSUME NEW h \in Headers, Verify(b, h)
        PROVE  /\ BatchInv(b)'
               /\ \E r \in BatchType : batch' = [batch EXCEPT ![b] = r]
    <2> DEFINE r == [batch[b] EXCEPT !.worker[h] = "done", !.results = @ + 1]
    <2>1. batch[b].open
      BY <1>3 DEF EInv, BatchInv, Verify
    <2>2. r \in BatchType /\ batch' = [batch EXCEPT ![b] = r]
      BY <1>3, <2>1 DEF Verify, EInv, BatchType
    <2>3. batch'[b].results = Cardinality(Sent(b)')
      BY <1>3, SendCounts
    <2>4. BatchInv(b)'
      BY <1>3, <2>1, <2>3 DEF Verify, EInv, BatchType, BatchInv
    <2> QED
      BY <2>2, <2>4
  <1>4. ASSUME CloseResults(b)
        PROVE  /\ BatchInv(b)'
               /\ \E r \in BatchType : batch' = [batch EXCEPT ![b] = r]
    <2> DEFINE r == [batch[b] EXCEPT !.pc = "done", !.open = FALSE]
    <2>1. \A h \in Headers : batch[b].worker[h] = "done"
      BY <1>4, CountZero DEF CloseResults, EInv, BatchType, BatchInv
    <2>2. r \in BatchType /\ batch' = [batch EXCEPT ![b] = r]
      BY <1>4 DEF CloseResults, EInv, BatchType
    <2>3. Sent(b)' = Sent(b)
      BY <1>4 DEF CloseResults, EInv, BatchType, Sent
    <2>4. BatchInv(b)'
      BY <1>4, <2>1, <2>3 DEF CloseResults, EInv, BatchType, BatchInv
    <2> QED
      BY <2>2, <2>4
  <1>5. UNCHANGED <<miner, exitCh, closing, received>>
    BY DEF VerifyHeaders, Working, Spawn, Verify, CloseResults
  <1> QED
    BY <1>1, <1>2, <1>3, <1>4, <1>5 DEF Working

\* Every step keeps the strengthened invariant.
LEMMA StepKeeps ==
  ASSUME CallsFinite, EInv, [Next]_vars
  PROVE  EInv'
  <1>1. ASSUME MinersInv', UNCHANGED batch
        PROVE  EInv'
    BY <1>1 DEF EInv, BatchInv, Sent
  <1>2. ASSUME NEW b \in Batches, VerifyHeaders(b) \/ Working(b)
        PROVE  EInv'
    <2>1. /\ BatchInv(b)'
          /\ \E r \in BatchType : batch' = [batch EXCEPT ![b] = r]
          /\ UNCHANGED <<miner, exitCh, closing, received>>
      BY <1>2, BatchKeeps
    <2>2. MinersInv'
      BY <2>1 DEF EInv, MinersInv
    <2>3. ASSUME NEW c \in Batches, c # b
          PROVE  BatchInv(c)'
      <3>1. batch'[c] = batch[c]
        BY <2>1, <2>3 DEF EInv
      <3>2. BatchInv(c)
        BY DEF EInv
      <3> QED
        BY <3>1, <3>2 DEF BatchInv, Sent
    <2>4. batch' \in [Batches -> BatchType]
      BY <2>1 DEF EInv
    <2> QED
      BY <2>1, <2>2, <2>3, <2>4 DEF EInv
  <1>3. CASE UNCHANGED vars
    <2>1. MinersInv' /\ UNCHANGED batch
      BY <1>3 DEF vars, EInv, MinersInv
    <2> QED
      BY <1>1, <2>1
  <1> QED
    BY <1>1, <1>2, <1>3, MinersKeep DEF Next

\* Nobody receives a block after Close has returned, no worker finds its channel
\* closed, and a closed one holds a result per header, for any number of calls
\* of Seal and VerifyHeaders (mineBlock, VerifyHeaders, Close).
THEOREM CloseIsFinal ==
  ASSUME CallsFinite
  PROVE  Spec => []NothingAfterClose
  <1>1. Init => EInv
    <2> SUFFICES ASSUME Init
                 PROVE  EInv
      OBVIOUS
    <2>1. \A b \in Batches : Sent(b) = {}
      BY DEF Init, NoBatch, Sent
    <2>2. Cardinality({}) = 0
      BY FS_EmptySet
    <2>3. MinersInv
      BY DEF Init, NoMiner, MinersInv
    <2>4. NoBatch \in BatchType
      BY DEF NoBatch, BatchType
    <2>5. batch \in [Batches -> BatchType]
      BY <2>4 DEF Init
    <2>6. \A b \in Batches : BatchInv(b)
      BY <2>1, <2>2 DEF Init, NoBatch, BatchInv
    <2> QED
      BY <2>3, <2>5, <2>6 DEF EInv
  <1>2. EInv => NothingAfterClose
    <2> SUFFICES ASSUME EInv
                 PROVE  NothingAfterClose
      OBVIOUS
    <2>1. ASSUME NEW b \in Batches, ~batch[b].open
          PROVE  Sent(b) = Headers
      <3>1. \A h \in Headers : batch[b].worker[h] = "done"
        BY <2>1 DEF EInv, BatchInv
      <3> QED
        BY <3>1 DEF Sent
    <2>2. ASSUME NEW b \in Batches
          PROVE  /\ \A h \in Headers : batch[b].worker[h] # "panics"
                 /\ ~batch[b].open => batch[b].results = Cardinality(Headers)
      BY <2>1 DEF EInv, BatchInv
    <2>3. received = {}
      BY DEF EInv, MinersInv
    <2> QED
      BY <2>2, <2>3 DEF NothingAfterClose
  <1> QED
    BY <1>1, <1>2, StepKeeps, PTL DEF Spec
=============================================================================
