--------------------------- MODULE HeaderReaders ---------------------------
(***************************************************************************)
(* Readers and a writer of the store of block headers that meet at its     *)
(* lock (neutrino/headerfs/store.go, module HeaderStore for what the       *)
(* writers do to the disk).  The lock is Go's RWMutex: a writer that waits *)
(* keeps new readers out.                                                  *)
(*                                                                         *)
(* A block is <<height, fork>>; the file and the index are sequences of    *)
(* blocks with genesis first, the index being read as a whole in one       *)
(* transaction.                                                            *)
(***************************************************************************)
EXTENDS Integers, Sequences, SequencesExt

CONSTANTS
  Locators,   \* goroutines that call LatestBlockLocator
  Fetchers,   \* that call FetchHeader or ChainTip
  MaxHeight,  \* bound: of the chain
  MaxForks    \* bound: of rollbacks, each starting another fork

VARIABLES
  file, index,
  writer,    \* [pc, rollback]: "idle", "waits" for the lock, "file", "index"
  readers,   \* the number of read locks that are held
  proc,      \* [reader -> [pc, height, hash, locator, chain]]; history: the
             \* index as chain when a locator was begun
  fork       \* the fork that is written now

vars == <<file, index, writer, readers, proc, fork>>

genesis == <<0, 0>>
failed == <<-1, -1>>
Resting == [pc |-> "idle", height |-> 0, hash |-> genesis, locator |-> <<>>, chain |-> <<>>]

Init ==
  /\ file = <<genesis>> /\ index = <<genesis>>
  /\ writer = [pc |-> "idle", rollback |-> FALSE] /\ readers = 0 /\ fork = 0
  /\ proc = [r \in Locators \cup Fetchers |-> Resting]

----------------------------------------------------------------------------
\* The lock

MayRead == writer.pc \notin {"waits", "file", "index"}

RLock == MayRead /\ readers' = readers + 1

RUnlock == readers' = readers - 1

----------------------------------------------------------------------------
\* WriteHeaders and RollbackBlockHeaders: the file, then the index.

Lock(rollback) ==
  /\ writer.pc = "idle"
  /\ IF rollback THEN Len(index) > 1 /\ fork < MaxForks ELSE Len(index) <= MaxHeight
  /\ writer' = [pc |-> "waits", rollback |-> rollback]
  /\ UNCHANGED <<file, index, readers, proc, fork>>

Locked ==
  /\ writer.pc = "waits"
  /\ readers = 0
  /\ writer' = [writer EXCEPT !.pc = "file"]
  /\ UNCHANGED <<file, index, readers, proc, fork>>

ChangeFile ==
  /\ writer.pc = "file"
  /\ fork' = IF writer.rollback THEN fork + 1 ELSE fork
  /\ file' = IF writer.rollback THEN Front(file) ELSE Append(file, <<Len(file), fork>>)
  /\ writer' = [writer EXCEPT !.pc = "index"]
  /\ UNCHANGED <<index, readers, proc>>

ChangeIndex ==
  /\ writer.pc = "index"
  /\ index' = file
  /\ writer' = [writer EXCEPT !.pc = "idle"]
  /\ UNCHANGED <<file, readers, proc, fork>>

----------------------------------------------------------------------------
\* LatestBlockLocator: it holds the lock for reading, and FetchHeaderByHeight
\* takes it once more for every header of the locator.

\* readHeader, which fails beyond the end of the file.
Header(height) == IF height < Len(file) THEN file[height + 1] ELSE failed

LatestBlockLocator(r) ==
  /\ proc[r].pc = "idle"
  /\ RLock
  /\ proc' = [proc EXCEPT ![r] = [Resting EXCEPT !.pc = "tip"]]
  /\ UNCHANGED <<file, index, writer, fork>>

\* The tip of the index, which the locator starts with.
ReadTip(r) ==
  /\ proc[r].pc = "tip"
  /\ proc' = [proc EXCEPT ![r] = [@ EXCEPT !.pc = "loop", !.height = Len(index) - 1, !.locator = <<Last(index)>>,
                                          !.chain = index]]
  /\ UNCHANGED <<file, index, writer, readers, fork>>

FetchHeaderByHeight(r) ==
  /\ proc[r].pc = "loop"
  /\ proc[r].height > 0
  /\ RLock
  /\ proc' = [proc EXCEPT ![r] = [@ EXCEPT !.pc = "read", !.height = @ - 1]]
  /\ UNCHANGED <<file, index, writer, fork>>

ReadHeader(r) ==
  /\ proc[r].pc = "read"
  /\ RUnlock
  /\ proc' = [proc EXCEPT ![r] =
       IF Header(@.height) # failed THEN [@ EXCEPT !.pc = "loop", !.locator = Append(@, Header(proc[r].height))]
       ELSE [@ EXCEPT !.pc = "loop", !.height = 0]]
  /\ UNCHANGED <<file, index, writer, fork>>

LocatorDone(r) ==
  /\ proc[r].pc = "loop"
  /\ proc[r].height = 0
  /\ RUnlock
  /\ proc' = [proc EXCEPT ![r].pc = "returned"]
  /\ UNCHANGED <<file, index, writer, fork>>

\* The caller has its locator.
Return(r) ==
  /\ proc[r].pc = "returned"
  /\ proc' = [proc EXCEPT ![r] = Resting]
  /\ UNCHANGED <<file, index, writer, readers, fork>>

----------------------------------------------------------------------------
\* FetchHeader and ChainTip: the height of a hash of the index, then the
\* header of this height, under one read lock.

FetchHeader(r, b) ==
  /\ proc[r].pc = "idle"
  /\ RLock
  /\ proc' = [proc EXCEPT ![r] = [Resting EXCEPT !.pc = "height", !.hash = b]]
  /\ UNCHANGED <<file, index, writer, fork>>

heightFromHash(r) ==
  /\ proc[r].pc = "height"
  /\ proc' = [proc EXCEPT ![r] =
       IF Contains(index, @.hash) THEN [@ EXCEPT !.pc = "header", !.height = proc[r].hash[1]] ELSE [@ EXCEPT !.pc = "unlock"]]
  /\ UNCHANGED <<file, index, writer, readers, fork>>

readHeader(r) ==
  /\ proc[r].pc \in {"header", "unlock"}
  /\ RUnlock
  /\ proc' = [proc EXCEPT ![r] = [@ EXCEPT !.pc = "returned",
       !.locator = IF proc[r].pc = "header" THEN <<Header(proc[r].height)>> ELSE <<>>]]
  /\ UNCHANGED <<file, index, writer, fork>>

Locating(r) == ReadTip(r) \/ FetchHeaderByHeight(r) \/ ReadHeader(r) \/ LocatorDone(r)

Fetching(r) == heightFromHash(r) \/ readHeader(r)

Writing == Locked \/ ChangeFile \/ ChangeIndex

Next ==
  \/ \E rollback \in BOOLEAN : Lock(rollback)
  \/ Writing
  \/ \E r \in Locators : LatestBlockLocator(r) \/ Locating(r) \/ Return(r)
  \/ \E r \in Fetchers : (\E i \in 0..MaxHeight, f \in 0..MaxForks : FetchHeader(r, <<i, f>>)) \/ Fetching(r) \/ Return(r)

\* Every goroutine goes on when it can, and a lock that is free is had.
Fairness ==
  /\ WF_vars(Writing)
  /\ \A r \in Locators : WF_vars(Locating(r))
  /\ \A r \in Fetchers : WF_vars(Fetching(r))

Spec == Init /\ [][Next]_vars /\ Fairness

----------------------------------------------------------------------------
\* A locator is the tip and its ancestors on one chain, and a header that is
\* fetched by hash is the one of that hash, whatever is written and rolled
\* back meanwhile: no reader sees the file and the index apart.
ReadsOneChain ==
  \A r \in Locators \cup Fetchers : proc[r].pc = "returned" =>
    IF r \in Fetchers THEN proc[r].locator \in {<<>>, <<proc[r].hash>>}
    ELSE proc[r].locator = Reverse(proc[r].chain)

\* LatestBlockLocator "returns the latest block locator object".
LocatorReturns == \A r \in Locators : (proc[r].pc = "tip") ~> (proc[r].pc = "returned")
============================================================================
