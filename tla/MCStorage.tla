----------------------------- MODULE MCStorage -----------------------------
(***************************************************************************)
(* The parts of the two stores on disk side by side: the header files of   *)
(* neutrino, with their readers, and of ffldb the block files under power  *)
(* loss, the readers and the prune of these files, the treaps, the cursors *)
(* and the buckets.  One behaviour runs one part (`part`).  The variables  *)
(* of the parts other than HeaderStore are r1, r2, ..., as each instance   *)
(* says, and the ones it does not need stay 0.                             *)
(***************************************************************************)
EXTENDS HeaderStore, FiniteSets

CONSTANTS g, a1, a2, b1, d1, d2, NoLoc

VARIABLES part, r1, r2, r3, r4, r5, r6, r7, r8, r9, r10, r11, r12, r13, r14, r15, r16, r17, r18

Zero10 == r10 = 0 /\ r11 = 0 /\ r12 = 0 /\ r13 = 0 /\ r14 = 0 /\ r15 = 0 /\ r16 = 0 /\ r17 = 0 /\ r18 = 0
Zero7 == r7 = 0 /\ r8 = 0 /\ r9 = 0 /\ Zero10
Zero6 == r6 = 0 /\ Zero7
Zero4 == r4 = 0 /\ r5 = 0 /\ Zero6
Zero1 == r1 = 0 /\ r2 = 0 /\ r3 = 0 /\ Zero4

registers == <<r1, r2, r3, r4, r5, r6, r7, r8, r9, r10, r11, r12, r13, r14, r15, r16, r17, r18>>
From10 == <<r10, r11, r12, r13, r14, r15, r16, r17, r18>>
From7 == <<r7, r8, r9, From10>>
From6 == <<r6, From7>>
From4 == <<r4, r5, From6>>

----------------------------------------------------------------------------
\* Headers of two branches from the genesis block.
MCBlocks == {g, a1, a2, b1}
MCPrev == [b \in MCBlocks |-> IF b = a2 THEN a1 ELSE IF b = g THEN None ELSE g]
MCHeight == [b \in MCBlocks |-> IF b = a2 THEN 2 ELSE IF b = g THEN 0 ELSE 1]

\* Two blocks whose records fit one file.
Power == INSTANCE FFLDB WITH
  Blocks <- {d1, d2}, RecLen <- [b \in {d1, d2} |-> IF b = d1 THEN 1 ELSE 2],
  MaxFileSize <- 4, MaxFileNum <- 0, PowerLoss <- TRUE,
  data <- r1, size <- r2, exists <- r3, synced <- r4, cur <- r5, off <- r6, wopen <- r7,
  ldbIdx <- r8, ldbRow <- r9, cacheIdx <- r10, cacheRow <- r11, pc <- r12, pending <- r13,
  txIdx <- r14, batch <- r15, old <- r16, up <- r17, committed <- r18

\* Three files, of which one may be open for reads.
Reading == INSTANCE BlockFiles WITH
  Readers <- {"p", "q"}, maxOpenFiles <- 1, MaxFileNum <- 2, Target <- {1},
  exists <- r1, index <- r2, rd <- r3, open <- r4, lru <- r5, closed <- r6, obf <- r7, tx <- r8, tried <- r9

\* A reader that makes locators, another that fetches, and three rollbacks.
Readers == INSTANCE HeaderReaders WITH
  Locators <- {"l"}, Fetchers <- {"f"}, MaxHeight <- 3, MaxForks <- 2,
  file <- r1, index <- r2, writer <- r3, readers <- r4, proc <- r5, fork <- r6

\* Three keys, heaps that hold every copy that is made, and stacks that
\* overflow.
Range2(s, l) == [start |-> s, limit |-> l]
Mutable == INSTANCE MutableTreap WITH
  Addresses <- 1..6, Span <- 3, nodeFieldsSize <- 2, staticDepth <- 1,
  Keys <- {1, 2, 3}, Puts <- {<<1, -1>>, <<1, 2>>, <<2, 1>>, <<3, 1>>}, Priorities <- {1, 2},
  Ranges <- {Range2(2, 4), Range2(1, 3)}, JumpsPending <- FALSE,
  m <- r1, t <- r2, map <- r3, it <- r4, pos <- r5

KV(key, value) == [key |-> key, value |-> value]
Immutable == INSTANCE ImmutableTreap WITH
  Addresses <- 1..18, Span <- 3, nodeFieldsSize <- 2, staticDepth <- 2,
  Keys <- {1, 2, 3}, Priorities <- {1, 2},
  Batches <- {<<KV(1, -1)>>, <<KV(2, 1)>>, <<KV(2, 1), KV(3, 1)>>, <<KV(3, 1), KV(2, 1), KV(1, -1)>>},
  m <- r1, treap <- r2, map <- r3

Walking == INSTANCE BucketCursor WITH
  Addresses <- 1..6, Span <- 3, nodeFieldsSize <- 2, staticDepth <- 1,
  Keys <- {1, 2, 3}, Priorities <- {1, 2}, MaxChanges <- 4, Turns <- FALSE, JumpsPending <- FALSE,
  x <- r1, c <- r2, pos <- r3, forwards <- r4, changes <- r5

\* A bucket in a bucket, and names that are used again.
Nested == INSTANCE Buckets WITH
  Addresses <- 1..10, Span <- 10, nodeFieldsSize <- 2, staticDepth <- 2,
  NKeys <- 2, NNames <- 1, Values <- {0}, Priorities <- {1}, MaxDepth <- 2, MaxID <- 2, MaxChanges <- 3,
  db <- r1, x <- r2, tree <- r3, saved <- r4, changes <- r5

----------------------------------------------------------------------------
StorageInit ==
  /\ Init
  /\ \/ part = "headers" /\ Zero1
     \/ part = "power" /\ Power!Init
     \/ part = "files" /\ Reading!Init /\ Zero10
     \/ part = "readers" /\ Readers!Init /\ Zero7
     \/ part = "mutable" /\ Mutable!Init /\ Zero6
     \/ part = "immutable" /\ Immutable!Init /\ Zero4
     \/ part = "cursor" /\ Walking!Init /\ Zero6
     \/ part = "buckets" /\ Nested!Init /\ Zero6

StorageNext ==
  \/ part = "headers" /\ Next /\ UNCHANGED <<part, registers>>
  \/ part = "power" /\ Power!Next /\ UNCHANGED <<part, vars>>
  \/ part = "files" /\ Reading!Next /\ UNCHANGED <<part, vars, From10>>
  \/ part = "readers" /\ Readers!Next /\ UNCHANGED <<part, vars, From7>>
  \/ part = "mutable" /\ Mutable!Next /\ UNCHANGED <<part, vars, From6>>
  \/ part = "immutable" /\ Immutable!Next /\ UNCHANGED <<part, vars, From4>>
  \/ part = "cursor" /\ Walking!Next /\ UNCHANGED <<part, vars, From6>>
  \/ part = "buckets" /\ Nested!Next /\ UNCHANGED <<part, vars, From6>>

StorageSpec == StorageInit /\ [][StorageNext]_<<part, vars, registers>>

\* The header files alone.
HeadersSpec == part = "headers" /\ StorageInit /\ [][StorageNext]_<<part, vars, registers>>

----------------------------------------------------------------------------
\* The properties of the parts; they are explained in their modules.

\* The header files and their index agree whenever no write is under way, a
\* header that is fetched is the one of its hash and height, and the stores
\* open again after every failure; a locator or header that a reader gets is of
\* one chain, whatever the writer does (headerfs).
HeadersSound ==
  /\ part = "headers" => TypeOK /\ Agreement /\ FetchMatches /\ Reopens
  /\ part = "readers" => Readers!ReadsOneChain

\* As long as one block file is written, a power loss leaves every committed
\* block readable and the database is opened again (blockio.go, reconcile.go).
PowerLossHarmless == part = "power" => Power!IndexReadable /\ Power!NeverCorrupt


\* The treaps hold the pairs that were put, with their counts and sizes, an
\* iterator that was told of changes stays in place, and a version that is in
\* use never changes (database/internal/treap).
TreapsSound ==
  /\ part = "mutable" => Mutable!HoldsPairs /\ Mutable!IteratorPlaced
  /\ part = "immutable" => Immutable!Persistent

\* The buckets of a transaction and of the database are the tree that the calls
\* built, and a cursor moves to the neighbour of its key in what the transaction
\* sees, while the transaction changes the bucket (bucket and cursor in db.go).
BucketsSound ==
  /\ part = "buckets" => Nested!BucketsAreATree
  /\ part = "cursor" => Walking!CursorPlaced
============================================================================
