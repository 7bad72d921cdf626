# Verification of nogocommons

TLA+ specifications of the stateful parts of this repository, model-checked
with TLC on small instances and, for the storage core, the difficulty rule, the
mining engine and the central promises of connection manager, peer, subscriptions
and broadcaster, proved with TLAPS for all instances.

## 1. The system

nogocommons is a library: each package is used by nodes, wallets and miners and
keeps its own state. The parts, and what makes them correct:

| Part | State | What is hard | Correct when |
|---|---|---|---|
| `database/ffldb`: block files | files, write cursor, open-file LRU | partial writes, failures inside a rollback, crash, power loss, prune against readers | a committed block is whole in the files; reopening repairs every crash |
| `database/ffldb`: metadata | leveldb, cached treaps, pending keys | snapshots while a writer flushes; `Close` against `begin` | transactions are atomic and isolated; nobody waits for ever |
| `database/ffldb`: buckets and cursors | nested buckets in one flat key space | a cursor over pairs that change under it | a cursor moves to the neighbour of its key; the buckets are the tree that the calls built |
| `database/internal/treap` | nodes, shared between versions | recycling nodes, iterators over a changing treap | versions in use never change |
| `neutrino/headerfs` | header file, index, tip | file and index are written one after the other | they agree after a restart; readers see one chain |
| `neutrino/blockntfns`, `chanutils`, `pushtx` | subscriptions, queues, batches, transactions | shutdown against every other call | in order, nothing lost, every call returns |
| `neutrino/cache`, `headerlist`, `filterdb` | LRU list and map, ring of headers, filters | a lock-free map beside a locked list; wrap-around | lookups answer from what was stored |
| `peer` | five goroutines, queues, deadlines, negotiation | shutdown from any side, confirmation of sends, timeouts | every queued message is answered or the peer is gone |
| `connmgr` | pending and connected requests, retries | late dial results, cancelled requests | a removed request never comes back |
| `addrmgr` | new and tried buckets, counters, a saved file | an address in several buckets, eviction, reload | counters and buckets agree; a draw ends |
| `wire` | none (codec) | limits and versions on both sides | what is written can be read back; a refused message leaves the stream aligned |
| `v2transport` | handshake, cipher sequence | garbage, decoys, rekeying, damage | both ends are in one session and get what was sent |
| `nogoec/schnorr`, `musig2` | contexts and signing sessions | order of calls, parities and tweaks | signatures verify; a nonce signs once |
| `nogopow` | seed cache, miners and workers, difficulty | one `WaitGroup` for all; clamps and rounding | a computed difficulty is accepted; `Close` ends all |
| `nogoutil` (`bloom`, `gcs`, `coinset`, `hdkeychain`) | filters, coins, keys that share bytes | filter changes inside a block; carries; nested selection; shared slices | nothing watched is missed; coins pay; a key is the one of its path |

Interaction: ffldb's `db` owns one `blockStore` and one `dbCache`; a transaction
touches both and `flush` calls back into `syncBlocks`. `FFLDB` composes the block
files, the commit and the cache rows; `DbCache` the goroutines, locks and
snapshots around them. A bucket works through cursors, cursors through the
treaps of pending keys: `Buckets` and `BucketCursor` use `Cursors`, which uses
`Treap`. `WireStream` composes the codec with the framing of a connection,
`MuSigSession` and `ExtendedKeys` stand on `Schnorr`, `Gcs` joins the filters
and the store that keeps them. A peer's goroutines talk through channels only;
connmgr runs one handler that owns all requests.

The complete list, with the parts that are not modelled and why, is
`components` in `PROJECT.json`; `hazards` lists what is hard to test, line by
line.

## 2. The modules

| Module | Models | Uses |
|---|---|---|
| `FFLDB` | `blockio.go`, `reconcile.go`, the commit path of `db.go` and `dbcache.go` | |
| `FFLDBProofs` | its proofs | `FFLDB`, TLAPS |
| `BlockFiles` | readers, open-file LRU and `PruneBlocks` | |
| `KVStore` | abstract: what `database.DB` promises about metadata | |
| `DbCache` | transactions, snapshots, flushes, locks, `Close` | `KVStore` by refinement |
| `DbCacheProofs` | its proofs | `DbCache`, TLAPS |
| `Treap` | nodes, rotations, iterators of `database/internal/treap` | |
| `MutableTreap`, `ImmutableTreap` | the two treaps as their users use them | `Treap` |
| `Cursors` | the merging cursor of `db.go` | `Treap` |
| `BucketCursor`, `Buckets` | one bucket with a cursor; nested buckets | `Cursors` |
| `HeaderStore`, `HeaderReaders` | `neutrino/headerfs`: the disk; the lock | |
| `LruCache`, `SubscriptionManager`, `BatchWriter`, `Broadcaster`, `HeaderList` | `neutrino/cache/lru`, `blockntfns`, `chanutils`, `pushtx`, `headerlist` | |
| `ConnManager` | `connmgr/connmanager.go` | |
| `Peer`, `PeerHandshake`, `Stall` | `peer/peer.go`: goroutines; negotiation; deadlines | |
| `AddrManager`, `LocalAddresses` | `addrmgr/addrmanager.go` | |
| `WireMessages`, `WireTx`, `WireStream` | `wire`: elements and flat messages; nested ones; framing | each the one before |
| `V2Transport` | `v2transport` | |
| `Schnorr`, `SchnorrSigner`, `MuSigSession` | `nogoec/schnorr` and `musig2` | `Schnorr` |
| `ExtendedKeys` | `nogoutil/hdkeychain` | `Schnorr` |
| `MerkleBlocks` | `nogoutil/bloom` | |
| `Gcs` | `nogoutil/gcs`, its builder, `neutrino/filterdb` | |
| `CoinSelect` | `nogoutil/coinset` | |
| `Difficulty`, `SeedCache`, `Engine` | `nogopow` | |
| `DifficultyProofs`, `EngineProofs` | their proofs | TLAPS |
| `MCFFLDB`, `MCStorage`, `MCServices`, `MCLive`, `MCNetwork` | instances for TLC | all |

The header of each module says what it abstracts. Correspondence in brief, for
every component: one action is one step that others can observe or interrupt.
Where the code holds one mutex from beginning to end that is the whole method;
where it does not, it is one critical section, one access to a lock-free map,
one channel operation, one file operation or one database transaction.

### Storage

`FFLDB`. State: the block files (`data`, `size`, `exists`, and `synced`, the
prefix that survives a power loss), the write cursor (`cur`, `off`, `wopen`), the
block index and the write row in leveldb and in the cache above it, the write
transaction (`pc`, `pending`, `txIdx`, `old`), whether the database is open, and
two history variables (`batch`, `committed`). A record of a block is a run of
cells `<<b, i>>`, so a partial write is a prefix and "readable" means every cell
is there, which is what the checksum of `readBlock` establishes. One action is
one call that can fail or be followed by a crash. Abstracted: contents of blocks,
header fields of a record (part of its length), the checksum of the write row,
the cache's size and timer (a flush may happen at any commit).

`BlockFiles`. Readers go through lookup, lock, open, evict and read; the prune
deletes files, then commits. The prune closes files without `obfMutex`, a data
race: its accesses to the maps are steps of their own, and the other outcome, the
runtime's fatal error, is a crash.

`DbCache`. State: leveldb and the two cached treaps as functions of keys, the
place each goroutine is at, its snapshot, the pending keys of the writer, the
write lock, `closeLock` (implied by the places), the goroutine in `Close`.
`Snapshot` is two steps, as in the code: leveldb first, the cached roots second.
A flush is three: sync, leveldb transaction, new empty roots. History variables
`allowed` and `raced` record which contents a goroutine may return and whether a
flush cleared the cache while it was taking its snapshot. `KVStore` is the
abstract store, one writer whose puts and deletes take effect at once or not at
all; `ImplementsKVStore` is the refinement, with the contents seen through the
cache (`View`) as the abstract store.

`Treap` works on addresses in a heap, so that sharing and recycling of nodes can
go wrong; random priorities are a choice. `Cursors` keeps the code's two
iterators and the direction logic; the leveldb iterator is a position in a sorted
set that does not change. `Buckets` keeps ids, index entries and the recursion of
`DeleteBucket`, and compares them with `tree`, what the calls should have done.

`HeaderStore`. State, for each of the two stores: its flat file as a sequence of
half headers, the offset of the file descriptor (`pos`, which `appendRaw` uses to
undo a partial write), the tip in the database, and the operation that holds its
lock; and the heights of the block hashes (`entry`). `Failures` says what may
fail, `MaxFaults` how often; `cut` marks a store whose rollback or first write
was cut short. `Word` stands for the width of `uint32`. `HeaderReaders` has the
lock as Go's `RWMutex`, where a waiting writer keeps new readers out; the locator
there omits the doubling of steps after ten entries.

### Services

`LruCache`: an element is a record with an identity, so that an old element that
a goroutine still holds can be told from a new one with the same key.
`SubscriptionManager`, `BatchWriter`, `Broadcaster`: the places of all goroutines
are explicit, a select is a choice between actions, and libraries (lnd's queue)
and the network's answers are external. `HeaderList`: a pointer is the number of
a slot, so that it leads to whatever was written to the slot last.

`ConnManager`: one action is one message to the handler and everything the
handler does with it. Delays, and the counters that only determine them, are left
out. `Peer`: `inHandler`, `queueHandler`, `outHandler`, `stallHandler`,
`pingHandler` with their channels, and callers that wait on a `doneChan`;
`QueueMessage` is two steps, the question whether the peer is connected and the
send. A stall is a `Disconnect` at any time there; `Stall` has the deadlines, with
a clock. `PeerHandshake`: two ends, each with `start` and its negotiating
goroutine, either of which may be a foreign program, an old version, one that
refuses the other, or the same process.

`AddrManager`: ages and chances of addresses are a free choice. A crash loses what
was not saved. `V2Transport`: a ciphertext is the state of the ciphers it was made
with and decrypts only under the same state; a unit may be damaged, the connection
cut.

`WireMessages` writes `BtcEncode` and `BtcDecode` of each message as two lists of
steps, in the order of the code; a byte stream is a sequence of chunks with their
lengths, so limits, versions and sizes are exact while contents are left out.
`WireTx` has the markers, flags, witnesses and script slabs of transactions and
the network ids of version 2 addresses. `WireStream` frames them, reads with
another version or encoding, and injects the faults `ReadMessage` handles. The
varints have their real width as four limbs of 16 bits.

`Schnorr` replaces the curve by a group of small prime order in which a point is
its discrete logarithm and a parity is the parity of a number; hashes are given
functions. Values met there by chance (an aggregate at infinity) are named and
set aside in the properties. `MuSigSession` and `ExtendedKeys` are the complete
call interfaces above it; in the latter bytes live in slices, since derived keys
share them.

`MerkleBlocks`: `NewMerkleBlock` takes the filter's mutex once per transaction,
so a step is one transaction. `Gcs`: 64-bit words have 8 bits, so that the carries
between the halves of `fastReduction` happen. `CoinSelect`: the four selectors as
functions. `Difficulty`: floating point is exact fractions, which agree with
`ceil` by adding 0.999999 while twice the interval is below 10^6; the 32-bit width
is the constant `MaxUint32`. `Engine`: whether a nonce solves a block is a choice;
callers of `Seal` read the results or close `stop` in the end.

The parts of an MC module share no state, so one behaviour runs one of them and
leaves the others alone: the state spaces add up instead of multiplying.

## 3. The runs

| Run | Question | Result |
|---|---|---|
| `FFLDB_crash` | Do crashes and failed operations ever lose or tear what was committed? | no |
| `FFLDB_power_rotation` | And a power loss, when a transaction fills a file? | yes: see below |
| `DbCache_safety` | Are transactions atomic and isolated, with concurrent flush and `Close`? | yes, but for the next case |
| `DbCache_snapshot` | Does every snapshot show one point in time? | no: see below |
| `Storage` | Header files with crashes and readers, a power loss within one file, open files under prune, treaps, cursors and buckets: is each what its callers expect? | yes, within the restrictions below |
| `HeaderStore_partial` | Does a failed write leave the file as it was? | no: see below |
| `HeaderReaders_locator` | Does `LatestBlockLocator` return? | no: see below |
| `Buckets_nested` | Does `DeleteBucket` leave nothing behind? | no: see below |
| `Services` | The safety of wire, cache, subscriptions, batch writer, broadcaster, header list, addresses, deadlines, transport, signatures, keys, filters, coins, difficulty, seed cache and engine | holds, within the restrictions below |
| `Live` | Do their calls return, also during shutdown, and is accepted work done? | yes, as far as stated |
| `Network` | Connection manager, peer, negotiation and handshake: are requests and messages served once and in order, and does everything end? | yes, but for the cases below |
| `LruCache_two_writers` | Does the cache keep its capacity with two writers? | no: see below |

The properties of the MC modules join properties that belong together; the parts
are stated and explained in the modules of the components.

### Bounds

- Block store: one block that is committed and one whose write goes wrong after
  it. Records of length 2 and 3 in files of size 4 always rotate (`FFLDB_crash`),
  of length 1 and 2 share one file (`Storage`).
- Cache: two goroutines (one can write while the other takes a snapshot), two keys
  (a transaction that touches one and not the other) and one value (present or
  absent) give every order of put, delete and flush. Symmetry over goroutines and
  keys is used with safety properties only.
- Header stores: a genesis block, a branch of two blocks and one of a single block
  give rollbacks by one and two and a reorganisation; one failure or crash at any
  point (two were also explored, with the same result).
- Block files: three files of which one may be open, two readers, one prune.
- Treaps: three keys, priorities with ties, heaps that hold every copy that is made
  and stacks that overflow. Buckets: a bucket in a bucket, names used again.
- Services: three keys of sizes 1 and 2 in a cache of capacity 2, so that one `Put`
  evicts none, one or two; two subscribers and one block, and one subscriber with
  three (a backlog and blocks after it); channels of capacity 1, so that they are
  full at once; five items in batches of two, so that the overflow list is used and
  a batch stays open; a parent and a child transaction; rings of 1 to 8 headers over
  20 heights.
- Addresses: three, in buckets of one, so that they push each other out. Deadlines:
  a tick of two units and a timeout of four, two requests.
- Wire: every message with its lists empty, at the sizes where a varint grows and at
  and over the limit; every pair of versions at which some layout changes; two
  messages, since the second shows where the first left the stream.
- Transport: garbage below, at and over its limit, a decoy, a rekeying after two
  packets. Signatures: a group of order 13 with a hash of 14 values, so that a hash
  may be too large for a scalar; every parity under every kind of tweak, two and
  three signers, two sessions. Keys: two generations below a master, three keys at a
  time (four were also explored, with the same result).
- Filters: blocks of one to seven transactions, so that trees have full and half
  levels; queries that miss, match first and match last. Coins: up to three coins
  under every selector.
- Difficulty: intervals that are negative, zero, around the target, at the clamps and
  far beyond. Engine: two miners, two batches, two headers.
- Network: two requests and a target of one, so that a request is replaced and one
  disconnect finds enough peers and another does not; a caller's message, the reject
  of `inHandler` and one plain message, so that one is in flight while two wait; ten
  pairs of negotiating ends.

### Fairness

Weak fairness throughout stands for Go's scheduler: a goroutine that can run does.
For the subscription manager and the batch writer it is enough that some goroutine
runs (what they do is bounded by the number of blocks, items and calls); for the
broadcaster, whose rounds go on for ever, every goroutine runs and every case of a
select that stays ready is served. For the database, ending a transaction is the
caller's duty (the NOTE of `Begin`), and getting the write lock is strongly fair
(`sync.Mutex` hands the lock to a waiter that starves). For the engine, the caller
of `Seal` reads the result or closes `stop`. For manager, peer and handshakes,
writes, callbacks and dials are assumed to return; a read may wait for ever while
the peer is connected, and the negotiation's timer fires.

### What the runs with a violation show

- `FFLDB_power_rotation`: a transaction that stores two blocks fills file 0 and
  goes on in file 1. `writeBlock` closes file 0 without a sync and `syncBlocks`
  syncs file 1, so after the flush the index can refer to a block of file 0 that
  a power loss takes away.
- `DbCache_snapshot`: a reader takes the leveldb snapshot, a writer flushes the
  cache to leveldb and clears it, the reader takes the empty roots: it sees
  neither copy of what was in the cache. `SnapshotAtomicUnlessFlushed` shows
  this is the only way to tear a snapshot, and `WriterSeesCommitted` that it
  never happens to a read-write transaction.
- `HeaderStore_partial`: the file is opened for appending, so the offset that
  `appendRaw` reads before a write is the end of the previous write of this
  process, not the end of the file; after a restart a failed write truncates the
  file to that offset.
- `HeaderReaders_locator`: `LatestBlockLocator` holds the read lock and takes it
  again for every header. A writer that asks for the lock in between makes the
  second request wait for the writer and the writer for the first. The
  counterexample is under the fairness of the module: everyone who can go on does.
- `Buckets_nested`: `DeleteBucket` deletes each key it meets without telling its
  own cursor, so the iterator over the pending keys walks a treap that has been
  rearranged and skips pairs. They stay in the database without their bucket.
- `LruCache_two_writers`: two goroutines put the same key. Both load its element
  from the map, then each in turn subtracts its size; the size field is too small
  from then on and the elements exceed the capacity. With one writer and a
  reader (`Services`) size, list and map always agree, and `evict` never fails.

### Restrictions

What the passing runs leave out because the code does not give it. A constant
switches the case on where one is named; then the property fails.

- `Turns` (`BucketCursor`): a cursor that changes direction in the middle of a walk
  need not come to the neighbouring pair. `JumpsPending` (`MutableTreap`, `BucketCursor`): an iterator that
  was told of a change and is then moved by `First`, `Last` or `Seek` keeps its old
  `seekKey` and goes back to it.
- `Damage` (`AddrManager`): after a peers file that parses but is inconsistent,
  `reset` forgets the addresses and keeps the counters that `GetAddress` loops on.
- `DisconnectEarly` (`PeerHandshake`): `Disconnect` before `AssociateConnection`
  leaves the connection open.
- `CombineEarly` (`MuSigSession`): when all other partial signatures are combined
  before the session's own `Sign`, the final signature is never produced.
- `ZeroShared` (`ExtendedKeys`): `Zero` also clears bytes that neutered and cloned
  keys share, although the comment (`extendedkey.go:632`) says it "only clears this
  particular key and not any children that have already been derived."
- `cut` (`HeaderStore`): a crash inside `RollbackBlockHeaders` leaves the index ahead
  of the file, and `fileHeight - tipHeight` wraps around at the next start.
- Subscriptions: blocks may arrive twice (in the backlog and again as new); after
  `Stop` one block can be dropped before a later one is queued; when the source
  closes its channel, `NewSubscription` and `Cancel` wait until `Stop`. `AddItem` and
  `MarkAsConfirmed` block for ever once `Stop` was called, and items still in the
  queue are dropped.
- `Peer`: `stallHandler` counts how often it sees a closed `inQuit` or `outQuit` and
  can see the same one twice, so it can end while the other handler still sends to it
  (`StallGone`; the comment at `peer.go:1352` says it ends "once both the input and
  output handler goroutines are done"). A message queued after `queueHandler` has
  drained its channel, or during a negotiation that fails, is never confirmed.
- `ConnManager`: a connection that is dialled when the manager quits stays open, and
  `Disconnect` of a request that is pending again, permanent or not, cancels it.
- `Stall`: `deadlineOffset` is reset at every tick, so the time of a callback counts
  for one tick only; the property speaks of requests as the code groups them.
- `CoinSelect`: `MinPriorityCoinSelector` may use one input over `MaxInputs`
  (`coins.go:280`), leave change below `MinChangeAmount`, and miss the average age by
  the remainder of a division.

### Seen while modelling, without a run of its own

Storage. When the flush or the leveldb transaction of `commitTx` fails,
`writePendingAndCommit` returns without a rollback; the index stays sound
(`FFLDB_crash` includes this) and the files keep the orphaned blocks. A failure
between the prune's deletions and the commit leaves index rows of deleted files,
readers with an older snapshot fail on them, and `BeenPruned` is false again when one
file is left. `cursor.Delete` does not ask whether the transaction is writable. The
mutable treap's `Delete` can leave children above their parents in priority; order
and contents are not affected. Half a header at the end of a header file is not
noticed when the store is opened; `FetchHeaderAncestors` reads index and file without
the lock; `CheckConnectivity` computes `tipHeight - 1` for a tip at height 0.

Network. New buckets hold one address more than `newBucketSize`. The seed cache's
lookups move entries under a read lock, and its bound is not kept once entries have
been moved. Version 2 garbage of exactly `MaxGarbageLen`, which an end may send, is
not recognised: the last byte is read and not compared (`transport.go:494`); decoys configured for the version packet are sent twice.
`writeSendAddrV2Msg` does not look at the negotiated version. `makeEmptyMessage` does
not know `wtxidrelay`, which can be written. `PkScriptLocs` looks at the first input
only to decide whether there is a witness.

Keys and filters. In musig2: `WithNumSigners(1)` and a `RegisterSigner` whose
combination fails lead `NewSession` to a nil key; a `RegisterPubNonce` whose
aggregation fails leaves the session without a way on; unsorted contexts with
`WithNumSigners` can disagree on the joint key; `sortKeys` sorts in place;
`PartialSignature.Decode` returns nil for a short read; `ParseSignature` reduces an
`s` that is too large. In hdkeychain: `Derive` accepts a zero left half privately and
refuses it publicly; a key read back from its string is not reported by
`IsAffectedByIssue172` any more. In bloom: `NewFilter` for 0 elements divides by zero
in floating point, and `NewMerkleBlock` of a block without transactions has no first
hash. In gcs: `HashMatchAny`'s 32-bit index adds matches. In filterdb: `PurgeFilters`
removes the genesis filter too, which `New` does not put back; `PutFilters` with an
unknown type reports an error and yet commits the items before it; `FetchFilter` decodes with the default parameters.

Proof of work. `mineBlock`'s send of a result does not listen to `exitCh`, so `Close`
waits for the caller; `VerifyHeaders` shares the `WaitGroup`. `difficultyToTarget` of
a difficulty of 0 or less is the maximal target. Rounding keeps a difficulty of 2 from
falling to 1.

## 4. The proofs

`FFLDBProofs` proves, for any set of blocks, record lengths, file size and number of
files: type correctness, and, when a crash keeps the files (`~PowerLoss`),
`IndexReadable`, `NeverCorrupt`, `CursorBeyondIndex` and `DurableIsACommit`. None of
these is inductive alone. The strengthening `IndInv` says that every row of an index
lies before the write row committed with it, that the files reach that position, that
the view's write row is between the durable one and the cursor, and that the rollback
point of a commit is between the view's write row and the cursor. Then a write at the
cursor, a truncation to the rollback point and the repair at open all leave committed
records alone.

`DbCacheProofs` proves, for any goroutines, keys and values: `IndInv`,
`WriterSeesCommitted`, `CloseLosesNothing`, `SnapshotAtomicUnlessFlushed` and that the
specification implements `KVStore`. The argument: the write lock makes the committer
unique, a committer holds a read lock so `Close` is not past its wait, during `clear`
leveldb equals the view and during `direct` the cache is empty; and as long as no flush
cleared the cache, the cache over an older leveldb snapshot is the current view.

`DifficultyProofs` proves, for all parameters and all intervals, that a difficulty that
`CalcDifficulty` computed passes the engine's check (`ComputedAccepted`), and that a
later block of one parent never has a higher difficulty (`DifficultyMonotone`). The
first needs that every difficulty of a chain is at least the minimum (`DInv`). The
second goes through the stages of the rule: clamps, deadband and rounding are each
monotone.

`EngineProofs` proves, for any number of calls of `Seal` and `VerifyHeaders`, that
nobody receives a block after `Close` has returned, that no worker finds its channel
closed, and that a closed channel holds a result for every header (`CloseIsFinal`). The
strengthening `EInv` says that `exitCh` is closed before `Close` waits, that no miner
holds a solved block when `Close` has returned, and counts the results of a batch by
the workers that sent one.

Four theorems stand at the end of the module they are about. In each the inductive
invariant speaks of one request, one client or one queue at a time.

- `ConnManager`, `RequestsSafe`: for any number of requests and failures and any
  `TargetOutbound`, a removed request stays removed, no connection leaks, and each
  pending request has a goroutine or timer. `Sound` adds that an unregistered request
  is in none of the handler's sets, that a pending one has not been cancelled, and that
  a goroutine that renews has removed its request, unless the manager stops.
- `Peer`, `NeitherBlocks`: at most one message is between `queueHandler` and
  `outHandler` (`OneInFlight`), for any messages and any size of a trickle.
- `SubscriptionManager`, `ClosedOnce`: for any number of clients and any capacity,
  nothing is sent on a closed channel, and `Stop` leaves no subscription's channel open.
  `ClientSound` adds that who was told "ok" is registered, and that nobody registers
  once `Stop` cancels.
- `Broadcaster`, `Kept`: what `Broadcast` accepted is kept until it is mined; only mined
  transactions are on their way to the handler as confirmed (`BcInd`).

Assumptions: those of the constants. `SizesAssumption`: a record fits in a file;
`NoLoc`, `NoVal`, `NoProc` are distinct from the values they stand beside; `ParamsOK`:
minimal difficulties fit the width of `uint32`, target times and intervals are
integers, also zero and negative ones; `CallsFinite`: finitely many calls and headers.
`RequestsSafe` assumes that its bounds and `TargetOutbound` are natural numbers.

Only model-checked: liveness, everything under power loss, the action property
`ViewChangesByCommit`, what recursive definitions compute (treaps, filters, merkle
trees, coin selection, codecs), and the modules without a theorem.

## 5. Not modelled

- Arithmetic of 256 bits (`nogoec` curve, ecdsa, ellswift), the matrix arithmetic of
  the proof-of-work hash, ciphers and hash functions: out of a model checker's reach.
  Their users are modelled over small groups and given functions.
- Pure encodings (`address`, base58, bech32), byte layout within an element of `wire`,
  `String` methods and small value types (`nogoutil` blocks, transactions, amounts,
  `txsort`): no state, and unit tests reach all of it.
- `neutrino/banman` and `neutrino/chainsync`: one atomic database transaction per call,
  and a table.
- `database/cmd/dbtool`, `limits`, `ossec`, `chaincfg`, `txscript`: tools, system
  calls, constants.
- In `peer`: the downgrade to the first transport and the statistics. In `connmgr`: the
  ban score (a decaying sum in floating point), DNS seeding, Tor. In `addrmgr`: chances
  and ages (a free choice in the model) and network ranges (given). In `nogopow`: the
  header rules of `VerifyHeader`. In `headerfs`: `FetchHeaderAncestors` and truncation
  on Windows.
