---------------------------- MODULE AddrManager ----------------------------
(***************************************************************************)
(* The address manager (addrmgr/addrmanager.go): the addresses a node has  *)
(* heard of, in buckets of new and of tried ones, saved to a file from     *)
(* time to time and loaded when the node starts.                           *)
(*                                                                         *)
(* Every exported method holds a.mtx to its end and is one action.  Time   *)
(* is left out: which entries isBad finds worthless, and which of the      *)
(* others is the oldest, is any choice.                                    *)
(***************************************************************************)
EXTENDS Integers, FiniteSets, Sequences, FiniteSetsExt, SequencesExt

CONSTANTS Addrs,              \* keys of routable addresses
          Sources,            \* keys of the peers that announce them
          Keys,               \* values of the secret that reset draws
          NewBuckets,         \* indices of addrNew
          TriedBuckets,       \* indices of addrTried
          getNewBucket(_, _, _),   \* the hash of key, address and source
          getTriedBucket(_, _),    \* the hash of key and address
          newBucketSize, triedBucketSize, newBucketsPerAddress,
          Damage              \* whether the file may be damaged while the node is down

VARIABLES up,         \* whether the node runs and has loaded the file
          key, addrIndex, addrNew, addrTried, nNew, nTried,
          file        \* peers.json: Missing, Torn, or what savePeers wrote

vars == <<up, key, addrIndex, addrNew, addrTried, nNew, nTried, file>>
tables == <<key, addrIndex, addrNew, addrTried, nNew, nTried>>

\* addrIndex maps the addresses known to records [src, tried, refs].
Known == DOMAIN addrIndex
Without(f, x) == [y \in DOMAIN f \ {x} |-> f[y]]
With(f, x, v) == [y \in DOMAIN f \cup {x} |-> IF y = x THEN v ELSE f[y]]
Missing == [kind |-> "missing"]
Torn == [kind |-> "torn"]

Empty == [addrIndex |-> << >>, addrNew |-> [b \in NewBuckets |-> {}],
          addrTried |-> [b \in TriedBuckets |-> << >>], nNew |-> 0, nTried |-> 0]

-----------------------------------------------------------------------------
(* Adding an address.                                                      *)

\* A mutation: the address stays counted.
UnlinkCounted(t, b, k) ==
    LET last == t.addrIndex[k].refs = 1
    IN  [t EXCEPT !.addrNew[b] = @ \ {k},
                  !.addrIndex = IF last THEN Without(@, k) ELSE [@ EXCEPT ![k].refs = @ - 1]]
\* Removing key k from a new bucket: the last reference removes it altogether.
Unlink(t, b, k) ==
    LET last == t.addrIndex[k].refs = 1
    IN  [t EXCEPT !.addrNew[b] = @ \ {k},
                  !.nNew = IF last THEN @ - 1 ELSE @,
                  !.addrIndex = IF last THEN Without(@, k) ELSE [@ EXCEPT ![k].refs = @ - 1]]
\* The bad entries go, and the oldest of the others.
expireNew(t, b, bad, oldest) == FoldLeft(LAMBDA u, k : Unlink(u, b, k), t, SetToSeq(bad \cup oldest))
Expiries(members) == {<<bad, oldest>> \in (SUBSET members) \X (SUBSET members) :
                        /\ bad \cap oldest = {}
                        /\ Cardinality(oldest) = IF bad = members THEN 0 ELSE 1}

Tables == [addrIndex |-> addrIndex, addrNew |-> addrNew, addrTried |-> addrTried,
           nNew |-> nNew, nTried |-> nTried]
Set(t) == /\ addrIndex' = t.addrIndex /\ addrNew' = t.addrNew /\ addrTried' = t.addrTried
          /\ nNew' = t.nNew /\ nTried' = t.nTried

\* Into the new bucket b, which is first relieved of its worst entries.
Link(t, b, k) == [t EXCEPT !.addrIndex[k].refs = @ + 1, !.addrNew[b] = @ \cup {k}]
AddToBucket(t, b, k) ==
    IF k \in t.addrNew[b] THEN Set(t)
    ELSE IF Cardinality(t.addrNew[b]) > newBucketSize
    THEN \E e \in Expiries(t.addrNew[b]) : Set(Link(expireNew(t, b, e[1], e[2]), b, k))
    ELSE Set(Link(t, b, k))

Learn(t, k, src) ==
    [t EXCEPT !.addrIndex = With(@, k, [src |-> src, tried |-> FALSE, refs |-> 0]), !.nNew = @ + 1]

\* updateAddress: an address that has entries already gets another one only by chance.
AddAddress(k, src) ==
    LET b == getNewBucket(key, k, src)
    IN  /\ up
        /\ IF k \notin Known THEN AddToBucket(Learn(Tables, k, src), b, k)
           ELSE /\ ~addrIndex[k].tried /\ addrIndex[k].refs # newBucketsPerAddress
                /\ AddToBucket(Tables, b, k)
        /\ UNCHANGED <<up, key, file>>

-----------------------------------------------------------------------------
(* An address that answered.                                               *)

InNew(k) == {b \in NewBuckets : k \in addrNew[b]}
\* ka leaves every new bucket; where its tried bucket is full, the oldest entry there goes back to
\* the bucket it came from, or to one that ka left.
Good(k) ==
    LET b == getTriedBucket(key, k)
        left == [Tables EXCEPT !.addrNew = [c \in NewBuckets |-> @[c] \ {k}],
                               !.addrIndex[k].refs = @ - Cardinality(InNew(k)), !.nNew = @ - 1]
        oldBucket == CHOOSE c \in InNew(k) : \A d \in InNew(k) : c <= d
        Evict(i) ==
            LET rm == addrTried[b][i]
                first == getNewBucket(key, rm, addrIndex[rm].src)
                newBucket == IF Cardinality(left.addrNew[first]) >= newBucketSize THEN oldBucket ELSE first
            IN  [left EXCEPT !.addrIndex[k].tried = TRUE, !.addrTried[b][i] = k,
                             !.addrIndex[rm].tried = FALSE, !.addrIndex[rm].refs = @ + 1,
                             !.nNew = @ + 1, !.addrNew[newBucket] = @ \cup {rm}]
    IN  /\ up /\ k \in Known /\ ~addrIndex[k].tried
        /\ IF InNew(k) = {} THEN Set(left)
           ELSE IF Len(addrTried[b]) < triedBucketSize
           THEN Set([left EXCEPT !.addrIndex[k].tried = TRUE, !.addrTried[b] = Append(@, k), !.nTried = @ + 1])
           ELSE \E i \in DOMAIN addrTried[b] : Set(Evict(i))
        /\ UNCHANGED <<up, key, file>>

\* The tables GetAddress may draw from; it draws until it meets an entry.
NumAddresses == nNew + nTried
DrawsTried == NumAddresses > 0 /\ nTried > 0
DrawsNew == NumAddresses > 0 /\ (nTried = 0 \/ nNew > 0)

-----------------------------------------------------------------------------
(* The file.                                                               *)

Saved == [kind |-> "file", key |-> key, src |-> [k \in Known |-> addrIndex[k].src],
          addrNew |-> addrNew, addrTried |-> addrTried]
\* os.Create empties the file before it is written.
savePeers == /\ up /\ file' = Saved /\ UNCHANGED <<up, tables>>
\* The node stops without saving, or in the middle of savePeers.
Crash == /\ up /\ up' = FALSE /\ file' \in {file, Torn}
         /\ key' = key /\ Set(Empty)
\* The handler saves once more when it is told to quit.
Stop == /\ up /\ up' = FALSE /\ file' = Saved
        /\ key' = key /\ Set(Empty)
\* An entry of the address list or of a bucket is lost.
Spoil == /\ Damage /\ ~up /\ file.kind = "file"
         /\ \/ \E k \in DOMAIN file.src : file' = [file EXCEPT !.src = Without(@, k)]
            \/ \E b \in NewBuckets : \E k \in file.addrNew[b] : file' = [file EXCEPT !.addrNew[b] = @ \ {k}]
         /\ UNCHANGED <<up, tables>>

\* References and tried are worked out from the buckets.
Listed(f, k) == Cardinality({b \in NewBuckets : k \in f.addrNew[b]})
InTried(f, k) == \E b \in TriedBuckets : k \in ToSet(f.addrTried[b])
NewUpTo(f, b) == UNION {f.addrNew[c] : c \in {c \in NewBuckets : c <= b}}
TriedUpTo(f, b) == FoldLeft(LAMBDA s, c : s \o (IF c <= b THEN f.addrTried[c] ELSE << >>), << >>,
                            SetToSortSeq(TriedBuckets, <))
NewOf(f) == NewUpTo(f, Max(NewBuckets))
TriedOf(f) == TriedUpTo(f, Max(TriedBuckets))
Restored(f) ==
    [addrIndex |-> [k \in DOMAIN f.src |-> [src |-> f.src[k], tried |-> InTried(f, k), refs |-> Listed(f, k)]],
     addrNew |-> f.addrNew, addrTried |-> f.addrTried,
     nNew |-> Cardinality(NewOf(f)), nTried |-> Len(TriedOf(f))]
Sane(t) == \A k \in DOMAIN t.addrIndex :
             /\ t.addrIndex[k].refs > 0 \/ t.addrIndex[k].tried
             /\ ~(t.addrIndex[k].refs > 0 /\ t.addrIndex[k].tried)
Complete(f) == NewOf(f) \cup ToSet(TriedOf(f)) \subseteq DOMAIN f.src
deserializePeers(f) == f.kind = "file" /\ Complete(f) /\ Sane(Restored(f))

\* What was counted when deserializePeers gave up, the keys of a bucket being in any order.
Counted(f) ==
    CASE f.kind # "file" -> {<<0, 0>>}
      [] f.kind = "file" /\ ~(NewOf(f) \subseteq DOMAIN f.src) ->
            LET b == CHOOSE b \in NewBuckets : /\ ~(f.addrNew[b] \subseteq DOMAIN f.src)
                                               /\ NewUpTo(f, b - 1) \subseteq DOMAIN f.src
            IN  {<<Cardinality(NewUpTo(f, b - 1) \cup seen), 0>> : seen \in SUBSET (f.addrNew[b] \cap DOMAIN f.src)}
      [] f.kind = "file" /\ NewOf(f) \subseteq DOMAIN f.src /\ ~Complete(f) ->
            {<<Cardinality(NewOf(f)),
               CHOOSE n \in 0 .. Len(TriedOf(f)) - 1 : /\ TriedOf(f)[n + 1] \notin DOMAIN f.src
                                                       /\ \A i \in 1 .. n : TriedOf(f)[i] \in DOMAIN f.src>>}
      [] OTHER -> {<<Cardinality(NewOf(f)), Len(TriedOf(f))>>}
\* reset makes the index and the buckets anew and leaves the counters alone.
reset(f) == /\ key' \in Keys
            /\ \E n \in Counted(f) : Set([Empty EXCEPT !.nNew = n[1], !.nTried = n[2]])
\* A file that does not parse is removed.
loadPeers ==
    /\ ~up /\ up' = TRUE
    /\ CASE file = Missing -> key' \in Keys /\ Set(Empty) /\ file' = file
         [] file # Missing /\ deserializePeers(file) -> key' = file.key /\ Set(Restored(file)) /\ file' = file
         [] OTHER -> reset(file) /\ file' = Missing

Init == /\ up = FALSE /\ key \in Keys /\ file = Missing
        /\ addrIndex = Empty.addrIndex /\ addrNew = Empty.addrNew /\ addrTried = Empty.addrTried
        /\ nNew = 0 /\ nTried = 0
Next == \/ \E k \in Addrs, src \in Sources : AddAddress(k, src)
        \/ \E k \in Addrs : Good(k)
        \/ savePeers \/ Crash \/ Stop \/ Spoil \/ loadPeers
Spec == Init /\ [][Next]_vars

-----------------------------------------------------------------------------
(* Properties.                                                             *)

\* The four ways the manager knows its addresses agree: an address of the index is in one tried bucket
\* or counted in each of the new buckets that list it, the buckets list nothing else and stay within
\* their sizes, and the counters that GetAddress trusts to find a bucket to pick from are the numbers
\* of new and of tried addresses.
TablesAgree ==
    /\ \A k \in Known : /\ addrIndex[k].refs = Listed(Tables, k)
                        /\ addrIndex[k].tried <=> InTried(Tables, k)
                        /\ addrIndex[k].tried <=> addrIndex[k].refs = 0
    /\ NewOf(Tables) \cup ToSet(TriedOf(Tables)) = Known
    /\ nNew = Cardinality(NewOf(Tables)) /\ nTried = Len(TriedOf(Tables))
    /\ nNew + nTried = Cardinality(Known)
    /\ \A b \in NewBuckets : Cardinality(addrNew[b]) <= newBucketSize + 1
    /\ \A b \in TriedBuckets : Len(addrTried[b]) <= triedBucketSize

\* What savePeers writes passes the checks of the next start, whenever it is written.
SavedLoads == ~Damage /\ file.kind = "file" => deserializePeers(file)

\* GetAddress, which draws buckets at random until one has an entry, draws from a table that has one.
DrawsEnd == /\ DrawsTried => TriedOf(Tables) # << >>
            /\ DrawsNew => NewOf(Tables) # {}

=============================================================================
