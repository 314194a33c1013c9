-------------------------------- MODULE Cache --------------------------------
(***************************************************************************)
(* cache.c: decrypted blocks in a hash table, and a doubly linked list of  *)
(* their names in the order of their last use, kept together by pointers.  *)
(* The list items are heap cells; only allocated cells have fields, so a   *)
(* use after free has no value.  Every call holds bucseMutex; the eviction *)
(* loop of cachePut is modelled iteration by iteration.                    *)
(***************************************************************************)
EXTENDS DynArray, SequencesExt

CONSTANTS
    Keys,       \* block names
    BucketOf,   \* hexStringToHashIndex of each
    SizeOf,     \* the bytes of each block
    MaxCount,   \* HASH_TABLE_SIZE_COUNT
    MaxBytes,   \* HASH_TABLE_SIZE_BYTES
    Cells       \* addresses of list items; bounds how many there are at a time

Null == 0

\* A block is at most MAX_BLOCK_SIZE long, half of HASH_TABLE_SIZE_BYTES.
ASSUME CacheAssumption ==
    /\ Cells \subseteq Nat \ {Null}
    /\ MaxCount \in Nat \ {0} /\ MaxBytes \in Nat /\ SizeOf \in [Keys -> 0 .. MaxBytes]
    /\ DOMAIN BucketOf = Keys

VARIABLES
    buckets,        \* hashTableBuckets
    items,          \* the allocated list items
    first, last,    \* blockslist
    count, bytes,   \* blockslistCount, blockslistBytes
    pc,             \* "evict" inside the loop of cachePut
    answer          \* what the last call answered

vars == <<buckets, items, first, last, count, bytes, pc, answer>>

Buckets == {BucketOf[k] : k \in Keys}
live == DOMAIN items

\* What cacheCleanup's loop over the list comes to: the first item, and
\* whatever item follows one it came to.
Reached ==
    {c \in live : \A S \in SUBSET live :
        /\ first \in live => first \in S
        /\ \A d \in S : items[d].next \in live => items[d].next \in S
        => c \in S}

\* The position of a key in its bucket, or 0.
Find(k) == SelectInSeq(buckets[BucketOf[k]], LAMBDA b : b.key = k)
ItemOf(k) == buckets[BucketOf[k]][Find(k)].item

\* cacheInit
Init ==
    /\ buckets = [b \in Buckets |-> <<>>]
    /\ items = <<>> /\ first = Null /\ last = Null
    /\ count = 0 /\ bytes = 0
    /\ pc = "idle" /\ answer = "none"

Miss(k) ==
    /\ pc = "idle" /\ Find(k) = 0
    /\ answer' = "miss"
    /\ UNCHANGED <<buckets, items, first, last, count, bytes, pc>>

\* Mutant: the last item stays the last one when it is used.
MoveKeepingLast(c) ==
    LET it == items[c]
    IN /\ items' = [d \in live |->
            [key |-> items[d].key,
             next |-> IF d = c THEN first ELSE IF d = it.prev THEN it.next ELSE items[d].next,
             prev |-> IF d = c THEN Null
                      ELSE IF d = first THEN c
                      ELSE IF d = it.next THEN it.prev ELSE items[d].prev]]
       /\ last' = last
       /\ first' = c

\* The item is taken out of the list and put in front.
MoveToFront(c) ==
    LET it == items[c]
    IN /\ items' = [d \in live |->
            [key |-> items[d].key,
             next |-> IF d = c THEN first ELSE IF d = it.prev THEN it.next ELSE items[d].next,
             prev |-> IF d = c THEN Null
                      ELSE IF d = first THEN c
                      ELSE IF d = it.next THEN it.prev ELSE items[d].prev]]
       /\ last' = IF c = last THEN it.prev ELSE last
       /\ first' = c

\* Mutant: a hit does not count as a use.
HitInPlace(k) ==
    /\ pc = "idle" /\ Find(k) # 0
    /\ answer' = k
    /\ UNCHANGED <<buckets, items, first, last, count, bytes, pc>>

\* cacheGet of a cached block.
Hit(k) ==
    /\ pc = "idle" /\ Find(k) # 0
    /\ answer' = k
    /\ IF ItemOf(k) # first THEN MoveToFront(ItemOf(k)) ELSE UNCHANGED <<items, first, last>>
    /\ UNCHANGED <<buckets, count, bytes, pc>>

\* Mutant: the size of a new block is not added up.
PutUncounted(k) ==
    /\ pc = "idle" /\ Find(k) = 0 /\ Cells # live
    /\ LET c == Min(Cells \ live)
       IN /\ buckets' = [buckets EXCEPT ![BucketOf[k]] = Append(@, [key |-> k, size |-> SizeOf[k], item |-> c])]
          /\ items' = [d \in live \union {c} |->
                IF d = c THEN [key |-> k, next |-> first, prev |-> Null]
                ELSE IF d = first THEN [items[d] EXCEPT !.prev = c] ELSE items[d]]
          /\ first' = c
          /\ last' = IF last = Null THEN c ELSE last
    /\ count' = count + 1
    /\ pc' = "evict" /\ answer' = "none"
    /\ UNCHANGED bytes

\* cachePut, up to its loop; decryptBlock calls it for a block cacheGet missed.
Put(k) ==
    /\ pc = "idle" /\ Find(k) = 0 /\ Cells # live
    /\ LET c == Min(Cells \ live)
       IN /\ buckets' = [buckets EXCEPT ![BucketOf[k]] = Append(@, [key |-> k, size |-> SizeOf[k], item |-> c])]
          /\ items' = [d \in live \union {c} |->
                IF d = c THEN [key |-> k, next |-> first, prev |-> Null]
                ELSE IF d = first THEN [items[d] EXCEPT !.prev = c] ELSE items[d]]
          /\ first' = c
          /\ last' = IF last = Null THEN c ELSE last
    /\ count' = count + 1 /\ bytes' = bytes + SizeOf[k]
    /\ pc' = "evict" /\ answer' = "none"

TooMuch == count > MaxCount \/ bytes > MaxBytes

\* The position in its bucket of the block used longest ago.
Oldest == Find(items[last].key)

\* One round of the loop: that block goes.
Evict ==
    /\ pc = "evict" /\ TooMuch /\ Oldest # 0
    /\ LET b == BucketOf[items[last].key]
       IN /\ count' = count - 1 /\ bytes' = bytes - buckets[b][Oldest].size
          /\ buckets' = [buckets EXCEPT ![b] = RemoveUnordered(buckets[b], Oldest)]
    /\ last' = items[last].prev
    /\ items' = [d \in live \ {last} |-> IF d = last' THEN [items[d] EXCEPT !.next = Null] ELSE items[d]]
    /\ UNCHANGED <<first, pc, answer>>

\* Mutant: an "if" in place of the loop.
EvictOnce ==
    /\ pc = "evict"
    /\ pc' = "idle"
    /\ UNCHANGED <<buckets, items, first, last, count, bytes, answer>>

\* The loop ends, early if the last block is not in the table.
EvictDone ==
    /\ pc = "evict"
    /\ TooMuch => Oldest = 0
    /\ pc' = "idle"
    /\ UNCHANGED <<buckets, items, first, last, count, bytes, answer>>

\* cacheCleanup frees the blocks, and the list items from the first on.
Cleanup ==
    /\ pc = "idle"
    /\ buckets' = [b \in Buckets |-> <<>>]
    /\ items' = [d \in live \ Reached |-> items[d]]
    /\ first' = Null /\ last' = Null
    /\ count' = 0 /\ bytes' = 0 /\ answer' = "none"
    /\ UNCHANGED pc

Next == Evict \/ EvictDone \/ Cleanup \/ \E k \in Keys : Miss(k) \/ Hit(k) \/ Put(k)

Spec == Init /\ [][Next]_vars

-----------------------------------------------------------------------------
Blocks == UNION {ToSet(buckets[b]) : b \in Buckets}
Cached == {b.key : b \in Blocks}

\* The pointers link the items of s in this order, in both directions.
Links(s) ==
    /\ first = IF s = <<>> THEN Null ELSE s[1]
    /\ last = IF s = <<>> THEN Null ELSE s[Len(s)]
    /\ \A n \in DOMAIN s :
        /\ items[s[n]].next = IF n = Len(s) THEN Null ELSE s[n+1]
        /\ items[s[n]].prev = IF n = 1 THEN Null ELSE s[n-1]

\* The list, and the blocks in it, the one used last first.
List == CHOOSE s \in [1 .. Cardinality(live) -> live] : Links(s)
Order == LET s == List IN [n \in DOMAIN s |-> items[s[n]].key]

Lru == INSTANCE LruCache WITH recent <- Order

\* The fields keep their types.
TypeOK ==
    /\ buckets \in [Buckets -> Seq([key : Keys, size : Nat, item : Cells])]
    /\ live \subseteq Cells
    /\ items \in [live -> [key : Keys, next : Cells \union {Null}, prev : Cells \union {Null}]]
    /\ {first, last} \subseteq Cells \union {Null}
    /\ count \in Nat /\ bytes \in Nat /\ pc \in {"idle", "evict"}

\* Followed either way the list has the same items, all the allocated ones and
\* no freed one, from blockslist.first to blockslist.last: no use after free,
\* no leak, no cycle (cache.c:93-105, 144-152, 184-192).
ListIsDouble == \E s \in SetToSeqs(live) : Links(s)

\* The table and the list hold the same blocks, each once, so that the eviction
\* loop finds the block it is to evict ("block expected but not found in
\* cache", cache.c:175) and the two counters say what is there.
TableMatchesList ==
    /\ \A b \in Blocks : b.item \in live /\ items[b.item].key = b.key /\ b.size = SizeOf[b.key]
    /\ {b.item : b \in Blocks} = live
    /\ \A b \in Buckets : \A m, n \in DOMAIN buckets[b] : buckets[b][m].key = buckets[b][n].key => m = n
    /\ count = Cardinality(Cached)
    /\ bytes = Lru!TotalSize(Cached)

\* Between two calls the cache is within both of its limits.
WithinLimits == pc = "idle" => ~TooMuch

\* The table, the list and the eviction implement a cache of the blocks used
\* last: a call hits exactly if its block is among them.
Recent == IF pc = "evict" THEN Lru!Fitting(Order) ELSE Order
Fitted == INSTANCE LruCache WITH recent <- Recent
ImplementsLru == Fitted!Spec
=============================================================================
