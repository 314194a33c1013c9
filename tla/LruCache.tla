------------------------------ MODULE LruCache ------------------------------
(***************************************************************************)
(* What the cache of decrypted blocks promises: the blocks used last, as   *)
(* many as the two limits allow.                                           *)
(***************************************************************************)
EXTENDS Integers, SequencesExt

CONSTANTS
    Keys,       \* block names
    SizeOf,     \* the bytes of each block
    MaxCount,   \* HASH_TABLE_SIZE_COUNT
    MaxBytes    \* HASH_TABLE_SIZE_BYTES

VARIABLES
    recent,     \* the cached blocks, the one used last first
    answer      \* what the last call answered

\* The bytes of some blocks, as pairs of a block and a position in it.
BytesOf(ks) == UNION {{k} \X (1 .. SizeOf[k]) : k \in ks}
TotalSize(ks) == Cardinality(BytesOf(ks))

Fits(s) == Len(s) <= MaxCount /\ TotalSize(ToSet(s)) <= MaxBytes

\* The most recent ones that fit.
Fitting(s) == SubSeq(s, 1, Max({n \in 0 .. Len(s) : Fits(SubSeq(s, 1, n))}))

Init == recent = <<>> /\ answer = "none"

Hit(k) ==
    /\ \E n \in DOMAIN recent : recent[n] = k /\ recent' = <<k>> \o RemoveAt(recent, n)
    /\ answer' = k

Miss(k) == ~Contains(recent, k) /\ answer' = "miss" /\ UNCHANGED recent

Put(k) ==
    /\ ~Contains(recent, k)
    /\ recent' = Fitting(<<k>> \o recent)
    /\ answer' = "none"

Cleanup == recent' = <<>> /\ answer' = "none"

Next == Cleanup \/ \E k \in Keys : Hit(k) \/ Miss(k) \/ Put(k)

Spec == Init /\ [][Next]_<<recent, answer>>
=============================================================================
