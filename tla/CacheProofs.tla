----------------------------- MODULE CacheProofs -----------------------------
(***************************************************************************)
(* Proofs about Cache for any blocks, sizes, limits and buckets: the table *)
(* and the list agree, no freed item is reached, the limits hold, and the  *)
(* whole is a cache of the blocks used last.                               *)
(***************************************************************************)
EXTENDS Cache, TLAPS, WellFoundedInduction, SequenceTheorems, FiniteSetTheorems

\* A nonempty set of naturals has a least element.
LEMMA LeastNatural ==
    ASSUME NEW S \in SUBSET Nat, S # {}
    PROVE  \E m \in S : \A n \in S : m <= n
<1> DEFINE Less == {ss \in Nat \X Nat : ss[1] < ss[2]}
<1>1. IsWellFoundedOn(Less, Nat)
    BY NatLessThanWellFounded DEF OpToRel
<1>2. \E m \in S : \A n \in S : <<n, m>> \notin Less
    <2> HIDE DEF Less
    <2> QED BY <1>1, WFMin
<1>3. PICK m \in S : \A n \in S : <<n, m>> \notin Less
    BY <1>2
<1>4. ASSUME NEW n \in S PROVE m <= n
    <2>1. <<n, m>> \notin Less
        BY <1>3
    <2> QED BY <2>1
<1> QED BY <1>4

\* Unordered removal shortens a sequence by one and keeps the type of its elements.
LEMMA RemoveUnorderedType ==
    ASSUME NEW S, NEW s \in Seq(S), NEW n
    PROVE  /\ RemoveUnordered(s, n) \in Seq(S)
           /\ s # <<>> => Len(RemoveUnordered(s, n)) = Len(s) - 1
           /\ \A k \in DOMAIN RemoveUnordered(s, n) : \E l \in DOMAIN s : RemoveUnordered(s, n)[k] = s[l]
BY DEF RemoveUnordered

\* A sequence without repetitions has as many elements as positions.
LEMMA CountDistinct ==
    ASSUME NEW S, NEW s \in Seq(S), \A m, n \in DOMAIN s : s[m] = s[n] => m = n
    PROVE  /\ IsFiniteSet(ToSet(s)) /\ Cardinality(ToSet(s)) = Len(s)
           /\ s \in SetToSeqs(ToSet(s))
<1>1. DOMAIN s = 1 .. Len(s) /\ Len(s) \in Nat
    BY LenProperties
<1>2. s \in [1 .. Len(s) -> ToSet(s)]
    BY <1>1, LenProperties DEF ToSet
<1>3. s \in Bijection(1 .. Len(s), ToSet(s))
    <2>1. \A x \in ToSet(s) : \E n \in 1 .. Len(s) : s[n] = x
        BY <1>1 DEF ToSet
    <2>2. s \in Surjection(1 .. Len(s), ToSet(s))
        BY <1>2, <2>1 DEF Surjection
    <2>3. s \in Injection(1 .. Len(s), ToSet(s))
        BY <1>1, <1>2 DEF Injection, IsInjective
    <2> QED BY <2>2, <2>3 DEF Bijection
<1>4. ExistsBijection(1 .. Len(s), ToSet(s))
    BY <1>3 DEF ExistsBijection
<1>5. IsFiniteSet(ToSet(s)) /\ Cardinality(ToSet(s)) = Len(s)
    BY <1>1, <1>4, FS_NatBijection, FS_CountingElements
<1>6. s \in SetToSeqs(ToSet(s))
    BY <1>1, <1>2, <1>5 DEF SetToSeqs
<1> QED BY <1>5, <1>6

-----------------------------------------------------------------------------
\* Sizes.

LEMMA TotalSizeIs == \A ks : Lru!TotalSize(ks) = Cardinality(Lru!BytesOf(ks))
BY DEF Lru!TotalSize, Lru!Cardinality, Cardinality

\* A block adds its size to that of the others.
LEMMA SizeOfMore ==
    ASSUME NEW ks \in SUBSET Keys, IsFiniteSet(Lru!BytesOf(ks)), NEW k \in Keys \ ks
    PROVE  /\ IsFiniteSet(Lru!BytesOf(ks \union {k}))
           /\ Lru!TotalSize(ks \union {k}) = Lru!TotalSize(ks) + SizeOf[k]
<1> DEFINE old == Lru!BytesOf(ks)
           new == {k} \X (1 .. SizeOf[k])
<1>1. SizeOf[k] \in Nat
    BY CacheAssumption
<1>2. IsFiniteSet(new) /\ Cardinality(new) = SizeOf[k]
    <2>1. IsFiniteSet({k}) /\ Cardinality({k}) = 1
        BY FS_Singleton
    <2>2. IsFiniteSet(1 .. SizeOf[k]) /\ Cardinality(1 .. SizeOf[k]) = SizeOf[k]
        BY <1>1, FS_Interval
    <2>3. IsFiniteSet(new) /\ Cardinality(new) = 1 * SizeOf[k]
        BY <2>1, <2>2, FS_Product
    <2> QED BY <1>1, <2>3
<1>3. Lru!BytesOf(ks \union {k}) = old \union new
    BY DEF Lru!BytesOf
<1>4. old \intersect new = {}
    BY DEF Lru!BytesOf
<1>5. /\ IsFiniteSet(old \union new)
      /\ Cardinality(old \union new) = Cardinality(old) + Cardinality(new) - Cardinality(old \intersect new)
    <2> HIDE DEF old, new
    <2> QED BY <1>2, FS_Union DEF old
<1>6. Cardinality(old) \in Nat
    BY FS_CardinalityType
<1>7. Cardinality(old \intersect new) = 0
    <2> HIDE DEF old, new
    <2> QED BY <1>4, FS_EmptySet, Zenon
<1>8. Lru!TotalSize(ks \union {k}) = Cardinality(old \union new) /\ Lru!TotalSize(ks) = Cardinality(old)
    BY <1>3, TotalSizeIs
<1> HIDE DEF old, new
<1>9. Cardinality(old \union new) = Cardinality(old) + SizeOf[k]
    BY <1>1, <1>2, <1>5, <1>6, <1>7
<1>10. IsFiniteSet(Lru!BytesOf(ks \union {k}))
    BY <1>3, <1>5
<1> QED BY <1>8, <1>9, <1>10

\* Fewer blocks have at most the size of all.
LEMMA SizeOfFewer ==
    ASSUME NEW ks \in SUBSET Keys, IsFiniteSet(Lru!BytesOf(ks)), NEW fewer \in SUBSET ks
    PROVE  /\ IsFiniteSet(Lru!BytesOf(fewer))
           /\ Lru!TotalSize(fewer) \in Nat /\ Lru!TotalSize(ks) \in Nat
           /\ Lru!TotalSize(fewer) <= Lru!TotalSize(ks)
<1>1. Lru!BytesOf(fewer) \in SUBSET Lru!BytesOf(ks)
    BY DEF Lru!BytesOf
<1> QED BY <1>1, FS_Subset, FS_CardinalityType, TotalSizeIs

\* A block that goes takes its size with it.
LEMMA SizeOfLess ==
    ASSUME NEW ks \in SUBSET Keys, IsFiniteSet(Lru!BytesOf(ks)), NEW k \in ks
    PROVE  /\ IsFiniteSet(Lru!BytesOf(ks \ {k}))
           /\ Lru!TotalSize(ks \ {k}) \in Nat
           /\ Lru!TotalSize(ks \ {k}) = Lru!TotalSize(ks) - SizeOf[k]
<1> DEFINE rest == ks \ {k}
<1>1. rest \in SUBSET Keys /\ k \in Keys \ rest /\ ks = rest \union {k} /\ rest \in SUBSET ks
    OBVIOUS
<1>2. IsFiniteSet(Lru!BytesOf(rest)) /\ Lru!TotalSize(rest) \in Nat
    BY <1>1, SizeOfFewer
<1> HIDE DEF rest
<1>3. Lru!TotalSize(ks) = Lru!TotalSize(rest) + SizeOf[k]
    BY <1>1, <1>2, SizeOfMore
<1>4. SizeOf[k] \in Nat
    BY CacheAssumption
<1> QED BY <1>2, <1>3, <1>4 DEF rest

LEMMA SizeOfNone == IsFiniteSet(Lru!BytesOf({})) /\ Lru!TotalSize({}) = 0
<1>1. Lru!BytesOf({}) = {}
    BY DEF Lru!BytesOf
<1> QED BY <1>1, FS_EmptySet, TotalSizeIs

\* One block is within both limits.
LEMMA OneFits ==
    ASSUME NEW k \in Keys
    PROVE  Lru!TotalSize({k}) = SizeOf[k] /\ SizeOf[k] <= MaxBytes /\ SizeOf[k] \in Nat
<1>1. Lru!TotalSize({} \union {k}) = Lru!TotalSize({}) + SizeOf[k]
    BY SizeOfNone, SizeOfMore
<1>2. {} \union {k} = {k} /\ SizeOf[k] \in 0 .. MaxBytes /\ MaxBytes \in Nat
    BY CacheAssumption
<1> QED BY <1>1, <1>2, SizeOfNone

LEMMA FitsIs == \A s : Lru!Fits(s) <=> Len(s) <= MaxCount /\ Lru!TotalSize(ToSet(s)) <= MaxBytes
BY DEF Lru!Fits, Lru!ToSet, ToSet

LEMMA PrefixElements ==
    ASSUME NEW S, NEW s \in Seq(S), NEW n \in 0 .. Len(s)
    PROVE  /\ SubSeq(s, 1, n) \in Seq(S) /\ Len(SubSeq(s, 1, n)) = n
           /\ DOMAIN SubSeq(s, 1, n) = 1 .. n
           /\ \A k \in 1 .. n : SubSeq(s, 1, n)[k] = s[k]
           /\ ToSet(SubSeq(s, 1, n)) = {s[k] : k \in 1 .. n}
<1>1. /\ SubSeq(s, 1, n) \in Seq(S) /\ Len(SubSeq(s, 1, n)) = n
      /\ \A k \in 1 .. n : SubSeq(s, 1, n)[k] = s[k]
    BY LenProperties, ElementOfSeq, SubSeqProperties
<1>2. DOMAIN SubSeq(s, 1, n) = 1 .. n
    BY <1>1, LenProperties
<1> QED BY <1>1, <1>2 DEF ToSet

\* What fits fits without its end.
LEMMA PrefixFits ==
    ASSUME NEW s \in Seq(Keys), IsFiniteSet(Lru!BytesOf(ToSet(s))),
           NEW m \in 0 .. Len(s), NEW n \in 0 .. m, Lru!Fits(SubSeq(s, 1, m))
    PROVE  Lru!Fits(SubSeq(s, 1, n))
<1>1. Len(s) \in Nat /\ DOMAIN s = 1 .. Len(s) /\ n \in 0 .. Len(s) /\ m \in Nat /\ n \in Nat /\ n <= m
    BY LenProperties
<1>2. /\ Len(SubSeq(s, 1, m)) = m /\ Len(SubSeq(s, 1, n)) = n
      /\ ToSet(SubSeq(s, 1, m)) = {s[k] : k \in 1 .. m}
      /\ ToSet(SubSeq(s, 1, n)) = {s[k] : k \in 1 .. n}
    BY <1>1, PrefixElements
<1>3. /\ ToSet(SubSeq(s, 1, n)) \in SUBSET ToSet(SubSeq(s, 1, m))
      /\ ToSet(SubSeq(s, 1, m)) \in SUBSET ToSet(s)
    BY <1>1, <1>2 DEF ToSet
<1>4. ToSet(s) \in SUBSET Keys
    BY <1>1, ElementOfSeq DEF ToSet
<1>5. IsFiniteSet(Lru!BytesOf(ToSet(SubSeq(s, 1, m))))
    BY <1>3, <1>4, SizeOfFewer
<1>6. ToSet(SubSeq(s, 1, m)) \in SUBSET Keys
    BY <1>3, <1>4
<1>7. /\ Lru!TotalSize(ToSet(SubSeq(s, 1, n))) \in Nat /\ Lru!TotalSize(ToSet(SubSeq(s, 1, m))) \in Nat
      /\ Lru!TotalSize(ToSet(SubSeq(s, 1, n))) <= Lru!TotalSize(ToSet(SubSeq(s, 1, m)))
    BY <1>3, <1>5, <1>6, SizeOfFewer
<1>8. m <= MaxCount /\ Lru!TotalSize(ToSet(SubSeq(s, 1, m))) <= MaxBytes
    BY <1>2, FitsIs
<1>9. n <= MaxCount /\ Lru!TotalSize(ToSet(SubSeq(s, 1, n))) <= MaxBytes
    BY <1>1, <1>7, <1>8, CacheAssumption
<1> QED BY <1>2, <1>9, FitsIs

\* The prefix that fits is the one that cannot be made longer.
LEMMA FittingIs ==
    ASSUME NEW s \in Seq(Keys), IsFiniteSet(Lru!BytesOf(ToSet(s))), NEW n \in 0 .. Len(s),
           Lru!Fits(SubSeq(s, 1, n)), n # Len(s) => ~Lru!Fits(SubSeq(s, 1, n+1))
    PROVE  Lru!Fitting(s) = SubSeq(s, 1, n)
<1> DEFINE N == {m \in 0 .. Len(s) : Lru!Fits(SubSeq(s, 1, m))}
<1>1. Len(s) \in Nat
    BY LenProperties
<1>2. ASSUME NEW m \in N PROVE m <= n
    <2>1. SUFFICES ASSUME ~(m <= n) PROVE FALSE
        OBVIOUS
    <2>2. m \in 0 .. Len(s) /\ n + 1 \in 0 .. m /\ n # Len(s)
        BY <1>1, <2>1
    <2> QED BY <2>2, PrefixFits
<1>3. n \in N
    OBVIOUS
<1>4. \A x \in N : (\A y \in N : x >= y) => x = n
    BY <1>1, <1>2, <1>3
<1> HIDE DEF N
<1>5. Lru!Max(N) = n
    BY <1>2, <1>3, <1>4, N \subseteq Int DEF Lru!Max
<1> QED BY <1>5 DEF Lru!Fitting, N

LEMMA FittingExists ==
    ASSUME NEW s \in Seq(Keys)
    PROVE  \E n \in 0 .. Len(s) : /\ Lru!Fits(SubSeq(s, 1, n))
                                  /\ n # Len(s) => ~Lru!Fits(SubSeq(s, 1, n+1))
<1> DEFINE TooLong == {m \in 0 .. Len(s) : ~Lru!Fits(SubSeq(s, 1, m))}
<1>1. Len(s) \in Nat
    BY LenProperties
<1>2. CASE TooLong = {}
    BY <1>1, <1>2
<1>3. CASE TooLong # {}
    <2>1. TooLong \in SUBSET Nat
        BY <1>1
    <2>2. PICK m \in TooLong : \A n \in TooLong : m <= n
        <3> HIDE DEF TooLong
        <3> QED BY <1>3, <2>1, LeastNatural
    <2>3. m # 0
        <3>1. ToSet(SubSeq(s, 1, 0)) = {} /\ Len(SubSeq(s, 1, 0)) = 0
            BY <1>1, PrefixElements
        <3>2. Lru!TotalSize(ToSet(SubSeq(s, 1, 0))) = 0
            BY <3>1, SizeOfNone
        <3>3. 0 <= MaxCount /\ 0 <= MaxBytes
            BY CacheAssumption
        <3>4. Lru!Fits(SubSeq(s, 1, 0))
            BY <3>1, <3>2, <3>3, FitsIs
        <3> QED BY <3>4
    <2>4. m - 1 \in 0 .. Len(s) /\ m - 1 \notin TooLong /\ (m - 1) + 1 = m
        BY <1>1, <2>1, <2>2, <2>3
    <2> QED BY <2>2, <2>4
<1> QED BY <1>2, <1>3

LEMMA FittingWhole ==
    ASSUME NEW s \in Seq(Keys), IsFiniteSet(Lru!BytesOf(ToSet(s))), Lru!Fits(s)
    PROVE  Lru!Fitting(s) = s
<1>1. Len(s) \in 0 .. Len(s) /\ SubSeq(s, 1, Len(s)) = s
    BY LenProperties, SubSeqFull
<1> QED BY <1>1, FittingIs

\* The last of too many blocks is none of those that fit.
LEMMA FittingShorter ==
    ASSUME NEW s \in Seq(Keys), IsFiniteSet(Lru!BytesOf(ToSet(s))), ~Lru!Fits(s), s # <<>>
    PROVE  Lru!Fitting(Front(s)) = Lru!Fitting(s)
<1>0. Len(s) \in Nat \ {0}
    BY LenProperties, EmptySeq
<1>1. Len(s) \in Nat \ {0} /\ DOMAIN s = 1 .. Len(s) /\ SubSeq(s, 1, Len(s)) = s
    BY LenProperties, EmptySeq, SubSeqFull
<1>2. /\ Front(s) \in Seq(Keys) /\ Len(Front(s)) = Len(s) - 1
      /\ ToSet(Front(s)) = {s[k] : k \in 1 .. Len(s) - 1}
    BY <1>1, PrefixElements DEF Front
<1>3. PICK n \in 0 .. Len(s) - 1 : /\ Lru!Fits(SubSeq(Front(s), 1, n))
                                   /\ n # Len(s) - 1 => ~Lru!Fits(SubSeq(Front(s), 1, n+1))
    BY <1>2, FittingExists
<1>4. ASSUME NEW m \in 0 .. Len(s) - 1 PROVE SubSeq(Front(s), 1, m) = SubSeq(s, 1, m)
    <2>1. /\ SubSeq(s, 1, m) \in Seq(Keys) /\ Len(SubSeq(s, 1, m)) = m
          /\ \A k \in 1 .. m : SubSeq(s, 1, m)[k] = s[k]
        BY <1>1, PrefixElements
    <2>2. /\ SubSeq(Front(s), 1, m) \in Seq(Keys) /\ Len(SubSeq(Front(s), 1, m)) = m
          /\ \A k \in 1 .. m : SubSeq(Front(s), 1, m)[k] = Front(s)[k]
        BY <1>2, PrefixElements
    <2>3. \A k \in 1 .. Len(s) - 1 : Front(s)[k] = s[k]
        BY <1>1, PrefixElements DEF Front
    <2>4. \A k \in 1 .. m : SubSeq(Front(s), 1, m)[k] = SubSeq(s, 1, m)[k]
        BY <1>1, <2>1, <2>2, <2>3
    <2> QED BY <2>1, <2>2, <2>4, SeqEqual
<1>5. Lru!Fitting(s) = SubSeq(s, 1, n)
    <2>0. n \in 0 .. Len(s) /\ SubSeq(Front(s), 1, n) = SubSeq(s, 1, n)
        BY <1>1, <1>4
    <2>1. Lru!Fits(SubSeq(s, 1, n))
        BY <1>3, <2>0
    <2>2. ~Lru!Fits(SubSeq(s, 1, n+1))
        <3>1. CASE n = Len(s) - 1
            <4>1. n + 1 = Len(s)
                BY <1>1, <3>1
            <4> QED BY <1>1, <4>1
        <3>2. CASE n # Len(s) - 1
            <4>1. n + 1 \in 0 .. Len(s) - 1
                BY <1>0, <3>2
            <4>2. SubSeq(Front(s), 1, n+1) = SubSeq(s, 1, n+1)
                BY <1>4, <4>1
            <4> QED BY <1>3, <3>2, <4>2
        <3> QED BY <3>1, <3>2
    <2> QED BY <2>0, <2>1, <2>2, FittingIs
<1>6. Lru!Fitting(Front(s)) = SubSeq(Front(s), 1, n)
    <2>0. ToSet(s) = {s[k] : k \in 1 .. Len(s)} /\ \A k \in 1 .. Len(s) : s[k] \in Keys
        BY <1>1, ElementOfSeq DEF ToSet
    <2>1. ToSet(Front(s)) \in SUBSET ToSet(s) /\ ToSet(s) \in SUBSET Keys
        BY <1>1, <1>2, <2>0
    <2>2. IsFiniteSet(Lru!BytesOf(ToSet(Front(s))))
        BY <2>1, SizeOfFewer
    <2> QED BY <1>2, <1>3, <2>2, FittingIs
<1> QED BY <1>3, <1>4, <1>5, <1>6

-----------------------------------------------------------------------------
\* The list.  These facts are about any items I with ends f and l, so that they
\* hold of the list before a step and of the one after it.

LinksOf(s, I, f, l) ==
    /\ f = IF s = <<>> THEN Null ELSE s[1]
    /\ l = IF s = <<>> THEN Null ELSE s[Len(s)]
    /\ \A n \in DOMAIN s :
        /\ I[s[n]].next = IF n = Len(s) THEN Null ELSE s[n+1]
        /\ I[s[n]].prev = IF n = 1 THEN Null ELSE s[n-1]

ListOf(I, f, l) == CHOOSE s \in [1 .. Cardinality(DOMAIN I) -> DOMAIN I] : LinksOf(s, I, f, l)
OrderOf(I, f, l) == LET s == ListOf(I, f, l) IN [n \in DOMAIN s |-> I[s[n]].key]

\* s lists all items, each once.
Ordered(s, I, f, l) ==
    /\ s \in Seq(DOMAIN I) /\ ToSet(s) = DOMAIN I
    /\ \A m, n \in DOMAIN s : s[m] = s[n] => m = n
    /\ LinksOf(s, I, f, l)

LEMMA SameLinks ==
    ASSUME NEW I, NEW f, NEW l, NEW N \in Nat,
           NEW s \in [1 .. N -> DOMAIN I], NEW t \in [1 .. N -> DOMAIN I],
           LinksOf(s, I, f, l), LinksOf(t, I, f, l)
    PROVE  s = t
<1> DEFINE Differ == {n \in 1 .. N : s[n] # t[n]}
<1>1. Len(s) = N /\ Len(t) = N /\ DOMAIN s = 1 .. N /\ DOMAIN t = 1 .. N
    OBVIOUS
<1>2. SUFFICES ASSUME Differ # {} PROVE FALSE
    OBVIOUS
<1>3. PICK m \in Differ : \A n \in Differ : m <= n
    <2>1. Differ \in SUBSET Nat
        OBVIOUS
    <2> HIDE DEF Differ
    <2> QED BY <1>2, <2>1, LeastNatural
<1>4. s # <<>> /\ t # <<>>
    BY <1>1, <1>3
<1>5. CASE m = 1
    BY <1>3, <1>4, <1>5 DEF LinksOf
<1>6. CASE m # 1
    <2>1. m - 1 \in 1 .. N /\ m - 1 \notin Differ /\ m - 1 # N /\ (m - 1) + 1 = m
        BY <1>3, <1>6
    <2>2. s[m-1] = t[m-1]
        BY <2>1
    <2>3. I[s[m-1]].next = s[m] /\ I[t[m-1]].next = t[m]
        BY <1>1, <2>1 DEF LinksOf
    <2> QED BY <1>3, <2>2, <2>3
<1> QED BY <1>5, <1>6

LEMMA OrderIs ==
    ASSUME NEW I, NEW f, NEW l, NEW s, Ordered(s, I, f, l)
    PROVE  OrderOf(I, f, l) = [n \in DOMAIN s |-> I[s[n]].key]
<1>1. Cardinality(DOMAIN I) = Len(s) /\ Len(s) \in Nat /\ s \in [1 .. Len(s) -> DOMAIN I]
    BY CountDistinct, LenProperties DEF Ordered
<1>2. LinksOf(s, I, f, l)
    BY DEF Ordered
<1>3. /\ ListOf(I, f, l) \in [1 .. Len(s) -> DOMAIN I]
      /\ LinksOf(ListOf(I, f, l), I, f, l)
    BY <1>1, <1>2 DEF ListOf
<1>4. ListOf(I, f, l) = s
    BY <1>1, <1>2, <1>3, SameLinks
<1> QED BY <1>4 DEF OrderOf

Items == [key : Keys, next : Cells \union {Null}, prev : Cells \union {Null}]

\* A new item is put in front.
LEMMA AddedInFront ==
    ASSUME NEW I, NEW f, NEW l, NEW s, Ordered(s, I, f, l), I \in [DOMAIN I -> Items],
           DOMAIN I \subseteq Cells, NEW c \in Cells, c \notin DOMAIN I, NEW k,
           NEW J, J = [d \in DOMAIN I \union {c} |->
                        IF d = c THEN [key |-> k, next |-> f, prev |-> Null]
                        ELSE IF d = f THEN [I[d] EXCEPT !.prev = c] ELSE I[d]]
    PROVE  /\ Ordered(<<c>> \o s, J, c, IF l = Null THEN c ELSE l)
           /\ J[c].key = k /\ \A d \in DOMAIN I : J[d].key = I[d].key
<1> DEFINE t == <<c>> \o s
<1>1. /\ DOMAIN s = 1 .. Len(s) /\ Len(s) \in Nat /\ \A n \in 1 .. Len(s) : s[n] \in DOMAIN I
      /\ s = <<>> <=> Len(s) = 0
    BY LenProperties, ElementOfSeq DEF Ordered
<1>2. c # Null /\ Null \notin DOMAIN I
    BY CacheAssumption
<1>3. DOMAIN J = DOMAIN I \union {c}
    OBVIOUS
<1>4. /\ t \in Seq(DOMAIN J) /\ Len(t) = Len(s) + 1 /\ DOMAIN t = 1 .. Len(s) + 1
      /\ t[1] = c /\ \A n \in 1 .. Len(s) : t[n+1] = s[n]
      /\ \A n \in 2 .. Len(s) + 1 : t[n] = s[n-1]
      /\ t # <<>>
    <2>1. s \in Seq(DOMAIN J) /\ <<c>> \in Seq(DOMAIN J) /\ Len(<<c>>) = 1 /\ <<c>>[1] = c
        BY <1>1, <1>3, LenProperties, SeqMonotonic DEF Ordered
    <2> HIDE DEF Ordered
    <2>2. /\ t \in Seq(DOMAIN J) /\ Len(t) = Len(s) + 1
          /\ \A n \in 1 .. Len(s) + 1 : t[n] = IF n <= 1 THEN <<c>>[n] ELSE s[n - 1]
        BY <1>1, <2>1, ConcatProperties
    <2> HIDE DEF t
    <2>3. DOMAIN t = 1 .. Len(s) + 1
        BY <2>2, LenProperties
    <2>4. ASSUME NEW n \in 1 .. Len(s) PROVE t[n+1] = s[n]
        <3>1. n + 1 \in 1 .. Len(s) + 1 /\ ~(n + 1 <= 1) /\ (n + 1) - 1 = n
            BY <1>1
        <3> QED BY <2>2, <3>1
    <2>5. \A n \in 2 .. Len(s) + 1 : t[n] = s[n-1]
        BY <1>1, <2>2
    <2>6. t # <<>>
        BY <1>1, <2>2
    <2> QED BY <1>1, <2>1, <2>2, <2>3, <2>4, <2>5, <2>6
<1> HIDE DEF t
<1>5. /\ J[c] = [key |-> k, next |-> f, prev |-> Null]
      /\ \A d \in DOMAIN I : /\ J[d].key = I[d].key /\ J[d].next = I[d].next
                             /\ J[d].prev = IF d = f THEN c ELSE I[d].prev
    BY DEF Items
<1>6. ToSet(t) = DOMAIN J
    <2>1. ASSUME NEW d \in DOMAIN I PROVE \E n \in DOMAIN t : t[n] = d
        <3>1. PICK n \in 1 .. Len(s) : s[n] = d
            BY <1>1 DEF Ordered, ToSet
        <3>2. n + 1 \in DOMAIN t /\ t[n+1] = d
            BY <1>1, <1>4, <3>1
        <3> QED BY <3>2
    <2>2. 1 \in DOMAIN t
        BY <1>1, <1>4
    <2>3. \A n \in DOMAIN t : t[n] \in DOMAIN J
        BY <1>4, ElementOfSeq
    <2> QED BY <1>3, <1>4, <2>1, <2>2, <2>3 DEF ToSet
<1>7. ASSUME NEW m \in DOMAIN t, NEW n \in DOMAIN t, t[m] = t[n] PROVE m = n
    <2>1. \A x, y \in DOMAIN s : s[x] = s[y] => x = y
        BY DEF Ordered
    <2>2. \A x \in 2 .. Len(s) + 1 : x - 1 \in 1 .. Len(s) /\ t[x] = s[x-1] /\ t[x] # c
        BY <1>1, <1>4
    <2>3. m \in 1 .. Len(s) + 1 /\ n \in 1 .. Len(s) + 1
        BY <1>4
    <2>4. CASE m = 1 \/ n = 1
        BY <1>1, <1>4, <1>7, <2>2, <2>3, <2>4
    <2>5. CASE m # 1 /\ n # 1
        <3>1. m \in 2 .. Len(s) + 1 /\ n \in 2 .. Len(s) + 1
            BY <1>1, <2>3, <2>5
        <3>2. m - 1 \in DOMAIN s /\ n - 1 \in DOMAIN s /\ s[m-1] = s[n-1]
            BY <1>1, <1>7, <2>2, <3>1
        <3>3. m - 1 = n - 1
            BY <2>1, <3>2
        <3> QED BY <3>1, <3>3
    <2> QED BY <2>4, <2>5
<1>8. LinksOf(t, J, c, IF l = Null THEN c ELSE l)
    <2>1. /\ f = IF s = <<>> THEN Null ELSE s[1]
          /\ l = IF s = <<>> THEN Null ELSE s[Len(s)]
          /\ \A n \in 1 .. Len(s) :
                /\ I[s[n]].next = IF n = Len(s) THEN Null ELSE s[n+1]
                /\ I[s[n]].prev = IF n = 1 THEN Null ELSE s[n-1]
        BY <1>1 DEF Ordered, LinksOf
    <2>2. (IF l = Null THEN c ELSE l) = t[Len(t)]
        <3>1. CASE s = <<>>
            BY <1>1, <1>4, <2>1, <3>1
        <3>2. CASE s # <<>>
            <4>1. Len(s) \in 1 .. Len(s)
                BY <1>1, <3>2
            <4> QED BY <1>1, <1>2, <1>4, <2>1, <3>2, <4>1
        <3> QED BY <3>1, <3>2
    <2>3. ASSUME NEW n \in 1 .. Len(s) + 1
          PROVE  /\ J[t[n]].next = IF n = Len(t) THEN Null ELSE t[n+1]
                 /\ J[t[n]].prev = IF n = 1 THEN Null ELSE t[n-1]
        <3>1. CASE n = 1
            BY <1>1, <1>4, <1>5, <2>1, <3>1
        <3>2. CASE n # 1
            <4> DEFINE m == n - 1
            <4>1. m \in 1 .. Len(s) /\ t[n] = s[m] /\ s[m] \in DOMAIN I /\ n = m + 1
                BY <1>1, <1>4, <3>2
            <4> HIDE DEF m
            <4>2. J[t[n]].next = IF n = Len(t) THEN Null ELSE t[n+1]
                <5>1. J[t[n]].next = IF m = Len(s) THEN Null ELSE s[m+1]
                    BY <1>5, <2>1, <4>1
                <5>2. m # Len(s) => m + 1 \in 1 .. Len(s) /\ t[(m+1)+1] = s[m+1]
                    BY <1>1, <1>4, <4>1
                <5> QED BY <1>1, <1>4, <4>1, <5>1, <5>2
            <4>3. J[t[n]].prev = t[n-1]
                <5>1. CASE m = 1
                    BY <1>1, <1>4, <1>5, <2>1, <4>1, <5>1
                <5>2. CASE m # 1
                    <6>1. s # <<>> /\ 1 \in DOMAIN s /\ m \in DOMAIN s
                        BY <1>1, <4>1
                    <6>2. s[m] # f
                        BY <2>1, <5>2, <6>1 DEF Ordered
                    <6>3. m - 1 \in 1 .. Len(s) /\ t[(m - 1) + 1] = s[m-1] /\ (m - 1) + 1 = n - 1
                        BY <1>1, <1>4, <4>1, <5>2
                    <6> QED BY <1>5, <2>1, <4>1, <5>2, <6>2, <6>3
                <5> QED BY <5>1, <5>2
            <4> QED BY <3>2, <4>2, <4>3
        <3> QED BY <3>1, <3>2
    <2> QED BY <1>4, <2>2, <2>3 DEF LinksOf
<1>9. Ordered(t, J, c, IF l = Null THEN c ELSE l)
    BY <1>4, <1>6, <1>7, <1>8 DEF Ordered
<1> QED BY <1>5, <1>9 DEF t

\* Taking out an element and putting one in front moves those between.
LEMMA InFrontElements ==
    ASSUME NEW S, NEW s \in Seq(S), NEW p \in 1 .. Len(s), NEW x \in S
    PROVE  /\ <<x>> \o RemoveAt(s, p) \in Seq(S)
           /\ Len(<<x>> \o RemoveAt(s, p)) = Len(s) /\ DOMAIN (<<x>> \o RemoveAt(s, p)) = 1 .. Len(s)
           /\ \A n \in 1 .. Len(s) :
                (<<x>> \o RemoveAt(s, p))[n] = IF n = 1 THEN x ELSE IF n <= p THEN s[n-1] ELSE s[n]
<1> DEFINE a == SubSeq(s, 1, p - 1)
           b == SubSeq(s, p + 1, Len(s))
           t == <<x>> \o RemoveAt(s, p)
<1>0. Len(s) \in Nat /\ p \in Nat /\ 1 <= p /\ p <= Len(s)
    BY LenProperties
<1>1. \A n \in 1 .. Len(s) : s[n] \in S
    BY ElementOfSeq
<1>2. a \in Seq(S) /\ Len(a) = p - 1 /\ \A n \in 1 .. p - 1 : a[n] = s[n]
    <2>1. p - 1 \in 0 .. Len(s)
        BY <1>0
    <2> QED BY <2>1, PrefixElements
<1>3. b \in Seq(S) /\ Len(b) = Len(s) - p /\ \A n \in 1 .. Len(s) - p : b[n] = s[p + n]
    <2>1. \A n \in p + 1 .. Len(s) : s[n] \in S
        BY <1>0, <1>1
    <2>2. /\ b \in Seq(S) /\ Len(b) = IF p + 1 <= Len(s) THEN Len(s) - (p + 1) + 1 ELSE 0
          /\ \A n \in 1 .. Len(s) - (p + 1) + 1 : b[n] = s[p + 1 + n - 1]
        BY <1>0, <2>1, SubSeqProperties
    <2> HIDE DEF b
    <2>3. Len(b) = Len(s) - p
        BY <1>0, <2>2
    <2>4. ASSUME NEW n \in 1 .. Len(s) - p PROVE b[n] = s[p + n]
        <3>1. n \in 1 .. Len(s) - (p + 1) + 1 /\ p + 1 + n - 1 = p + n
            BY <1>0
        <3> QED BY <2>2, <3>1
    <2> QED BY <2>2, <2>3, <2>4
<1>4. RemoveAt(s, p) = a \o b
    BY DEF RemoveAt
<1> HIDE DEF a, b
<1>5. /\ a \o b \in Seq(S) /\ Len(a \o b) = Len(s) - 1
      /\ \A n \in 1 .. Len(s) - 1 : (a \o b)[n] = IF n <= p - 1 THEN s[n] ELSE s[n+1]
    <2>1. /\ a \o b \in Seq(S) /\ Len(a \o b) = Len(a) + Len(b)
          /\ \A n \in 1 .. Len(a) + Len(b) : (a \o b)[n] = IF n <= Len(a) THEN a[n] ELSE b[n - Len(a)]
        BY <1>2, <1>3, ConcatProperties
    <2>2. Len(a) + Len(b) = Len(s) - 1
        BY <1>0, <1>2, <1>3
    <2>3. ASSUME NEW n \in 1 .. Len(s) - 1 PROVE (a \o b)[n] = IF n <= p - 1 THEN s[n] ELSE s[n+1]
        <3>1. CASE n <= p - 1
            BY <1>0, <1>2, <2>1, <2>2, <3>1
        <3>2. CASE ~(n <= p - 1)
            <4>1. n - (p - 1) \in 1 .. Len(s) - p /\ p + (n - (p - 1)) = n + 1
                BY <1>0, <3>2
            <4> QED BY <1>2, <1>3, <2>1, <2>2, <3>2, <4>1
        <3> QED BY <3>1, <3>2
    <2> QED BY <2>1, <2>2, <2>3
<1>6. /\ t \in Seq(S) /\ Len(t) = Len(s)
      /\ \A n \in 1 .. Len(s) : t[n] = IF n = 1 THEN x ELSE (a \o b)[n-1]
    <2>1. <<x>> \in Seq(S) /\ Len(<<x>>) = 1 /\ <<x>>[1] = x
        OBVIOUS
    <2>2. /\ <<x>> \o (a \o b) \in Seq(S) /\ Len(<<x>> \o (a \o b)) = 1 + (Len(s) - 1)
          /\ \A n \in 1 .. 1 + (Len(s) - 1) :
                (<<x>> \o (a \o b))[n] = IF n <= 1 THEN <<x>>[n] ELSE (a \o b)[n - 1]
        BY <1>5, <2>1, ConcatProperties
    <2>3. 1 + (Len(s) - 1) = Len(s) /\ \A n \in 1 .. Len(s) : n <= 1 <=> n = 1
        BY <1>0
    <2> QED BY <1>4, <2>1, <2>2, <2>3
<1> HIDE DEF t
<1>7. ASSUME NEW n \in 1 .. Len(s) PROVE t[n] = IF n = 1 THEN x ELSE IF n <= p THEN s[n-1] ELSE s[n]
    <2>1. CASE n = 1
        BY <1>6, <2>1
    <2>2. CASE n # 1
        <3>1. n - 1 \in 1 .. Len(s) - 1 /\ (n - 1) + 1 = n /\ (n - 1 <= p - 1 <=> n <= p)
            BY <1>0, <2>2
        <3> QED BY <1>5, <1>6, <2>2, <3>1
    <2> QED BY <2>1, <2>2
<1>8. DOMAIN t = 1 .. Len(s)
    BY <1>6, LenProperties
<1> QED BY <1>6, <1>7, <1>8 DEF t

\* The item at p is taken out and put in front.
LEMMA MovedInFront ==
    ASSUME NEW I, NEW f, NEW l, NEW s, Ordered(s, I, f, l), I \in [DOMAIN I -> Items],
           DOMAIN I \subseteq Cells, NEW p \in 2 .. Len(s), NEW c, c = s[p],
           NEW J, J = [d \in DOMAIN I |->
            [key |-> I[d].key,
             next |-> IF d = c THEN f ELSE IF d = I[c].prev THEN I[c].next ELSE I[d].next,
             prev |-> IF d = c THEN Null
                      ELSE IF d = f THEN c
                      ELSE IF d = I[c].next THEN I[c].prev ELSE I[d].prev]]
    PROVE  /\ Ordered(<<c>> \o RemoveAt(s, p), J, c, IF c = l THEN I[c].prev ELSE l)
           /\ \A d \in DOMAIN I : J[d].key = I[d].key
<1> DEFINE t == <<c>> \o RemoveAt(s, p)
           from(n) == IF n = 1 THEN p ELSE IF n <= p THEN n - 1 ELSE n
<1>0. Len(s) \in Nat /\ p \in Nat /\ 2 <= p /\ p <= Len(s)
    BY LenProperties DEF Ordered
<1>1. /\ DOMAIN s = 1 .. Len(s) /\ Len(s) \in Nat /\ p \in 2 .. Len(s)
      /\ \A n \in 1 .. Len(s) : s[n] \in DOMAIN I
      /\ s \in Seq(DOMAIN I) /\ s # <<>>
    BY LenProperties, ElementOfSeq DEF Ordered
<1>2. Null \notin DOMAIN I
    BY CacheAssumption
<1>3. DOMAIN J = DOMAIN I
    OBVIOUS
<1>4. /\ t \in Seq(DOMAIN J) /\ Len(t) = Len(s) /\ DOMAIN t = 1 .. Len(s) /\ t # <<>>
      /\ \A n \in 1 .. Len(s) : t[n] = s[from(n)]
    <2>1. p \in 1 .. Len(s) /\ c \in DOMAIN I /\ s \in Seq(DOMAIN I)
        BY <1>1
    <2>2. /\ t \in Seq(DOMAIN I) /\ Len(t) = Len(s) /\ DOMAIN t = 1 .. Len(s)
          /\ \A n \in 1 .. Len(s) : t[n] = IF n = 1 THEN c ELSE IF n <= p THEN s[n-1] ELSE s[n]
        BY ONLY <2>1, InFrontElements
    <2> HIDE DEF t
    <2>3. t # <<>>
        BY <1>0, <2>2
    <2> QED BY <1>3, <2>2, <2>3
<1> HIDE DEF t
<1>5. \A n \in 1 .. Len(s) : from(n) \in 1 .. Len(s)
    BY <1>0
<1>16. /\ t[1] = s[p] /\ \A n \in 2 .. p : t[n] = s[n-1]
       /\ \A n \in p + 1 .. Len(s) : t[n] = s[n]
    <2>1. \A n \in 2 .. p : n \in 1 .. Len(s) /\ from(n) = n - 1
        BY <1>0
    <2>2. \A n \in p + 1 .. Len(s) : n \in 1 .. Len(s) /\ from(n) = n
        BY <1>0
    <2>3. 1 \in 1 .. Len(s) /\ from(1) = p
        BY <1>0
    <2> HIDE DEF from
    <2> QED BY <1>4, <2>1, <2>2, <2>3
<1>17. Len(t) = Len(s) /\ DOMAIN t = 1 .. Len(s) /\ t # <<>>
    BY <1>4
<1>6. ASSUME NEW m \in DOMAIN t, NEW n \in DOMAIN t, t[m] = t[n] PROVE m = n
    <2>1. m \in 1 .. Len(s) /\ n \in 1 .. Len(s) /\ s[from(m)] = s[from(n)]
        BY <1>4, <1>6
    <2>2. from(m) = from(n)
        BY <1>1, <1>5, <2>1 DEF Ordered
    <2> QED BY <1>1, <2>1, <2>2
<1>7. ToSet(t) = DOMAIN J
    <2>1. ASSUME NEW d \in DOMAIN I PROVE \E n \in DOMAIN t : t[n] = d
        <3>1. PICK q \in 1 .. Len(s) : s[q] = d
            BY <1>1 DEF Ordered, ToSet
        <3>2. PICK n \in 1 .. Len(s) : from(n) = q
            <4>1. CASE q = p
                BY <1>1, <4>1
            <4>2. CASE q < p
                <5>1. q + 1 \in 1 .. Len(s) /\ from(q + 1) = q
                    BY <1>1, <4>2
                <5> QED BY <5>1
            <4>3. CASE q > p
                BY <1>1, <4>3
            <4> QED BY <1>1, <4>1, <4>2, <4>3
        <3> QED BY <1>4, <3>1, <3>2
    <2>2. \A n \in DOMAIN t : t[n] \in DOMAIN J
        BY <1>4, ElementOfSeq
    <2> QED BY <1>3, <2>1, <2>2 DEF ToSet
<1>8. /\ f = s[1] /\ l = s[Len(s)]
      /\ \A q \in 1 .. Len(s) :
            /\ I[s[q]].next = IF q = Len(s) THEN Null ELSE s[q+1]
            /\ I[s[q]].prev = IF q = 1 THEN Null ELSE s[q-1]
    BY <1>1 DEF Ordered, LinksOf
<1>9. \A m, n \in 1 .. Len(s) : s[m] = s[n] <=> m = n
    BY <1>1 DEF Ordered
<1>18. /\ 1 \in 1 .. Len(s) /\ p - 1 \in 1 .. Len(s) /\ p \in 1 .. Len(s) /\ p # 1
       /\ p # Len(s) => p + 1 \in 1 .. Len(s)
    BY <1>0
<1>10. /\ I[c].prev = s[p-1] /\ I[c].next = (IF p = Len(s) THEN Null ELSE s[p+1])
       /\ 1 \in 1 .. Len(s) /\ p - 1 \in 1 .. Len(s) /\ p \in 1 .. Len(s)
       /\ p # Len(s) => p + 1 \in 1 .. Len(s)
    BY <1>8, <1>18
<1>11. \A d \in DOMAIN I :
        /\ J[d].key = I[d].key
        /\ J[d].next = IF d = c THEN f ELSE IF d = I[c].prev THEN I[c].next ELSE I[d].next
        /\ J[d].prev = IF d = c THEN Null
                       ELSE IF d = f THEN c
                       ELSE IF d = I[c].next THEN I[c].prev ELSE I[d].prev
    OBVIOUS
<1>12. ASSUME NEW n \in 1 .. Len(s)
       PROVE  /\ J[t[n]].next = IF n = Len(s) THEN Null ELSE t[n+1]
              /\ J[t[n]].prev = IF n = 1 THEN Null ELSE t[n-1]
    <2>1. CASE n = 1
        <3>1. t[1] = c /\ 2 \in 1 .. Len(s) /\ t[2] = s[1] /\ n # Len(s) /\ c \in DOMAIN I
            BY <1>1, <1>4, <1>10, <2>1
        <3> QED BY <1>8, <1>11, <2>1, <3>1
    <2>2. CASE n \in 2 .. p
        <3>1. /\ n - 1 \in 1 .. Len(s) /\ n - 1 # p /\ t[n] = s[n-1] /\ t[n] # c /\ t[n] \in DOMAIN I
              /\ p # Len(s) => n - 1 # p + 1
            BY <1>1, <1>4, <1>9, <1>10, <2>2
        <3>2. J[t[n]].next = IF n = Len(s) THEN Null ELSE t[n+1]
            <4>1. CASE n = p
                <5>1. p # Len(s) => t[p+1] = s[p+1]
                    BY <1>1, <1>4, <1>10
                <5> QED BY <1>10, <1>11, <3>1, <4>1, <5>1
            <4>2. CASE n # p
                <5>0. /\ n # Len(s) /\ n - 1 # Len(s) /\ (n - 1) + 1 = n /\ n - 1 # p - 1
                      /\ n + 1 \in 2 .. p /\ (n + 1) - 1 = n
                    BY <1>0, <2>2, <4>2
                <5>1. s[n-1] # s[p-1] /\ n # Len(s) /\ n - 1 # Len(s) /\ (n - 1) + 1 = n
                    BY <1>9, <1>10, <3>1, <5>0
                <5>2. t[n+1] = s[n]
                    BY <1>16, <5>0
                <5>3. I[s[n-1]].next = s[n]
                    BY <1>8, <3>1, <5>1
                <5>4. J[t[n]].next = I[s[n-1]].next
                    BY <1>10, <1>11, <3>1, <5>1
                <5> QED BY <5>1, <5>2, <5>3, <5>4
            <4> QED BY <4>1, <4>2
        <3>3. J[t[n]].prev = t[n-1]
            <4>1. CASE n = 2
                <5>1. t[n] = f /\ t[n-1] = c
                    BY <1>8, <1>16, <3>1, <4>1
                <5> QED BY <1>11, <3>1, <5>1
            <4>2. CASE n # 2
                <5>0. n - 1 # 1 /\ (n - 1) - 1 \in 1 .. Len(s) /\ n - 1 \in 2 .. p
                    BY <1>0, <2>2, <4>2
                <5>1. t[n] # f
                    <6>1. s[n-1] # s[1]
                        BY <1>9, <1>10, <3>1, <5>0
                    <6> QED BY <1>8, <3>1, <6>1
                <5>2. t[n] # I[c].next
                    BY <1>2, <1>9, <1>10, <3>1
                <5>3. t[n-1] = s[(n-1)-1]
                    BY <1>16, <5>0
                <5>4. I[s[n-1]].prev = s[(n-1)-1]
                    BY <1>8, <3>1, <5>0
                <5> QED BY <1>11, <3>1, <5>1, <5>2, <5>3, <5>4
            <4> QED BY <4>1, <4>2
        <3> QED BY <2>2, <3>2, <3>3
    <2>3. CASE n > p
        <3>0. n \in p + 1 .. Len(s) /\ n # p /\ n # 1 /\ n # p - 1
            BY <1>0, <2>3
        <3>1. t[n] = s[n] /\ s[n] # c /\ s[n] # f /\ s[n] # s[p-1] /\ t[n] \in DOMAIN I
            BY <1>1, <1>8, <1>9, <1>10, <1>16, <3>0
        <3>2. J[t[n]].next = IF n = Len(s) THEN Null ELSE t[n+1]
            <4>1. n # Len(s) => t[n+1] = s[n+1]
                <5>1. n # Len(s) => n + 1 \in p + 1 .. Len(s)
                    BY <1>0, <2>3
                <5> QED BY <1>16, <5>1
            <4> QED BY <1>8, <1>10, <1>11, <3>1, <4>1
        <3>3. J[t[n]].prev = t[n-1]
            <4>1. CASE n = p + 1
                <5>0. p # Len(s) /\ n - 1 = p /\ p \in 2 .. p
                    BY <1>0, <4>1
                <5>1. t[n] = I[c].next /\ t[n-1] = s[p-1]
                    BY <1>10, <1>16, <3>1, <4>1, <5>0
                <5> QED BY <1>10, <1>11, <3>1, <5>1
            <4>2. CASE n # p + 1
                <5>1. t[n] # I[c].next
                    BY <1>1, <1>2, <1>9, <1>10, <3>1, <4>2
                <5>0. n # 1 /\ n - 1 \in p + 1 .. Len(s)
                    BY <1>0, <2>3, <4>2
                <5>2. n # 1 /\ t[n-1] = s[n-1]
                    BY <1>16, <5>0
                <5> QED BY <1>8, <1>11, <3>1, <5>1, <5>2
            <4> QED BY <4>1, <4>2
        <3> QED BY <1>1, <2>3, <3>2, <3>3
    <2> QED BY <1>1, <2>1, <2>2, <2>3
<1>13. (IF c = l THEN I[c].prev ELSE l) = t[Len(s)]
    <2>1. CASE p = Len(s)
        <3>1. Len(s) \in 2 .. p
            BY <1>0, <2>1
        <3> QED BY <1>8, <1>10, <1>16, <2>1, <3>1
    <2>2. CASE p # Len(s)
        <3>0. Len(s) \in p + 1 .. Len(s) /\ Len(s) \in 1 .. Len(s)
            BY <1>0, <2>2
        <3>1. c # l /\ t[Len(s)] = s[Len(s)]
            BY <1>8, <1>9, <1>10, <1>16, <2>2, <3>0
        <3> QED BY <1>8, <3>1
    <2> QED BY <2>1, <2>2
<1>14. c = t[1]
    BY <1>1, <1>4
<1>15. Ordered(t, J, c, IF c = l THEN I[c].prev ELSE l)
    <2>1. LinksOf(t, J, c, IF c = l THEN I[c].prev ELSE l)
        BY <1>12, <1>13, <1>14, <1>17 DEF LinksOf
    <2> QED BY <1>4, <1>6, <1>7, <2>1 DEF Ordered
<1> QED BY <1>11, <1>15 DEF t

\* The last of several items is taken out.
LEMMA LastGone ==
    ASSUME NEW I, NEW f, NEW l, NEW s, Ordered(s, I, f, l), 2 <= Len(s),
           NEW h, h = I[l].prev, NEW J, DOMAIN J = DOMAIN I \ {l},
           \A d \in DOMAIN J : /\ J[d].prev = I[d].prev
                               /\ J[d].next = IF d = h THEN Null ELSE I[d].next
    PROVE  Ordered(Front(s), J, f, h)
<1> DEFINE t == Front(s)
           L == Len(s) - 1
<1>0. Len(s) \in Nat /\ L \in Nat /\ 1 <= L /\ L + 1 = Len(s)
    BY LenProperties DEF Ordered
<1>1. /\ DOMAIN s = 1 .. L + 1 /\ \A n \in 1 .. L + 1 : s[n] \in DOMAIN I
      /\ s \in Seq(DOMAIN I)
    BY <1>0, LenProperties, ElementOfSeq DEF Ordered
<1>2. \A m, n \in 1 .. L + 1 : s[m] = s[n] <=> m = n
    BY <1>1 DEF Ordered
<1>3. s # <<>>
    BY <1>0
<1>4. /\ f = s[1] /\ l = s[L + 1]
      /\ \A q \in 1 .. L + 1 :
            /\ I[s[q]].next = IF q = L + 1 THEN Null ELSE s[q+1]
            /\ I[s[q]].prev = IF q = 1 THEN Null ELSE s[q-1]
    BY <1>0, <1>1, <1>3 DEF Ordered, LinksOf
<1> HIDE DEF L
<1>5. 1 \in 1 .. L + 1 /\ L \in 1 .. L + 1 /\ L + 1 \in 1 .. L + 1 /\ L + 1 # 1 /\ L + 1 # L /\ (L + 1) - 1 = L
    BY <1>0
<1>6. h = s[L]
    BY <1>4, <1>5
<1>7. /\ t \in Seq(DOMAIN I) /\ Len(t) = L /\ DOMAIN t = 1 .. L
      /\ \A n \in 1 .. L : t[n] = s[n]
    <2>1. L \in 0 .. Len(s)
        BY <1>0
    <2> QED BY <1>1, <2>1, PrefixElements DEF Front, L
<1> HIDE DEF t
<1>8. t # <<>>
    BY <1>0, <1>7
<1>9. \A n \in 1 .. L : n \in 1 .. L + 1 /\ n # L + 1
    BY <1>0
<1>10. DOMAIN J = DOMAIN I \ {l}
    OBVIOUS
<1>11. /\ \A n \in 1 .. L : t[n] \in DOMAIN J
       /\ \A d \in DOMAIN J : \E n \in 1 .. L : t[n] = d
    <2>1. ASSUME NEW d \in DOMAIN J PROVE \E n \in 1 .. L : t[n] = d
        <3>1. PICK q \in 1 .. L + 1 : s[q] = d
            BY <1>1, <1>10 DEF Ordered, ToSet
        <3>2. q # L + 1
            BY <1>4, <1>10, <3>1
        <3>3. q \in 1 .. L
            BY <1>0, <3>2
        <3> QED BY <1>7, <3>1, <3>3
    <2>2. ASSUME NEW n \in 1 .. L PROVE t[n] \in DOMAIN J
        <3>1. t[n] = s[n] /\ s[n] \in DOMAIN I
            BY <1>1, <1>7, <1>9
        <3>2. s[n] # l
            BY <1>2, <1>4, <1>5, <1>9
        <3> QED BY <1>10, <3>1, <3>2
    <2> QED BY <2>1, <2>2
<1>12. t \in Seq(DOMAIN J) /\ ToSet(t) = DOMAIN J
    <2>1. t \in [1 .. L -> DOMAIN J]
        BY <1>7, <1>11, LenProperties
    <2>2. t \in Seq(DOMAIN J)
        BY <1>0, <2>1
    <2> QED BY <1>7, <1>11, <2>2 DEF ToSet
<1>13. \A d \in DOMAIN J : /\ J[d].prev = I[d].prev
                           /\ J[d].next = IF d = h THEN Null ELSE I[d].next
    OBVIOUS
<1>14. LinksOf(t, J, f, h)
    <2>1. ASSUME NEW n \in 1 .. L
          PROVE  /\ J[t[n]].next = IF n = L THEN Null ELSE t[n+1]
                 /\ J[t[n]].prev = IF n = 1 THEN Null ELSE t[n-1]
        <3>1. /\ t[n] \in DOMAIN J /\ t[n] = s[n] /\ n \in 1 .. L + 1 /\ n # L + 1
              /\ s[n] = h <=> n = L
            BY <1>2, <1>5, <1>6, <1>7, <1>9, <1>11
        <3>2. n # L => t[n+1] = s[n+1]
            <4>1. n # L => n + 1 \in 1 .. L
                BY <1>0
            <4> QED BY <1>7, <4>1
        <3>3. n # 1 => t[n-1] = s[n-1]
            <4>1. n # 1 => n - 1 \in 1 .. L
                BY <1>0
            <4> QED BY <1>7, <4>1
        <3> QED BY <1>4, <1>13, <3>1, <3>2, <3>3
    <2>2. t[1] = f /\ t[L] = h
        <3>1. 1 \in 1 .. L /\ L \in 1 .. L
            BY <1>0
        <3> QED BY <1>4, <1>6, <1>7, <3>1
    <2> QED BY <1>7, <1>8, <2>1, <2>2 DEF LinksOf
<1>15. \A m, n \in DOMAIN t : t[m] = t[n] => m = n
    BY <1>2, <1>7, <1>9
<1>16. Ordered(t, J, f, h)
    BY <1>12, <1>14, <1>15 DEF Ordered
<1> QED BY <1>16 DEF t

\* The loop of cacheCleanup comes to every item of the list.
LEMMA AllReached ==
    ASSUME NEW s, Ordered(s, items, first, last), live \subseteq Cells
    PROVE  Reached = live
<1>1. /\ DOMAIN s = 1 .. Len(s) /\ Len(s) \in Nat /\ \A n \in 1 .. Len(s) : s[n] \in live
      /\ \A d \in live : \E n \in 1 .. Len(s) : s[n] = d
    BY LenProperties, ElementOfSeq DEF Ordered, ToSet, live
<1>2. SUFFICES ASSUME NEW S \in SUBSET live, first \in live => first \in S,
                      \A d \in S : items[d].next \in live => items[d].next \in S,
                      NEW c \in live, c \notin S
               PROVE  FALSE
    BY DEF Reached
<1> DEFINE Missed == {n \in 1 .. Len(s) : s[n] \notin S}
<1>3. PICK m \in Missed : \A n \in Missed : m <= n
    <2>0. PICK n \in 1 .. Len(s) : s[n] = c
        BY <1>1
    <2>1. Missed \in SUBSET Nat /\ n \in Missed
        BY <1>1, <1>2, <2>0
    <2> HIDE DEF Missed
    <2> QED BY <2>1, LeastNatural
<1>4. m \in 1 .. Len(s) /\ s # <<>>
    BY <1>1
<1>5. /\ first = s[1]
      /\ \A n \in 1 .. Len(s) : items[s[n]].next = IF n = Len(s) THEN Null ELSE s[n+1]
    BY <1>1, <1>4 DEF Ordered, LinksOf
<1>6. CASE m = 1
    BY <1>1, <1>2, <1>4, <1>5, <1>6
<1>7. CASE m # 1
    <2>1. m - 1 \in 1 .. Len(s) /\ m - 1 \notin Missed /\ m - 1 # Len(s) /\ (m - 1) + 1 = m
        BY <1>1, <1>3, <1>7
    <2>2. s[m-1] \in S /\ items[s[m-1]].next = s[m]
        BY <1>5, <2>1
    <2> QED BY <1>1, <1>2, <1>4, <2>2
<1> QED BY <1>6, <1>7

-----------------------------------------------------------------------------
\* The inductive invariant.

Entries == [key : Keys, size : Nat, item : Cells]

TypeInv ==
    /\ buckets \in [Buckets -> Seq(Entries)]
    /\ live \subseteq Cells /\ items \in [live -> Items]
    /\ pc \in {"idle", "evict"}

\* Every block is in its bucket once, with its size, and has its item; every
\* item has its block.
TableInv ==
    /\ \A b \in Buckets : \A n \in 1 .. Len(buckets[b]) :
        /\ BucketOf[buckets[b][n].key] = b
        /\ buckets[b][n].size = SizeOf[buckets[b][n].key]
        /\ buckets[b][n].item \in live
        /\ items[buckets[b][n].item].key = buckets[b][n].key
    /\ \A b \in Buckets : \A m, n \in 1 .. Len(buckets[b]) : buckets[b][m].key = buckets[b][n].key => m = n
    /\ \A c \in live : \E n \in 1 .. Len(buckets[BucketOf[items[c].key]]) :
        buckets[BucketOf[items[c].key]][n].item = c

ListInv == \E s \in Seq(live) : Ordered(s, items, first, last)

\* The keys of the list.
Listed == {items[c].key : c \in live}

CountInv ==
    /\ IsFiniteSet(Listed) /\ IsFiniteSet(Lru!BytesOf(Listed))
    /\ count = Cardinality(Listed) /\ bytes = Lru!TotalSize(Listed)

CacheInv == TypeInv /\ TableInv /\ ListInv /\ CountInv /\ WithinLimits

LEMMA BucketType ==
    ASSUME buckets \in [Buckets -> Seq(Entries)], NEW b \in Buckets
    PROVE  /\ buckets[b] \in Seq(Entries) /\ Len(buckets[b]) \in Nat
           /\ DOMAIN buckets[b] = 1 .. Len(buckets[b])
           /\ \A n \in 1 .. Len(buckets[b]) :
                /\ buckets[b][n] \in Entries /\ buckets[b][n].key \in Keys
                /\ buckets[b][n].size \in Nat /\ buckets[b][n].item \in Cells
<1>1. buckets[b] \in Seq(Entries)
    OBVIOUS
<1>2. \A n \in 1 .. Len(buckets[b]) : buckets[b][n] \in Entries
    BY <1>1, ElementOfSeq
<1> QED BY <1>1, <1>2, LenProperties DEF Entries

\* A lookup returns 0 or the position of the block in its bucket.
LEMMA FindIs ==
    ASSUME buckets \in [Buckets -> Seq(Entries)], NEW k \in Keys
    PROVE  /\ BucketOf[k] \in Buckets
           /\ Find(k) # 0 => Find(k) \in 1 .. Len(buckets[BucketOf[k]]) /\ buckets[BucketOf[k]][Find(k)].key = k
           /\ Find(k) = 0 => \A n \in 1 .. Len(buckets[BucketOf[k]]) : buckets[BucketOf[k]][n].key # k
<1> DEFINE b == buckets[BucketOf[k]]
           I == {n \in 1 .. Len(b) : b[n].key = k}
<1>1. BucketOf[k] \in Buckets /\ Len(b) \in Nat
    BY BucketType DEF Buckets
<1>2. Find(k) = IF I # {} THEN Min(I) ELSE 0
    BY DEF Find, SelectInSeq
<1>3. CASE I = {}
    BY <1>1, <1>2, <1>3
<1>4. CASE I # {}
    <2>1. I \in SUBSET Nat
        BY <1>1
    <2>2. Min(I) \in I
        <3> HIDE DEF I
        <3>1. \E m \in I : \A n \in I : m <= n
            BY <1>4, <2>1, LeastNatural
        <3> QED BY <3>1 DEF Min
    <2> QED BY <1>1, <1>2, <1>4, <2>2
<1> QED BY <1>3, <1>4

\* No two items are of the same block.
LEMMA KeysDiffer ==
    ASSUME TypeInv, TableInv, NEW c \in live, NEW d \in live, items[c].key = items[d].key
    PROVE  c = d
<1> DEFINE b == BucketOf[items[c].key]
<1>1. b \in Buckets
    BY DEF TypeInv, Items, Buckets
<1>2. PICK m \in 1 .. Len(buckets[b]) : buckets[b][m].item = c
    BY DEF TableInv
<1>3. PICK n \in 1 .. Len(buckets[b]) : buckets[b][n].item = d
    BY DEF TableInv
<1> HIDE DEF b
<1>4. buckets[b][m].key = items[c].key /\ buckets[b][n].key = items[d].key
    <2>1. \A x \in 1 .. Len(buckets[b]) : items[buckets[b][x].item].key = buckets[b][x].key
        BY <1>1 DEF TableInv
    <2> QED BY <1>2, <1>3, <2>1
<1>5. m = n
    BY <1>1, <1>4 DEF TableInv
<1> QED BY <1>2, <1>3, <1>5

\* A lookup finds exactly the blocks of the list.
LEMMA FoundIsListed ==
    ASSUME TypeInv, TableInv, NEW k \in Keys
    PROVE  /\ Find(k) # 0 <=> k \in Listed
           /\ Find(k) # 0 => ItemOf(k) \in live /\ items[ItemOf(k)].key = k
<1>1. buckets \in [Buckets -> Seq(Entries)]
    BY DEF TypeInv
<1>2. ASSUME Find(k) # 0 PROVE ItemOf(k) \in live /\ items[ItemOf(k)].key = k
    BY <1>1, <1>2, FindIs DEF TableInv, ItemOf
<1>3. ASSUME k \in Listed PROVE Find(k) # 0
    <2>1. PICK c \in live : items[c].key = k
        BY <1>3 DEF Listed
    <2>2. PICK n \in 1 .. Len(buckets[BucketOf[k]]) : buckets[BucketOf[k]][n].item = c
        BY <2>1 DEF TableInv
    <2>3. buckets[BucketOf[k]][n].key = k
        BY <1>1, <2>1, <2>2, FindIs DEF TableInv
    <2> QED BY <1>1, <2>3, FindIs
<1> QED BY <1>2, <1>3 DEF Listed

LEMMA CachedIsListed == TypeInv /\ TableInv => Cached = Listed
<1> SUFFICES ASSUME TypeInv, TableInv PROVE Cached = Listed
    OBVIOUS
<1>1. buckets \in [Buckets -> Seq(Entries)]
    BY DEF TypeInv
<1>2. ASSUME NEW k \in Cached PROVE k \in Listed
    <2>1. PICK b \in Buckets : \E n \in DOMAIN buckets[b] : k = buckets[b][n].key
        BY <1>2 DEF Cached, Blocks, ToSet
    <2>2. PICK n \in 1 .. Len(buckets[b]) : k = buckets[b][n].key
        BY <1>1, <2>1, BucketType
    <2> QED BY <2>2 DEF TableInv, Listed
<1>3. ASSUME NEW k \in Listed PROVE k \in Cached
    <2>1. k \in Keys /\ Find(k) # 0
        BY <1>3, FoundIsListed DEF Listed, TypeInv, Items
    <2>2. /\ BucketOf[k] \in Buckets /\ Find(k) \in DOMAIN buckets[BucketOf[k]]
          /\ buckets[BucketOf[k]][Find(k)].key = k
        BY <1>1, <2>1, FindIs, BucketType
    <2> QED BY <2>2 DEF Cached, Blocks, ToSet
<1> QED BY <1>2, <1>3

-----------------------------------------------------------------------------
\* What each step does to the list.

LEMMA OrderedType ==
    ASSUME NEW s, Ordered(s, items, first, last)
    PROVE  /\ DOMAIN s = 1 .. Len(s) /\ Len(s) \in Nat /\ s \in Seq(live)
           /\ \A n \in 1 .. Len(s) : s[n] \in live
           /\ \A c \in live : \E n \in 1 .. Len(s) : s[n] = c
           /\ \A m, n \in 1 .. Len(s) : s[m] = s[n] => m = n
BY LenProperties, ElementOfSeq DEF Ordered, ToSet, live

LEMMA PutList ==
    ASSUME TypeInv, NEW s, Ordered(s, items, first, last), NEW k \in Keys, Put(k)
    PROVE  \E c \in Cells \ live :
            /\ Ordered(<<c>> \o s, items', first', last')
            /\ buckets' = [buckets EXCEPT ![BucketOf[k]] = Append(@, [key |-> k, size |-> SizeOf[k], item |-> c])]
            /\ live' = live \union {c} /\ items' \in [live' -> Items]
            /\ items'[c].key = k /\ \A d \in live : items'[d].key = items[d].key
<1> DEFINE c == Min(Cells \ live)
<1>1. c \in Cells \ live
    <2>1. Cells \ live \in SUBSET Nat /\ Cells \ live # {}
        BY CacheAssumption DEF Put, TypeInv
    <2>2. \E m \in Cells \ live : \A n \in Cells \ live : m <= n
        BY <2>1, LeastNatural
    <2> QED BY <2>2 DEF Min
<1>2. /\ items' = [d \in live \union {c} |->
            IF d = c THEN [key |-> k, next |-> first, prev |-> Null]
            ELSE IF d = first THEN [items[d] EXCEPT !.prev = c] ELSE items[d]]
      /\ first' = c
      /\ last' = IF last = Null THEN c ELSE last
      /\ buckets' = [buckets EXCEPT ![BucketOf[k]] = Append(@, [key |-> k, size |-> SizeOf[k], item |-> c])]
    BY DEF Put
<1> HIDE DEF c
<1>3. live \subseteq Cells /\ items \in [live -> Items] /\ live = DOMAIN items
    BY DEF TypeInv, live
<1>4. /\ Ordered(<<c>> \o s, items', c, IF last = Null THEN c ELSE last)
      /\ items'[c].key = k /\ \A d \in live : items'[d].key = items[d].key
    <2>1. /\ items \in [DOMAIN items -> Items] /\ DOMAIN items \subseteq Cells
          /\ c \in Cells /\ c \notin DOMAIN items
        BY <1>1, <1>3
    <2>2. items' = [d \in DOMAIN items \union {c} |->
            IF d = c THEN [key |-> k, next |-> first, prev |-> Null]
            ELSE IF d = first THEN [items[d] EXCEPT !.prev = c] ELSE items[d]]
        BY <1>2 DEF live
    <2>3. /\ Ordered(<<c>> \o s, items', c, IF last = Null THEN c ELSE last)
          /\ items'[c].key = k /\ \A d \in DOMAIN items : items'[d].key = items[d].key
        BY ONLY <2>1, <2>2, Ordered(s, items, first, last), AddedInFront
    <2> QED BY <1>3, <2>3
<1>5. live' = live \union {c}
    BY <1>2 DEF live
<1>6. first \in Cells \union {Null}
    BY <1>3, OrderedType DEF Ordered, LinksOf
<1>7. items' \in [live' -> Items]
    <2>1. \A d \in live : [items[d] EXCEPT !.prev = c] \in Items
        BY <1>1, <1>3 DEF Items
    <2>2. [key |-> k, next |-> first, prev |-> Null] \in Items
        BY <1>6 DEF Items
    <2> QED BY <1>2, <1>3, <1>5, <2>1, <2>2
<1> QED BY <1>1, <1>2, <1>4, <1>5, <1>7

LEMMA HitList ==
    ASSUME TypeInv, TableInv, NEW s, Ordered(s, items, first, last), NEW k \in Keys, Hit(k)
    PROVE  \E n \in 1 .. Len(s) :
            /\ items[s[n]].key = k
            /\ Ordered(<<s[n]>> \o RemoveAt(s, n), items', first', last')
            /\ live' = live /\ items' \in [live' -> Items]
            /\ \A d \in live : items'[d].key = items[d].key
<1>1. ItemOf(k) \in live /\ items[ItemOf(k)].key = k
    BY FoundIsListed DEF Hit
<1>2. PICK p \in 1 .. Len(s) : s[p] = ItemOf(k)
    BY <1>1, OrderedType
<1>3. live \subseteq Cells /\ items \in [live -> Items] /\ live = DOMAIN items /\ Len(s) \in Nat
    BY OrderedType DEF TypeInv, live
<1>4. s # <<>> /\ first = s[1]
    <2>1. s # <<>>
        BY <1>2, <1>3
    <2> QED BY <2>1 DEF Ordered, LinksOf
<1>5. CASE ItemOf(k) = first
    <2>1. p = 1
        <3>1. 1 \in 1 .. Len(s) /\ s[p] = s[1]
            BY <1>2, <1>3, <1>4, <1>5
        <3> QED BY <3>1, OrderedType
    <2>2. <<s[1]>> \o RemoveAt(s, 1) = s
        <3>0. s \in Seq(live)
            BY OrderedType
        <3>1. SubSeq(s, 1, 0) = <<>> /\ SubSeq(s, 2, Len(s)) = Tail(s)
            BY <1>4, <3>0, SubSeqEmpty, TailIsSubSeq
        <3>2. Tail(s) \in Seq(live) /\ RemoveAt(s, 1) = <<>> \o Tail(s)
            BY <1>4, <3>1, OrderedType, HeadTailProperties DEF RemoveAt
        <3>3. RemoveAt(s, 1) = Tail(s)
            BY <3>2, ConcatEmptySeq
        <3>4. <<s[1]>> \o Tail(s) = s
            BY <1>4, OrderedType
        <3> QED BY <3>3, <3>4
    <2>3. items' = items /\ first' = first /\ last' = last
        BY <1>5 DEF Hit
    <2> QED BY <1>1, <1>2, <1>3, <2>1, <2>2, <2>3 DEF live
<1>6. CASE ItemOf(k) # first
    <2> DEFINE c == ItemOf(k)
    <2>1. p \in 2 .. Len(s)
        BY <1>2, <1>3, <1>4, <1>6
    <2>2. MoveToFront(c)
        BY <1>6 DEF Hit
    <2>3. /\ items' = [d \in live |->
            [key |-> items[d].key,
             next |-> IF d = c THEN first ELSE IF d = items[c].prev THEN items[c].next ELSE items[d].next,
             prev |-> IF d = c THEN Null
                      ELSE IF d = first THEN c
                      ELSE IF d = items[c].next THEN items[c].prev ELSE items[d].prev]]
          /\ last' = (IF c = last THEN items[c].prev ELSE last) /\ first' = c
        BY <2>2 DEF MoveToFront
    <2> HIDE DEF c
    <2>4. c = s[p]
        BY <1>2 DEF c
    <2>5. /\ Ordered(<<c>> \o RemoveAt(s, p), items', c, IF c = last THEN items[c].prev ELSE last)
          /\ \A d \in live : items'[d].key = items[d].key
        <3> USE DEF live
        <3> QED BY <1>3, <2>1, <2>3, <2>4, MovedInFront
    <2>6. live' = live
        BY <2>3 DEF live
    <2>7. items' \in [live' -> Items]
        <3>1. \A d \in live : items[d] \in Items /\ items[d].key \in Keys
            BY <1>3 DEF Items
        <3>2. c \in live /\ first \in live
            <4>1. \A n \in 1 .. Len(s) : s[n] \in live
                BY <1>3, OrderedType
            <4>2. p \in 1 .. Len(s) /\ 1 \in 1 .. Len(s)
                BY <2>1
            <4>3. s[p] \in live /\ s[1] \in live
                BY <4>1, <4>2
            <4> QED BY <1>4, <2>4, <4>3
        <3>3. \A d \in live : /\ items[d].next \in Cells \union {Null}
                              /\ items[d].prev \in Cells \union {Null} /\ d \in Cells
            BY <1>3, <3>1 DEF Items
        <3> QED BY <2>3, <2>6, <3>1, <3>2, <3>3 DEF Items
    <2> QED BY <1>1, <1>2, <2>3, <2>4, <2>5, <2>6, <2>7 DEF c
<1> QED BY <1>5, <1>6

\* One block alone is never too much.
LEMMA TooMuchIsMany ==
    ASSUME CacheInv, NEW s, Ordered(s, items, first, last), TooMuch
    PROVE  2 <= Len(s) /\ last \in live /\ Oldest # 0
<1>1. Len(s) \in Nat
    BY OrderedType
<1>2. Len(s) # 0
    <2>1. SUFFICES ASSUME Len(s) = 0 PROVE FALSE
        OBVIOUS
    <2>2. Listed = {}
        BY <2>1, OrderedType DEF Listed
    <2>3. count = 0 /\ bytes = 0
        BY <2>2, FS_EmptySet, SizeOfNone DEF CacheInv, CountInv
    <2> QED BY <2>3, CacheAssumption DEF TooMuch
<1>3. Len(s) # 1
    <2>1. SUFFICES ASSUME Len(s) = 1 PROVE FALSE
        OBVIOUS
    <2> DEFINE k == items[s[1]].key
    <2>2. Listed = {k}
        BY <2>1, OrderedType DEF Listed
    <2>3. k \in Keys
        BY <2>1, OrderedType DEF CacheInv, TypeInv, Items
    <2> HIDE DEF k
    <2>4. count = 1 /\ bytes = SizeOf[k]
        BY <2>2, <2>3, FS_Singleton, OneFits DEF CacheInv, CountInv
    <2> QED BY <2>3, <2>4, OneFits, CacheAssumption DEF TooMuch
<1>4. last \in live
    <2>1. s # <<>> /\ Len(s) \in 1 .. Len(s)
        BY <1>1, <1>2
    <2> QED BY <2>1, OrderedType DEF Ordered, LinksOf
<1>5. Oldest # 0
    <2>1. items[last].key \in Keys /\ items[last].key \in Listed
        BY <1>4 DEF CacheInv, TypeInv, Items, Listed
    <2> QED BY <2>1, FoundIsListed DEF CacheInv, Oldest
<1>6. 2 <= Len(s)
    <2>1. \A n \in Nat : n # 0 /\ n # 1 => 2 <= n
        OBVIOUS
    <2> QED BY <1>1, <1>2, <1>3, <2>1
<1> QED BY <1>4, <1>5, <1>6

LEMMA EvictList ==
    ASSUME CacheInv, NEW s, Ordered(s, items, first, last), Evict
    PROVE  /\ Ordered(Front(s), items', first', last') /\ last = Last(s)
           /\ 2 <= Len(s) /\ last \in live /\ Oldest # 0
           /\ live' = live \ {last} /\ items' \in [live' -> Items]
           /\ \A d \in live' : items'[d].key = items[d].key
<1>1. 2 <= Len(s) /\ last \in live /\ Oldest # 0
    BY TooMuchIsMany DEF Evict
<1>2. /\ last' = items[last].prev /\ first' = first
      /\ items' = [d \in live \ {last} |-> IF d = last' THEN [items[d] EXCEPT !.next = Null] ELSE items[d]]
    BY DEF Evict
<1>3. live \subseteq Cells /\ items \in [live -> Items] /\ live = DOMAIN items
    BY DEF CacheInv, TypeInv, live
<1>4. /\ Ordered(Front(s), items', first, last') /\ last = Last(s)
      /\ \A d \in DOMAIN items' : items'[d].key = items[d].key
    <2>1. DOMAIN items' = DOMAIN items \ {last}
        BY <1>2, <1>3
    <2>2. \A d \in DOMAIN items' : /\ items'[d].prev = items[d].prev
                                   /\ items'[d].next = IF d = last' THEN Null ELSE items[d].next
        BY <1>2, <1>3, <2>1 DEF Items
    <2>3. \A d \in DOMAIN items' : items'[d].key = items[d].key
        BY <1>2, <1>3, <2>1 DEF Items
    <2>4. Ordered(s, items, first, last) /\ 2 <= Len(s) /\ last' = items[last].prev
        BY <1>1, <1>2
    <2>5. Ordered(Front(s), items', first, last')
        BY <2>1, <2>2, <2>4, LastGone
    <2>6. last = Last(s)
        <3>1. s # <<>>
            BY <1>1
        <3> QED BY <3>1 DEF Ordered, LinksOf, Last
    <2> QED BY <1>2, <2>3, <2>5, <2>6
<1>5. live' = live \ {last}
    BY <1>2 DEF live
<1>6. items' \in [live' -> Items]
    <2>1. \A d \in live : [items[d] EXCEPT !.next = Null] \in Items
        BY <1>3 DEF Items
    <2> QED BY <1>2, <1>3, <1>5, <2>1
<1> QED BY <1>1, <1>2, <1>4, <1>5, <1>6 DEF live

-----------------------------------------------------------------------------
\* Every step keeps the invariant.

LEMMA InitOK == Init => CacheInv
<1> SUFFICES ASSUME Init PROVE CacheInv
    OBVIOUS
<1> USE DEF Init, live
<1>1. live = {}
    OBVIOUS
<1>2. TypeInv
    <2>1. buckets \in [Buckets -> Seq(Entries)]
        OBVIOUS
    <2>2. items \in [live -> Items]
        BY <1>1
    <2> QED BY <1>1, <2>1, <2>2 DEF TypeInv
<1>3. TableInv
    BY <1>1 DEF TableInv
<1>4. ListInv
    <2>1. Ordered(<<>>, items, first, last)
        BY DEF Ordered, LinksOf, ToSet
    <2>2. <<>> \in Seq(live)
        OBVIOUS
    <2> QED BY <2>1, <2>2 DEF ListInv
<1>5. Listed = {}
    BY <1>1 DEF Listed
<1>6. CountInv
    BY <1>5, FS_EmptySet, SizeOfNone DEF CountInv
<1>7. WithinLimits
    BY CacheAssumption DEF WithinLimits, TooMuch
<1> QED BY <1>2, <1>3, <1>4, <1>6, <1>7 DEF CacheInv

LEMMA PutOK ==
    ASSUME CacheInv, NEW k \in Keys, Put(k)
    PROVE  CacheInv'
<1> DEFINE B == BucketOf[k]
<1>1. PICK s \in Seq(live) : Ordered(s, items, first, last)
    BY DEF CacheInv, ListInv
<1>2. PICK c \in Cells \ live :
        /\ Ordered(<<c>> \o s, items', first', last')
        /\ buckets' = [buckets EXCEPT ![B] = Append(@, [key |-> k, size |-> SizeOf[k], item |-> c])]
        /\ live' = live \union {c} /\ items' \in [live' -> Items]
        /\ items'[c].key = k /\ \A d \in live : items'[d].key = items[d].key
    BY <1>1, PutList DEF CacheInv
<1>3. buckets \in [Buckets -> Seq(Entries)] /\ live \subseteq Cells /\ Find(k) = 0 /\ items \in [live -> Items]
    BY DEF CacheInv, TypeInv, Put
<1> DEFINE e == [key |-> k, size |-> SizeOf[k], item |-> c]
           N == Len(buckets[B]) + 1
<1>4. e \in Entries /\ e.key = k /\ e.size = SizeOf[k] /\ e.item = c /\ B \in Buckets
    <2>1. SizeOf[k] \in Nat
        BY CacheAssumption
    <2>2. B \in Buckets
        BY <1>3, FindIs
    <2> QED BY <2>1, <2>2 DEF Entries
<1>5. /\ Append(buckets[B], e) \in Seq(Entries) /\ Len(Append(buckets[B], e)) = N
      /\ \A n \in 1 .. Len(buckets[B]) : Append(buckets[B], e)[n] = buckets[B][n]
      /\ Append(buckets[B], e)[N] = e
      /\ N - 1 = Len(buckets[B]) /\ N \in Nat \ {0}
    BY <1>3, <1>4, BucketType, AppendProperties
<1> HIDE DEF N, e, B
<1>6. /\ buckets' \in [Buckets -> Seq(Entries)]
      /\ buckets'[B] = Append(buckets[B], e)
      /\ \A b \in Buckets \ {B} : buckets'[b] = buckets[b]
    BY <1>2, <1>3, <1>4, <1>5 DEF e
<1>7. TypeInv'
    BY <1>2, <1>3, <1>6 DEF TypeInv, Put
<1>8. /\ Len(buckets'[B]) = N
      /\ \A n \in 1 .. N : \/ n \in 1 .. Len(buckets[B]) /\ buckets'[B][n] = buckets[B][n]
                           \/ n = N /\ buckets'[B][n] = e
    <2>1. \A n \in 1 .. N : n \in 1 .. Len(buckets[B]) \/ n = N
        BY <1>5
    <2>2. Len(buckets'[B]) = N
        BY <1>5, <1>6
    <2>3. ASSUME NEW n \in 1 .. Len(buckets[B]) PROVE buckets'[B][n] = buckets[B][n]
        BY <1>5, <1>6
    <2>4. buckets'[B][N] = e
        BY <1>5, <1>6
    <2> QED BY <2>1, <2>2, <2>3, <2>4
<1>9. TableInv'
    <2>1. ASSUME NEW b \in Buckets, NEW n \in 1 .. Len(buckets'[b])
          PROVE  /\ BucketOf[buckets'[b][n].key] = b
                 /\ buckets'[b][n].size = SizeOf[buckets'[b][n].key]
                 /\ buckets'[b][n].item \in live'
                 /\ items'[buckets'[b][n].item].key = buckets'[b][n].key
        <3>1. CASE n \in 1 .. Len(buckets[b]) /\ buckets'[b][n] = buckets[b][n]
            <4>1. /\ BucketOf[buckets[b][n].key] = b
                  /\ buckets[b][n].size = SizeOf[buckets[b][n].key]
                  /\ buckets[b][n].item \in live
                  /\ items[buckets[b][n].item].key = buckets[b][n].key
                BY <3>1 DEF CacheInv, TableInv
            <4> QED BY <1>2, <3>1, <4>1
        <3>2. CASE b = B /\ buckets'[b][n] = e
            BY <1>2, <1>4, <3>2 DEF B
        <3> QED BY <1>6, <1>8, <2>1, <3>1, <3>2
    <2>2. ASSUME NEW b \in Buckets, NEW m \in 1 .. Len(buckets'[b]), NEW n \in 1 .. Len(buckets'[b]),
                 buckets'[b][m].key = buckets'[b][n].key
          PROVE  m = n
        <3>1. CASE b # B
            BY <1>6, <2>2, <3>1 DEF CacheInv, TableInv
        <3>2. CASE b = B
            <4>1. \A x \in 1 .. Len(buckets[B]) : buckets[B][x].key # k
                BY <1>3, FindIs DEF B
            <4>2. \A x, y \in 1 .. Len(buckets[B]) : buckets[B][x].key = buckets[B][y].key => x = y
                BY <1>4 DEF CacheInv, TableInv
            <4> QED BY <1>4, <1>8, <2>2, <3>2, <4>1, <4>2
        <3> QED BY <3>1, <3>2
    <2>3. ASSUME NEW d \in live'
          PROVE  \E n \in 1 .. Len(buckets'[BucketOf[items'[d].key]]) : buckets'[BucketOf[items'[d].key]][n].item = d
        <3>1. CASE d \in live
            <4> DEFINE b == BucketOf[items[d].key]
            <4>1. b \in Buckets /\ items'[d].key = items[d].key
                BY <1>2, <1>3, <3>1, FindIs DEF Items
            <4>2. PICK n \in 1 .. Len(buckets[b]) : buckets[b][n].item = d
                BY <3>1 DEF CacheInv, TableInv
            <4>3. n \in 1 .. Len(buckets'[b]) /\ buckets'[b][n] = buckets[b][n]
                <5>1. CASE b = B
                    <6>1. n \in 1 .. N
                        BY <1>5, <4>2, <5>1
                    <6> QED BY <1>5, <1>6, <1>8, <4>2, <5>1, <6>1
                <5>2. CASE b # B
                    BY <1>6, <4>1, <4>2, <5>2
                <5> QED BY <5>1, <5>2
            <4> QED BY <4>1, <4>2, <4>3
        <3>2. CASE d = c
            <4>1. BucketOf[items'[d].key] = B /\ N \in 1 .. N /\ buckets'[B][N] = e
                BY <1>2, <1>5, <1>6, <3>2 DEF B
            <4> QED BY <1>4, <1>8, <3>2, <4>1
        <3> QED BY <1>2, <3>1, <3>2
    <2> QED BY <2>1, <2>2, <2>3 DEF TableInv, Buckets
<1>10. ListInv'
    BY <1>2 DEF ListInv, Ordered, live
<1>11. Listed' = Listed \union {k} /\ k \notin Listed /\ Listed \in SUBSET Keys
    <2>1. Listed' = Listed \union {k}
        BY <1>2 DEF Listed
    <2>2. k \notin Listed
        BY <1>3, FoundIsListed DEF CacheInv
    <2>3. \A d \in live : items[d].key \in Keys
        BY <1>3 DEF Items
    <2> QED BY <2>1, <2>2, <2>3 DEF Listed
<1>12. CountInv'
    <2>1. /\ IsFiniteSet(Listed) /\ IsFiniteSet(Lru!BytesOf(Listed))
          /\ count = Cardinality(Listed) /\ bytes = Lru!TotalSize(Listed)
        BY DEF CacheInv, CountInv
    <2>2. IsFiniteSet(Listed \union {k}) /\ Cardinality(Listed \union {k}) = Cardinality(Listed) + 1
        BY <1>11, <2>1, FS_AddElement
    <2>3. /\ IsFiniteSet(Lru!BytesOf(Listed \union {k}))
          /\ Lru!TotalSize(Listed \union {k}) = Lru!TotalSize(Listed) + SizeOf[k]
        BY <1>11, <2>1, SizeOfMore
    <2>4. count' = count + 1 /\ bytes' = bytes + SizeOf[k]
        BY DEF Put
    <2> QED BY <1>11, <2>1, <2>2, <2>3, <2>4 DEF CountInv
<1>13. WithinLimits'
    BY DEF Put, WithinLimits
<1> QED BY <1>7, <1>9, <1>10, <1>12, <1>13 DEF CacheInv

LEMMA EvictOK ==
    ASSUME CacheInv, Evict
    PROVE  CacheInv'
<1>1. PICK s \in Seq(live) : Ordered(s, items, first, last)
    BY DEF CacheInv, ListInv
<1>2. /\ Ordered(Front(s), items', first', last')
      /\ last \in live /\ Oldest # 0
      /\ live' = live \ {last} /\ items' \in [live' -> Items]
      /\ \A d \in live' : items'[d].key = items[d].key
    BY <1>1, EvictList
<1> DEFINE k == items[last].key
           B == BucketOf[k]
           o == Oldest
           s0 == buckets[B]
           s1 == RemoveUnordered(s0, o)
<1>3. buckets \in [Buckets -> Seq(Entries)] /\ live \subseteq Cells /\ items \in [live -> Items] /\ k \in Keys
    BY <1>2 DEF CacheInv, TypeInv, Items
<1>4. /\ count' = count - 1 /\ bytes' = bytes - s0[o].size
      /\ buckets' = [buckets EXCEPT ![B] = s1]
    BY DEF Evict
<1>5. /\ B \in Buckets /\ s0 \in Seq(Entries) /\ Len(s0) \in Nat
      /\ o \in 1 .. Len(s0) /\ s0[o].key = k
    BY <1>2, <1>3, FindIs, BucketType DEF Oldest
<1>6. /\ s0[o].size = SizeOf[k] /\ s0[o].item \in live /\ items[s0[o].item].key = k
      /\ \A m, n \in 1 .. Len(s0) : s0[m].key = s0[n].key => m = n
    BY <1>5 DEF CacheInv, TableInv
<1>7. s0[o].item = last
    BY <1>2, <1>6, KeysDiffer DEF CacheInv
<1> HIDE DEF k, B, o, s0, s1
<1>8. /\ s1 \in Seq(Entries) /\ Len(s1) = Len(s0) - 1
      /\ \A n \in 1 .. Len(s0) - 1 : s1[n] = IF n = o THEN s0[Len(s0)] ELSE s0[n]
    <2>1. s0 # <<>>
        BY <1>5
    <2> QED BY <1>5, <2>1, RemoveUnorderedType DEF s1, RemoveUnordered
<1>9. \A n \in 1 .. Len(s1) : \E m \in 1 .. Len(s0) : m # o /\ s1[n] = s0[m]
    <2> SUFFICES ASSUME NEW n \in 1 .. Len(s1) PROVE \E m \in 1 .. Len(s0) : m # o /\ s1[n] = s0[m]
        OBVIOUS
    <2>1. n \in 1 .. Len(s0) - 1
        BY <1>8
    <2>2. CASE n = o
        <3>1. Len(s0) \in 1 .. Len(s0) /\ Len(s0) # o /\ s1[n] = s0[Len(s0)]
            BY <1>5, <1>8, <2>1, <2>2
        <3> QED BY <3>1
    <2>3. CASE n # o
        <3>1. n \in 1 .. Len(s0) /\ s1[n] = s0[n]
            BY <1>5, <1>8, <2>1, <2>3
        <3> QED BY <2>3, <3>1
    <2> QED BY <2>2, <2>3
<1>10. \A m \in 1 .. Len(s0) : m # o => \E n \in 1 .. Len(s1) : s1[n] = s0[m]
    <2> SUFFICES ASSUME NEW m \in 1 .. Len(s0), m # o PROVE \E n \in 1 .. Len(s1) : s1[n] = s0[m]
        OBVIOUS
    <2>1. CASE m = Len(s0)
        <3>1. o \in 1 .. Len(s1) /\ s1[o] = s0[m]
            BY <1>5, <1>8, <2>1
        <3> QED BY <3>1
    <2>2. CASE m # Len(s0)
        <3>1. m \in 1 .. Len(s1) /\ s1[m] = s0[m]
            BY <1>5, <1>8, <2>2
        <3> QED BY <3>1
    <2> QED BY <2>1, <2>2
<1>11. \A m, n \in 1 .. Len(s1) : s1[m].key = s1[n].key => m = n
    <2> SUFFICES ASSUME NEW m \in 1 .. Len(s1), NEW n \in 1 .. Len(s1), s1[m].key = s1[n].key PROVE m = n
        OBVIOUS
    <2> DEFINE at(x) == IF x = o THEN Len(s0) ELSE x
    <2>1. m \in 1 .. Len(s0) - 1 /\ n \in 1 .. Len(s0) - 1
        BY <1>8
    <2>2. at(m) \in 1 .. Len(s0) /\ at(n) \in 1 .. Len(s0)
        BY <1>5, <2>1
    <2>3. s1[m] = s0[at(m)] /\ s1[n] = s0[at(n)]
        BY <1>8, <2>1
    <2>4. at(m) = at(n)
        BY <1>6, <2>2, <2>3
    <2> QED BY <1>5, <2>1, <2>4
<1>12. /\ buckets' \in [Buckets -> Seq(Entries)] /\ buckets'[B] = s1
       /\ \A b \in Buckets \ {B} : buckets'[b] = buckets[b]
    BY <1>3, <1>4, <1>5, <1>8
<1>13. TypeInv'
    BY <1>2, <1>3, <1>12 DEF TypeInv, CacheInv, Evict
\* Every entry that stays was one before, and not that of the last item.
<1>14. \A b \in Buckets : \A n \in 1 .. Len(buckets'[b]) :
            /\ \E m \in 1 .. Len(buckets[b]) : buckets'[b][n] = buckets[b][m]
            /\ buckets'[b][n].key # k
    <2> SUFFICES ASSUME NEW b \in Buckets, NEW n \in 1 .. Len(buckets'[b])
                 PROVE  /\ \E m \in 1 .. Len(buckets[b]) : buckets'[b][n] = buckets[b][m]
                        /\ buckets'[b][n].key # k
        OBVIOUS
    <2>1. CASE b = B
        <3>1. PICK m \in 1 .. Len(s0) : m # o /\ s1[n] = s0[m]
            BY <1>9, <1>12, <2>1
        <3>2. s0[m].key # k
            BY <1>5, <1>6, <3>1
        <3> QED BY <1>12, <2>1, <3>1, <3>2 DEF s0
    <2>2. CASE b # B
        <3>1. buckets'[b] = buckets[b]
            BY <1>12, <2>2
        <3>2. BucketOf[buckets[b][n].key] = b
            BY <3>1 DEF CacheInv, TableInv
        <3> QED BY <2>2, <3>1, <3>2 DEF B
    <2> QED BY <2>1, <2>2
<1>15. TableInv'
    <2>1. ASSUME NEW b \in Buckets, NEW n \in 1 .. Len(buckets'[b])
          PROVE  /\ BucketOf[buckets'[b][n].key] = b
                 /\ buckets'[b][n].size = SizeOf[buckets'[b][n].key]
                 /\ buckets'[b][n].item \in live'
                 /\ items'[buckets'[b][n].item].key = buckets'[b][n].key
        <3>1. PICK m \in 1 .. Len(buckets[b]) : buckets'[b][n] = buckets[b][m]
            BY <1>14
        <3>2. /\ BucketOf[buckets[b][m].key] = b
              /\ buckets[b][m].size = SizeOf[buckets[b][m].key]
              /\ buckets[b][m].item \in live
              /\ items[buckets[b][m].item].key = buckets[b][m].key
            BY DEF CacheInv, TableInv
        <3>3. buckets'[b][n].key # k
            BY <1>14
        <3>4. buckets[b][m].item # last
            BY <3>1, <3>2, <3>3 DEF k
        <3> QED BY <1>2, <3>1, <3>2, <3>4
    <2>2. ASSUME NEW b \in Buckets, NEW m \in 1 .. Len(buckets'[b]), NEW n \in 1 .. Len(buckets'[b]),
                 buckets'[b][m].key = buckets'[b][n].key
          PROVE  m = n
        <3>1. CASE b # B
            BY <1>12, <2>2, <3>1 DEF CacheInv, TableInv
        <3>2. CASE b = B
            BY <1>11, <1>12, <2>2, <3>2
        <3> QED BY <3>1, <3>2
    <2>3. ASSUME NEW d \in live'
          PROVE  \E n \in 1 .. Len(buckets'[BucketOf[items'[d].key]]) : buckets'[BucketOf[items'[d].key]][n].item = d
        <3> DEFINE b == BucketOf[items[d].key]
        <3>1. d \in live /\ d # last /\ items'[d].key = items[d].key
            BY <1>2
        <3>2. b \in Buckets
            BY <1>3, <3>1, FindIs DEF Items
        <3>3. PICK m \in 1 .. Len(buckets[b]) : buckets[b][m].item = d
            BY <3>1 DEF CacheInv, TableInv
        <3> HIDE DEF b
        <3>4. \E n \in 1 .. Len(buckets'[b]) : buckets'[b][n].item = d
            <4>1. CASE b = B
                <5>1. m \in 1 .. Len(s0) /\ s0[m].item = d
                    BY <3>3, <4>1 DEF s0
                <5>2. m # o
                    BY <1>7, <3>1, <5>1
                <5> QED BY <1>10, <1>12, <4>1, <5>1, <5>2
            <4>2. CASE b # B
                BY <1>12, <3>2, <3>3, <4>2
            <4> QED BY <4>1, <4>2
        <3> QED BY <3>1, <3>4 DEF b
    <2> QED BY <2>1, <2>2, <2>3 DEF TableInv, Buckets
<1>16. ListInv'
    BY <1>2 DEF ListInv, Ordered, live
<1>17. Listed' = Listed \ {k} /\ k \in Listed /\ Listed \in SUBSET Keys
    <2>1. \A d \in live : d # last => items[d].key # k
        BY <1>2, KeysDiffer DEF k, CacheInv
    <2>2. Listed' = Listed \ {k}
        BY <1>2, <2>1 DEF Listed, k
    <2>3. \A d \in live : items[d].key \in Keys
        BY <1>3 DEF Items
    <2> QED BY <1>2, <2>2, <2>3 DEF Listed, k
<1>18. CountInv'
    <2>1. /\ IsFiniteSet(Listed) /\ IsFiniteSet(Lru!BytesOf(Listed))
          /\ count = Cardinality(Listed) /\ bytes = Lru!TotalSize(Listed)
        BY DEF CacheInv, CountInv
    <2>2. IsFiniteSet(Listed \ {k}) /\ Cardinality(Listed \ {k}) = Cardinality(Listed) - 1
        BY <1>17, <2>1, FS_RemoveElement
    <2>3. /\ IsFiniteSet(Lru!BytesOf(Listed \ {k}))
          /\ Lru!TotalSize(Listed \ {k}) = Lru!TotalSize(Listed) - SizeOf[k]
        BY <1>17, <2>1, SizeOfLess
    <2> QED BY <1>4, <1>6, <1>17, <2>1, <2>2, <2>3 DEF CountInv
<1>19. WithinLimits'
    BY DEF Evict, WithinLimits
<1> QED BY <1>13, <1>15, <1>16, <1>18, <1>19 DEF CacheInv

LEMMA HitOK ==
    ASSUME CacheInv, NEW k \in Keys, Hit(k)
    PROVE  CacheInv'
<1>1. PICK s \in Seq(live) : Ordered(s, items, first, last)
    BY DEF CacheInv, ListInv
<1>2. PICK n \in 1 .. Len(s) :
        /\ Ordered(<<s[n]>> \o RemoveAt(s, n), items', first', last')
        /\ live' = live /\ items' \in [live' -> Items]
        /\ \A d \in live : items'[d].key = items[d].key
    BY <1>1, HitList DEF CacheInv
<1>3. buckets' = buckets /\ count' = count /\ bytes' = bytes /\ pc' = pc
    BY DEF Hit
<1>4. TypeInv'
    BY <1>2, <1>3 DEF CacheInv, TypeInv
<1>5. TableInv'
    <2>1. ASSUME NEW b \in Buckets, NEW m \in 1 .. Len(buckets[b])
          PROVE  buckets[b][m].item \in live' /\ items'[buckets[b][m].item].key = buckets[b][m].key
        BY <1>2 DEF CacheInv, TableInv
    <2>2. ASSUME NEW d \in live'
          PROVE  \E m \in 1 .. Len(buckets[BucketOf[items'[d].key]]) : buckets[BucketOf[items'[d].key]][m].item = d
        <3>1. d \in live /\ items'[d].key = items[d].key
            BY <1>2
        <3>2. \E m \in 1 .. Len(buckets[BucketOf[items[d].key]]) : buckets[BucketOf[items[d].key]][m].item = d
            BY <3>1 DEF CacheInv, TableInv
        <3> QED BY <3>1, <3>2
    <2>3. \A b \in Buckets : \A m \in 1 .. Len(buckets[b]) :
            /\ BucketOf[buckets[b][m].key] = b /\ buckets[b][m].size = SizeOf[buckets[b][m].key]
            /\ \A l \in 1 .. Len(buckets[b]) : buckets[b][m].key = buckets[b][l].key => m = l
        BY DEF CacheInv, TableInv
    <2> QED BY <1>3, <2>1, <2>2, <2>3 DEF TableInv, Buckets
<1>6. ListInv'
    BY <1>2 DEF ListInv, Ordered, live
<1>7. Listed' = Listed
    BY <1>2 DEF Listed
<1>8. CountInv'
    BY <1>3, <1>7 DEF CacheInv, CountInv
<1>9. WithinLimits'
    BY <1>3 DEF CacheInv, WithinLimits, TooMuch
<1> QED BY <1>4, <1>5, <1>6, <1>8, <1>9 DEF CacheInv

LEMMA CleanupOK ==
    ASSUME CacheInv, Cleanup
    PROVE  CacheInv' /\ Ordered(<<>>, items', first', last')
<1>1. PICK s \in Seq(live) : Ordered(s, items, first, last)
    BY DEF CacheInv, ListInv
<1>2. Reached = live
    BY <1>1, AllReached DEF CacheInv, TypeInv
<1>3. /\ buckets' = [b \in Buckets |-> <<>>] /\ items' = [d \in {} |-> items[d]] /\ live' = {}
      /\ first' = Null /\ last' = Null /\ count' = 0 /\ bytes' = 0 /\ pc' = pc
    BY <1>2 DEF Cleanup, live
<1>4. TypeInv'
    <2>1. buckets' \in [Buckets -> Seq(Entries)]
        BY <1>3
    <2>2. items' \in [live' -> Items]
        BY <1>3
    <2> QED BY <1>3, <2>1, <2>2 DEF TypeInv, CacheInv
<1>5. TableInv'
    BY <1>3 DEF TableInv, Buckets
<1>10. Ordered(<<>>, items', first', last')
    BY <1>3 DEF Ordered, LinksOf, ToSet
<1>6. ListInv'
    <2>2. <<>> \in Seq(live')
        OBVIOUS
    <2> QED BY <1>10, <2>2 DEF ListInv
<1>7. Listed' = {}
    BY <1>3 DEF Listed
<1>8. CountInv'
    BY <1>3, <1>7, FS_EmptySet, SizeOfNone DEF CountInv
<1>9. WithinLimits'
    BY <1>3, CacheAssumption DEF WithinLimits, TooMuch
<1> QED BY <1>4, <1>5, <1>6, <1>8, <1>9, <1>10 DEF CacheInv

LEMMA Invariant == Spec => []CacheInv
<1>1. CacheInv /\ [Next]_vars => CacheInv'
    <2> SUFFICES ASSUME CacheInv, [Next]_vars PROVE CacheInv'
        OBVIOUS
    <2>1. CASE Evict
        BY <2>1, EvictOK
    <2>2. CASE Cleanup
        BY <2>2, CleanupOK
    <2>3. ASSUME NEW k \in Keys, Hit(k) PROVE CacheInv'
        BY <2>3, HitOK
    <2>4. ASSUME NEW k \in Keys, Put(k) PROVE CacheInv'
        BY <2>4, PutOK
    <2>5. ASSUME buckets' = buckets, items' = items, first' = first, last' = last,
                 count' = count, bytes' = bytes, pc' \in {"idle", "evict"},
                 pc' = "idle" => pc = "idle" \/ ~TooMuch
          PROVE  CacheInv'
        <3>1. TypeInv' /\ TableInv' /\ ListInv' /\ CountInv'
            BY <2>5 DEF CacheInv, TypeInv, TableInv, ListInv, CountInv, Listed, live, Buckets
        <3>2. WithinLimits'
            BY <2>5 DEF CacheInv, WithinLimits, TooMuch
        <3> QED BY <3>1, <3>2 DEF CacheInv
    <2>6. CASE EvictDone
        <3>1. PICK s \in Seq(live) : Ordered(s, items, first, last)
            BY DEF CacheInv, ListInv
        <3>2. ~TooMuch
            BY <2>6, <3>1, TooMuchIsMany DEF EvictDone
        <3> QED BY <2>5, <2>6, <3>2 DEF EvictDone
    <2>7. ASSUME NEW k \in Keys, Miss(k) PROVE CacheInv'
        BY <2>5, <2>7 DEF Miss, CacheInv, TypeInv
    <2>8. CASE UNCHANGED vars
        BY <2>5, <2>8 DEF vars, CacheInv, TypeInv
    <2> QED BY <2>1, <2>2, <2>3, <2>4, <2>6, <2>7, <2>8 DEF Next
<1> QED BY <1>1, InitOK, PTL DEF Spec

\* The fields keep their types, in particular no counter gets negative.
THEOREM TypeCorrect == Spec => []TypeOK
<1>1. CacheInv => TypeOK
    <2> SUFFICES ASSUME CacheInv PROVE TypeOK
        OBVIOUS
    <2>1. PICK s \in Seq(live) : Ordered(s, items, first, last)
        BY DEF CacheInv, ListInv
    <2>2. {first, last} \subseteq Cells \union {Null}
        <3>1. s # <<>> => 1 \in 1 .. Len(s) /\ Len(s) \in 1 .. Len(s)
            BY <2>1, OrderedType
        <3> QED BY <2>1, <3>1, OrderedType DEF Ordered, LinksOf, CacheInv, TypeInv
    <2>3. Listed \in SUBSET Keys
        BY DEF Listed, CacheInv, TypeInv, Items
    <2>4. count \in Nat /\ bytes \in Nat
        BY <2>3, SizeOfFewer, FS_CardinalityType DEF CacheInv, CountInv
    <2> QED BY <2>2, <2>4 DEF TypeOK, CacheInv, TypeInv, Entries, Items
<1> QED BY <1>1, Invariant, PTL

\* No cell the list reaches was freed, none is leaked, and the list has no cycle:
\* the pointers of cache.c:93-105, 144-152 and 184-192 list all items once,
\* whatever the order of hits, puts and evictions.
THEOREM NoDanglingPointer == Spec => []ListIsDouble
<1>1. CacheInv => ListIsDouble
    <2> SUFFICES ASSUME CacheInv PROVE ListIsDouble
        OBVIOUS
    <2>1. PICK s \in Seq(live) : Ordered(s, items, first, last)
        BY DEF CacheInv, ListInv
    <2>2. s \in SetToSeqs(live)
        BY <2>1, CountDistinct DEF Ordered, live
    <2>3. Links(s)
        BY <2>1 DEF Ordered, LinksOf, Links
    <2> QED BY <2>2, <2>3 DEF ListIsDouble
<1> QED BY <1>1, Invariant, PTL

\* The table and the list always hold the same blocks, each once, and the two
\* counters say how many and how large they are: the warning of cache.c:175 is
\* never logged.
THEOREM TableAgreesWithList == Spec => []TableMatchesList
<1>1. CacheInv => TableMatchesList
    <2> SUFFICES ASSUME CacheInv PROVE TableMatchesList
        OBVIOUS
    <2>1. buckets \in [Buckets -> Seq(Entries)]
        BY DEF CacheInv, TypeInv
    <2>2. ASSUME NEW e \in Blocks
          PROVE  e.item \in live /\ items[e.item].key = e.key /\ e.size = SizeOf[e.key]
        <3>1. PICK b \in Buckets : \E n \in DOMAIN buckets[b] : e = buckets[b][n]
            BY DEF Blocks, ToSet
        <3>2. PICK n \in 1 .. Len(buckets[b]) : e = buckets[b][n]
            BY <2>1, <3>1, BucketType
        <3> QED BY <3>2 DEF CacheInv, TableInv
    <2>3. ASSUME NEW c \in live PROVE \E e \in Blocks : e.item = c
        <3>1. BucketOf[items[c].key] \in Buckets
            BY <2>1, FindIs DEF CacheInv, TypeInv, Items
        <3>2. PICK n \in 1 .. Len(buckets[BucketOf[items[c].key]]) : buckets[BucketOf[items[c].key]][n].item = c
            BY DEF CacheInv, TableInv
        <3>3. n \in DOMAIN buckets[BucketOf[items[c].key]]
            BY <2>1, <3>1, <3>2, BucketType
        <3> QED BY <3>1, <3>2, <3>3 DEF Blocks, ToSet
    <2>4. \A b \in Buckets : \A m, n \in DOMAIN buckets[b] : buckets[b][m].key = buckets[b][n].key => m = n
        BY <2>1, BucketType DEF CacheInv, TableInv
    <2>5. Cached = Listed
        BY CachedIsListed DEF CacheInv
    <2> QED BY <2>2, <2>3, <2>4, <2>5 DEF TableMatchesList, CacheInv, CountInv
<1> QED BY <1>1, Invariant, PTL

\* Whenever cachePut has returned the cache is within both of its limits: the
\* eviction loop never gives up.
THEOREM LimitsHold == Spec => []WithinLimits
<1>1. CacheInv => WithinLimits
    BY DEF CacheInv
<1> QED BY <1>1, Invariant, PTL

-----------------------------------------------------------------------------
\* The refinement.

\* The blocks in the order of their last use are those of the list, and fit
\* exactly if the loop of cachePut has nothing to do.
LEMMA OrderFacts ==
    ASSUME CacheInv, NEW s, Ordered(s, items, first, last)
    PROVE  /\ Order = [n \in DOMAIN s |-> items[s[n]].key]
           /\ Order \in Seq(Keys) /\ Len(Order) = Len(s)
           /\ \A n \in 1 .. Len(s) : Order[n] = items[s[n]].key
           /\ ToSet(Order) = Listed /\ IsFiniteSet(Lru!BytesOf(ToSet(Order)))
           /\ Lru!Fits(Order) <=> ~TooMuch
<1>1. Order = [n \in DOMAIN s |-> items[s[n]].key]
    <2>1. Order = OrderOf(items, first, last)
        BY DEF Order, List, OrderOf, ListOf, Links, LinksOf, live
    <2> QED BY <2>1, OrderIs
<1>2. /\ DOMAIN s = 1 .. Len(s) /\ Len(s) \in Nat
      /\ \A n \in 1 .. Len(s) : s[n] \in live /\ items[s[n]].key \in Keys
      /\ \A c \in live : \E n \in 1 .. Len(s) : s[n] = c
      /\ \A m, n \in 1 .. Len(s) : s[m] = s[n] => m = n
    BY OrderedType DEF CacheInv, TypeInv, Items
<1>3. Order \in Seq(Keys) /\ Len(Order) = Len(s) /\ DOMAIN Order = 1 .. Len(s)
    BY <1>1, <1>2
<1>4. ToSet(Order) = Listed
    BY <1>1, <1>2 DEF ToSet, Listed
<1>5. \A m, n \in DOMAIN Order : Order[m] = Order[n] => m = n
    BY <1>1, <1>2, KeysDiffer DEF CacheInv
<1>6. Cardinality(Listed) = Len(s)
    BY <1>3, <1>4, <1>5, CountDistinct
<1>7. Lru!Fits(Order) <=> ~TooMuch
    <2>1. count = Len(Order) /\ bytes = Lru!TotalSize(ToSet(Order)) /\ count \in Nat
        BY <1>2, <1>3, <1>4, <1>6 DEF CacheInv, CountInv
    <2>2. bytes \in Nat
        <3>1. Listed \in SUBSET Keys
            BY DEF Listed, CacheInv, TypeInv, Items
        <3> QED BY <3>1, SizeOfFewer DEF CacheInv, CountInv
    <2> QED BY <2>1, <2>2, FitsIs, CacheAssumption DEF TooMuch
<1> QED BY <1>1, <1>2, <1>3, <1>4, <1>7 DEF CacheInv, CountInv

LEMMA OrderNext ==
    ASSUME NEW t, Ordered(t, items', first', last')
    PROVE  Order' = [n \in DOMAIN t |-> items'[t[n]].key]
<1>1. Order' = OrderOf(items', first', last')
    BY DEF Order, List, OrderOf, ListOf, Links, LinksOf, live
<1> QED BY <1>1, OrderIs

\* The operators of the specification do not depend on its variables.
LEMMA SameFitting == \A s : Fitted!Fitting(s) = Lru!Fitting(s)
BY DEF Fitted!Fitting, Lru!Fitting, Fitted!Max, Lru!Max, Fitted!Fits, Lru!Fits, Fitted!ToSet, Lru!ToSet,
       Fitted!TotalSize, Lru!TotalSize, Fitted!Cardinality, Lru!Cardinality, Fitted!BytesOf, Lru!BytesOf

LEMMA RecentNext == Recent' = IF pc' = "evict" THEN Lru!Fitting(Order') ELSE Order'
BY DEF Recent

LEMMA PutRefines ==
    ASSUME CacheInv, NEW k \in Keys, Put(k)
    PROVE  Fitted!Put(k)
<1>1. PICK s \in Seq(live) : Ordered(s, items, first, last)
    BY DEF CacheInv, ListInv
<1>2. PICK c \in Cells \ live :
        /\ Ordered(<<c>> \o s, items', first', last')
        /\ items'[c].key = k /\ \A d \in live : items'[d].key = items[d].key
    BY <1>1, PutList DEF CacheInv
<1> DEFINE t == <<c>> \o s
<1>3. /\ Order \in Seq(Keys) /\ Len(Order) = Len(s) /\ \A n \in 1 .. Len(s) : Order[n] = items[s[n]].key
      /\ ToSet(Order) = Listed
    BY <1>1, OrderFacts
<1>4. Len(s) \in Nat /\ \A n \in 1 .. Len(s) : s[n] \in live
    BY <1>1, OrderedType
<1>5. /\ Len(t) = 1 + Len(s) /\ DOMAIN t = 1 .. 1 + Len(s)
      /\ \A n \in 1 .. 1 + Len(s) : t[n] = IF n <= 1 THEN c ELSE s[n-1]
    <2>1. s \in Seq(Cells) /\ <<c>> \in Seq(Cells) /\ Len(<<c>>) = 1 /\ <<c>>[1] = c
        BY <1>1, SeqMonotonic DEF CacheInv, TypeInv
    <2>2. /\ t \in Seq(Cells) /\ Len(t) = 1 + Len(s)
          /\ \A n \in 1 .. 1 + Len(s) : t[n] = IF n <= 1 THEN <<c>>[n] ELSE s[n-1]
        BY <2>1, ConcatProperties
    <2> HIDE DEF t
    <2> QED BY <1>4, <2>1, <2>2, LenProperties
<1> DEFINE u == <<k>> \o Order
<1>6. /\ u \in Seq(Keys) /\ Len(u) = 1 + Len(s)
      /\ \A n \in 1 .. 1 + Len(s) : u[n] = IF n <= 1 THEN k ELSE Order[n-1]
    <2>1. <<k>> \in Seq(Keys) /\ Len(<<k>>) = 1 /\ <<k>>[1] = k
        OBVIOUS
    <2>2. /\ u \in Seq(Keys) /\ Len(u) = 1 + Len(s)
          /\ \A n \in 1 .. 1 + Len(s) : u[n] = IF n <= 1 THEN <<k>>[n] ELSE Order[n-1]
        BY <1>3, <2>1, ConcatProperties
    <2> HIDE DEF u
    <2> QED BY <1>4, <2>1, <2>2
<1> HIDE DEF t, u
<1>7. Order' = [n \in 1 .. 1 + Len(s) |-> items'[t[n]].key]
    BY <1>2, <1>5, OrderNext DEF t
<1>8. ASSUME NEW n \in 1 .. 1 + Len(s) PROVE items'[t[n]].key = u[n]
    <2>1. CASE n <= 1
        BY <1>2, <1>5, <1>6, <2>1
    <2>2. CASE ~(n <= 1)
        <3>1. n - 1 \in 1 .. Len(s)
            BY <1>4, <2>2
        <3> QED BY <1>2, <1>3, <1>4, <1>5, <1>6, <2>2, <3>1
    <2> QED BY <2>1, <2>2
<1>9. Order' = u
    <2>1. u = [n \in 1 .. 1 + Len(s) |-> u[n]]
        BY <1>6, LenProperties
    <2> QED BY <1>7, <1>8, <2>1
<1>10. Recent = Order /\ Recent' = Lru!Fitting(u) /\ answer' = "none"
    BY <1>9, RecentNext DEF Put, Recent
<1>11. \A n \in 1 .. Len(Order) : Order[n] # k
    <2>1. k \notin ToSet(Order)
        BY <1>3, FoundIsListed DEF CacheInv, Put
    <2> QED BY <1>3, <2>1, LenProperties DEF ToSet
<1> QED BY <1>10, <1>11, SameFitting DEF Fitted!Put, Fitted!Contains, u

LEMMA HitRefines ==
    ASSUME CacheInv, NEW k \in Keys, Hit(k)
    PROVE  Fitted!Hit(k)
<1>1. PICK s \in Seq(live) : Ordered(s, items, first, last)
    BY DEF CacheInv, ListInv
<1>2. PICK p \in 1 .. Len(s) :
        /\ items[s[p]].key = k
        /\ Ordered(<<s[p]>> \o RemoveAt(s, p), items', first', last')
        /\ \A d \in live : items'[d].key = items[d].key
    BY <1>1, HitList DEF CacheInv
<1> DEFINE t == <<s[p]>> \o RemoveAt(s, p)
           u == <<k>> \o RemoveAt(Order, p)
<1>3. Order \in Seq(Keys) /\ Len(Order) = Len(s) /\ \A n \in 1 .. Len(s) : Order[n] = items[s[n]].key
    BY <1>1, OrderFacts
<1>4. Len(s) \in Nat /\ \A n \in 1 .. Len(s) : s[n] \in live
    BY <1>1, OrderedType
<1>5. /\ Len(t) = Len(s) /\ DOMAIN t = 1 .. Len(s)
      /\ \A n \in 1 .. Len(s) : t[n] = IF n = 1 THEN s[p] ELSE IF n <= p THEN s[n-1] ELSE s[n]
    <2>1. s \in Seq(live) /\ p \in 1 .. Len(s) /\ s[p] \in live
        BY <1>4
    <2>2. ASSUME NEW S, s \in Seq(S), NEW x \in S
          PROVE  LET v == <<x>> \o RemoveAt(s, p)
                 IN /\ Len(v) = Len(s) /\ DOMAIN v = 1 .. Len(s)
                    /\ \A n \in 1 .. Len(s) : v[n] = IF n = 1 THEN x ELSE IF n <= p THEN s[n-1] ELSE s[n]
        BY ONLY p \in 1 .. Len(s), <2>2, InFrontElements
    <2> QED BY ONLY <2>1, <2>2
<1>6. /\ u \in Seq(Keys) /\ Len(u) = Len(s) /\ DOMAIN u = 1 .. Len(s)
      /\ \A n \in 1 .. Len(s) : u[n] = IF n = 1 THEN k ELSE IF n <= p THEN Order[n-1] ELSE Order[n]
    BY <1>3, InFrontElements
<1> HIDE DEF t, u
<1>7. Order' = [n \in 1 .. Len(s) |-> items'[t[n]].key]
    BY <1>2, <1>5, OrderNext DEF t
<1>8. ASSUME NEW n \in 1 .. Len(s) PROVE items'[t[n]].key = u[n]
    <2>1. CASE n = 1
        BY <1>2, <1>4, <1>5, <1>6, <2>1
    <2>2. CASE n # 1 /\ n <= p
        <3>1. n - 1 \in 1 .. Len(s)
            BY <1>4, <2>2
        <3> QED BY <1>2, <1>3, <1>4, <1>5, <1>6, <2>2, <3>1
    <2>3. CASE n # 1 /\ ~(n <= p)
        BY <1>2, <1>3, <1>4, <1>5, <1>6, <2>3
    <2> QED BY <2>1, <2>2, <2>3
<1>9. Order' = u
    <2>1. u = [n \in 1 .. Len(s) |-> u[n]]
        BY <1>6, LenProperties
    <2> QED BY <1>7, <1>8, <2>1
<1>10. Recent = Order /\ Recent' = u /\ answer' = k
    BY <1>9, RecentNext DEF Hit, Recent
<1>11. p \in DOMAIN Order /\ Order[p] = k
    BY <1>2, <1>3, LenProperties
<1>12. u = <<k>> \o Fitted!RemoveAt(Order, p)
    BY DEF u, RemoveAt, Fitted!RemoveAt
<1> QED BY <1>10, <1>11, <1>12 DEF Fitted!Hit

LEMMA EvictStutters ==
    ASSUME CacheInv, Evict
    PROVE  Recent' = Recent /\ answer' = answer
<1>1. PICK s \in Seq(live) : Ordered(s, items, first, last)
    BY DEF CacheInv, ListInv
<1>2. /\ Ordered(Front(s), items', first', last') /\ 2 <= Len(s)
      /\ live' = live \ {last} /\ \A d \in live' : items'[d].key = items[d].key
    BY <1>1, EvictList
<1>3. /\ Order \in Seq(Keys) /\ Len(Order) = Len(s) /\ \A n \in 1 .. Len(s) : Order[n] = items[s[n]].key
      /\ IsFiniteSet(Lru!BytesOf(ToSet(Order))) /\ ~Lru!Fits(Order)
    BY <1>1, OrderFacts DEF Evict
<1>4. Len(s) \in Nat
    BY <1>1, OrderedType
<1>5. Len(s) - 1 \in 0 .. Len(s) /\ Order # <<>>
    BY <1>2, <1>3, <1>4
<1>6. DOMAIN Front(s) = 1 .. Len(s) - 1 /\ \A n \in 1 .. Len(s) - 1 : Front(s)[n] = s[n]
    BY <1>5, PrefixElements DEF Front
<1>7. /\ Front(Order) \in Seq(Keys) /\ DOMAIN Front(Order) = 1 .. Len(s) - 1
      /\ Len(Front(Order)) = Len(s) - 1
      /\ \A n \in 1 .. Len(s) - 1 : Front(Order)[n] = Order[n]
    BY <1>3, <1>5, PrefixElements DEF Front
<1>8. Order' = [n \in 1 .. Len(s) - 1 |-> items'[Front(s)[n]].key]
    BY <1>2, <1>6, OrderNext
<1>9. ASSUME NEW n \in 1 .. Len(s) - 1 PROVE items'[Front(s)[n]].key = Front(Order)[n]
    <2>1. n \in 1 .. Len(s)
        BY <1>4
    <2>2. Front(s)[n] \in live'
        BY <1>2, <1>6, LenProperties, ElementOfSeq DEF Ordered, live
    <2> QED BY <1>2, <1>3, <1>6, <1>7, <2>1, <2>2
<1>10. Order' = Front(Order)
    <2>1. Front(Order) = [n \in 1 .. Len(s) - 1 |-> Front(Order)[n]]
        BY <1>7, LenProperties
    <2> QED BY <1>8, <1>9, <2>1
<1>11. Lru!Fitting(Front(Order)) = Lru!Fitting(Order)
    BY <1>3, <1>5, FittingShorter
<1> QED BY <1>10, <1>11, RecentNext DEF Evict, Recent

\* The pointers, the table and the eviction loop are a cache of the blocks used
\* last: cacheGet hits exactly the blocks that the two limits leave room for
\* after the ones used since.
THEOREM CacheIsLru == Spec => ImplementsLru
<1>1. Init => Fitted!Init
    <2> SUFFICES ASSUME Init PROVE Fitted!Init
        OBVIOUS
    <2>1. Ordered(<<>>, items, first, last)
        BY DEF Init, Ordered, LinksOf, ToSet
    <2>2. CacheInv
        BY InitOK
    <2>3. Order \in Seq(Keys) /\ Len(Order) = 0
        BY <2>1, <2>2, OrderFacts
    <2>4. Recent = <<>>
        BY <2>3 DEF Init, Recent
    <2> QED BY <2>4 DEF Init, Fitted!Init
<1>2. CacheInv /\ [Next]_vars => [Fitted!Next]_<<Recent, answer>>
    <2> SUFFICES ASSUME CacheInv, [Next]_vars PROVE [Fitted!Next]_<<Recent, answer>>
        OBVIOUS
    <2>0. PICK s \in Seq(live) : Ordered(s, items, first, last)
        BY DEF CacheInv, ListInv
    <2>1. CASE Evict
        BY <2>1, EvictStutters
    <2>2. CASE Cleanup
        <3>1. Ordered(<<>>, items', first', last')
            BY <2>2, CleanupOK
        <3>2. Order' = <<>>
            BY <3>1, OrderNext
        <3>3. Recent' = <<>> /\ answer' = "none"
            BY <2>2, <3>2, RecentNext DEF Cleanup
        <3> QED BY <3>3 DEF Fitted!Next, Fitted!Cleanup
    <2>3. ASSUME NEW k \in Keys, Hit(k) PROVE Fitted!Next
        BY <2>3, HitRefines DEF Fitted!Next
    <2>4. ASSUME NEW k \in Keys, Put(k) PROVE Fitted!Next
        BY <2>4, PutRefines DEF Fitted!Next
    <2>5. CASE EvictDone
        <3>1. ~TooMuch /\ pc = "evict" /\ pc' = "idle" /\ answer' = answer
            BY <2>0, <2>5, TooMuchIsMany DEF EvictDone
        <3>2. Lru!Fitting(Order) = Order
            BY <2>0, <3>1, OrderFacts, FittingWhole
        <3>3. Order' = Order
            BY <2>5 DEF EvictDone, Order, List, Links, live
        <3> QED BY <3>1, <3>2, <3>3, RecentNext DEF Recent
    <2>6. ASSUME items' = items, first' = first, last' = last, pc' = pc
          PROVE  Recent' = Recent
        <3>1. Order' = Order
            BY <2>6 DEF Order, List, Links, live
        <3> QED BY <2>6, <3>1, RecentNext DEF Recent
    <2>7. ASSUME NEW k \in Keys, Miss(k) PROVE Fitted!Next
        <3>1. Recent' = Recent /\ Recent = Order /\ answer' = "miss"
            BY <2>6, <2>7 DEF Miss, Recent
        <3>2. k \notin ToSet(Order) /\ Order \in Seq(Keys)
            BY <2>0, <2>7, OrderFacts, FoundIsListed DEF Miss, CacheInv
        <3>3. \A n \in 1 .. Len(Order) : Order[n] # k
            BY <3>2, LenProperties DEF ToSet
        <3> QED BY <3>1, <3>3 DEF Fitted!Next, Fitted!Miss, Fitted!Contains
    <2>8. CASE UNCHANGED vars
        BY <2>6, <2>8 DEF vars
    <2> QED BY <2>1, <2>2, <2>3, <2>4, <2>5, <2>7, <2>8 DEF Next
<1> QED BY <1>1, <1>2, Invariant, PTL DEF Spec, ImplementsLru, Fitted!Spec
=============================================================================
