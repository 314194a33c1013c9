--------------------------- MODULE FileDataProofs ---------------------------
(***************************************************************************)
(* Proofs about FileData for any block sizes, buffers, offsets and number  *)
(* of pending writes.  In this order: division, getBlockSize and its loop, *)
(* the shape of a file (Shape) and what a flush makes of it, the lengths   *)
(* of its blocks (BlockLengths), the bytes a flush keeps and a read puts   *)
(* together (HoleFree, ReadIs), and the steps of BufferedFile.             *)
(*                                                                         *)
(* TypeCorrect and FewBlocks hold of every behaviour.  The other theorems  *)
(* are about clients that stay clear of what truncation gets wrong: they   *)
(* name the condition they need (CutsAtBlocks, CutsToNothing), and         *)
(* CutsAreChosen says which constants ensure it.                           *)
(***************************************************************************)
EXTENDS FileData, TLAPS, WellFoundedInduction, SequenceTheorems, FiniteSetTheorems

\* A nonempty set of naturals has a least element.
LEMMA LeastNatural ==
    ASSUME NEW S \in SUBSET Nat, S # {}
    PROVE  \E m \in S : \A n \in S : m <= n
<1> DEFINE Less == {ss \in Nat \X Nat : ss[1] < ss[2]}
<1>1. IsWellFoundedOn(Less, Nat)
    BY NatLessThanWellFounded DEF OpToRel
<1>2. \E m \in S : \A n \in S : <<n, m>> \notin Less
    <2> HIDE DEF Less
    <2> QED BY <1>1, WFMin
<1>3. PICK m \in S : \A n \in S : <<n, m>> \notin Less
    BY <1>2
<1>4. ASSUME NEW n \in S PROVE m <= n
    <2>1. <<n, m>> \notin Less
        BY <1>3
    <2> QED BY <2>1
<1> QED BY <1>4

-----------------------------------------------------------------------------
\* Division with remainder.
LEMMA DivMod ==
    ASSUME NEW k \in Nat, NEW b \in Nat \ {0}
    PROVE  /\ k \div b \in Nat /\ k % b \in 0 .. b - 1
           /\ k = (k \div b) * b + (k % b)
OBVIOUS

LEMMA TimesLess ==
    ASSUME NEW b \in Nat \ {0}, NEW i \in Nat, NEW j \in Nat, i < j
    PROVE  i * b + b <= j * b
<1>1. PICK d \in Nat : j = i + 1 + d
    <2>1. j - i - 1 \in Nat /\ j = i + 1 + (j - i - 1)
        OBVIOUS
    <2> QED BY <2>1
<1>2. j * b = i * b + b + d * b
    BY <1>1
<1>3. d * b \in Nat
    OBVIOUS
<1>4. i * b \in Nat
    OBVIOUS
<1> HIDE <1>1
<1> QED BY <1>2, <1>3, <1>4

\* The quotient is the only one that fits.
LEMMA DivIs ==
    ASSUME NEW k \in Nat, NEW b \in Nat \ {0}, NEW q \in Nat, q * b <= k, k < q * b + b
    PROVE  k \div b = q /\ k % b = k - q * b
<1> DEFINE p == k \div b
<1>1. p \in Nat /\ k % b \in 0 .. b - 1 /\ k = p * b + (k % b)
    BY DivMod
<1>2. q * b \in Nat /\ p * b \in Nat /\ b \in Nat
    BY <1>1
<1>3. ASSUME p < q PROVE FALSE
    <2>1. p * b + b <= q * b
        BY <1>1, <1>3, TimesLess
    <2> HIDE DEF p
    <2> QED BY <1>1, <1>2, <2>1
<1>4. ASSUME q < p PROVE FALSE
    <2>1. q * b + b <= p * b
        BY <1>1, <1>4, TimesLess
    <2> HIDE DEF p
    <2> QED BY <1>1, <1>2, <2>1
<1>5. p = q
    <2> HIDE DEF p
    <2> QED BY <1>1, <1>3, <1>4
<1>6. k % b = k - q * b
    <2>1. k = q * b + (k % b)
        BY <1>1, <1>5
    <2> HIDE DEF p
    <2> QED BY <1>1, <1>2, <2>1
<1> QED BY <1>5, <1>6

-----------------------------------------------------------------------------
\* Doubled on the first numbers, which is enough to compute the next.
DoubledUpTo(g, n) == g = [k \in 0 .. n |-> IF k = 0 THEN 1 ELSE 2 * g[k \div 2]]

LEMMA Half ==
    ASSUME NEW k \in Nat, k # 0
    PROVE  k \div 2 \in 0 .. k - 1 /\ k \in 2 * (k \div 2) .. 2 * (k \div 2) + 1
OBVIOUS

LEMMA DoubledExists ==
    ASSUME NEW n \in Nat
    PROVE  \E g : DoubledUpTo(g, n)
<1> DEFINE Bad == {m \in Nat : ~\E g : DoubledUpTo(g, m)}
<1>1. ASSUME Bad # {} PROVE FALSE
    <2>1. PICK m \in Bad : \A l \in Bad : m <= l
        <3>1. Bad \in SUBSET Nat
            OBVIOUS
        <3> HIDE DEF Bad
        <3> QED BY <1>1, <3>1, LeastNatural
    <2>2. m # 0
        <3>1. DoubledUpTo([k \in 0 .. 0 |-> 1], 0)
            BY DEF DoubledUpTo
        <3> QED BY <3>1
    <2>3. m - 1 \in Nat /\ m - 1 \notin Bad
        BY <2>1, <2>2
    <2>4. PICK g : DoubledUpTo(g, m - 1)
        BY <2>3
    <2> DEFINE h == [k \in 0 .. m |-> IF k = 0 THEN 1 ELSE 2 * g[k \div 2]]
    <2>5. ASSUME NEW k \in 0 .. m - 1 PROVE h[k] = g[k]
        <3>1. g = [l \in 0 .. m - 1 |-> IF l = 0 THEN 1 ELSE 2 * g[l \div 2]]
            BY <2>4 DEF DoubledUpTo
        <3>2. g[k] = IF k = 0 THEN 1 ELSE 2 * g[k \div 2]
            BY <3>1
        <3>3. k \in 0 .. m
            BY <2>1
        <3> QED BY <3>2, <3>3
    <2>6. ASSUME NEW k \in 0 .. m PROVE h[k] = IF k = 0 THEN 1 ELSE 2 * h[k \div 2]
        <3>1. k # 0 => k \div 2 \in 0 .. m - 1
            BY <2>1, Half
        <3>2. k # 0 => h[k \div 2] = g[k \div 2]
            <4> HIDE DEF h
            <4> QED BY <3>1, <2>5
        <3>3. h[k] = IF k = 0 THEN 1 ELSE 2 * g[k \div 2]
            OBVIOUS
        <3> HIDE DEF h
        <3> QED BY <3>2, <3>3
    <2>7. h = [k \in 0 .. m |-> h[k]]
        OBVIOUS
    <2>8. DoubledUpTo(h, m)
        <3> HIDE DEF h
        <3> QED BY <2>6, <2>7 DEF DoubledUpTo
    <2>9. m \notin Bad
        <3> HIDE DEF h
        <3> QED BY <2>8
    <2> QED BY <2>1, <2>9
<1> QED BY <1>1

LEMMA DoubledUnique ==
    ASSUME NEW n \in Nat, NEW m \in Nat, NEW g, NEW h, DoubledUpTo(g, n), DoubledUpTo(h, m),
           NEW k \in Nat, k <= n, k <= m
    PROVE  g[k] = h[k]
<1> DEFINE Bad == {l \in Nat : l <= n /\ l <= m /\ g[l] # h[l]}
<1>1. ASSUME Bad # {} PROVE FALSE
    <2>1. PICK l \in Bad : \A i \in Bad : l <= i
        <3>1. Bad \in SUBSET Nat
            OBVIOUS
        <3> HIDE DEF Bad
        <3> QED BY <1>1, <3>1, LeastNatural
    <2>2. g[l] = IF l = 0 THEN 1 ELSE 2 * g[l \div 2]
        BY <2>1 DEF DoubledUpTo
    <2>3. h[l] = IF l = 0 THEN 1 ELSE 2 * h[l \div 2]
        BY <2>1 DEF DoubledUpTo
    <2>4. l # 0 => l \div 2 \notin Bad /\ l \div 2 \in Nat /\ l \div 2 <= n /\ l \div 2 <= m
        BY <2>1, Half
    <2> QED BY <2>1, <2>2, <2>3, <2>4
<1> QED BY <1>1

\* Doubled is the function its definition describes.
LEMMA DoubledIs ==
    ASSUME NEW n \in Nat
    PROVE  Doubled[n] = IF n = 0 THEN 1 ELSE 2 * Doubled[n \div 2]
<1> DEFINE first(m) == CHOOSE g : DoubledUpTo(g, m)
           f == [m \in Nat |-> first(m)[m]]
<1>1. ASSUME NEW m \in Nat PROVE DoubledUpTo(first(m), m)
    BY DoubledExists
<1>2. ASSUME NEW m \in Nat PROVE f[m] = IF m = 0 THEN 1 ELSE 2 * f[m \div 2]
    <2>1. f[m] = first(m)[m]
        OBVIOUS
    <2>2. m # 0 => f[m \div 2] = first(m \div 2)[m \div 2]
        BY Half
    <2>3. m # 0 => first(m \div 2)[m \div 2] = first(m)[m \div 2]
        <3> HIDE DEF first
        <3> QED BY <1>1, Half, DoubledUnique
    <2>4. first(m)[m] = IF m = 0 THEN 1 ELSE 2 * first(m)[m \div 2]
        <3> HIDE DEF first
        <3> QED BY <1>1 DEF DoubledUpTo
    <2> HIDE DEF first, f
    <2> QED BY <2>1, <2>2, <2>3, <2>4
<1>3. f = [m \in Nat |-> f[m]]
    OBVIOUS
<1>4. f = [m \in Nat |-> IF m = 0 THEN 1 ELSE 2 * f[m \div 2]]
    <2> HIDE DEF f
    <2> QED BY <1>2, <1>3
<1>5. Doubled = [m \in Nat |-> IF m = 0 THEN 1 ELSE 2 * Doubled[m \div 2]]
    <2> HIDE DEF f
    <2> QED BY <1>4 DEF Doubled
<1> QED BY <1>5

\* It is above n, but not twice above.
LEMMA DoubledBounds ==
    ASSUME NEW n \in Nat
    PROVE  /\ Doubled[n] \in Nat /\ Doubled[n] > n
           /\ n # 0 => Doubled[n] <= 2 * n
<1> DEFINE Good(m) == Doubled[m] \in Nat /\ Doubled[m] > m /\ (m # 0 => Doubled[m] <= 2 * m)
           Bad == {m \in Nat : ~Good(m)}
<1>1. ASSUME Bad # {} PROVE FALSE
    <2>1. PICK m \in Bad : \A l \in Bad : m <= l
        <3>1. Bad \in SUBSET Nat
            OBVIOUS
        <3> HIDE DEF Bad
        <3> QED BY <1>1, <3>1, LeastNatural
    <2>2. CASE m = 0
        <3>1. Doubled[0] = 1
            BY DoubledIs
        <3> QED BY <2>1, <2>2, <3>1
    <2>3. CASE m # 0
        <3>1. Doubled[m] = 2 * Doubled[m \div 2]
            BY <2>1, <2>3, DoubledIs
        <3>2. m \div 2 \in 0 .. m - 1 /\ m \in 2 * (m \div 2) .. 2 * (m \div 2) + 1
            BY <2>1, <2>3, Half
        <3>3. Good(m \div 2)
            BY <2>1, <3>2
        <3>4. m \div 2 = 0 => Doubled[m \div 2] = 1
            BY DoubledIs
        <3>5. Good(m)
            BY <2>1, <3>1, <3>2, <3>3, <3>4
        <3> QED BY <2>1, <3>5
    <2> QED BY <2>2, <2>3
<1> QED BY <1>1

-----------------------------------------------------------------------------
\* Greatest and least elements.
LEMMA MaxIs ==
    ASSUME NEW S \in SUBSET Int, NEW m \in S, \A x \in S : x <= m
    PROVE  Max(S) = m
<1>1. \A x \in S : (\A y \in S : x >= y) => x = m
    BY S \subseteq Int
<1>2. \A y \in S : m >= y
    OBVIOUS
<1> QED BY <1>1, <1>2 DEF Max

LEMMA MaxOfTwo ==
    ASSUME NEW a \in Int, NEW b \in Int
    PROVE  Max({a, b}) = IF a < b THEN b ELSE a
<1>1. CASE a < b
    BY <1>1, MaxIs, {a, b} \in SUBSET Int, b \in {a, b}
<1>2. CASE ~(a < b)
    BY <1>2, MaxIs, {a, b} \in SUBSET Int, a \in {a, b}
<1> QED BY <1>1, <1>2

LEMMA MinOfTwo ==
    ASSUME NEW a \in Int, NEW b \in Int
    PROVE  Min({a, b}) = IF a < b THEN a ELSE b
<1>1. CASE a < b
    BY <1>1 DEF Min
<1>2. CASE ~(a < b)
    BY <1>2 DEF Min
<1> QED BY <1>1, <1>2

\* getBlockSize stays between the limits and gives eight blocks at most, unless
\* the blocks are the largest there are.
LEMMA BlockSizeBounds ==
    ASSUME NEW size \in Nat
    PROVE  /\ BlockSizeFor(size) \in Nat
           /\ size = 0 => BlockSizeFor(size) = 0
           /\ size # 0 => /\ BlockSizeFor(size) # 0
                          /\ BlockSizeFor(size) \in MinBlock .. MaxBlock
                          /\ BlockSizeFor(size) = MaxBlock \/ size <= 8 * BlockSizeFor(size)
<1>1. CASE size = 0
    BY <1>1 DEF BlockSizeFor
<1>2. CASE size # 0
    <2> DEFINE n == size \div 4
               d == Doubled[n] \div 2
               b == IF MinBlock < d THEN d ELSE MinBlock
    <2>1. n \in Nat /\ size < 4 * n + 4
        OBVIOUS
    <2>2. d \in Nat
        <3> HIDE DEF n
        <3> QED BY <2>1, DoubledBounds
    <2>3. n # 0 => n + 1 <= 2 * d
        <3> SUFFICES ASSUME n # 0 PROVE n + 1 <= 2 * d
            OBVIOUS
        <3>1. Doubled[n] = 2 * Doubled[n \div 2] /\ n \div 2 \in Nat
            <4> HIDE DEF n
            <4> QED BY <2>1, DoubledIs
        <3>2. Doubled[n \div 2] \in Nat /\ Doubled[n] > n
            <4> HIDE DEF n
            <4> QED BY <2>1, <3>1, DoubledBounds
        <3> HIDE DEF n
        <3> QED BY <2>1, <3>1, <3>2
    <2>4. BlockSizeFor(size) = Min({MaxBlock, Max({MinBlock, d})})
        BY <1>2 DEF BlockSizeFor
    <2>5. BlockSizeFor(size) = IF MaxBlock < b THEN MaxBlock ELSE b
        <3>1. Max({MinBlock, d}) = b
            <4> HIDE DEF d
            <4> QED BY <2>2, MaxOfTwo, BlockAssumption
        <3> HIDE DEF d
        <3> QED BY <2>2, <2>4, <3>1, MinOfTwo, BlockAssumption
    <2> HIDE DEF d, n
    <2>6. b \in Nat /\ MinBlock <= b /\ size <= 8 * b
        BY <2>1, <2>2, <2>3, BlockAssumption
    <2> HIDE DEF b
    <2> QED BY <1>2, <2>5, <2>6, BlockAssumption
<1> QED BY <1>1, <1>2

\* The blocks are those that begin within the file.
LEMMA BlocksForIs ==
    ASSUME NEW size \in Nat, NEW bs \in Nat \ {0}
    PROVE  /\ BlocksFor(size, bs) \in Nat
           /\ \A n \in Nat : n < BlocksFor(size, bs) <=> n * bs < size
<1> DEFINE q == size \div bs
           r == size % bs
           N == BlocksFor(size, bs)
<1>1. q \in Nat /\ r \in 0 .. bs - 1 /\ size = q * bs + r
    BY DivMod
<1>2. N = q + (IF r = 0 THEN 0 ELSE 1)
    BY DEF BlocksFor
<1> HIDE DEF q, r, N
<1>3. N \in Nat
    BY <1>1, <1>2
<1>4. q * bs \in Nat
    BY <1>1
<1>5. ASSUME NEW n \in Nat PROVE n < N <=> n * bs < size
    <2>1. n * bs \in Nat
        OBVIOUS
    <2>2. CASE n < q
        <3>1. n * bs + bs <= q * bs
            BY <1>1, <2>2, TimesLess
        <3> QED BY <1>1, <1>2, <1>4, <2>1, <2>2, <3>1
    <2>3. CASE n = q
        BY <1>1, <1>2, <1>4, <2>3
    <2>4. CASE n > q
        <3>1. q * bs + bs <= n * bs
            BY <1>1, <2>4, TimesLess
        <3> QED BY <1>1, <1>2, <1>4, <2>1, <2>4, <3>1
    <2> QED BY <1>1, <2>2, <2>3, <2>4
<1> QED BY <1>3, <1>5 DEF N

-----------------------------------------------------------------------------
\* The size of a file with everything that is pending.
EndOf(w) == w.offset + Len(w.buf)
SizesOf(f) == {StoredSize(f)} \union {EndOf(f.pending[w]) : w \in DOMAIN f.pending}

LEMMA FileFacts ==
    ASSUME NEW f \in File
    PROVE  /\ f.content \in Seq(Seq(Nat)) /\ f.size \in Nat /\ f.blockSize \in Nat
           /\ f.create \in BOOLEAN /\ f.trunc \in BOOLEAN /\ f.truncSize \in Nat
           /\ f.pending \in Seq([offset : Nat, buf : Seq(Nat) \ {<<>>}])
           /\ DOMAIN f.pending = 1 .. Len(f.pending) /\ Len(f.pending) \in Nat
           /\ DOMAIN f.content = 1 .. Len(f.content) /\ Len(f.content) \in Nat
           /\ \A n \in DOMAIN f.content : f.content[n] \in Seq(Nat)
           /\ StoredSize(f) \in Nat
BY DEF File, StoredSize

LEMMA WriteFacts ==
    ASSUME NEW f \in File, NEW w \in DOMAIN f.pending
    PROVE  /\ f.pending[w].offset \in Nat /\ f.pending[w].buf \in Seq(Nat)
           /\ Len(f.pending[w].buf) \in Nat \ {0} /\ EndOf(f.pending[w]) \in Nat
<1>1. f.pending[w] \in [offset : Nat, buf : Seq(Nat) \ {<<>>}]
    <2> DEFINE W == [offset : Nat, buf : Seq(Nat) \ {<<>>}]
    <2>1. f.pending \in Seq(W) /\ w \in 1 .. Len(f.pending)
        BY FileFacts
    <2> HIDE DEF W
    <2>2. f.pending[w] \in W
        BY <2>1
    <2> QED BY <2>2 DEF W
<1>2. f.pending[w].offset \in Nat /\ f.pending[w].buf \in Seq(Nat) /\ f.pending[w].buf # <<>>
    BY <1>1
<1>3. Len(f.pending[w].buf) \in Nat \ {0}
    BY <1>2, EmptySeq
<1> QED BY <1>2, <1>3 DEF EndOf

LEMMA NewSizeIs ==
    ASSUME NEW f \in File
    PROVE  /\ NewSize(f) \in Nat /\ NewSize(f) \in SizesOf(f)
           /\ \A s \in SizesOf(f) : s <= NewSize(f)
<1> DEFINE First(n) == {StoredSize(f)} \union {EndOf(f.pending[w]) : w \in 1 .. n}
           Greatest(n) == \E m \in First(n) : \A x \in First(n) : x <= m
           Bad == {n \in 0 .. Len(f.pending) : ~Greatest(n)}
<1>1. ASSUME NEW n \in 0 .. Len(f.pending) PROVE First(n) \in SUBSET Nat
    BY FileFacts, WriteFacts
<1>2. ASSUME Bad # {} PROVE FALSE
    <2>1. PICK n \in Bad : \A l \in Bad : n <= l
        <3>1. Bad \in SUBSET Nat
            OBVIOUS
        <3> HIDE DEF Bad
        <3> QED BY <1>2, <3>1, LeastNatural
    <2>2. n \in 0 .. Len(f.pending)
        OBVIOUS
    <2>3. CASE n = 0
        <3>1. First(0) = {StoredSize(f)}
            OBVIOUS
        <3>2. Greatest(0)
            BY <3>1, FileFacts
        <3> QED BY <2>1, <2>3, <3>2
    <2>4. CASE n # 0
        <3>1. n - 1 \in 0 .. Len(f.pending)
            BY <2>2, <2>4, FileFacts
        <3>2. Greatest(n - 1)
            <4>1. n - 1 \notin Bad
                <5> HIDE DEF Bad
                <5> QED BY <2>1, <2>2, FileFacts
            <4> HIDE DEF Greatest
            <4> QED BY <3>1, <4>1
        <3>3. PICK m \in First(n - 1) : \A x \in First(n - 1) : x <= m
            BY <3>2
        <3>4. First(n) = First(n - 1) \union {EndOf(f.pending[n])}
            <4>1. 1 .. n = (1 .. n - 1) \union {n}
                BY <2>2, <2>4
            <4> QED BY <4>1
        <3>5. m \in Nat /\ EndOf(f.pending[n]) \in Nat
            <4>1. n \in DOMAIN f.pending
                BY <2>2, <2>4, FileFacts
            <4> HIDE DEF First
            <4> QED BY <3>1, <3>3, <4>1, <1>1, WriteFacts
        <3>6. Greatest(n)
            <4> HIDE DEF First
            <4>1. CASE m <= EndOf(f.pending[n])
                <5>1. \A x \in First(n) : x <= EndOf(f.pending[n])
                    BY <3>1, <3>3, <3>4, <3>5, <1>1, <4>1
                <5> QED BY <3>4, <5>1
            <4>2. CASE EndOf(f.pending[n]) <= m
                BY <3>3, <3>4, <4>2
            <4> QED BY <3>5, <4>1, <4>2
        <3> QED BY <2>1, <3>6
    <2> QED BY <2>3, <2>4
<1>3. Greatest(Len(f.pending))
    <2>1. Len(f.pending) \in 0 .. Len(f.pending)
        BY FileFacts
    <2> HIDE DEF Greatest
    <2> QED BY <1>2, <2>1
<1>4. First(Len(f.pending)) = SizesOf(f)
    <2>1. DOMAIN f.pending = 1 .. Len(f.pending)
        BY FileFacts
    <2> QED BY <2>1 DEF SizesOf
<1>5. PICK m \in SizesOf(f) : \A x \in SizesOf(f) : x <= m
    <2> HIDE DEF First
    <2> QED BY <1>3, <1>4
<1>6. SizesOf(f) \in SUBSET Nat
    <2>1. Len(f.pending) \in 0 .. Len(f.pending)
        BY FileFacts
    <2> HIDE DEF First
    <2> QED BY <1>1, <1>4, <2>1
<1>7. NewSize(f) = Max(SizesOf(f))
    BY DEF NewSize, SizesOf, StoredSize, EndOf
<1>8. NewSize(f) = m
    BY <1>5, <1>6, <1>7, MaxIs
<1> QED BY <1>5, <1>6, <1>8

LEMMA NewSizeIsOnly ==
    ASSUME NEW f \in File, NEW m \in SizesOf(f), \A s \in SizesOf(f) : s <= m
    PROVE  NewSize(f) = m
<1>1. SizesOf(f) \in SUBSET Nat
    BY FileFacts, WriteFacts DEF SizesOf
<1> QED BY <1>1, NewSizeIs

\* Without pending writes that is what is stored or left of it.
LEMMA NewSizeClean ==
    ASSUME NEW f \in File, f.pending = <<>>
    PROVE  NewSize(f) = StoredSize(f)
<1>1. SizesOf(f) = {StoredSize(f)}
    BY FileFacts DEF SizesOf
<1> QED BY <1>1, NewSizeIs

-----------------------------------------------------------------------------
\* The last of the pending writes that covers a place, if any.
LEMMA GreatestNatural ==
    ASSUME NEW b \in Nat, NEW S \in SUBSET (0 .. b), S # {}
    PROVE  Max(S) \in S /\ \A x \in S : x <= Max(S)
<1> DEFINE Up == {u \in 0 .. b : \A x \in S : x <= u}
<1>1. Up \in SUBSET Nat /\ b \in Up
    OBVIOUS
<1>2. PICK m \in Up : \A u \in Up : m <= u
    <2> HIDE DEF Up
    <2> QED BY <1>1, LeastNatural
<1>3. m \in S
    <2> SUFFICES ASSUME m \notin S PROVE FALSE
        OBVIOUS
    <2>1. PICK x \in S : TRUE
        OBVIOUS
    <2>2. m # 0
        BY <1>2, <2>1
    <2>3. m - 1 \in Up
        BY <1>2, <2>2
    <2> QED BY <1>2, <2>3
<1>4. Max(S) = m
    <2>1. \A x \in S : x <= m
        BY <1>2
    <2>2. S \in SUBSET Int
        OBVIOUS
    <2> HIDE DEF Up
    <2> QED BY <1>3, <2>1, <2>2, MaxIs
<1> QED BY <1>2, <1>3, <1>4

LastAt(f, k) == SelectLastInSeq(f.pending, LAMBDA w : Covers(w, k))

LEMMA LastAtIs ==
    ASSUME NEW f \in File, NEW k \in Nat
    PROVE  /\ LastAt(f, k) \in 0 .. Len(f.pending)
           /\ LastAt(f, k) = 0 <=> \A w \in DOMAIN f.pending : ~Covers(f.pending[w], k)
           /\ LastAt(f, k) # 0 => Covers(f.pending[LastAt(f, k)], k)
           /\ \A w \in DOMAIN f.pending : Covers(f.pending[w], k) => w <= LastAt(f, k)
<1> DEFINE I == {w \in 1 .. Len(f.pending) : Covers(f.pending[w], k)}
<1>1. LastAt(f, k) = IF I # {} THEN Max(I) ELSE 0
    BY DEF LastAt, SelectLastInSeq
<1>2. DOMAIN f.pending = 1 .. Len(f.pending) /\ Len(f.pending) \in Nat
    BY FileFacts
<1>3. ASSUME I # {} PROVE Max(I) \in I /\ \A w \in I : w <= Max(I)
    <2>1. I \in SUBSET (0 .. Len(f.pending))
        BY <1>2
    <2> HIDE DEF I
    <2> QED BY <1>2, <1>3, <2>1, GreatestNatural
<1>4. CASE I = {}
    BY <1>1, <1>2, <1>4
<1>5. CASE I # {}
    <2>1. LastAt(f, k) \in I /\ \A w \in I : w <= LastAt(f, k)
        <3> HIDE DEF I
        <3> QED BY <1>1, <1>3, <1>5
    <2>2. LastAt(f, k) \in 1 .. Len(f.pending) /\ Covers(f.pending[LastAt(f, k)], k)
        BY <2>1
    <2>3. \A w \in DOMAIN f.pending : Covers(f.pending[w], k) => w <= LastAt(f, k)
        BY <1>2, <2>1
    <2> HIDE DEF I
    <2> QED BY <1>2, <2>2, <2>3
<1> QED BY <1>4, <1>5

LEMMA LastAtByte ==
    ASSUME NEW f \in File, NEW k \in Nat, LastAt(f, k) # 0
    PROVE  /\ LastAt(f, k) \in DOMAIN f.pending
           /\ f.pending[LastAt(f, k)].buf[k - f.pending[LastAt(f, k)].offset + 1] \in Nat
<1> DEFINE l == LastAt(f, k)
           p == f.pending[l]
<1>1. l \in DOMAIN f.pending /\ Covers(p, k)
    BY LastAtIs, FileFacts
<1>2. p.offset \in Nat /\ p.buf \in Seq(Nat) /\ Len(p.buf) \in Nat
    <2> HIDE DEF l
    <2> QED BY <1>1, WriteFacts
<1>3. k - p.offset + 1 \in 1 .. Len(p.buf)
    <2> HIDE DEF l, p
    <2> QED BY <1>1, <1>2 DEF Covers
<1>4. p.buf[k - p.offset + 1] \in Nat
    <2> HIDE DEF l, p
    <2> QED BY <1>2, <1>3
<1> QED BY <1>1, <1>4

-----------------------------------------------------------------------------
\* What holds of a file's blocks in memory and in storage at any time.
BlockSizes == {BlockSizeFor(s) : s \in Nat}

Shape(f) ==
    /\ f.blockSize \in BlockSizes
    /\ f.blockSize = 0 => f.size = 0
    /\ Len(f.content) = BlocksFor(f.size, f.blockSize)
    /\ f.blockSize = MaxBlock \/ Len(f.content) <= ResizeAt
    /\ f.trunc => f.truncSize <= f.size
    /\ ~f.trunc => f.truncSize = 0

BlockLengths(f) == \A n \in DOMAIN f.content : FitsSize(f, n)

\* A truncation that is pending cuts at a boundary of blocks.
Aligned(f) == f.trunc => f.truncSize = 0 \/ f.truncSize % f.blockSize = 0

LEMMA BlockSizesAre ==
    ASSUME NEW bs \in BlockSizes
    PROVE  bs \in Nat /\ bs <= MaxBlock
BY BlockSizeBounds, BlockAssumption DEF BlockSizes

LEMMA StoredSizeIs ==
    ASSUME NEW f \in File, Shape(f)
    PROVE  /\ StoredSize(f) \in Nat /\ StoredSize(f) <= f.size
           /\ StoredSize(f) <= NewSize(f)
           /\ f.blockSize = 0 => f.size = 0 /\ f.content = <<>>
<1>1. StoredSize(f) \in Nat /\ StoredSize(f) <= f.size
    BY FileFacts DEF Shape, StoredSize
<1>2. StoredSize(f) <= NewSize(f)
    BY NewSizeIs DEF SizesOf
<1>3. f.blockSize = 0 => Len(f.content) = 0
    BY DEF Shape, BlocksFor
<1>4. f.blockSize = 0 => f.content = <<>>
    BY <1>3, FileFacts, EmptySeq
<1> QED BY <1>1, <1>2, <1>4 DEF Shape

\* A flush gives the file few blocks, of a size that getBlockSize gives.
LEMMA SavedShape ==
    ASSUME NEW f \in File, Shape(f)
    PROVE  /\ NewBlockSize(f) \in BlockSizes
           /\ NewBlockSize(f) = 0 => NewSize(f) = 0
           /\ NewBlocks(f) = BlocksFor(NewSize(f), NewBlockSize(f))
           /\ NewBlocks(f) \in Nat
           /\ NewBlockSize(f) = MaxBlock \/ NewBlocks(f) <= ResizeAt
           /\ f.pending = <<>> => NewBlocks(f) <= Len(f.content)
           /\ Resizes(f) => NewBlockSize(f) # 0
           /\ ~Resizes(f) => NewBlockSize(f) = f.blockSize \/ f.blockSize = 0
<1> DEFINE S == NewSize(f)
           kept == KeptBlockSize(f)
           bs == NewBlockSize(f)
           N == NewBlocks(f)
<1>1. S \in Nat /\ f.size \in Nat /\ f.blockSize \in Nat /\ S >= StoredSize(f)
    BY NewSizeIs, FileFacts DEF SizesOf
<1>2. kept = IF f.blockSize = 0 THEN BlockSizeFor(S) ELSE f.blockSize
    BY DEF KeptBlockSize
<1>3. bs = IF Resizes(f) THEN BlockSizeFor(S) ELSE kept
    BY DEF NewBlockSize
<1>4. N = BlocksFor(S, bs)
    BY DEF NewBlocks
<1>5. Resizes(f) <=> f.pending # <<>> /\ BlocksFor(S, kept) > ResizeAt /\ kept < MaxBlock
    BY DEF Resizes
<1> HIDE DEF S, kept, bs, N
<1>6. kept \in BlockSizes /\ bs \in BlockSizes
    BY <1>1, <1>2, <1>3 DEF BlockSizes, Shape
<1>7. kept \in Nat /\ bs \in Nat /\ kept <= MaxBlock /\ bs <= MaxBlock
    BY <1>6, BlockSizesAre
<1>8. kept = 0 => S = 0
    BY <1>1, <1>2, BlockSizeBounds
<1>9. Resizes(f) => bs # 0
    <2>1. S = 0 => BlocksFor(S, kept) = 0
        <3>1. S = 0 /\ kept # 0 => ~(0 < BlocksFor(S, kept)) /\ BlocksFor(S, kept) \in Nat
            BY <1>1, <1>7, BlocksForIs
        <3> QED BY <3>1 DEF BlocksFor
    <2> QED BY <1>1, <1>3, <1>5, <2>1, BlockSizeBounds, BlockAssumption
<1>10. bs = 0 => S = 0
    BY <1>3, <1>8, <1>9
<1>11. N \in Nat
    <2>1. CASE bs = 0
        BY <1>4, <2>1 DEF BlocksFor
    <2>2. CASE bs # 0
        BY <1>1, <1>4, <1>7, <2>2, BlocksForIs
    <2> QED BY <2>1, <2>2
<1>12. ASSUME bs = BlockSizeFor(S), bs # MaxBlock PROVE N <= ResizeAt
    <2>1. CASE S = 0
        <3>1. bs = 0
            BY <1>12, <2>1, BlockSizeBounds
        <3>2. N = 0
            BY <1>4, <3>1 DEF BlocksFor
        <3> QED BY <3>2, BlockAssumption
    <2>2. CASE S # 0
        <3>1. bs # 0 /\ S <= 8 * bs
            BY <1>1, <1>12, <2>2, BlockSizeBounds
        <3>2. ~(8 < N)
            BY <1>1, <1>4, <1>7, <3>1, BlocksForIs
        <3> QED BY <1>11, <3>2, BlockAssumption
    <2> QED BY <2>1, <2>2
<1>13. ASSUME f.pending = <<>> PROVE N <= Len(f.content)
    <2>1. S = StoredSize(f) /\ S <= f.size
        BY <1>13, NewSizeClean, StoredSizeIs DEF S
    <2>2. ~Resizes(f) /\ bs = kept
        BY <1>3, <1>5, <1>13
    <2>3. CASE bs = 0
        BY <1>4, <2>3, FileFacts DEF BlocksFor
    <2>4. CASE bs # 0 /\ f.blockSize = 0
        <3>1. S = 0
            BY <1>1, <2>1, <2>4 DEF Shape
        <3>2. ~(0 < N)
            BY <1>1, <1>4, <1>7, <2>4, <3>1, BlocksForIs
        <3> QED BY <1>11, <3>2, FileFacts
    <2>5. CASE bs # 0 /\ f.blockSize # 0
        <3>1. bs = f.blockSize
            BY <1>2, <2>2, <2>5
        <3>2. Len(f.content) = BlocksFor(f.size, bs) /\ Len(f.content) \in Nat
            BY <3>1, FileFacts DEF Shape
        <3>3. Len(f.content) < N <=> Len(f.content) * bs < S
            BY <1>1, <1>4, <1>7, <2>5, <3>2, BlocksForIs
        <3>4. Len(f.content) < Len(f.content) <=> Len(f.content) * bs < f.size
            BY <1>1, <1>7, <2>5, <3>2, BlocksForIs
        <3>5. Len(f.content) * bs \in Nat
            BY <1>7, <3>2
        <3> QED BY <1>1, <1>11, <2>1, <3>2, <3>3, <3>4, <3>5
    <2> QED BY <2>3, <2>4, <2>5
<1>14. bs = MaxBlock \/ N <= ResizeAt
    <2>1. CASE Resizes(f)
        BY <1>3, <1>12, <2>1
    <2>2. CASE ~Resizes(f) /\ f.pending # <<>>
        BY <1>3, <1>4, <1>5, <1>7, <1>11, <2>2, BlockAssumption
    <2>3. CASE f.pending = <<>>
        <3>1. bs = kept
            BY <1>3, <1>5, <2>3
        <3>2. CASE f.blockSize = 0
            BY <1>2, <1>12, <3>1, <3>2
        <3>3. CASE f.blockSize # 0
            BY <1>2, <1>11, <1>13, <2>3, <3>1, <3>3, FileFacts, BlockAssumption DEF Shape
        <3> QED BY <3>2, <3>3
    <2> QED BY <2>1, <2>2, <2>3
<1>15. ~Resizes(f) => bs = f.blockSize \/ f.blockSize = 0
    BY <1>2, <1>3
<1> QED BY <1>4, <1>6, <1>9, <1>10, <1>11, <1>13, <1>14, <1>15 DEF S, bs, N

-----------------------------------------------------------------------------
\* All blocks but the last are full.
LEMMA LengthOfIs ==
    ASSUME NEW size \in Nat, NEW bs \in Nat \ {0}, NEW n \in 1 .. BlocksFor(size, bs)
    PROVE  /\ LengthOf(size, bs, n) \in 1 .. bs
           /\ (n - 1) * bs \in Nat /\ (n - 1) * bs < size /\ n * bs = (n - 1) * bs + bs
           /\ LengthOf(size, bs, n) = IF n * bs <= size THEN bs ELSE size - (n - 1) * bs
           /\ n < BlocksFor(size, bs) => n * bs < size
<1> DEFINE at == (n - 1) * bs
<1>1. BlocksFor(size, bs) \in Nat /\ n \in Nat /\ n - 1 \in Nat /\ n - 1 < BlocksFor(size, bs)
    BY BlocksForIs
<1>2. at < size
    BY <1>1, BlocksForIs
<1>3. at \in Nat /\ n * bs = at + bs
    BY <1>1
<1>4. n < BlocksFor(size, bs) => n * bs < size
    BY <1>1, BlocksForIs
<1> HIDE DEF at
<1>5. LengthOf(size, bs, n) = IF bs < size - at THEN bs ELSE size - at
    BY <1>3, MinOfTwo DEF LengthOf, at
<1>6. LengthOf(size, bs, n) \in 1 .. bs
      /\ LengthOf(size, bs, n) = IF n * bs <= size THEN bs ELSE size - at
    <2> DEFINE nb == n * bs
               l == LengthOf(size, bs, n)
    <2> HIDE DEF nb, l
    <2>1. l = IF bs < size - at THEN bs ELSE size - at
        BY <1>5 DEF l
    <2>2. nb = at + bs
        BY <1>3 DEF nb
    <2>3. l \in 1 .. bs /\ l = IF nb <= size THEN bs ELSE size - at
        BY <1>2, <1>3, <2>1, <2>2
    <2> QED BY <2>3 DEF nb, l
<1> QED BY <1>2, <1>3, <1>4, <1>6 DEF at

\* A flush leaves a block alone.
Kept(f, n) == n \in 1 .. NewBlocks(f) /\ (f.pending = <<>> \/ ~Rewritten(f, n))

\* Then it was there, and it is not the last one, of the file as it was or as it
\* is now, unless what is stored of the file is the file.
LEMMA KeptBlocks ==
    ASSUME NEW f \in File, Shape(f), NEW n, Kept(f, n)
    PROVE  /\ n \in 1 .. Len(f.content) /\ n \in 1 .. NewBlocks(f)
           /\ ~Resizes(f) /\ f.blockSize \in Nat \ {0} /\ NewBlockSize(f) = f.blockSize
           /\ NewSize(f) = StoredSize(f) \/ (n < Len(f.content) /\ n < NewBlocks(f))
<1> DEFINE bs == f.blockSize
           S == NewSize(f)
           N == NewBlocks(f)
<1>1. n \in 1 .. N /\ N \in Nat /\ Len(f.content) \in Nat
    BY SavedShape, FileFacts DEF Kept
<1>2. n \in 1 .. Len(f.content)
    <2>1. CASE f.pending = <<>>
        BY <1>1, <2>1, SavedShape
    <2>2. CASE ~Rewritten(f, n)
        BY <1>1, <2>2 DEF Rewritten
    <2> QED BY <2>1, <2>2 DEF Kept
<1>3. ~Resizes(f)
    BY DEF Kept, Rewritten, Resizes
<1>4. bs \in Nat \ {0}
    BY <1>2, FileFacts, StoredSizeIs, EmptySeq
<1>5. NewBlockSize(f) = bs
    BY <1>3, <1>4, SavedShape
<1>6. S \in Nat /\ StoredSize(f) \in Nat /\ S \in SizesOf(f)
    BY NewSizeIs, FileFacts
<1>7. ASSUME S # StoredSize(f) PROVE n < Len(f.content) /\ n < N
    <2>1. PICK w \in DOMAIN f.pending : S = EndOf(f.pending[w])
        BY <1>6, <1>7 DEF SizesOf
    <2> DEFINE p == f.pending[w]
    <2>2. p.offset \in Nat /\ Len(p.buf) \in Nat \ {0} /\ S = p.offset + Len(p.buf)
        BY <2>1, WriteFacts DEF EndOf
    <2>3. f.pending # <<>> /\ ~Rewritten(f, n) /\ ~Touched(f, n)
        BY <2>1 DEF Kept, Rewritten
    <2>4. (S - 1) \div bs # n - 1
        <3>1. Len(p.buf) \in 1 .. Len(p.buf)
            BY <2>2
        <3>2. (p.offset + Len(p.buf) - 1) \div NewBlockSize(f) # n - 1
            BY <2>1, <2>3, <3>1 DEF Touched
        <3> QED BY <1>5, <2>2, <3>2
    <2>5. N = BlocksFor(S, bs) /\ n - 1 \in Nat
        BY <1>1, <1>5, SavedShape
    <2>6. n < N
        <3> SUFFICES ASSUME n = N PROVE FALSE
            BY <1>1
        <3>1. (n - 1) * bs < S /\ ~(n * bs < S)
            <4>1. n - 1 < N /\ ~(n < N) /\ n \in Nat
                BY <1>1
            <4> HIDE DEF S, bs, N
            <4> QED BY <1>4, <1>6, <2>5, <4>1, BlocksForIs
        <3>2. n * bs = (n - 1) * bs + bs /\ (n - 1) * bs \in Nat
            <4>1. n \in Nat
                BY <1>1
            <4> HIDE DEF S, bs, N
            <4> QED BY <1>4, <2>5, <4>1
        <3>3. S - 1 \in Nat /\ (n - 1) * bs <= S - 1 /\ S - 1 < (n - 1) * bs + bs
            <4> DEFINE at == (n - 1) * bs
                       to == n * bs
            <4> HIDE DEF at, to, S, bs
            <4>1. at < S /\ ~(to < S) /\ to = at + bs /\ at \in Nat
                BY <3>1, <3>2 DEF at, to
            <4>2. S - 1 \in Nat /\ at <= S - 1 /\ S - 1 < at + bs
                BY <1>4, <1>6, <4>1
            <4> QED BY <4>2 DEF at
        <3>4. (S - 1) \div bs = n - 1
            <4> HIDE DEF S, bs
            <4> QED BY <1>4, <2>5, <3>3, DivIs
        <3> QED BY <2>4, <3>4
    <2>7. n # Len(f.content)
        BY <2>3, <2>6 DEF Rewritten
    <2> QED BY <1>1, <1>2, <2>6, <2>7
<1> QED BY <1>1, <1>2, <1>3, <1>4, <1>5, <1>7

\* A block that is kept has the length the new size implies, too.
LEMMA KeptLength ==
    ASSUME NEW f \in File, Shape(f), Aligned(f), NEW n, Kept(f, n)
    PROVE  LengthOf(NewSize(f), NewBlockSize(f), n) = LengthOf(f.size, f.blockSize, n)
<1> DEFINE bs == f.blockSize
           S == NewSize(f)
<1>1. /\ n \in 1 .. BlocksFor(f.size, bs) /\ n \in 1 .. BlocksFor(S, bs) /\ bs \in Nat \ {0}
      /\ NewBlockSize(f) = bs /\ n \in Nat
      /\ S = StoredSize(f) \/ (n < BlocksFor(f.size, bs) /\ n < BlocksFor(S, bs))
    BY KeptBlocks, SavedShape DEF Shape
<1>2. S \in Nat /\ f.size \in Nat
    BY NewSizeIs, FileFacts
<1>3. ASSUME n * bs <= f.size, n * bs <= S PROVE LengthOf(S, bs, n) = LengthOf(f.size, bs, n)
    BY <1>1, <1>2, <1>3, LengthOfIs
<1>4. CASE n < BlocksFor(f.size, bs) /\ n < BlocksFor(S, bs)
    <2>1. n * bs \in Nat
        BY <1>1
    <2>2. n * bs <= f.size /\ n * bs <= S
        BY <1>1, <1>2, <1>4, <2>1, LengthOfIs
    <2> QED BY <1>1, <1>3, <2>2
<1>5. CASE S = StoredSize(f)
    <2>1. CASE ~f.trunc
        BY <1>1, <1>5, <2>1 DEF StoredSize
    <2>2. CASE f.trunc
        <3>1. S = f.truncSize /\ S <= f.size
            BY <1>5, <2>2 DEF StoredSize, Shape
        <3>2. (n - 1) * bs < S /\ (n - 1) * bs \in Nat /\ n - 1 \in Nat
            <4>1. n - 1 \in Nat
                BY <1>1
            <4> HIDE DEF S, bs
            <4> QED BY <1>1, <1>2, <4>1, LengthOfIs
        <3>3. S % bs = 0
            BY <1>2, <2>2, <3>1, <3>2 DEF Aligned
        <3>4. S = (S \div bs) * bs /\ S \div bs \in Nat
            <4> HIDE DEF S, bs
            <4>1. S \div bs \in Nat /\ S = (S \div bs) * bs + (S % bs)
                BY <1>1, <1>2, DivMod
            <4>2. (S \div bs) * bs \in Nat
                BY <1>1, <4>1
            <4> QED BY <3>3, <4>1, <4>2
        <3>5. n <= S \div bs
            <4> SUFFICES ASSUME S \div bs < n PROVE FALSE
                BY <1>1, <3>4
            <4> DEFINE q == S \div bs
            <4>1. q <= n - 1
                BY <1>1, <3>4
            <4>2. q * bs <= (n - 1) * bs
                <5> HIDE DEF q
                <5>1. q = n - 1 \/ q < n - 1
                    BY <3>2, <3>4, <4>1 DEF q
                <5>2. q < n - 1 => q * bs + bs <= (n - 1) * bs
                    BY <1>1, <3>2, <3>4, TimesLess DEF q
                <5>3. q * bs \in Nat
                    BY <1>1, <3>4 DEF q
                <5> QED BY <1>1, <3>2, <5>1, <5>2, <5>3
            <4> QED BY <1>2, <3>2, <3>4, <4>2
        <3>6. n * bs <= S
            <4> DEFINE q == S \div bs
            <4> HIDE DEF q
            <4>1. n = q \/ n < q
                BY <1>1, <3>4, <3>5 DEF q
            <4>2. n < q => n * bs + bs <= q * bs
                BY <1>1, <3>4, TimesLess DEF q
            <4>3. n * bs \in Nat /\ q * bs = S
                BY <1>1, <3>4 DEF q
            <4> QED BY <1>1, <1>2, <4>1, <4>2, <4>3
        <3>7. n * bs \in Nat
            BY <1>1
        <3> QED BY <1>1, <1>2, <1>3, <3>1, <3>6, <3>7
    <2> QED BY <2>1, <2>2
<1> QED BY <1>1, <1>4, <1>5

-----------------------------------------------------------------------------
\* What a flush writes are bytes.
LEMMA OldByteType ==
    ASSUME NEW f \in File, Shape(f), NEW k \in Nat
    PROVE  OldByte(f, k) \in Nat
<1> DEFINE n == k \div f.blockSize + 1
           m == (k % f.blockSize) + 1
<1>1. CASE f.content # <<>> /\ n <= Len(f.content) /\ m <= Len(f.content[n])
    <2>1. f.blockSize \in Nat \ {0}
        BY <1>1, StoredSizeIs, FileFacts
    <2>2. n \in Nat \ {0} /\ m \in Nat \ {0}
        <3>1. k \div f.blockSize \in Nat /\ k % f.blockSize \in Nat
            <4> DEFINE b == f.blockSize
            <4> HIDE DEF b
            <4>1. k \div b \in Nat /\ k % b \in 0 .. b - 1
                BY <2>1, DivMod DEF b
            <4>2. k % b \in Nat
                BY <2>1, <4>1 DEF b
            <4> QED BY <4>1, <4>2 DEF b
        <3> DEFINE q == k \div f.blockSize
                   r == k % f.blockSize
        <3> HIDE DEF q, r
        <3>2. n = q + 1 /\ m = r + 1 /\ q \in Nat /\ r \in Nat
            BY <3>1 DEF q, r
        <3> HIDE DEF n, m
        <3> QED BY <3>2
    <2> HIDE DEF n, m
    <2>3. n \in DOMAIN f.content
        BY <1>1, <2>2, FileFacts
    <2>4. f.content[n] \in Seq(Nat)
        BY <2>3, FileFacts
    <2>5. f.content[n][m] \in Nat
        BY <1>1, <2>2, <2>4
    <2> QED BY <2>5 DEF OldByte, n, m
<1>2. CASE ~(f.content # <<>> /\ n <= Len(f.content) /\ m <= Len(f.content[n]))
    <2>1. OldByte(f, k) = IF f.content # <<>> /\ n <= Len(f.content) /\ (Resizes(f) => k < f.size)
                          THEN IF m <= Len(f.content[n]) THEN f.content[n][m] ELSE 0 ELSE 0
        BY DEF OldByte
    <2> HIDE DEF n, m
    <2> QED BY <1>2, <2>1
<1> QED BY <1>1, <1>2

LEMMA NewByteIs ==
    ASSUME NEW f, NEW k
    PROVE  NewByte(f, k) = IF LastAt(f, k) = 0 THEN OldByte(f, k)
                           ELSE f.pending[LastAt(f, k)].buf[k - f.pending[LastAt(f, k)].offset + 1]
BY DEF NewByte, LastAt

LEMMA NewByteType ==
    ASSUME NEW f \in File, Shape(f), NEW k \in Nat
    PROVE  NewByte(f, k) \in Nat
BY NewByteIs, LastAtByte, OldByteType

LEMMA NewBlockIs ==
    ASSUME NEW f \in File, Shape(f), NEW n \in 1 .. NewBlocks(f)
    PROVE  /\ NewBlockSize(f) \in Nat \ {0} /\ NewSize(f) \in Nat
           /\ n \in 1 .. BlocksFor(NewSize(f), NewBlockSize(f))
           /\ NewBlock(f, n) \in Seq(Nat)
           /\ Len(NewBlock(f, n)) = LengthOf(NewSize(f), NewBlockSize(f), n)
           /\ \A m \in 1 .. LengthOf(NewSize(f), NewBlockSize(f), n) :
                NewBlock(f, n)[m] = NewByte(f, (n - 1) * NewBlockSize(f) + m - 1)
<1> DEFINE bs == NewBlockSize(f)
           S == NewSize(f)
           l == LengthOf(S, bs, n)
           at == (n - 1) * bs
<1>1. S \in Nat /\ bs \in Nat /\ NewBlocks(f) = BlocksFor(S, bs) /\ NewBlocks(f) \in Nat
    BY NewSizeIs, SavedShape, BlockSizesAre
<1>2. bs # 0
    BY <1>1 DEF BlocksFor
<1>3. n \in 1 .. BlocksFor(S, bs)
    BY <1>1
<1>4. l \in 1 .. bs /\ at \in Nat
    <2> HIDE DEF bs, S
    <2> QED BY <1>1, <1>2, <1>3, LengthOfIs
<1>5. NewBlock(f, n) = [m \in 1 .. l |-> NewByte(f, at + m - 1)]
    BY DEF NewBlock
<1> HIDE DEF bs, S, l, at
<1>6. ASSUME NEW m \in 1 .. l PROVE NewByte(f, at + m - 1) \in Nat
    <2>1. at + m - 1 \in Nat
        BY <1>1, <1>4
    <2> QED BY <2>1, NewByteType
<1>7. l \in Nat
    BY <1>1, <1>4
<1>8. NewBlock(f, n) \in Seq(Nat) /\ Len(NewBlock(f, n)) = l
    BY <1>5, <1>6, <1>7
<1> QED BY <1>1, <1>2, <1>3, <1>5, <1>8 DEF bs, S, l, at

LEMMA SavedIs ==
    ASSUME NEW f \in File, Shape(f)
    PROVE  /\ Saved(f) \in File
           /\ Saved(f).size = NewSize(f) /\ Saved(f).blockSize = NewBlockSize(f)
           /\ Saved(f).pending = <<>> /\ ~Dirty(Saved(f))
           /\ ~Saved(f).trunc /\ Saved(f).truncSize = 0
           /\ Len(Saved(f).content) = NewBlocks(f)
           /\ \A n \in 1 .. NewBlocks(f) :
                /\ Kept(f, n) => Saved(f).content[n] = f.content[n]
                /\ ~Kept(f, n) => Saved(f).content[n] = NewBlock(f, n)
<1> DEFINE content == [n \in 1 .. NewBlocks(f) |->
                         IF f.pending # <<>> /\ Rewritten(f, n) THEN NewBlock(f, n) ELSE f.content[n]]
<1>1. NewSize(f) \in Nat /\ NewBlockSize(f) \in Nat /\ NewBlocks(f) \in Nat
    BY NewSizeIs, SavedShape, BlockSizesAre
<1>2. ASSUME NEW n \in 1 .. NewBlocks(f)
      PROVE  /\ Kept(f, n) => content[n] = f.content[n]
             /\ ~Kept(f, n) => content[n] = NewBlock(f, n)
             /\ content[n] \in Seq(Nat)
    <2>1. Kept(f, n) <=> ~(f.pending # <<>> /\ Rewritten(f, n))
        BY DEF Kept
    <2>2. content[n] = IF Kept(f, n) THEN f.content[n] ELSE NewBlock(f, n)
        BY <2>1
    <2>3. Kept(f, n) => f.content[n] \in Seq(Nat)
        BY KeptBlocks, FileFacts
    <2> HIDE DEF content
    <2> QED BY <2>2, <2>3, NewBlockIs
<1>3. content \in Seq(Seq(Nat)) /\ Len(content) = NewBlocks(f)
    <2>1. content = [n \in 1 .. NewBlocks(f) |-> content[n]]
        OBVIOUS
    <2> HIDE DEF content
    <2>2. content \in [1 .. NewBlocks(f) -> Seq(Nat)]
        BY <1>2, <2>1
    <2> QED BY <1>1, <2>2
<1>4. Saved(f) = [EmptyFile EXCEPT !.content = content, !.size = NewSize(f), !.blockSize = NewBlockSize(f)]
    BY DEF Saved
<1> HIDE DEF content
<1>5. Saved(f) = [content |-> content, size |-> NewSize(f), blockSize |-> NewBlockSize(f),
                  create |-> FALSE, trunc |-> FALSE, truncSize |-> 0, pending |-> <<>>]
    BY <1>4 DEF EmptyFile
<1>6. Saved(f) \in File
    BY <1>1, <1>3, <1>5 DEF File
<1>7. ~Dirty(Saved(f))
    BY <1>5 DEF Dirty
<1> QED BY <1>2, <1>3, <1>5, <1>6, <1>7

\* A flush keeps the shape of the file, and its blocks at their lengths if no
\* truncation into a block was pending.
LEMMA SavedOK ==
    ASSUME NEW f \in File, Shape(f)
    PROVE  /\ Shape(Saved(f))
           /\ BlockLengths(f) /\ Aligned(f) => BlockLengths(Saved(f))
<1> DEFINE s == Saved(f)
<1>1. Shape(s)
    BY SavedIs, SavedShape DEF Shape
<1>2. ASSUME BlockLengths(f), Aligned(f), NEW n \in DOMAIN s.content PROVE FitsSize(s, n)
    <2>1. n \in 1 .. NewBlocks(f)
        BY SavedIs, FileFacts
    <2>2. CASE Kept(f, n)
        <3>1. FitsSize(f, n)
            BY <1>2, <2>2, KeptBlocks, FileFacts DEF BlockLengths
        <3> QED BY <1>2, <2>1, <2>2, <3>1, SavedIs, KeptLength DEF FitsSize
    <2>3. CASE ~Kept(f, n)
        BY <2>1, <2>3, SavedIs, NewBlockIs DEF FitsSize
    <2> QED BY <2>2, <2>3
<1> QED BY <1>1, <1>2 DEF BlockLengths

-----------------------------------------------------------------------------
\* Everything else that happens to a file leaves its blocks alone.
LEMMA SameBlocks ==
    ASSUME NEW f \in File, Shape(f), NEW g \in File,
           g.content = f.content, g.size = f.size, g.blockSize = f.blockSize,
           g.trunc => g.truncSize <= g.size, ~g.trunc => g.truncSize = 0
    PROVE  /\ Shape(g)
           /\ BlockLengths(f) => BlockLengths(g)
BY DEF Shape, BlockLengths, FitsSize

FailedFlush(f) == [f EXCEPT !.truncSize = 0]
OpenedTruncated(f) == [f EXCEPT !.trunc = TRUE, !.truncSize = 0]
Written(f, offset, buf) == [f EXCEPT !.pending = Append(f.pending, [offset |-> offset, buf |-> buf])]

LEMMA FailedFlushOK ==
    ASSUME NEW f \in File, Shape(f)
    PROVE  /\ FailedFlush(f) \in File /\ Shape(FailedFlush(f))
           /\ BlockLengths(f) => BlockLengths(FailedFlush(f))
<1>1. FailedFlush(f) \in File
    BY DEF File, FailedFlush
<1>2. /\ FailedFlush(f).content = f.content /\ FailedFlush(f).size = f.size
      /\ FailedFlush(f).blockSize = f.blockSize /\ FailedFlush(f).truncSize = 0
    BY DEF File, FailedFlush
<1>3. 0 <= f.size
    BY FileFacts
<1> QED BY <1>1, <1>2, <1>3, SameBlocks

LEMMA OpenedTruncatedOK ==
    ASSUME NEW f \in File, Shape(f)
    PROVE  /\ OpenedTruncated(f) \in File /\ Shape(OpenedTruncated(f))
           /\ BlockLengths(f) => BlockLengths(OpenedTruncated(f))
<1>1. OpenedTruncated(f) \in File
    BY DEF File, OpenedTruncated
<1>2. /\ OpenedTruncated(f).content = f.content /\ OpenedTruncated(f).size = f.size
      /\ OpenedTruncated(f).blockSize = f.blockSize /\ OpenedTruncated(f).truncSize = 0
    BY DEF File, OpenedTruncated
<1>3. 0 <= f.size
    BY FileFacts
<1> QED BY <1>1, <1>2, <1>3, SameBlocks

LEMMA WrittenOK ==
    ASSUME NEW f \in File, Shape(f), NEW offset \in Nat, NEW buf \in Seq(Nat) \ {<<>>}
    PROVE  /\ Written(f, offset, buf) \in File /\ Shape(Written(f, offset, buf))
           /\ BlockLengths(f) => BlockLengths(Written(f, offset, buf))
           /\ Aligned(f) => Aligned(Written(f, offset, buf))
           /\ Dirty(Written(f, offset, buf))
           /\ Written(f, offset, buf).pending = Append(f.pending, [offset |-> offset, buf |-> buf])
           /\ Written(f, offset, buf).trunc = f.trunc /\ Written(f, offset, buf).truncSize = f.truncSize
           /\ Written(f, offset, buf).size = f.size /\ Written(f, offset, buf).content = f.content
           /\ Written(f, offset, buf).blockSize = f.blockSize
<1> DEFINE W == [offset : Nat, buf : Seq(Nat) \ {<<>>}]
           w == [offset |-> offset, buf |-> buf]
           g == Written(f, offset, buf)
<1>1. f.pending \in Seq(W) /\ w \in W
    BY FileFacts
<1>2. Append(f.pending, w) \in Seq(W) /\ Append(f.pending, w) # <<>>
    <2> HIDE DEF W, w
    <2>1. Append(f.pending, w) \in Seq(W) /\ Len(Append(f.pending, w)) = Len(f.pending) + 1
        BY <1>1
    <2> QED BY <2>1, <1>1
<1>3. /\ g.content = f.content /\ g.size = f.size /\ g.blockSize = f.blockSize
      /\ g.trunc = f.trunc /\ g.truncSize = f.truncSize /\ g.pending = Append(f.pending, w)
    BY DEF File, Written
<1>4. g \in File
    <2> HIDE DEF w
    <2> QED BY <1>2 DEF File, Written, w
<1>5. Shape(g) /\ (BlockLengths(f) => BlockLengths(g))
    <2> HIDE DEF g
    <2> QED BY <1>3, <1>4, SameBlocks DEF Shape
<1>6. Aligned(f) => Aligned(g)
    <2> HIDE DEF g
    <2> QED BY <1>3 DEF Aligned
<1>7. Dirty(g)
    <2> HIDE DEF g
    <2> QED BY <1>2, <1>3 DEF Dirty
<1> QED BY <1>3, <1>4, <1>5, <1>6, <1>7

LEMMA TruncatedToOK ==
    ASSUME NEW f \in File, Shape(f), NEW n \in Nat
    PROVE  /\ TruncatedTo(f, n) \in File /\ Shape(TruncatedTo(f, n))
           /\ BlockLengths(f) => BlockLengths(TruncatedTo(f, n))
<1>1. f.size \in Nat
    BY FileFacts
<1>2. CASE n = f.size
    BY <1>2 DEF TruncatedTo
<1>3. CASE n > f.size
    <2> DEFINE zeroes == [k \in 1 .. n - f.size |-> 0]
    <2>1. zeroes \in Seq(Nat) /\ Len(zeroes) = n - f.size
        BY <1>1, <1>3
    <2>2. zeroes \in Seq(Nat) \ {<<>>}
        <3> HIDE DEF zeroes
        <3> QED BY <1>1, <1>3, <2>1
    <2>3. TruncatedTo(f, n) = Written(f, f.size, zeroes)
        BY <1>1, <1>3 DEF TruncatedTo, Written
    <2> HIDE DEF zeroes
    <2> QED BY <1>1, <2>2, <2>3, WrittenOK
<1>4. CASE n < f.size
    <2> DEFINE g == [f EXCEPT !.trunc = TRUE, !.truncSize = n]
    <2>1. TruncatedTo(f, n) = g
        BY <1>1, <1>4 DEF TruncatedTo
    <2>2. g \in File
        BY DEF File
    <2>3. /\ g.content = f.content /\ g.size = f.size /\ g.blockSize = f.blockSize
          /\ g.trunc = TRUE /\ g.truncSize = n
        BY DEF File
    <2> HIDE DEF g
    <2> QED BY <1>1, <1>4, <2>1, <2>2, <2>3, SameBlocks
<1> QED BY <1>1, <1>2, <1>3, <1>4

LEMMA EmptyFileOK ==
    ASSUME NEW f, f = [EmptyFile EXCEPT !.create = TRUE]
    PROVE  /\ f \in File /\ Shape(f) /\ BlockLengths(f)
           /\ f.pending = <<>> /\ ~f.trunc /\ f.truncSize = 0 /\ f.size = 0 /\ f.content = <<>>
<1>1. f = [content |-> <<>>, size |-> 0, blockSize |-> 0,
           create |-> TRUE, trunc |-> FALSE, truncSize |-> 0, pending |-> <<>>]
    BY DEF EmptyFile
<1>2. f \in File
    <2> DEFINE content == <<>>
               pending == <<>>
               C == Seq(Seq(Nat))
               P == Seq([offset : Nat, buf : Seq(Nat) \ {<<>>}])
    <2>1. content \in C /\ pending \in P
        OBVIOUS
    <2>3. File = [content : C, size : Nat, blockSize : Nat,
                  create : BOOLEAN, trunc : BOOLEAN, truncSize : Nat, pending : P]
        BY DEF File
    <2>2. f = [content |-> content, size |-> 0, blockSize |-> 0,
               create |-> TRUE, trunc |-> FALSE, truncSize |-> 0, pending |-> pending]
        BY <1>1
    <2> HIDE DEF content, pending, C, P
    <2> QED BY ONLY <2>1, <2>2, <2>3
<1>3. 0 \in BlockSizes
    <2>1. BlockSizeFor(0) = 0
        BY BlockSizeBounds
    <2> QED BY <2>1 DEF BlockSizes
<1>4. Shape(f) /\ BlockLengths(f)
    BY <1>1, <1>3, BlockAssumption DEF Shape, BlockLengths, BlocksFor
<1> QED BY <1>1, <1>2, <1>4

-----------------------------------------------------------------------------
\* The outcomes of a flush.
LEMMA FlushOutcomesAre ==
    ASSUME NEW f, NEW o \in FlushOutcomes(f)
    PROVE  \/ o.ok /\ ~Dirty(f) /\ o.file = f /\ o.stored = stored
           \/ o.ok /\ Dirty(f) /\ o.file = Saved(f) /\ o.stored = Saved(f)
           \/ /\ ~o.ok /\ Dirty(f) /\ o.file = FailedFlush(f) /\ o.stored = stored
              /\ Failures \/ \E n \in DOMAIN f.content : ~FitsSize(f, n)
BY DEF FlushOutcomes, FailedFlush, BlocksDecrypted

\* What every file, in memory or in storage, keeps.
Good(f) == f \in File /\ Shape(f)

LEMMA FlushGood ==
    ASSUME NEW f, Good(f), NEW o \in FlushOutcomes(f)
    PROVE  /\ Good(o.file)
           /\ o.stored = stored \/ (Good(o.stored) /\ ~Dirty(o.stored))
           /\ BlockLengths(f) /\ Aligned(f) =>
                /\ BlockLengths(o.file)
                /\ o.stored = stored \/ BlockLengths(o.stored)
                /\ o.ok \/ Failures
<1>1. CASE o.ok /\ ~Dirty(f) /\ o.file = f /\ o.stored = stored
    BY <1>1
<1>2. CASE o.ok /\ Dirty(f) /\ o.file = Saved(f) /\ o.stored = Saved(f)
    BY <1>2, SavedIs, SavedOK DEF Good
<1>3. CASE /\ ~o.ok /\ Dirty(f) /\ o.file = FailedFlush(f) /\ o.stored = stored
           /\ Failures \/ \E n \in DOMAIN f.content : ~FitsSize(f, n)
    BY <1>3, FailedFlushOK DEF Good, BlockLengths
<1> QED BY <1>1, <1>2, <1>3, FlushOutcomesAre

\* The invariant of all that follows: what holds of the file in memory holds of the
\* stored one.
BlockInv ==
    /\ file = Absent \/ Good(file)
    /\ stored = Absent \/ (Good(stored) /\ ~Dirty(stored))

LengthInv ==
    /\ file # Absent => BlockLengths(file)
    /\ stored # Absent => BlockLengths(stored)

LEMMA BlockInvInit == Init => BlockInv /\ LengthInv
BY DEF Init, BlockInv, LengthInv

\* What an operation does to the file: nothing; it is made, cut or written to; or
\* it is flushed, and then cut, or is gone.
StaysOrFallsBack == file' \in {file, stored} /\ stored' = stored
IsMade == file = Absent /\ file' = [EmptyFile EXCEPT !.create = TRUE] /\ stored' = stored
IsCut == file # Absent /\ file' = OpenedTruncated(file) /\ stored' = stored
IsWritten(w) == file # Absent /\ file' = Written(file, w.offset, w.buf) /\ stored' = stored
IsWrittenAndFlushed(w) ==
    /\ file # Absent
    /\ \E o \in FlushOutcomes(Written(file, w.offset, w.buf)) :
        file' = o.file /\ stored' = o.stored /\ call'.ok = o.ok
IsFlushed ==
    /\ file # Absent
    /\ \E o \in FlushOutcomes(file) :
        /\ \/ stored' = o.stored /\ file' = o.file
           \/ stored' = Absent /\ file' = Absent
           \/ o.ok /\ stored' = o.stored /\ \E n \in TruncateSizes : file' = TruncatedTo(o.file, n)
        /\ o.ok => call'.ok \/ Failures

PendingWrites == [offset : Nat, buf : Seq(Nat) \ {<<>>}]

LEMMA CallIs ==
    ASSUME NEW op, NEW at, NEW bytes
    PROVE  Call(op, at, bytes).ok = TRUE /\ FailedCall(op, at, bytes).ok = FALSE
BY DEF Call, FailedCall

LEMMA Operations ==
    ASSUME Next
    PROVE  \/ StaysOrFallsBack /\ call'.ok
           \/ IsMade /\ call'.ok
           \/ IsCut /\ call'.ok
           \/ \E w \in PendingWrites : IsWritten(w) /\ call'.ok
           \/ \E w \in PendingWrites : IsWrittenAndFlushed(w)
           \/ IsFlushed
<1>1. CASE Create
    BY <1>1, CallIs DEF Create, IsMade
<1>2. CASE Open
    BY <1>2, CallIs DEF Open, StaysOrFallsBack
<1>3. CASE OpenTruncated
    BY <1>3, CallIs DEF OpenTruncated, IsCut, OpenedTruncated
<1>4. ASSUME NEW offset \in Offsets, NEW buf \in Buffers, Write(offset, buf)
      PROVE  \E w \in PendingWrites : (IsWritten(w) /\ call'.ok) \/ IsWrittenAndFlushed(w)
    <2> DEFINE w == [offset |-> offset, buf |-> buf]
    <2>1. w \in PendingWrites /\ w.offset = offset /\ w.buf = buf
        BY ClientAssumption DEF PendingWrites
    <2>2. file # Absent
        BY <1>4 DEF Write
    <2>3. \/ file' = Written(file, offset, buf) /\ call' = Call("write", offset, buf) /\ stored' = stored
          \/ \E o \in FlushOutcomes(Written(file, offset, buf)) :
                file' = o.file /\ stored' = o.stored /\ call' = [Call("write", offset, buf) EXCEPT !.ok = o.ok]
        BY <1>4 DEF Write, Written
    <2>4. ASSUME NEW o PROVE [Call("write", offset, buf) EXCEPT !.ok = o.ok].ok = o.ok
        BY DEF Call
    <2>5. (IsWritten(w) /\ call'.ok) \/ IsWrittenAndFlushed(w)
        BY <2>1, <2>2, <2>3, <2>4, CallIs DEF IsWritten, IsWrittenAndFlushed
    <2> HIDE DEF w
    <2> QED BY <2>1, <2>5
<1>5. ASSUME NEW offset \in Offsets, Read(offset, MaxSize) PROVE IsFlushed
    BY <1>5, CallIs DEF Read, Flushing, IsFlushed
<1>6. ASSUME NEW n \in TruncateSizes, Truncate(n) PROVE IsFlushed
    BY <1>6, CallIs, ClientAssumption DEF Truncate, Flushing, IsFlushed
<1>7. CASE GetAttr
    <2>1. CASE file.pending # <<>>
        <3>1. PICK o \in FlushOutcomes(file) :
                /\ stored' = o.stored /\ file' = o.file
                /\ o.ok => \E at : call' = Call("getattr", at, <<>>)
            BY <1>7, <2>1 DEF GetAttr, Flushing
        <3>2. o.ok => call'.ok
            BY <3>1, CallIs
        <3>3. file # Absent
            BY <1>7 DEF GetAttr
        <3> QED BY <3>1, <3>2, <3>3 DEF IsFlushed
    <2>2. CASE file.pending = <<>>
        <3>1. file' = file /\ stored' = stored /\ \E at : call' = Call("getattr", at, <<>>)
            BY <1>7, <2>2 DEF GetAttr
        <3> QED BY <3>1, CallIs DEF StaysOrFallsBack
    <2> QED BY <2>1, <2>2
<1>8. CASE Flush
    BY <1>8, CallIs DEF Flush, Flushing, IsFlushed, StaysOrFallsBack
<1>9. CASE Release
    BY <1>9, CallIs DEF Release, Flushing, IsFlushed
<1>10. CASE Unlink
    BY <1>10, CallIs DEF Unlink, IsFlushed
<1>11. CASE Crash
    BY <1>11, CallIs DEF Crash, StaysOrFallsBack
<1> QED BY <1>1, <1>2, <1>3, <1>4, <1>5, <1>6, <1>7, <1>8, <1>9, <1>10, <1>11 DEF Next

LEMMA BlockInvNext == BlockInv /\ [Next]_vars => BlockInv'
<1> SUFFICES ASSUME BlockInv, [Next]_vars PROVE BlockInv'
    OBVIOUS
<1>1. CASE UNCHANGED vars
    BY <1>1 DEF BlockInv, vars, Dirty
<1>2. CASE Next
    <2>1. CASE StaysOrFallsBack
        BY <2>1 DEF StaysOrFallsBack, BlockInv
    <2>2. CASE IsMade
        BY <2>2, EmptyFileOK DEF IsMade, BlockInv, Good
    <2>3. CASE IsCut
        BY <2>3, OpenedTruncatedOK DEF IsCut, BlockInv, Good
    <2>4. ASSUME NEW w \in PendingWrites, IsWritten(w) PROVE BlockInv'
        BY <2>4, WrittenOK DEF IsWritten, BlockInv, Good, PendingWrites
    <2>5. ASSUME NEW w \in PendingWrites, IsWrittenAndFlushed(w) PROVE BlockInv'
        <3>1. Good(Written(file, w.offset, w.buf))
            BY <2>5, WrittenOK DEF IsWrittenAndFlushed, BlockInv, Good, PendingWrites
        <3> QED BY <2>5, <3>1, FlushGood DEF IsWrittenAndFlushed, BlockInv
    <2>6. CASE IsFlushed
        <3>1. PICK o \in FlushOutcomes(file) :
                \/ stored' = o.stored /\ file' = o.file
                \/ stored' = Absent /\ file' = Absent
                \/ o.ok /\ stored' = o.stored /\ \E n \in TruncateSizes : file' = TruncatedTo(o.file, n)
            BY <2>6 DEF IsFlushed
        <3>2. Good(o.file) /\ (o.stored = stored \/ (Good(o.stored) /\ ~Dirty(o.stored)))
            BY <2>6, FlushGood DEF IsFlushed, BlockInv
        <3> QED BY <3>1, <3>2, TruncatedToOK, ClientAssumption DEF BlockInv, Good
    <2> QED BY <1>2, <2>1, <2>2, <2>3, <2>4, <2>5, <2>6, Operations
<1> QED BY <1>1, <1>2

LEMMA LengthInvNext == BlockInv /\ LengthInv /\ CutsAtBlocks /\ [Next]_vars => LengthInv'
<1> SUFFICES ASSUME BlockInv, LengthInv, CutsAtBlocks, [Next]_vars PROVE LengthInv'
    OBVIOUS
<1>1. CASE UNCHANGED vars
    BY <1>1 DEF LengthInv, BlockLengths, FitsSize, vars
<1>2. file # Absent => Good(file) /\ BlockLengths(file) /\ Aligned(file)
    BY DEF BlockInv, LengthInv, CutsAtBlocks, Aligned
<1>3. CASE Next
    <2>1. CASE StaysOrFallsBack
        BY <2>1 DEF StaysOrFallsBack, LengthInv
    <2>2. CASE IsMade
        BY <2>2, EmptyFileOK DEF IsMade, LengthInv
    <2>3. CASE IsCut
        BY <1>2, <2>3, OpenedTruncatedOK DEF IsCut, LengthInv, Good
    <2>4. ASSUME NEW w \in PendingWrites, IsWritten(w) PROVE LengthInv'
        BY <1>2, <2>4, WrittenOK DEF IsWritten, LengthInv, Good, PendingWrites
    <2>5. ASSUME NEW w \in PendingWrites, IsWrittenAndFlushed(w) PROVE LengthInv'
        <3> DEFINE f == Written(file, w.offset, w.buf)
        <3>1. Good(f) /\ BlockLengths(f) /\ Aligned(f)
            BY <1>2, <2>5, WrittenOK DEF IsWrittenAndFlushed, Good, PendingWrites
        <3>2. PICK o \in FlushOutcomes(f) : file' = o.file /\ stored' = o.stored
            BY <2>5 DEF IsWrittenAndFlushed
        <3> HIDE DEF f
        <3> QED BY <3>1, <3>2, FlushGood DEF LengthInv
    <2>6. CASE IsFlushed
        <3>1. PICK o \in FlushOutcomes(file) :
                \/ stored' = o.stored /\ file' = o.file
                \/ stored' = Absent /\ file' = Absent
                \/ o.ok /\ stored' = o.stored /\ \E n \in TruncateSizes : file' = TruncatedTo(o.file, n)
            BY <2>6 DEF IsFlushed
        <3>2. /\ Good(o.file) /\ BlockLengths(o.file)
              /\ o.stored = stored \/ BlockLengths(o.stored)
            BY <1>2, <2>6, FlushGood DEF IsFlushed
        <3> QED BY <3>1, <3>2, TruncatedToOK, ClientAssumption DEF LengthInv, Good
    <2> QED BY <1>3, <2>1, <2>2, <2>3, <2>4, <2>5, <2>6, Operations
<1> QED BY <1>1, <1>3

LEMMA NoErrorNext ==
    BlockInv /\ LengthInv /\ CutsAtBlocks /\ NoErrorByItself /\ [Next]_vars => NoErrorByItself'
<1> SUFFICES ASSUME BlockInv, LengthInv, CutsAtBlocks, NoErrorByItself, [Next]_vars, ~Failures PROVE call'.ok
    BY DEF NoErrorByItself
<1>1. CASE UNCHANGED vars
    BY <1>1 DEF NoErrorByItself, vars
<1>2. file # Absent => Good(file) /\ BlockLengths(file) /\ Aligned(file)
    BY DEF BlockInv, LengthInv, CutsAtBlocks, Aligned
<1>3. CASE Next
    <2>1. ASSUME NEW w \in PendingWrites, IsWrittenAndFlushed(w) PROVE call'.ok
        <3> DEFINE f == Written(file, w.offset, w.buf)
        <3>1. Good(f) /\ BlockLengths(f) /\ Aligned(f)
            BY <1>2, <2>1, WrittenOK DEF IsWrittenAndFlushed, Good, PendingWrites
        <3>2. PICK o \in FlushOutcomes(f) : call'.ok = o.ok
            BY <2>1 DEF IsWrittenAndFlushed
        <3> HIDE DEF f
        <3> QED BY <3>1, <3>2, FlushGood
    <2>2. CASE IsFlushed
        <3>1. PICK o \in FlushOutcomes(file) : o.ok => call'.ok \/ Failures
            BY <2>2 DEF IsFlushed
        <3> QED BY <1>2, <2>2, <3>1, FlushGood DEF IsFlushed
    <2> QED BY <1>3, <2>1, <2>2, Operations
<1> QED BY <1>1, <1>3

-----------------------------------------------------------------------------
\* The pending writes, the blocks and the saved file keep their shape: a buffer is
\* never empty, and what is stored has nothing pending (flush.c:400-428).
THEOREM TypeCorrect == Spec => []TypeOK
<1>1. Init => BlockInv
    BY BlockInvInit
<1>2. BlockInv /\ [Next]_vars => BlockInv'
    BY BlockInvNext
<1>3. BlockInv => TypeOK
    BY DEF BlockInv, Good, TypeOK
<1> QED BY <1>1, <1>2, <1>3, PTL DEF Spec

\* However a file is written, cut and flushed, it has at most RESIZE_AT_BLOCKS_COUNT
\* blocks or blocks of the largest size (flush.c:129-137).
THEOREM FewBlocks == Spec => []BlocksStayFew
<1>1. Init => BlockInv
    BY BlockInvInit
<1>2. BlockInv /\ [Next]_vars => BlockInv'
    BY BlockInvNext
<1>3. BlockInv => BlocksStayFew
    BY DEF BlockInv, Good, Shape, BlocksStayFew
<1> QED BY <1>1, <1>2, <1>3, PTL DEF Spec

\* As long as no truncation cuts into a block, every block has the length that the
\* size of the file implies (operations.c:84).
THEOREM BlocksHaveTheirLengths == Spec /\ []CutsAtBlocks => []BlocksFitSize
<1>1. Init => BlockInv /\ LengthInv
    BY BlockInvInit
<1>2. BlockInv /\ [Next]_vars => BlockInv'
    BY BlockInvNext
<1>3. BlockInv /\ LengthInv /\ CutsAtBlocks /\ [Next]_vars => LengthInv'
    BY LengthInvNext
<1>4. BlockInv /\ LengthInv => BlocksFitSize
    BY DEF BlockInv, LengthInv, BlockLengths, BlocksFitSize, BlocksFit, Good, Shape
<1> QED BY <1>1, <1>2, <1>3, <1>4, PTL DEF Spec

\* Then no operation fails while the destination works: what a flush decrypts has
\* the length decryptBlock insists on.
THEOREM NothingFailsByItself == Spec /\ []CutsAtBlocks => []NoErrorByItself
<1>1. Init => BlockInv /\ LengthInv /\ NoErrorByItself
    BY BlockInvInit, CallIs DEF Init, NoErrorByItself
<1>2. BlockInv /\ [Next]_vars => BlockInv'
    BY BlockInvNext
<1>3. BlockInv /\ LengthInv /\ CutsAtBlocks /\ [Next]_vars => LengthInv'
    BY LengthInvNext
<1>4. BlockInv /\ LengthInv /\ CutsAtBlocks /\ NoErrorByItself /\ [Next]_vars => NoErrorByItself'
    BY NoErrorNext
<1> QED BY <1>1, <1>2, <1>3, <1>4, PTL DEF Spec

-----------------------------------------------------------------------------
\* Where a byte is: its block, and its place in it.
LEMMA PlaceOf ==
    ASSUME NEW size \in Nat, NEW bs \in Nat \ {0}, NEW j \in Nat, j < size
    PROVE  /\ j \div bs + 1 \in 1 .. BlocksFor(size, bs)
           /\ (j % bs) + 1 \in 1 .. LengthOf(size, bs, j \div bs + 1)
           /\ (j \div bs) * bs + (j % bs) = j
<1> DEFINE q == j \div bs
           r == j % bs
<1>1. q \in Nat /\ r \in 0 .. bs - 1 /\ j = q * bs + r
    BY DivMod
<1> HIDE DEF q, r
<1>2. q * bs \in Nat /\ q * bs < size
    <2> DEFINE at == q * bs
    <2>1. at \in Nat
        BY <1>1
    <2> HIDE DEF at
    <2>2. j = at + r
        BY <1>1 DEF at
    <2> QED BY <1>1, <2>1, <2>2 DEF at
<1>3. BlocksFor(size, bs) \in Nat /\ q < BlocksFor(size, bs)
    BY <1>1, <1>2, BlocksForIs
<1> DEFINE n == q + 1
<1>4. n \in 1 .. BlocksFor(size, bs) /\ n - 1 = q
    BY <1>1, <1>3
<1> HIDE DEF n
<1>5. LengthOf(size, bs, n) = IF n * bs <= size THEN bs ELSE size - q * bs
    BY <1>4, LengthOfIs
<1>6. r + 1 \in 1 .. LengthOf(size, bs, n)
    <2> DEFINE at == q * bs
               full == n * bs <= size
    <2> HIDE DEF at, full
    <2>1. at \in Nat /\ j = at + r /\ LengthOf(size, bs, n) = IF full THEN bs ELSE size - at
        BY <1>1, <1>2, <1>5 DEF at, full
    <2> QED BY <1>1, <2>1
<1>7. q * bs + r = j
    BY <1>1
<1> QED BY <1>4, <1>6, <1>7 DEF q, r, n

\* The other way round.
LEMMA PlaceIs ==
    ASSUME NEW size \in Nat, NEW bs \in Nat \ {0}, NEW n \in 1 .. BlocksFor(size, bs),
           NEW m \in 1 .. LengthOf(size, bs, n)
    PROVE  /\ (n - 1) * bs + m - 1 \in Nat /\ (n - 1) * bs + m - 1 < size
           /\ ((n - 1) * bs + m - 1) \div bs + 1 = n /\ (((n - 1) * bs + m - 1) % bs) + 1 = m
<1> DEFINE at == (n - 1) * bs
           to == n * bs
<1>1. /\ LengthOf(size, bs, n) \in 1 .. bs /\ at \in Nat /\ at < size
      /\ LengthOf(size, bs, n) = IF to <= size THEN bs ELSE size - at
      /\ to = at + bs
    BY LengthOfIs
<1>2. n - 1 \in Nat
    BY BlocksForIs
<1> DEFINE j == at + m - 1
<1>3. j \in Nat /\ j < size /\ at <= j /\ j < at + bs /\ j - at = m - 1 /\ m \in Nat
    <2> HIDE DEF at, to
    <2> QED BY <1>1
<1>4. j \div bs = n - 1 /\ j % bs = j - at
    <2> HIDE DEF j
    <2> QED BY <1>2, <1>3, DivIs
<1>5. n \in Nat
    BY BlocksForIs
<1> HIDE DEF j
<1> QED BY <1>3, <1>4, <1>5 DEF j, at

\* What is read at a place of the file: the bytes of a good file are numbers.
LEMMA StoredByteIs ==
    ASSUME NEW f, Good(f), BlockLengths(f), NEW k \in Nat, k < f.size
    PROVE  /\ f.blockSize \in Nat \ {0}
           /\ k \div f.blockSize + 1 \in DOMAIN f.content
           /\ (k % f.blockSize) + 1 \in 1 .. Len(f.content[k \div f.blockSize + 1])
           /\ StoredByte(f, k) \in Nat
<1> DEFINE bs == f.blockSize
           n == k \div bs + 1
           m == (k % bs) + 1
<1>1. f \in File /\ f.size \in Nat /\ f.size # 0
    BY FileFacts DEF Good
<1>2. bs \in Nat \ {0} /\ BlocksFor(f.size, bs) = Len(f.content)
    BY <1>1, FileFacts DEF Good, Shape
<1>3. n \in 1 .. Len(f.content) /\ m \in 1 .. LengthOf(f.size, bs, n)
    <2> HIDE DEF bs
    <2> QED BY <1>1, <1>2, PlaceOf
<1> HIDE DEF n, m
<1>4. n \in DOMAIN f.content /\ f.content[n] \in Seq(Nat) /\ Len(f.content[n]) = LengthOf(f.size, bs, n)
    BY <1>1, <1>3, FileFacts DEF BlockLengths, FitsSize
<1>5. f.content[n][m] \in Nat
    BY <1>3, <1>4
<1> QED BY <1>2, <1>3, <1>4, <1>5 DEF StoredByte, n, m

LEMMA ByteAtIs ==
    ASSUME NEW f, NEW k
    PROVE  ByteAt(f, k) = IF LastAt(f, k) # 0
                          THEN f.pending[LastAt(f, k)].buf[k - f.pending[LastAt(f, k)].offset + 1]
                          ELSE IF k < StoredSize(f) THEN StoredByte(f, k) ELSE 0
BY DEF ByteAt, LastAt

LEMMA ContentsIs ==
    ASSUME NEW f, Good(f), BlockLengths(f)
    PROVE  /\ Contents(f) \in Seq(Nat)
           /\ Len(Contents(f)) = NewSize(f) /\ NewSize(f) \in Nat
           /\ \A k \in 1 .. NewSize(f) : Contents(f)[k] = ByteAt(f, k - 1)
           /\ Contents(f) # Absent
<1>1. f \in File /\ NewSize(f) \in Nat
    BY NewSizeIs DEF Good
<1>2. ASSUME NEW k \in Nat PROVE ByteAt(f, k) \in Nat
    <2>1. CASE LastAt(f, k) # 0
        BY <1>1, <2>1, ByteAtIs, LastAtByte
    <2>2. CASE LastAt(f, k) = 0 /\ k < StoredSize(f)
        <3>1. k < f.size
            BY <1>1, <2>2, StoredSizeIs, FileFacts DEF Good
        <3> QED BY <2>2, <3>1, ByteAtIs, StoredByteIs
    <2>3. CASE LastAt(f, k) = 0 /\ ~(k < StoredSize(f))
        BY <2>3, ByteAtIs
    <2> QED BY <2>1, <2>2, <2>3
<1>3. ASSUME NEW k \in 1 .. NewSize(f) PROVE ByteAt(f, k - 1) \in Nat
    <2>1. k - 1 \in Nat
        OBVIOUS
    <2> QED BY <1>2, <2>1
<1>4. Contents(f) \in Seq(Nat) /\ Len(Contents(f)) = NewSize(f)
    BY <1>1, <1>3 DEF Contents
<1>5. \A k \in 1 .. NewSize(f) : Contents(f)[k] = ByteAt(f, k - 1)
    BY DEF Contents
<1> QED BY <1>1, <1>4, <1>5, AbsentAssumption

\* A pending truncation leaves no gap below the pending writes.
HoleFree(f) == f.trunc => \A k \in f.truncSize .. NewSize(f) - 1 : LastAt(f, k) # 0

\* What a flush decrypts at a place no write covers is what a reader was owed.
LEMMA OldByteIs ==
    ASSUME NEW f, Good(f), BlockLengths(f), HoleFree(f), NEW k \in Nat, k < NewSize(f), LastAt(f, k) = 0
    PROVE  OldByte(f, k) = ByteAt(f, k)
<1> DEFINE n == k \div f.blockSize + 1
           m == (k % f.blockSize) + 1
<1>1. f \in File /\ f.size \in Nat /\ f.blockSize \in Nat /\ Len(f.content) \in Nat
      /\ StoredSize(f) \in Nat /\ StoredSize(f) <= f.size /\ NewSize(f) \in Nat
    BY FileFacts, StoredSizeIs, NewSizeIs DEF Good
<1>2. OldByte(f, k) = IF f.content # <<>> /\ n <= Len(f.content) /\ (Resizes(f) => k < f.size)
                      THEN IF m <= Len(f.content[n]) THEN f.content[n][m] ELSE 0 ELSE 0
    BY DEF OldByte
<1>3. CASE k < StoredSize(f)
    <2>1. k < f.size
        BY <1>1, <1>3
    <2>2. n \in DOMAIN f.content /\ m \in 1 .. Len(f.content[n])
        BY <2>1, StoredByteIs
    <2>3. f.content # <<>> /\ n <= Len(f.content) /\ m <= Len(f.content[n])
        <3> HIDE DEF n, m
        <3>1. Len(f.content) # 0
            BY <1>1, <2>2, FileFacts
        <3>2. n <= Len(f.content)
            BY <1>1, <2>2, FileFacts
        <3>3. m <= Len(f.content[n])
            BY <2>2
        <3> QED BY <3>1, <3>2, <3>3
    <2>4. ByteAt(f, k) = f.content[n][m]
        BY <1>3, ByteAtIs DEF StoredByte
    <2> HIDE DEF n, m
    <2> QED BY <1>2, <2>1, <2>3, <2>4
<1>4. CASE ~(k < StoredSize(f))
    <2>1. ByteAt(f, k) = 0
        BY <1>4, ByteAtIs
    <2>2. ~f.trunc
        <3> SUFFICES ASSUME f.trunc PROVE FALSE
            OBVIOUS
        <3>1. k \in f.truncSize .. NewSize(f) - 1
            BY <1>1, <1>4 DEF StoredSize
        <3> QED BY <3>1 DEF HoleFree
    <2>3. ~(k < f.size)
        BY <1>4, <2>2 DEF StoredSize
    <2>4. ASSUME f.content # <<>>, n <= Len(f.content), m <= Len(f.content[n]) PROVE FALSE
        <3> DEFINE bs == f.blockSize
        <3>1. bs \in Nat \ {0} /\ BlocksFor(f.size, bs) = Len(f.content)
            BY <1>1, <2>4, StoredSizeIs DEF Good, Shape
        <3>2. k \div bs \in Nat /\ k % bs \in 0 .. bs - 1 /\ k = (k \div bs) * bs + (k % bs)
            <4> HIDE DEF bs
            <4> QED BY <3>1, DivMod
        <3> DEFINE q == k \div bs
                   r == k % bs
        <3> HIDE DEF q, r, bs
        <3>3. n = q + 1 /\ m = r + 1 /\ q \in Nat /\ r \in Nat
            BY <3>1, <3>2 DEF q, r, bs
        <3> HIDE DEF n, m
        <3>4. n \in 1 .. Len(f.content) /\ n - 1 = q
            BY <1>1, <2>4, <3>3
        <3>5. Len(f.content[n]) = LengthOf(f.size, bs, n)
            BY <1>1, <3>4, FileFacts DEF BlockLengths, FitsSize, bs
        <3>6. m \in 1 .. LengthOf(f.size, bs, n)
            <4>1. LengthOf(f.size, bs, n) \in Nat
                BY <1>1, <3>1, <3>4, LengthOfIs
            <4> QED BY <2>4, <3>3, <3>5, <4>1
        <3>7. (n - 1) * bs + m - 1 < f.size
            BY <1>1, <3>1, <3>4, <3>6, PlaceIs
        <3>8. (n - 1) * bs + m - 1 = k
            <4>1. (n - 1) * bs \in Nat /\ k = (n - 1) * bs + r
                BY <3>1, <3>2, <3>3, <3>4 DEF q, r
            <4> QED BY <3>3, <4>1
        <3> QED BY <2>3, <3>7, <3>8
    <2> HIDE DEF n, m
    <2> QED BY <1>2, <2>1, <2>4
<1> QED BY <1>3, <1>4

\* No pending write covers a place in a block that a flush leaves alone.
LEMMA KeptIsUncovered ==
    ASSUME NEW f, Good(f), NEW n, Kept(f, n), NEW k \in Nat, k \div NewBlockSize(f) + 1 = n
    PROVE  LastAt(f, k) = 0
<1>1. f \in File /\ n \in Nat /\ NewBlockSize(f) \in Nat \ {0}
    BY KeptBlocks, FileFacts DEF Good
<1>2. ASSUME NEW w \in DOMAIN f.pending, Covers(f.pending[w], k) PROVE FALSE
    <2> DEFINE p == f.pending[w]
               l == k - p.offset + 1
    <2>1. p.offset \in Nat /\ Len(p.buf) \in Nat
        BY <1>1, WriteFacts
    <2>2. l \in 1 .. Len(p.buf) /\ p.offset + l - 1 = k
        <3> HIDE DEF p
        <3> QED BY <1>2, <2>1 DEF Covers, p
    <2>3. f.pending # <<>>
        BY <1>2
    <2>4. ~Touched(f, n)
        BY <2>3 DEF Kept, Rewritten
    <2>5. k \div NewBlockSize(f) = n - 1
        <3> DEFINE q == k \div NewBlockSize(f)
        <3>1. q \in Nat /\ q + 1 = n
            BY <1>1, DivMod
        <3> HIDE DEF q
        <3>2. q = n - 1
            BY <1>1, <3>1
        <3> QED BY <3>2 DEF q
    <2> HIDE DEF l
    <2> QED BY <2>2, <2>4, <2>5 DEF Touched
<1> QED BY <1>1, <1>2, LastAtIs

\* A flush changes no byte.
LEMMA SavedContents ==
    ASSUME NEW f, Good(f), BlockLengths(f), Aligned(f), HoleFree(f)
    PROVE  Contents(Saved(f)) = Contents(f)
<1> DEFINE s == Saved(f)
           S == NewSize(f)
           bs == NewBlockSize(f)
<1>1. f \in File /\ Shape(f)
    BY DEF Good
<1>2. Good(s) /\ BlockLengths(s) /\ NewSize(s) = S /\ StoredSize(s) = S /\ s.pending = <<>> /\ S \in Nat
    <2>1. s \in File /\ s.pending = <<>> /\ ~s.trunc /\ s.size = S
        BY <1>1, SavedIs
    <2>2. StoredSize(s) = S
        BY <2>1 DEF StoredSize
    <2> QED BY <1>1, <2>1, <2>2, SavedOK, NewSizeClean, NewSizeIs DEF Good
<1>3. ASSUME NEW k \in 1 .. S PROVE ByteAt(s, k - 1) = ByteAt(f, k - 1)
    <2> DEFINE j == k - 1
               n == j \div bs + 1
               m == (j % bs) + 1
    <2>1. j \in Nat /\ j < S
        BY <1>2
    <2>2. bs \in Nat \ {0} /\ NewBlocks(f) = BlocksFor(S, bs)
        <3>1. bs \in BlockSizes /\ (bs = 0 => S = 0) /\ NewBlocks(f) = BlocksFor(S, bs)
            BY <1>1, SavedShape
        <3>2. S # 0
            BY <2>1
        <3> QED BY <3>1, <3>2, BlockSizesAre
    <2> HIDE DEF j, S, bs
    <2>3. n \in 1 .. NewBlocks(f) /\ m \in 1 .. LengthOf(S, bs, n) /\ (j \div bs) * bs + (j % bs) = j
        BY <1>2, <2>1, <2>2, PlaceOf
    <2>4. (n - 1) * bs + m - 1 = j
        <3> DEFINE q == j \div bs
                   r == j % bs
        <3>1. q \in Nat /\ r \in 0 .. bs - 1
            BY <2>1, <2>2, DivMod
        <3>2. n = q + 1 /\ m = r + 1 /\ q * bs + r = j
            BY <2>3
        <3> HIDE DEF q, r, n, m
        <3>3. n - 1 = q /\ q * bs \in Nat
            BY <2>2, <3>1, <3>2
        <3> QED BY <2>2, <3>1, <3>2, <3>3
    <2>5. ByteAt(s, j) = s.content[n][m]
        <3>1. LastAt(s, j) = 0
            <4>1. LastAt(s, j) \in 0 .. Len(s.pending)
                BY <1>2, <2>1, LastAtIs DEF Good
            <4>2. Len(s.pending) = 0
                BY <1>2, EmptySeq
            <4> HIDE DEF s
            <4> QED BY <4>1, <4>2
        <3>2. s.blockSize = bs
            BY <1>1, SavedIs DEF bs
        <3> QED BY <1>2, <2>1, <3>1, <3>2, ByteAtIs DEF StoredByte
    <2>6. n = j \div bs + 1 /\ m = (j % bs) + 1
        OBVIOUS
    <2> HIDE DEF n, m
    <2>7. CASE Kept(f, n)
        <3>1. s.content[n] = f.content[n]
            BY <1>1, <2>3, <2>7, SavedIs
        <3>2. bs = f.blockSize
            BY <1>1, <2>7, KeptBlocks DEF bs
        <3>3. LastAt(f, j) = 0
            BY <2>1, <2>6, <2>7, KeptIsUncovered DEF bs
        <3>4. j < f.size
            <4>1. n \in 1 .. BlocksFor(f.size, bs) /\ f.size \in Nat
                BY <1>1, <2>7, <3>2, KeptBlocks, FileFacts DEF Shape
            <4>2. m \in 1 .. LengthOf(f.size, bs, n)
                BY <1>1, <2>3, <2>7, <3>2, KeptLength DEF S, bs
            <4> QED BY <2>2, <2>4, <4>1, <4>2, PlaceIs
        <3>5. j < StoredSize(f)
            <4>1. CASE f.trunc
                <5> SUFFICES ASSUME ~(j < f.truncSize) PROVE FALSE
                    BY <4>1 DEF StoredSize
                <5>1. j \in f.truncSize .. NewSize(f) - 1
                    BY <1>1, <1>2, <2>1, FileFacts DEF S
                <5> QED BY <3>3, <4>1, <5>1 DEF HoleFree
            <4>2. CASE ~f.trunc
                BY <3>4, <4>2 DEF StoredSize
            <4> QED BY <4>1, <4>2
        <3>6. ByteAt(f, j) = f.content[n][m]
            BY <2>6, <3>2, <3>3, <3>5, ByteAtIs DEF StoredByte
        <3> QED BY <2>5, <3>1, <3>6 DEF j
    <2>8. CASE ~Kept(f, n)
        <3>1. s.content[n][m] = NewByte(f, j)
            <4>1. s.content[n] = NewBlock(f, n)
                BY <1>1, <2>3, <2>8, SavedIs
            <4>2. NewBlock(f, n)[m] = NewByte(f, (n - 1) * bs + m - 1)
                BY <1>1, <2>3, NewBlockIs DEF S, bs
            <4> QED BY <2>4, <4>1, <4>2
        <3>2. NewByte(f, j) = ByteAt(f, j)
            BY <2>1, NewByteIs, ByteAtIs, OldByteIs DEF S
        <3> QED BY <2>5, <3>1, <3>2 DEF j
    <2> QED BY <2>7, <2>8
<1> HIDE DEF s, S
<1>4. Contents(s) = [k \in 1 .. S |-> ByteAt(s, k - 1)] /\ Contents(f) = [k \in 1 .. S |-> ByteAt(f, k - 1)]
    BY <1>2 DEF Contents, S
<1> QED BY <1>3, <1>4 DEF s

-----------------------------------------------------------------------------
\* A write, seen by every read from then on.
LEMMA WrittenLastAt ==
    ASSUME NEW f, Good(f), NEW offset \in Nat, NEW buf \in Seq(Nat) \ {<<>>}, NEW k \in Nat
    PROVE  LET g == Written(f, offset, buf)
           IN /\ offset <= k /\ k < offset + Len(buf) =>
                    /\ LastAt(g, k) # 0 /\ g.pending[LastAt(g, k)] = [offset |-> offset, buf |-> buf]
              /\ ~(offset <= k /\ k < offset + Len(buf)) =>
                    /\ LastAt(g, k) = LastAt(f, k)
                    /\ LastAt(f, k) # 0 => g.pending[LastAt(f, k)] = f.pending[LastAt(f, k)]
<1> DEFINE g == Written(f, offset, buf)
           new == [offset |-> offset, buf |-> buf]
           l == Len(f.pending)
<1>1. f \in File /\ g \in File /\ g.pending = Append(f.pending, new)
    BY WrittenOK DEF Good
<1>2. /\ DOMAIN f.pending = 1 .. l /\ l \in Nat /\ DOMAIN g.pending = 1 .. l + 1 /\ Len(g.pending) = l + 1
      /\ g.pending[l + 1] = new /\ \A w \in 1 .. l : g.pending[w] = f.pending[w]
    <2> DEFINE W == [offset : Nat, buf : Seq(Nat) \ {<<>>}]
    <2>1. f.pending \in Seq(W) /\ new \in W /\ DOMAIN f.pending = 1 .. l /\ l \in Nat
        BY <1>1, FileFacts
    <2> HIDE DEF W, new, g
    <2> QED BY <1>1, <2>1, AppendProperties
<1>3. Covers(new, k) <=> offset <= k /\ k < offset + Len(buf)
    BY DEF Covers
<1> HIDE DEF g, new
<1>4. /\ LastAt(g, k) \in 0 .. l + 1
      /\ LastAt(g, k) # 0 => Covers(g.pending[LastAt(g, k)], k)
      /\ \A w \in 1 .. l + 1 : Covers(g.pending[w], k) => w <= LastAt(g, k)
    BY <1>1, <1>2, LastAtIs
<1>5. /\ LastAt(f, k) \in 0 .. l
      /\ LastAt(f, k) # 0 => Covers(f.pending[LastAt(f, k)], k)
      /\ \A w \in 1 .. l : Covers(f.pending[w], k) => w <= LastAt(f, k)
    BY <1>1, <1>2, LastAtIs
<1>6. CASE Covers(new, k)
    <2>1. LastAt(g, k) = l + 1
        BY <1>2, <1>4, <1>6
    <2> QED BY <1>2, <1>3, <1>6, <2>1 DEF g, new
<1>7. CASE ~Covers(new, k)
    <2>1. LastAt(g, k) \in 0 .. l
        BY <1>2, <1>4, <1>7
    <2>2. LastAt(f, k) <= LastAt(g, k)
        BY <1>2, <1>4, <1>5, <2>1
    <2>3. LastAt(g, k) <= LastAt(f, k)
        BY <1>2, <1>4, <1>5, <2>1
    <2>4. LastAt(g, k) = LastAt(f, k)
        BY <1>5, <2>1, <2>2, <2>3
    <2>5. LastAt(f, k) # 0 => g.pending[LastAt(f, k)] = f.pending[LastAt(f, k)]
        BY <1>2, <1>5
    <2> QED BY <1>3, <1>7, <2>4, <2>5 DEF g
<1> QED BY <1>6, <1>7

LEMMA WrittenSize ==
    ASSUME NEW f, Good(f), NEW offset \in Nat, NEW buf \in Seq(Nat) \ {<<>>}
    PROVE  NewSize(Written(f, offset, buf)) =
             IF NewSize(f) < offset + Len(buf) THEN offset + Len(buf) ELSE NewSize(f)
<1> DEFINE g == Written(f, offset, buf)
           new == [offset |-> offset, buf |-> buf]
           l == Len(f.pending)
           end == offset + Len(buf)
<1>1. f \in File /\ g \in File /\ g.pending = Append(f.pending, new) /\ StoredSize(g) = StoredSize(f)
    BY WrittenOK DEF Good, StoredSize
<1>2. /\ DOMAIN f.pending = 1 .. l /\ l \in Nat /\ DOMAIN g.pending = 1 .. l + 1
      /\ g.pending[l + 1] = new /\ \A w \in 1 .. l : g.pending[w] = f.pending[w]
    <2> DEFINE W == [offset : Nat, buf : Seq(Nat) \ {<<>>}]
    <2>1. f.pending \in Seq(W) /\ new \in W /\ DOMAIN f.pending = 1 .. l /\ l \in Nat
        BY <1>1, FileFacts
    <2> HIDE DEF W, new, g
    <2> QED BY <1>1, <2>1, AppendProperties
<1>3. EndOf(new) = end /\ end \in Nat
    BY DEF EndOf
<1> HIDE DEF g, new, end
<1>4. SizesOf(g) = SizesOf(f) \union {end}
    <2>1. ASSUME NEW s \in SizesOf(g) PROVE s \in SizesOf(f) \union {end}
        <3>1. CASE s = StoredSize(f)
            BY <3>1 DEF SizesOf
        <3>2. ASSUME NEW w \in 1 .. l + 1, s = EndOf(g.pending[w]) PROVE s \in SizesOf(f) \union {end}
            <4>1. CASE w = l + 1
                BY <1>2, <1>3, <3>2, <4>1
            <4>2. CASE w \in 1 .. l
                BY <1>2, <3>2, <4>2 DEF SizesOf
            <4> QED BY <1>2, <4>1, <4>2
        <3> QED BY <1>1, <1>2, <2>1, <3>1, <3>2 DEF SizesOf
    <2>2. ASSUME NEW s \in SizesOf(f) \union {end} PROVE s \in SizesOf(g)
        <3>1. CASE s = StoredSize(f)
            BY <1>1, <3>1 DEF SizesOf
        <3>2. CASE s = end
            <4>1. l + 1 \in DOMAIN g.pending /\ s = EndOf(g.pending[l + 1])
                BY <1>2, <1>3, <3>2
            <4> QED BY <4>1 DEF SizesOf
        <3>3. ASSUME NEW w \in 1 .. l, s = EndOf(f.pending[w]) PROVE s \in SizesOf(g)
            <4>1. w \in DOMAIN g.pending /\ s = EndOf(g.pending[w])
                BY <1>2, <3>3
            <4> QED BY <4>1 DEF SizesOf
        <3> QED BY <1>2, <2>2, <3>1, <3>2, <3>3 DEF SizesOf
    <2> QED BY <2>1, <2>2
<1>5. NewSize(f) \in SizesOf(f) /\ (\A s \in SizesOf(f) : s <= NewSize(f)) /\ NewSize(f) \in Nat
      /\ SizesOf(f) \subseteq Nat
    BY <1>1, NewSizeIs, FileFacts, WriteFacts DEF SizesOf
<1>6. CASE NewSize(f) < end
    <2>1. end \in SizesOf(g) /\ \A s \in SizesOf(g) : s <= end
        BY <1>3, <1>4, <1>5, <1>6
    <2> QED BY <1>1, <1>6, <2>1, NewSizeIsOnly DEF g, end
<1>7. CASE ~(NewSize(f) < end)
    <2>1. NewSize(f) \in SizesOf(g) /\ \A s \in SizesOf(g) : s <= NewSize(f)
        BY <1>3, <1>4, <1>5, <1>7
    <2> QED BY <1>1, <1>7, <2>1, NewSizeIsOnly DEF g, end
<1> QED BY <1>6, <1>7

Overwritten(f, offset, buf) ==
    [k \in 1 .. (IF NewSize(f) < offset + Len(buf) THEN offset + Len(buf) ELSE NewSize(f)) |->
        IF k > offset /\ k <= offset + Len(buf) THEN buf[k - offset]
        ELSE IF k <= NewSize(f) THEN Contents(f)[k] ELSE 0]

LEMMA WrittenContents ==
    ASSUME NEW f, Good(f), BlockLengths(f), NEW offset \in Nat, NEW buf \in Seq(Nat) \ {<<>>}
    PROVE  Contents(Written(f, offset, buf)) = Overwritten(f, offset, buf)
<1> DEFINE g == Written(f, offset, buf)
           S == IF NewSize(f) < offset + Len(buf) THEN offset + Len(buf) ELSE NewSize(f)
           byte(k) == IF k > offset /\ k <= offset + Len(buf) THEN buf[k - offset]
                      ELSE IF k <= NewSize(f) THEN Contents(f)[k] ELSE 0
<1>1. f \in File /\ NewSize(f) \in Nat /\ Len(buf) \in Nat /\ StoredSize(f) <= NewSize(f) /\ StoredSize(f) \in Nat
    BY NewSizeIs, StoredSizeIs, FileFacts DEF Good
<1>2. NewSize(g) = S /\ StoredSize(g) = StoredSize(f)
    <2>1. NewSize(g) = S
        BY WrittenSize
    <2>2. g.trunc = f.trunc /\ g.truncSize = f.truncSize /\ g.size = f.size
        BY WrittenOK DEF Good
    <2>3. StoredSize(g) = StoredSize(f)
        <3> HIDE DEF g
        <3> QED BY <2>2 DEF StoredSize
    <2> QED BY <2>1, <2>3
<1>3. ASSUME NEW k \in 1 .. S PROVE ByteAt(g, k - 1) = byte(k)
    <2>1. k - 1 \in Nat /\ k \in Nat
        BY <1>1
    <2>2. CASE k > offset /\ k <= offset + Len(buf)
        <3>1. LastAt(g, k - 1) # 0 /\ g.pending[LastAt(g, k - 1)] = [offset |-> offset, buf |-> buf]
            <4>1. offset <= k - 1 /\ k - 1 < offset + Len(buf)
                BY <1>1, <2>1, <2>2
            <4> QED BY <2>1, <4>1, WrittenLastAt
        <3>2. ByteAt(g, k - 1) = buf[k - 1 - offset + 1]
            BY <3>1, ByteAtIs
        <3>3. k - 1 - offset + 1 = k - offset
            BY <2>1
        <3> QED BY <2>2, <3>2, <3>3
    <2>3. CASE ~(k > offset /\ k <= offset + Len(buf))
        <3>1. LastAt(g, k - 1) = LastAt(f, k - 1)
              /\ (LastAt(f, k - 1) # 0 => g.pending[LastAt(f, k - 1)] = f.pending[LastAt(f, k - 1)])
            <4> DEFINE j == k - 1
            <4>1. ~(offset <= j /\ j < offset + Len(buf)) /\ j \in Nat
                BY <1>1, <2>1, <2>3
            <4> HIDE DEF j
            <4>2. LastAt(g, j) = LastAt(f, j)
                  /\ (LastAt(f, j) # 0 => g.pending[LastAt(f, j)] = f.pending[LastAt(f, j)])
                BY <4>1, WrittenLastAt
            <4> QED BY <4>2 DEF j
        <3>2. StoredByte(g, k - 1) = StoredByte(f, k - 1)
            BY <1>1, WrittenOK DEF StoredByte, Good
        <3>3. ByteAt(g, k - 1) = ByteAt(f, k - 1)
            BY <1>2, <3>1, <3>2, ByteAtIs
        <3>4. CASE k <= NewSize(f)
            BY <2>1, <2>3, <3>3, <3>4 DEF Contents
        <3>5. CASE ~(k <= NewSize(f))
            <4>1. LastAt(f, k - 1) = 0
                <5>1. ASSUME NEW w \in DOMAIN f.pending, Covers(f.pending[w], k - 1) PROVE FALSE
                    <6> DEFINE p == f.pending[w]
                    <6>1. p.offset \in Nat /\ Len(p.buf) \in Nat
                        BY <1>1, WriteFacts
                    <6>2. EndOf(p) <= NewSize(f)
                        BY <1>1, NewSizeIs DEF SizesOf
                    <6> HIDE DEF p
                    <6> QED BY <1>1, <2>1, <3>5, <5>1, <6>1, <6>2 DEF EndOf, Covers, p
                <5> QED BY <1>1, <2>1, <5>1, LastAtIs
            <4>2. ~(k - 1 < StoredSize(f))
                BY <1>1, <2>1, <3>5
            <4> QED BY <2>3, <3>3, <3>5, <4>1, <4>2, ByteAtIs
        <3> QED BY <3>4, <3>5
    <2> QED BY <2>2, <2>3
<1>4. Contents(g) = [k \in 1 .. S |-> ByteAt(g, k - 1)]
    BY <1>2 DEF Contents
<1> HIDE DEF g, S
<1>5. Contents(g) = [k \in 1 .. S |-> byte(k)]
    BY <1>3, <1>4
<1> QED BY <1>5 DEF g, S, Overwritten

LEMMA WrittenHoleFree ==
    ASSUME NEW f, Good(f), HoleFree(f), NEW offset \in Nat, NEW buf \in Seq(Nat) \ {<<>>},
           f.trunc => offset <= NewSize(f)
    PROVE  HoleFree(Written(f, offset, buf))
<1> DEFINE g == Written(f, offset, buf)
<1>1. g.trunc = f.trunc /\ g.truncSize = f.truncSize
    BY WrittenOK DEF Good
<1>2. NewSize(f) \in Nat /\ Len(buf) \in Nat /\ f.truncSize \in Nat
    BY NewSizeIs, FileFacts DEF Good
<1>3. NewSize(g) = IF NewSize(f) < offset + Len(buf) THEN offset + Len(buf) ELSE NewSize(f)
    BY WrittenSize
<1>4. ASSUME f.trunc, NEW k \in f.truncSize .. NewSize(g) - 1 PROVE LastAt(g, k) # 0
    <2> HIDE DEF g
    <2>1. k \in Nat
        BY <1>2
    <2>2. CASE offset <= k /\ k < offset + Len(buf)
        BY <2>1, <2>2, WrittenLastAt DEF g
    <2>3. CASE ~(offset <= k /\ k < offset + Len(buf))
        <3>1. k \in f.truncSize .. NewSize(f) - 1
            BY <1>2, <1>3, <1>4, <2>1, <2>3
        <3>2. LastAt(f, k) # 0
            BY <1>4, <3>1 DEF HoleFree
        <3> QED BY <2>1, <2>3, <3>2, WrittenLastAt DEF g
    <2> QED BY <2>2, <2>3
<1> HIDE DEF g
<1> QED BY <1>1, <1>4 DEF HoleFree, g

LEMMA CleanIs ==
    ASSUME NEW f, Good(f), ~Dirty(f)
    PROVE  /\ f.pending = <<>> /\ ~f.trunc /\ f.truncSize = 0 /\ HoleFree(f)
           /\ StoredSize(f) = f.size /\ NewSize(f) = f.size
BY NewSizeClean DEF Dirty, Good, Shape, HoleFree, StoredSize

\* A file opened with O_TRUNC is empty.
LEMMA OpenedTruncatedContents ==
    ASSUME NEW f, Good(f), f.pending = <<>>
    PROVE  /\ Contents(OpenedTruncated(f)) = <<>> /\ HoleFree(OpenedTruncated(f))
           /\ Dirty(OpenedTruncated(f))
<1> DEFINE g == OpenedTruncated(f)
<1>1. g \in File /\ g.pending = <<>> /\ g.trunc = TRUE /\ g.truncSize = 0
    <2>1. g.pending = f.pending /\ g.trunc = TRUE /\ g.truncSize = 0
        BY DEF OpenedTruncated, Good, File
    <2> QED BY <2>1, OpenedTruncatedOK DEF Good
<1> HIDE DEF g
<1>2. NewSize(g) = 0
    BY <1>1, NewSizeClean DEF StoredSize
<1>3. Contents(g) = <<>>
    BY <1>2 DEF Contents
<1>4. HoleFree(g) /\ Dirty(g)
    BY <1>1, <1>2 DEF HoleFree, Dirty
<1> QED BY <1>3, <1>4 DEF g

LEMMA EmptyFileContents ==
    ASSUME NEW f, f = [EmptyFile EXCEPT !.create = TRUE]
    PROVE  Contents(f) = <<>> /\ HoleFree(f) /\ Dirty(f)
<1>1. f \in File /\ f.pending = <<>> /\ ~f.trunc /\ f.size = 0 /\ f.create
    <2>1. f.create
        BY DEF EmptyFile
    <2> QED BY <2>1, EmptyFileOK
<1>2. NewSize(f) = 0
    BY <1>1, NewSizeClean DEF StoredSize
<1>3. Contents(f) = <<>>
    BY ONLY <1>2 DEF Contents
<1> QED BY <1>1, <1>3 DEF HoleFree, Dirty

\* truncate, on a file with nothing pending: cut, or followed by zeroes.
LEMMA TruncatedContents ==
    ASSUME NEW f, Good(f), BlockLengths(f), ~Dirty(f), NEW n \in Nat
    PROVE  /\ Contents(TruncatedTo(f, n)) =
                [k \in 1 .. n |-> IF k <= f.size THEN Contents(f)[k] ELSE 0]
           /\ HoleFree(TruncatedTo(f, n))
           /\ ~Dirty(TruncatedTo(f, n)) => TruncatedTo(f, n) = f
<1>1. /\ f \in File /\ f.size \in Nat /\ f.pending = <<>> /\ ~f.trunc /\ HoleFree(f)
      /\ NewSize(f) = f.size /\ StoredSize(f) = f.size
    BY CleanIs, FileFacts DEF Good
<1>2. Contents(f) = [k \in 1 .. f.size |-> ByteAt(f, k - 1)]
    BY <1>1 DEF Contents
<1>3. CASE n = f.size
    <2>1. TruncatedTo(f, n) = f
        BY <1>3 DEF TruncatedTo
    <2>2. \A k \in 1 .. n : k <= f.size
        BY <1>1, <1>3
    <2>3. Contents(f) = [k \in 1 .. n |-> IF k <= f.size THEN Contents(f)[k] ELSE 0]
        BY <1>2, <1>3, <2>2
    <2> QED BY <1>1, <2>1, <2>3
<1>4. CASE n > f.size
    <2> DEFINE zeroes == [k \in 1 .. n - f.size |-> 0]
    <2>1. zeroes \in Seq(Nat) /\ Len(zeroes) = n - f.size
        BY <1>1, <1>4
    <2>2. zeroes \in Seq(Nat) \ {<<>>} /\ f.size + Len(zeroes) = n
        <3> HIDE DEF zeroes
        <3> QED BY <1>1, <1>4, <2>1
    <2>3. TruncatedTo(f, n) = Written(f, f.size, zeroes)
        BY <1>1, <1>4 DEF TruncatedTo, Written
    <2>4. \A k \in 1 .. n - f.size : zeroes[k] = 0
        OBVIOUS
    <2> HIDE DEF zeroes
    <2>5. Contents(TruncatedTo(f, n)) =
            [k \in 1 .. n |-> IF k > f.size /\ k <= n THEN zeroes[k - f.size]
                              ELSE IF k <= f.size THEN Contents(f)[k] ELSE 0]
        <3>1. (IF f.size < n THEN n ELSE f.size) = n
            BY <1>4
        <3> DEFINE at == f.size
        <3>2. at \in Nat
            BY <1>1
        <3> HIDE DEF at
        <3>3. Contents(Written(f, at, zeroes)) = Overwritten(f, at, zeroes)
            BY <2>2, <3>2, WrittenContents
        <3>4. at = f.size /\ NewSize(f) = f.size /\ at + Len(zeroes) = n
            BY <1>1, <2>2 DEF at
        <3> QED BY <2>3, <3>1, <3>3, <3>4 DEF Overwritten
    <2>6. ASSUME NEW k \in 1 .. n
          PROVE  (IF k > f.size /\ k <= n THEN zeroes[k - f.size]
                  ELSE IF k <= f.size THEN Contents(f)[k] ELSE 0)
                  = (IF k <= f.size THEN Contents(f)[k] ELSE 0)
        <3>1. CASE k > f.size
            <4>1. k - f.size \in 1 .. n - f.size
                BY <1>1, <3>1
            <4> QED BY <1>1, <2>4, <3>1, <4>1
        <3>2. CASE ~(k > f.size)
            BY <3>2
        <3> QED BY <3>1, <3>2
    <2>7. HoleFree(TruncatedTo(f, n)) /\ Dirty(TruncatedTo(f, n))
        <3> DEFINE at == f.size
        <3>1. at \in Nat
            BY <1>1
        <3> HIDE DEF at
        <3>2. HoleFree(Written(f, at, zeroes))
            BY <1>1, <2>2, <3>1, WrittenHoleFree
        <3>3. Dirty(Written(f, at, zeroes))
            BY <2>2, <3>1, WrittenOK DEF Good
        <3> QED BY <2>3, <3>2, <3>3 DEF at
    <2> QED BY <2>5, <2>6, <2>7
<1>5. CASE n < f.size
    <2> DEFINE g == [f EXCEPT !.trunc = TRUE, !.truncSize = n]
    <2>1. TruncatedTo(f, n) = g
        BY <1>1, <1>5 DEF TruncatedTo
    <2>2. /\ g \in File /\ g.trunc = TRUE /\ g.truncSize = n /\ g.pending = <<>>
          /\ g.content = f.content /\ g.blockSize = f.blockSize
        BY <1>1 DEF File
    <2> HIDE DEF g
    <2>3. NewSize(g) = n /\ StoredSize(g) = n
        BY <2>2, NewSizeClean DEF StoredSize
    <2>4. ASSUME NEW k \in 1 .. n PROVE ByteAt(g, k - 1) = Contents(f)[k]
        <3> DEFINE j == k - 1
        <3>1. j \in Nat /\ j < n /\ j < f.size /\ k \in 1 .. f.size
            BY <1>1, <1>5
        <3>2. Contents(f)[k] = ByteAt(f, j)
            BY <1>2, <3>1
        <3> HIDE DEF j
        <3>3. LastAt(g, j) = LastAt(f, j)
            BY <1>1, <2>2 DEF LastAt
        <3>4. LastAt(f, j) = 0
            <4>1. LastAt(f, j) \in 0 .. Len(f.pending) /\ Len(f.pending) = 0
                BY <1>1, <3>1, LastAtIs, EmptySeq
            <4> QED BY <4>1
        <3>5. ByteAt(g, j) = StoredByte(g, j) /\ ByteAt(f, j) = StoredByte(f, j)
            BY <1>1, <2>3, <3>1, <3>3, <3>4, ByteAtIs
        <3> QED BY <2>2, <3>2, <3>5 DEF StoredByte, j
    <2>5. Contents(g) = [k \in 1 .. n |-> ByteAt(g, k - 1)]
        BY <2>3 DEF Contents
    <2>6. ASSUME NEW k \in 1 .. n PROVE k <= f.size
        BY <1>1, <1>5
    <2>7. Contents(g) = [k \in 1 .. n |-> IF k <= f.size THEN Contents(f)[k] ELSE 0]
        BY <2>4, <2>5, <2>6
    <2>8. HoleFree(g) /\ Dirty(g)
        BY <2>2, <2>3 DEF HoleFree, Dirty
    <2> QED BY <2>1, <2>7, <2>8
<1> QED BY <1>1, <1>3, <1>4, <1>5

-----------------------------------------------------------------------------
\* Sequences put together from pieces.
LEMMA SubSeqIs ==
    ASSUME NEW S, NEW s \in Seq(S), NEW a \in Nat \ {0}, NEW b \in Nat, b <= Len(s), a <= b + 1
    PROVE  /\ SubSeq(s, a, b) \in Seq(S) /\ Len(SubSeq(s, a, b)) = b - a + 1
           /\ \A i \in 1 .. b - a + 1 : SubSeq(s, a, b)[i] = s[a + i - 1]
OBVIOUS

LEMMA SameSeq ==
    ASSUME NEW S, NEW s \in Seq(S), NEW t \in Seq(S), Len(s) = Len(t),
           \A i \in 1 .. Len(s) : s[i] = t[i]
    PROVE  s = t
<1>1. s = [i \in 1 .. Len(s) |-> s[i]] /\ t = [i \in 1 .. Len(t) |-> t[i]]
    OBVIOUS
<1> QED BY <1>1

LEMMA Pieces ==
    ASSUME NEW S, NEW s \in Seq(S), NEW a \in Nat \ {0}, NEW b \in Nat, NEW c \in Nat,
           a <= b + 1, b <= c, c <= Len(s)
    PROVE  SubSeq(s, a, b) \o SubSeq(s, b + 1, c) = SubSeq(s, a, c)
<1> DEFINE u == SubSeq(s, a, b)
           v == SubSeq(s, b + 1, c)
           w == SubSeq(s, a, c)
<1>1. u \in Seq(S) /\ Len(u) = b - a + 1 /\ \A i \in 1 .. b - a + 1 : u[i] = s[a + i - 1]
    BY SubSeqIs
<1>2. v \in Seq(S) /\ Len(v) = c - b /\ \A i \in 1 .. c - b : v[i] = s[b + i]
    <2>1. b + 1 \in Nat \ {0} /\ b + 1 <= c + 1 /\ c - (b + 1) + 1 = c - b
        OBVIOUS
    <2>2. v \in Seq(S) /\ Len(v) = c - b /\ \A i \in 1 .. c - b : v[i] = s[b + 1 + i - 1]
        BY <2>1, SubSeqIs
    <2>3. \A i \in 1 .. c - b : b + 1 + i - 1 = b + i
        OBVIOUS
    <2> HIDE DEF v
    <2> QED BY <2>2, <2>3
<1>3. w \in Seq(S) /\ Len(w) = c - a + 1 /\ \A i \in 1 .. c - a + 1 : w[i] = s[a + i - 1]
    BY SubSeqIs
<1> HIDE DEF u, v, w
<1>4. u \o v \in Seq(S) /\ Len(u \o v) = c - a + 1
    BY <1>1, <1>2
<1>5. ASSUME NEW i \in 1 .. c - a + 1 PROVE (u \o v)[i] = w[i]
    <2>1. CASE i <= b - a + 1
        <3>1. (u \o v)[i] = u[i]
            BY <1>1, <1>2, <2>1
        <3> QED BY <1>1, <1>3, <2>1, <3>1
    <2>2. CASE i > b - a + 1
        <3> DEFINE cut == b - a + 1
        <3>1. (u \o v)[i] = v[i - cut]
            <4>1. cut \in Nat /\ Len(u) = cut /\ i \in Nat /\ i > cut /\ i <= cut + Len(v)
                BY <1>1, <1>2, <2>2
            <4> HIDE DEF cut
            <4> QED BY <1>1, <1>2, <4>1
        <3>2. i - (b - a + 1) \in 1 .. c - b /\ b + (i - (b - a + 1)) = a + i - 1
            BY <2>2
        <3> QED BY <1>2, <1>3, <3>1, <3>2
    <2>3. i <= b - a + 1 \/ i > b - a + 1
        OBVIOUS
    <2> QED BY <2>1, <2>2, <2>3
<1>6. u \o v = w
    BY <1>3, <1>4, <1>5, SameSeq
<1> QED BY <1>6 DEF u, v, w

\* FlattenSeq puts one sequence after the other.
FlatUpTo(g, ss, n) == g = [i \in 1 .. n |-> IF i = 1 THEN ss[i] ELSE g[i - 1] \o ss[i]]

LEMMA FlatExists ==
    ASSUME NEW ss, NEW n \in Nat
    PROVE  \E g : FlatUpTo(g, ss, n)
<1> DEFINE Bad == {m \in Nat : ~\E g : FlatUpTo(g, ss, m)}
<1>1. ASSUME Bad # {} PROVE FALSE
    <2>1. PICK m \in Bad : \A l \in Bad : m <= l
        <3>1. Bad \in SUBSET Nat
            OBVIOUS
        <3> HIDE DEF Bad
        <3> QED BY <1>1, <3>1, LeastNatural
    <2>2. m # 0
        <3>1. FlatUpTo([i \in 1 .. 0 |-> 0], ss, 0)
            BY DEF FlatUpTo
        <3> QED BY <3>1
    <2>3. m - 1 \in Nat /\ m - 1 \notin Bad
        BY <2>1, <2>2
    <2>4. PICK g : FlatUpTo(g, ss, m - 1)
        BY <2>3
    <2> DEFINE h == [i \in 1 .. m |-> IF i = 1 THEN ss[i] ELSE g[i - 1] \o ss[i]]
    <2>5. ASSUME NEW i \in 1 .. m - 1 PROVE h[i] = g[i]
        <3>1. g = [l \in 1 .. m - 1 |-> IF l = 1 THEN ss[l] ELSE g[l - 1] \o ss[l]]
            BY <2>4 DEF FlatUpTo
        <3>2. g[i] = IF i = 1 THEN ss[i] ELSE g[i - 1] \o ss[i]
            BY <3>1
        <3>3. i \in 1 .. m
            BY <2>1
        <3> QED BY <3>2, <3>3
    <2>6. ASSUME NEW i \in 1 .. m PROVE h[i] = IF i = 1 THEN ss[i] ELSE h[i - 1] \o ss[i]
        <3>1. i # 1 => i - 1 \in 1 .. m - 1
            BY <2>1
        <3>2. i # 1 => h[i - 1] = g[i - 1]
            <4> HIDE DEF h
            <4> QED BY <3>1, <2>5
        <3>3. h[i] = IF i = 1 THEN ss[i] ELSE g[i - 1] \o ss[i]
            OBVIOUS
        <3> HIDE DEF h
        <3> QED BY <3>2, <3>3
    <2>7. h = [i \in 1 .. m |-> h[i]]
        OBVIOUS
    <2>8. FlatUpTo(h, ss, m)
        <3> HIDE DEF h
        <3> QED BY <2>6, <2>7 DEF FlatUpTo
    <2>9. m \notin Bad
        <3> HIDE DEF h
        <3> QED BY <2>8
    <2> QED BY <2>1, <2>9
<1> QED BY <1>1

LEMMA FlattenIs ==
    ASSUME NEW ss, Len(ss) \in Nat \ {0}
    PROVE  \E g : /\ g[1] = ss[1]
                  /\ \A i \in 2 .. Len(ss) : g[i] = g[i - 1] \o ss[i]
                  /\ FlattenSeq(ss) = g[Len(ss)]
<1> DEFINE flatten == CHOOSE g : g = [i \in 1 .. Len(ss) |-> IF i = 1 THEN ss[i] ELSE g[i - 1] \o ss[i]]
<1>1. FlattenSeq(ss) = flatten[Len(ss)]
    BY DEF FlattenSeq
<1>2. \E g : FlatUpTo(g, ss, Len(ss))
    BY FlatExists
<1>3. flatten = [i \in 1 .. Len(ss) |-> IF i = 1 THEN ss[i] ELSE flatten[i - 1] \o ss[i]]
    BY <1>2 DEF FlatUpTo
<1> HIDE DEF flatten
<1>4. ASSUME NEW i \in 1 .. Len(ss) PROVE flatten[i] = IF i = 1 THEN ss[i] ELSE flatten[i - 1] \o ss[i]
    BY <1>3
<1>5. flatten[1] = ss[1]
    <2>1. 1 \in 1 .. Len(ss)
        OBVIOUS
    <2> QED BY <1>4, <2>1
<1>6. ASSUME NEW i \in 2 .. Len(ss) PROVE flatten[i] = flatten[i - 1] \o ss[i]
    <2>1. i \in 1 .. Len(ss) /\ i # 1
        OBVIOUS
    <2> QED BY <1>4, <2>1
<1> QED BY <1>1, <1>5, <1>6
\* A block of a file with nothing pending holds the bytes from its beginning on.
LEMMA BlockBytes ==
    ASSUME NEW f, Good(f), BlockLengths(f), ~Dirty(f), NEW bs, bs = f.blockSize,
           NEW n \in 1 .. Len(f.content), NEW m \in 1 .. LengthOf(f.size, bs, n)
    PROVE  /\ bs \in Nat \ {0} /\ Len(f.content) = BlocksFor(f.size, bs) /\ f.size \in Nat
           /\ (n - 1) * bs + m \in 1 .. f.size
           /\ Contents(f)[(n - 1) * bs + m] = f.content[n][m]
<1> DEFINE at == (n - 1) * bs
           j == at + m - 1
<1>1. f \in File /\ f.size \in Nat /\ NewSize(f) = f.size /\ StoredSize(f) = f.size /\ f.pending = <<>>
    BY CleanIs, FileFacts DEF Good
<1>2. bs \in Nat \ {0} /\ Len(f.content) = BlocksFor(f.size, bs) /\ n \in 1 .. BlocksFor(f.size, bs)
    <2>1. f.content # <<>>
        OBVIOUS
    <2> QED BY <1>1, <2>1, StoredSizeIs, FileFacts DEF Good, Shape
<1>3. at \in Nat /\ m \in Nat
    <2>1. at \in Nat /\ LengthOf(f.size, bs, n) \in 1 .. bs
        BY <1>1, <1>2, LengthOfIs
    <2> HIDE DEF at
    <2> QED BY <1>2, <2>1
<1>4. j \in Nat /\ j < f.size /\ j \div bs + 1 = n /\ (j % bs) + 1 = m
    <2> DEFINE size == f.size
    <2>1. /\ size \in Nat /\ bs \in Nat \ {0} /\ n \in 1 .. BlocksFor(size, bs)
          /\ m \in 1 .. LengthOf(size, bs, n)
        BY <1>1, <1>2
    <2> HIDE DEF size
    <2>2. /\ (n - 1) * bs + m - 1 \in Nat /\ (n - 1) * bs + m - 1 < size
          /\ ((n - 1) * bs + m - 1) \div bs + 1 = n /\ (((n - 1) * bs + m - 1) % bs) + 1 = m
        BY ONLY <2>1, PlaceIs
    <2> QED BY <2>2 DEF size
<1>5. at + m \in 1 .. f.size /\ at + m - 1 = j
    <2>1. j = at + m - 1
        OBVIOUS
    <2> HIDE DEF at, j
    <2> QED BY <1>1, <1>3, <1>4, <2>1
<1>6. Contents(f)[at + m] = ByteAt(f, j)
    <2> DEFINE k == at + m
    <2>1. k \in 1 .. NewSize(f) /\ k - 1 = j
        <3> HIDE DEF at, j
        <3> QED BY ONLY <1>1, <1>3, <1>5
    <2> HIDE DEF k, j
    <2>2. Contents(f)[k] = ByteAt(f, k - 1)
        BY <2>1, ContentsIs
    <2> QED BY <2>1, <2>2 DEF k
<1>7. LastAt(f, j) = 0
    <2> HIDE DEF j
    <2>1. LastAt(f, j) \in 0 .. Len(f.pending) /\ Len(f.pending) = 0
        BY <1>1, <1>4, LastAtIs, EmptySeq
    <2> QED BY <2>1
<1>8. ByteAt(f, j) = StoredByte(f, j)
    <2> HIDE DEF j
    <2> QED BY <1>1, <1>4, <1>7, ByteAtIs
<1>9. StoredByte(f, j) = f.content[n][m]
    <2> HIDE DEF j
    <2> QED BY <1>4 DEF StoredByte
<1> HIDE DEF at, j
<1> QED BY <1>1, <1>2, <1>5, <1>6, <1>8, <1>9 DEF at

Part(s, from, upto) == SubSeq(s, from, upto)

LEMMA PieceIs ==
    ASSUME NEW f, Good(f), BlockLengths(f), ~Dirty(f), f.blockSize \in Nat \ {0},
           NEW n \in 1 .. Len(f.content), NEW from \in Nat \ {0}, NEW hi \in Nat,
           from <= hi + 1, hi <= LengthOf(f.size, f.blockSize, n)
    PROVE  Part(f.content[n], from, hi) =
             Part(Contents(f), (n - 1) * f.blockSize + from, (n - 1) * f.blockSize + hi)
<1> SUFFICES ASSUME NEW bs \in Nat \ {0}, bs = f.blockSize, hi <= LengthOf(f.size, bs, n)
             PROVE  Part(f.content[n], from, hi) = Part(Contents(f), (n - 1) * bs + from, (n - 1) * bs + hi)
    OBVIOUS
<1> DEFINE at == (n - 1) * bs
           c == f.content[n]
           d == Contents(f)
<1>1. f \in File /\ f.size \in Nat /\ NewSize(f) = f.size
    BY CleanIs, FileFacts DEF Good
<1>2. c \in Seq(Nat) /\ Len(c) = LengthOf(f.size, bs, n)
    BY <1>1, FileFacts DEF BlockLengths, FitsSize
<1>3. d \in Seq(Nat) /\ Len(d) = f.size
    BY <1>1, ContentsIs
<1>4. bs \in Nat \ {0} /\ n \in 1 .. BlocksFor(f.size, bs)
    <2>1. f.content # <<>>
        OBVIOUS
    <2> QED BY <1>1, <2>1, StoredSizeIs, FileFacts DEF Good, Shape
<1>5. /\ LengthOf(f.size, bs, n) \in 1 .. bs /\ at \in Nat /\ at < f.size
      /\ LengthOf(f.size, bs, n) = IF n * bs <= f.size THEN bs ELSE f.size - at
      /\ n * bs = at + bs
    <2> DEFINE size == f.size
    <2>1. size \in Nat /\ bs \in Nat \ {0} /\ n \in 1 .. BlocksFor(size, bs)
        BY <1>1, <1>4
    <2> HIDE DEF size
    <2>2. /\ LengthOf(size, bs, n) \in 1 .. bs /\ (n - 1) * bs \in Nat /\ (n - 1) * bs < size
          /\ LengthOf(size, bs, n) = IF n * bs <= size THEN bs ELSE size - (n - 1) * bs
          /\ n * bs = (n - 1) * bs + bs
        BY ONLY <2>1, LengthOfIs
    <2> QED BY <2>2 DEF size
<1> HIDE DEF at
<1>6. at + hi <= f.size
    <2> DEFINE nb == n * bs
               length == LengthOf(f.size, bs, n)
    <2>0. bs \in Nat /\ hi <= length
        BY <1>4
    <2>1. /\ length = IF nb <= f.size THEN bs ELSE f.size - at
          /\ nb = at + bs /\ at \in Nat /\ hi \in Nat /\ hi <= length /\ bs \in Nat /\ f.size \in Nat
        <3> HIDE DEF nb, length
        <3> QED BY ONLY <1>1, <2>0, <1>5, hi \in Nat DEF nb, length
    <2> HIDE DEF nb, length
    <2> QED BY ONLY <2>1
<1>7. ASSUME NEW m \in 1 .. hi PROVE c[m] = d[at + m]
    <2>1. m \in 1 .. LengthOf(f.size, bs, n)
        <3> DEFINE length == LengthOf(f.size, bs, n)
        <3>1. length \in Nat /\ hi <= length
            <4>1. hi <= length
                OBVIOUS
            <4> HIDE DEF length
            <4> QED BY ONLY <1>4, <1>5, <4>1 DEF length
        <3> HIDE DEF length
        <3>2. m \in 1 .. length
            BY ONLY <3>1, m \in 1 .. hi, hi \in Nat
        <3> QED BY <3>2 DEF length
    <2> HIDE DEF c, d
    <2>2. Contents(f)[(n - 1) * bs + m] = f.content[n][m]
        BY ONLY <2>1, Good(f), BlockLengths(f), ~Dirty(f), bs = f.blockSize, n \in 1 .. Len(f.content), BlockBytes
    <2> QED BY <2>2 DEF at, c, d
<1> DEFINE l == hi - from + 1
           x == SubSeq(c, from, hi)
           y == SubSeq(d, at + from, at + hi)
<1> HIDE DEF c, d
<1>8. x \in Seq(Nat) /\ Len(x) = l /\ \A i \in 1 .. l : x[i] = c[from + i - 1]
    BY <1>2, SubSeqIs
<1>9. y \in Seq(Nat) /\ Len(y) = l /\ \A i \in 1 .. l : y[i] = d[at + (from + i - 1)]
    <2> DEFINE a == at + from
               b == at + hi
    <2>0. at \in Nat /\ b <= f.size
        BY <1>5, <1>6
    <2>1. a \in Nat \ {0} /\ b \in Nat /\ a <= b + 1 /\ b - a + 1 = l
        BY ONLY <2>0, from \in Nat \ {0}, hi \in Nat, from <= hi + 1
    <2>2. SubSeq(d, a, b) \in Seq(Nat) /\ Len(SubSeq(d, a, b)) = b - a + 1
          /\ \A i \in 1 .. b - a + 1 : SubSeq(d, a, b)[i] = d[a + i - 1]
        <3> HIDE DEF a, b
        <3> QED BY <1>3, <2>0, <2>1, SubSeqIs
    <2>3. \A i \in 1 .. l : a + i - 1 = at + (from + i - 1)
        BY ONLY <2>0, from \in Nat, hi \in Nat
    <2>4. y = SubSeq(d, a, b)
        OBVIOUS
    <2> HIDE DEF a, b, y
    <2> QED BY <2>1, <2>2, <2>3, <2>4
<1> HIDE DEF x, y
<1>10. ASSUME NEW i \in 1 .. l PROVE x[i] = y[i]
    <2>1. from + i - 1 \in 1 .. hi
        OBVIOUS
    <2> QED BY <1>7, <1>8, <1>9, <2>1
<1>11. x = y
    <2> HIDE DEF l
    <2> QED BY <1>8, <1>9, <1>10, SameSeq
<1> QED BY <1>11 DEF x, y, c, d, at, Part
\* A read takes the blocks from that of its first byte to that of its last.
Upto(last, bs, n) == IF n * bs <= last THEN n * bs ELSE last
PieceLo(offset, bs, n) == Max({0, offset - (n - 1) * bs})
PieceHi(last, bs, n) == Min({bs, last - (n - 1) * bs})
PieceFrom(offset, last, bs, n) == IF n - 1 = offset \div bs THEN offset ELSE Upto(last, bs, n - 1)

LEMMA ReadBlocks ==
    ASSUME NEW size \in Nat, NEW bs \in Nat \ {0}, NEW offset \in Nat, NEW last \in Nat,
           offset < last, last <= size
    PROVE  /\ offset \div bs \in Nat /\ offset \div bs < BlocksFor(last, bs)
           /\ BlocksFor(last, bs) <= BlocksFor(size, bs)
           /\ BlocksFor(last, bs) \in Nat /\ BlocksFor(size, bs) \in Nat
           /\ (offset \div bs) * bs <= offset /\ offset < (offset \div bs) * bs + bs
           /\ Upto(last, bs, BlocksFor(last, bs)) = last
<1> DEFINE N == BlocksFor(last, bs)
           M == BlocksFor(size, bs)
           first == offset \div bs
<1>1. first \in Nat /\ first * bs \in Nat /\ first * bs <= offset /\ offset < first * bs + bs
    <2>1. offset % bs \in 0 .. bs - 1 /\ offset = first * bs + (offset % bs) /\ first \in Nat
        BY DivMod
    <2>2. first * bs \in Nat
        BY <2>1
    <2> QED BY <2>1, <2>2
<1>2. /\ N \in Nat /\ M \in Nat
      /\ \A n \in Nat : n < N <=> n * bs < last
      /\ \A n \in Nat : n < M <=> n * bs < size
    BY BlocksForIs
<1> HIDE DEF N, M, first
<1>3. first < N
    BY <1>1, <1>2
<1>4. N <= M
    <2>1. N - 1 \in Nat /\ N - 1 < N
        BY <1>1, <1>2, <1>3
    <2> DEFINE l == N - 1
               at == l * bs
    <2>2. l \in Nat /\ l < N
        BY <2>1
    <2> HIDE DEF l
    <2>3. at < last /\ at \in Nat
        BY <1>2, <2>2
    <2>4. at < size
        <3> HIDE DEF at
        <3> QED BY <2>3
    <2>5. l < M
        BY <1>2, <2>2, <2>4
    <2> QED BY <1>2, <2>5 DEF l
<1>5. Upto(last, bs, N) = last
    <2> DEFINE e == N * bs
    <2>1. e \in Nat /\ ~(e < last)
        <3>1. ~(N < N)
            BY <1>2
        <3> QED BY <1>2, <3>1
    <2>2. Upto(last, bs, N) = IF e <= last THEN e ELSE last
        BY DEF Upto
    <2> HIDE DEF e
    <2> QED BY <2>1, <2>2
<1> QED BY <1>1, <1>2, <1>3, <1>4, <1>5 DEF N, M, first

\* The part of the n-th block that a read takes begins where the one before it ends.
LEMMA PieceBounds ==
    ASSUME NEW size \in Nat, NEW bs \in Nat \ {0}, NEW offset \in Nat, NEW last \in Nat,
           offset < last, last <= size, NEW n \in 1 .. BlocksFor(last, bs), offset \div bs <= n - 1
    PROVE  /\ PieceLo(offset, bs, n) \in Nat /\ PieceHi(last, bs, n) \in Nat
           /\ PieceLo(offset, bs, n) <= PieceHi(last, bs, n)
           /\ PieceHi(last, bs, n) <= LengthOf(size, bs, n)
           /\ (n - 1) * bs \in Nat /\ n \in 1 .. BlocksFor(size, bs)
           /\ (n - 1) * bs + PieceHi(last, bs, n) = Upto(last, bs, n)
           /\ (n - 1) * bs + PieceHi(last, bs, n) <= size
           /\ (n - 1) * bs + PieceLo(offset, bs, n) = PieceFrom(offset, last, bs, n)
           /\ offset <= PieceFrom(offset, last, bs, n)
<1> DEFINE at == (n - 1) * bs
           lo == PieceLo(offset, bs, n)
           hi == PieceHi(last, bs, n)
           first == offset \div bs
<1> DEFINE to == n * bs
           start == first * bs
<1>1. /\ first \in Nat /\ BlocksFor(last, bs) <= BlocksFor(size, bs)
      /\ BlocksFor(last, bs) \in Nat /\ BlocksFor(size, bs) \in Nat
      /\ start <= offset /\ offset < start + bs
    BY ReadBlocks
<1>2. n \in 1 .. BlocksFor(size, bs) /\ n \in Nat /\ n - 1 \in Nat
    BY <1>1
<1>3. at \in Nat /\ at < last /\ to = at + bs /\ start \in Nat
    <2>1. at \in Nat /\ at < last /\ to = at + bs
        BY LengthOfIs
    <2> QED BY <1>1, <2>1
<1>4. LengthOf(size, bs, n) = IF to <= size THEN bs ELSE size - at
    BY <1>2, LengthOfIs
<1>5. n - 1 = first => at = start
    OBVIOUS
<1>6. n - 1 # first => start + bs <= at
    BY <1>1, <1>2, TimesLess
<1>7. Upto(last, bs, n) = IF to <= last THEN to ELSE last
    BY DEF Upto
<1>8. Upto(last, bs, n - 1) = at
    BY <1>3 DEF Upto
<1>9. lo = IF 0 < offset - at THEN offset - at ELSE 0
    BY <1>3, MaxOfTwo DEF PieceLo
<1>10. hi = IF bs < last - at THEN bs ELSE last - at
    BY <1>3, MinOfTwo DEF PieceHi
<1> DEFINE length == LengthOf(size, bs, n)
           from == PieceFrom(offset, last, bs, n)
<1>14. from = IF n - 1 = first THEN offset ELSE at
    BY <1>8 DEF PieceFrom
<1> HIDE DEF to, start, length, from, first, at, lo, hi
<1>11. length = IF to <= size THEN bs ELSE size - at
    BY <1>4 DEF length
<1>12. /\ lo \in Nat /\ hi \in Nat /\ lo <= hi /\ hi <= length
       /\ n - 1 = first => at + lo = offset
       /\ n - 1 # first => lo = 0
       /\ offset <= at + lo /\ at + hi <= size
       /\ at + hi = IF to <= last THEN to ELSE last
    <2> DEFINE same == n - 1 = first
    <2>1. (same => at = start) /\ (~same => start + bs <= at)
        BY <1>5, <1>6
    <2> HIDE DEF same
    <2>2. /\ lo \in Nat /\ hi \in Nat /\ lo <= hi /\ hi <= length
          /\ same => at + lo = offset
          /\ ~same => lo = 0
          /\ offset <= at + lo /\ at + hi <= size
          /\ at + hi = IF to <= last THEN to ELSE last
        BY ONLY <1>1, <1>3, <1>9, <1>10, <1>11, <2>1, offset \in Nat, last \in Nat, size \in Nat,
                bs \in Nat \ {0}, offset < last, last <= size
    <2> QED BY <2>2 DEF same
<1>13. n - 1 # first => at + lo = at
    BY <1>3, <1>12
<1>15. at + lo = from /\ offset <= from
    BY <1>12, <1>13, <1>14
<1> QED BY <1>2, <1>3, <1>7, <1>12, <1>15 DEF length, from, at, lo, hi

Piece(f, offset, last, n) ==
    SubSeq(f.content[n], PieceLo(offset, f.blockSize, n) + 1, PieceHi(last, f.blockSize, n))

LEMMA PieceOfRead ==
    ASSUME NEW f, Good(f), BlockLengths(f), ~Dirty(f), NEW bs \in Nat \ {0}, bs = f.blockSize,
           NEW offset \in Nat, NEW last \in Nat, offset < last, last <= f.size,
           NEW n \in 1 .. BlocksFor(last, bs), offset \div bs <= n - 1
    PROVE  /\ Piece(f, offset, last, n) =
                SubSeq(Contents(f), PieceFrom(offset, last, bs, n) + 1, Upto(last, bs, n))
           /\ PieceFrom(offset, last, bs, n) \in Nat /\ offset <= PieceFrom(offset, last, bs, n)
           /\ PieceFrom(offset, last, bs, n) <= Upto(last, bs, n)
           /\ Upto(last, bs, n) \in Nat /\ Upto(last, bs, n) <= f.size
<1> DEFINE at == (n - 1) * bs
           lo == PieceLo(offset, bs, n)
           hi == PieceHi(last, bs, n)
           from == PieceFrom(offset, last, bs, n)
           upto == Upto(last, bs, n)
           size == f.size
<1>1. size \in Nat /\ last <= size /\ Len(f.content) = BlocksFor(size, bs)
    BY FileFacts DEF Good, Shape
<1>2. /\ lo \in Nat /\ hi \in Nat /\ lo <= hi /\ hi <= LengthOf(size, bs, n) /\ at \in Nat
      /\ n \in 1 .. BlocksFor(size, bs)
      /\ at + hi = upto /\ at + hi <= size /\ at + lo = from /\ offset <= from
    <2> HIDE DEF size
    <2>1. /\ PieceLo(offset, bs, n) \in Nat /\ PieceHi(last, bs, n) \in Nat
          /\ PieceLo(offset, bs, n) <= PieceHi(last, bs, n)
          /\ PieceHi(last, bs, n) <= LengthOf(size, bs, n)
          /\ (n - 1) * bs \in Nat /\ n \in 1 .. BlocksFor(size, bs)
          /\ (n - 1) * bs + PieceHi(last, bs, n) = Upto(last, bs, n)
          /\ (n - 1) * bs + PieceHi(last, bs, n) <= size
          /\ (n - 1) * bs + PieceLo(offset, bs, n) = PieceFrom(offset, last, bs, n)
          /\ offset <= PieceFrom(offset, last, bs, n)
        BY ONLY <1>1, bs \in Nat \ {0}, offset \in Nat, last \in Nat, offset < last,
                n \in 1 .. BlocksFor(last, bs), offset \div bs <= n - 1, PieceBounds
    <2> QED BY <2>1
<1>4. SubSeq(f.content[n], lo + 1, hi) = SubSeq(Contents(f), at + lo + 1, at + hi)
    <2>1. n \in 1 .. Len(f.content)
        BY <1>1, <1>2
    <2>2. lo \in Nat /\ hi \in Nat /\ lo <= hi /\ hi <= LengthOf(f.size, bs, n)
        BY <1>2
    <2> HIDE DEF lo, hi
    <2> DEFINE a == lo + 1
    <2>3. a \in Nat \ {0} /\ a <= hi + 1
        BY <2>2
    <2> HIDE DEF a
    <2>4. Part(f.content[n], a, hi) = Part(Contents(f), (n - 1) * bs + a, (n - 1) * bs + hi)
        <3> HIDE DEF at, from, upto, size
        <3>1. f.blockSize \in Nat \ {0} /\ hi <= LengthOf(f.size, f.blockSize, n)
            BY <2>2
        <3>2. Part(f.content[n], a, hi) =
                Part(Contents(f), (n - 1) * f.blockSize + a, (n - 1) * f.blockSize + hi)
            BY ONLY <2>1, <2>2, <2>3, <3>1, Good(f), BlockLengths(f), ~Dirty(f), PieceIs
        <3> QED BY ONLY <3>2, bs = f.blockSize
    <2>5. (n - 1) * bs + a = at + lo + 1
        BY <1>2, <2>2 DEF a
    <2> QED BY <2>4, <2>5 DEF a, Part
<1>5. Piece(f, offset, last, n) = SubSeq(Contents(f), from + 1, upto)
    <2>1. Piece(f, offset, last, n) = SubSeq(f.content[n], lo + 1, hi)
        BY DEF Piece
    <2> HIDE DEF at, lo, hi, from, upto
    <2> QED BY <1>2, <1>4, <2>1
<1> HIDE DEF at, lo, hi, from, upto
<1>6. from \in Nat /\ offset <= from /\ from <= upto /\ upto \in Nat /\ upto <= size
    BY <1>2
<1> QED BY <1>5, <1>6 DEF from, upto

LEMMA ReadGets ==
    ASSUME NEW f, Good(f), BlockLengths(f), ~Dirty(f), NEW bs, bs = f.blockSize,
           NEW offset \in Nat, NEW last \in Nat, offset < last, last <= f.size
    PROVE  FlattenSeq([i \in 1 .. BlocksFor(last, bs) - offset \div bs |-> Piece(f, offset, last, offset \div bs + i)])
             = SubSeq(Contents(f), offset + 1, last)
<1> DEFINE first == offset \div bs
           N == BlocksFor(last, bs)
           c == N - first
           ss == [i \in 1 .. c |-> Piece(f, offset, last, first + i)]
           d == Contents(f)
           size == f.size
<1>1. /\ f \in File /\ size \in Nat /\ last <= size /\ bs \in Nat \ {0}
      /\ d \in Seq(Nat) /\ Len(d) = size
    <2>1. f \in File /\ size \in Nat /\ NewSize(f) = f.size
        BY CleanIs, FileFacts DEF Good
    <2>2. size # 0
        BY <2>1
    <2>3. bs \in Nat \ {0}
        BY <2>1, <2>2, FileFacts DEF Good, Shape
    <2> QED BY <2>1, <2>3, ContentsIs
<1>2. first \in Nat /\ N \in Nat /\ first < N /\ Upto(last, bs, N) = last
    <2>1. bs \in Nat \ {0}
        BY <1>1
    <2> HIDE DEF size, first, N
    <2>2. first \in Nat /\ first < N /\ N \in Nat
        BY ONLY <2>1, last <= last, offset \in Nat, last \in Nat, offset < last, ReadBlocks DEF first, N
    <2>3. Upto(last, bs, N) = last
        BY ONLY <2>1, last <= last, offset \in Nat, last \in Nat, offset < last, ReadBlocks DEF N
    <2> QED BY <2>2, <2>3
<1>3. ASSUME NEW i \in 1 .. c
      PROVE  /\ ss[i] = SubSeq(d, PieceFrom(offset, last, bs, first + i) + 1, Upto(last, bs, first + i))
             /\ PieceFrom(offset, last, bs, first + i) \in Nat
             /\ offset <= PieceFrom(offset, last, bs, first + i)
             /\ PieceFrom(offset, last, bs, first + i) <= Upto(last, bs, first + i)
             /\ Upto(last, bs, first + i) \in Nat /\ Upto(last, bs, first + i) <= size
    <2> DEFINE n == first + i
    <2>1. n \in 1 .. N /\ first <= n - 1
        <3> HIDE DEF first, N
        <3> QED BY <1>2
    <2>2. ss[i] = Piece(f, offset, last, n)
        OBVIOUS
    <2>3. offset \div bs <= n - 1 /\ n \in 1 .. BlocksFor(last, bs)
        BY <2>1
    <2> HIDE DEF n, first, size
    <2>4. /\ Piece(f, offset, last, n) =
                SubSeq(Contents(f), PieceFrom(offset, last, bs, n) + 1, Upto(last, bs, n))
          /\ PieceFrom(offset, last, bs, n) \in Nat /\ offset <= PieceFrom(offset, last, bs, n)
          /\ PieceFrom(offset, last, bs, n) <= Upto(last, bs, n)
          /\ Upto(last, bs, n) \in Nat /\ Upto(last, bs, n) <= f.size
        <3>1. bs \in Nat \ {0}
            BY <1>1
        <3>2. offset \div bs <= n - 1
            BY <2>3
        <3>3. n \in 1 .. BlocksFor(last, bs)
            BY <2>3
        <3> QED
        BY ONLY <3>1, <3>2, <3>3, Good(f), BlockLengths(f), ~Dirty(f), bs = f.blockSize,
                offset \in Nat, last \in Nat, offset < last, last <= f.size, PieceOfRead
    <2> HIDE DEF ss
    <2> QED BY <2>2, <2>4 DEF n, d, size
<1>4. PieceFrom(offset, last, bs, first + 1) = offset
    <2>1. first + 1 - 1 = first
        <3> HIDE DEF first
        <3> QED BY <1>2
    <2>2. first = offset \div bs
        BY DEF first
    <2> HIDE DEF first
    <2> QED BY ONLY <2>1, <2>2 DEF PieceFrom
<1>5. ASSUME NEW i \in 2 .. c PROVE PieceFrom(offset, last, bs, first + i) = Upto(last, bs, first + (i - 1))
    <2>1. first + i - 1 # first /\ first + i - 1 = first + (i - 1)
        <3> HIDE DEF first, c
        <3> QED BY <1>2
    <2>2. first = offset \div bs
        BY DEF first
    <2> HIDE DEF first
    <2> QED BY ONLY <2>1, <2>2 DEF PieceFrom
<1>6. c \in Nat \ {0} /\ Len(ss) = c /\ first + c = N
    <2> HIDE DEF first, N
    <2> QED BY <1>2
<1>7. PICK g : /\ g[1] = ss[1]
               /\ \A i \in 2 .. c : g[i] = g[i - 1] \o ss[i]
               /\ FlattenSeq(ss) = g[c]
    <2> HIDE DEF ss, c
    <2> QED BY <1>6, FlattenIs
<1> HIDE DEF ss, c, d, N, first, size
<1> DEFINE Bad == {i \in 1 .. c : g[i] # SubSeq(d, offset + 1, Upto(last, bs, first + i))}
<1>8. ASSUME Bad # {} PROVE FALSE
    <2>1. PICK i \in Bad : \A j \in Bad : i <= j
        <3>1. Bad \in SUBSET Nat
            OBVIOUS
        <3> HIDE DEF Bad
        <3> QED BY <1>8, <3>1, LeastNatural
    <2>2. i \in 1 .. c /\ g[i] # SubSeq(d, offset + 1, Upto(last, bs, first + i))
        BY <2>1
    <2>3. i # 1
        <3>1. 1 \in 1 .. c
            BY <1>6
        <3> QED BY <1>3, <1>4, <1>7, <2>2, <3>1
    <2>4. i - 1 \in 1 .. c /\ i \in 2 .. c
        BY <1>6, <2>2, <2>3
    <2>5. g[i - 1] = SubSeq(d, offset + 1, Upto(last, bs, first + (i - 1)))
        BY <2>1, <2>2, <2>4
    <2> HIDE DEF Bad
    <2> DEFINE a == offset + 1
               b == Upto(last, bs, first + (i - 1))
               e == Upto(last, bs, first + i)
    <2>6. g[i] = SubSeq(d, a, b) \o SubSeq(d, b + 1, e)
        BY <1>3, <1>5, <1>7, <2>2, <2>4, <2>5
    <2>7. a \in Nat \ {0} /\ b \in Nat /\ e \in Nat /\ offset <= b /\ b <= e /\ e <= Len(d)
        BY <1>1, <1>3, <1>5, <2>2, <2>4
    <2>8. a <= b + 1
        <3> HIDE DEF b, e
        <3> QED BY <2>7
    <2>9. SubSeq(d, a, b) \o SubSeq(d, b + 1, e) = SubSeq(d, a, e)
        <3> HIDE DEF a, b, e
        <3> QED BY <1>1, <2>7, <2>8, Pieces
    <2> QED BY <2>2, <2>6, <2>9
<1>9. g[c] = SubSeq(d, offset + 1, last)
    <2>1. c \in 1 .. c
        BY <1>6
    <2> QED BY <1>2, <1>6, <1>8, <2>1
<1> QED BY <1>7, <1>9 DEF ss, c, d, N, first

\* A read of a file with nothing pending gives its bytes at that place, as many as
\* were asked for or as there are.
LEMMA ReadIs ==
    ASSUME NEW f, Good(f), BlockLengths(f), ~Dirty(f), NEW offset \in Nat, NEW size \in Nat
    PROVE  \E n \in 0 .. Len(Contents(f)) :
               ReadBytes(f, offset, size) =
                 SubSeq(Contents(f), offset + 1, IF offset + n < Len(Contents(f)) THEN offset + n ELSE Len(Contents(f)))
<1> DEFINE last == IF offset + size < f.size THEN offset + size ELSE f.size
           d == Contents(f)
<1>1. f.size \in Nat /\ d \in Seq(Nat) /\ Len(d) = f.size
    <2>1. f.size \in Nat /\ NewSize(f) = f.size
        BY CleanIs, FileFacts DEF Good
    <2> QED BY <2>1, ContentsIs
<1>2. last \in Nat /\ last <= f.size
    BY <1>1
<1>3. last = Min({offset + size, f.size})
    <2>1. offset + size \in Int /\ f.size \in Int
        BY <1>1
    <2> QED BY <2>1, MinOfTwo
<1>4. ReadBytes(f, offset, size) =
        IF offset >= last THEN <<>>
        ELSE FlattenSeq([i \in 1 .. BlocksFor(last, f.blockSize) - offset \div f.blockSize |->
                            Piece(f, offset, last, offset \div f.blockSize + i)])
    BY <1>3 DEF ReadBytes, Piece, PieceLo, PieceHi
<1> HIDE DEF last, d
<1>5. CASE offset >= last
    <2> DEFINE to == IF offset + 0 < Len(d) THEN offset + 0 ELSE Len(d)
    <2>1. to \in Nat /\ to < offset + 1
        BY <1>1
    <2> HIDE DEF to
    <2>2. SubSeq(d, offset + 1, to) = <<>>
        BY <1>1, <2>1
    <2>3. ReadBytes(f, offset, size) = SubSeq(d, offset + 1, to)
        BY <1>4, <1>5, <2>2
    <2>4. 0 \in 0 .. Len(d)
        BY <1>1
    <2> QED BY <2>3, <2>4 DEF to, d
<1>6. CASE offset < last
    <2> DEFINE n == last - offset
               to == IF offset + n < Len(d) THEN offset + n ELSE Len(d)
    <2>1. n \in 0 .. Len(d) /\ to = last
        BY <1>1, <1>2, <1>6
    <2>2. ReadBytes(f, offset, size) = SubSeq(d, offset + 1, last)
        <3>1. ~(offset >= last)
            BY <1>2, <1>6
        <3>2. FlattenSeq([i \in 1 .. BlocksFor(last, f.blockSize) - offset \div f.blockSize |->
                            Piece(f, offset, last, offset \div f.blockSize + i)]) = SubSeq(Contents(f), offset + 1, last)
            BY <1>2, <1>6, ReadGets
        <3> QED BY <1>4, <3>1, <3>2 DEF d
    <2>3. ReadBytes(f, offset, size) = SubSeq(d, offset + 1, to)
        <3> HIDE DEF to, n
        <3> QED BY <2>1, <2>2
    <2> HIDE DEF n
    <2> QED BY <2>1, <2>3 DEF d
<1> QED BY <1>2, <1>5, <1>6

-----------------------------------------------------------------------------
\* What the bytes of the file depend on besides: a truncation leaves no gap, and a
\* file with nothing pending is what is stored.
DataInv ==
    file # Absent => HoleFree(file) /\ (~Dirty(file) => file = stored)

\* A flush does not change the bytes, whether it fails or not.
LEMMA FlushData ==
    ASSUME NEW f, Good(f), BlockLengths(f), Aligned(f), HoleFree(f), Failures => f.truncSize = 0,
           ~Dirty(f) => f = stored, NEW o \in FlushOutcomes(f)
    PROVE  /\ Contents(o.file) = Contents(f) /\ HoleFree(o.file)
           /\ o.ok => ~Dirty(o.file) /\ o.file = o.stored
           /\ ~o.ok => o.file = f /\ o.stored = stored /\ Dirty(f) /\ Failures
<1>1. CASE o.ok /\ ~Dirty(f) /\ o.file = f /\ o.stored = stored
    BY <1>1
<1>2. CASE o.ok /\ Dirty(f) /\ o.file = Saved(f) /\ o.stored = Saved(f)
    <2>1. HoleFree(Saved(f))
        BY SavedIs DEF Good, HoleFree
    <2> QED BY <1>2, <2>1, SavedContents, SavedIs DEF Good
<1>3. CASE /\ ~o.ok /\ Dirty(f) /\ o.file = FailedFlush(f) /\ o.stored = stored
           /\ Failures \/ \E n \in DOMAIN f.content : ~FitsSize(f, n)
    <2>1. Failures /\ f.truncSize = 0
        BY <1>3 DEF BlockLengths
    <2>2. FailedFlush(f) = f
        <3>1. f \in File
            BY DEF Good
        <3> QED BY <2>1, <3>1 DEF FailedFlush, File
    <2> QED BY <1>3, <2>1, <2>2
<1> QED BY <1>1, <1>2, <1>3, FlushOutcomesAre

\* The operations of the abstract file are those of this one.
LEMMA AbstractIs ==
    ASSUME NEW S, NEW op, NEW at, NEW bytes
    PROVE  /\ Abstract!Max(S) = Max(S) /\ Abstract!Min(S) = Min(S)
           /\ Abstract!Call(op, at, bytes) = Call(op, at, bytes)
BY DEF Abstract!Max, Max, Abstract!Min, Min, Abstract!Call, Call

LEMMA AbstractWrite ==
    ASSUME NEW f, Good(f), BlockLengths(f), NEW offset \in Nat, NEW buf \in Seq(Nat) \ {<<>>}
    PROVE  Contents(Written(f, offset, buf)) = Abstract!Overwrite(Contents(f), offset, buf)
<1> DEFINE d == Contents(f)
           S == IF NewSize(f) < offset + Len(buf) THEN offset + Len(buf) ELSE NewSize(f)
<1>1. Len(d) = NewSize(f) /\ NewSize(f) \in Nat /\ Len(buf) \in Nat
    BY ContentsIs
<1>2. Abstract!Max({Len(d), offset + Len(buf)}) = S
    <2>1. Len(d) \in Int /\ offset + Len(buf) \in Int
        BY <1>1
    <2> HIDE DEF d
    <2> QED BY <1>1, <2>1, AbstractIs, MaxOfTwo
<1> HIDE DEF d, S
<1>3. Abstract!Overwrite(d, offset, buf) =
        [k \in 1 .. S |-> IF k > offset /\ k <= offset + Len(buf) THEN buf[k - offset]
                          ELSE IF k <= Len(d) THEN d[k] ELSE 0]
    BY <1>2 DEF Abstract!Overwrite
<1>4. Overwritten(f, offset, buf) =
        [k \in 1 .. S |-> IF k > offset /\ k <= offset + Len(buf) THEN buf[k - offset]
                          ELSE IF k <= NewSize(f) THEN d[k] ELSE 0]
    BY DEF Overwritten, S, d
<1>5. Overwritten(f, offset, buf) = Abstract!Overwrite(d, offset, buf)
    BY <1>1, <1>3, <1>4
<1> QED BY <1>5, WrittenContents DEF d

LEMMA AbstractTruncate ==
    ASSUME NEW f, Good(f), BlockLengths(f), ~Dirty(f), NEW n \in Nat
    PROVE  Contents(TruncatedTo(f, n)) = Abstract!Resized(Contents(f), n)
<1>1. Len(Contents(f)) = f.size
    BY CleanIs, ContentsIs
<1>2. Contents(TruncatedTo(f, n)) = [k \in 1 .. n |-> IF k <= f.size THEN Contents(f)[k] ELSE 0]
    BY TruncatedContents
<1> QED BY <1>1, <1>2 DEF Abstract!Resized

LEMMA AbstractRead ==
    ASSUME NEW f, Good(f), BlockLengths(f), ~Dirty(f), NEW offset \in Nat, NEW size \in Nat
    PROVE  \E n \in 0 .. Len(Contents(f)) :
               ReadBytes(f, offset, size) = Abstract!Slice(Contents(f), offset, n)
<1> DEFINE d == Contents(f)
<1>1. Len(d) \in Nat
    BY ContentsIs
<1>2. ASSUME NEW n \in 0 .. Len(d)
      PROVE  Abstract!Slice(d, offset, n) =
                SubSeq(d, offset + 1, IF offset + n < Len(d) THEN offset + n ELSE Len(d))
    <2>1. Abstract!Min({offset + n, Len(d)}) = IF offset + n < Len(d) THEN offset + n ELSE Len(d)
        <3>1. offset + n \in Int /\ Len(d) \in Int
            BY <1>1
        <3> HIDE DEF d
        <3> QED BY <3>1, AbstractIs, MinOfTwo
    <2> HIDE DEF d
    <2> QED BY <2>1 DEF Abstract!Slice
<1>3. PICK n \in 0 .. Len(d) :
        ReadBytes(f, offset, size) = SubSeq(d, offset + 1, IF offset + n < Len(d) THEN offset + n ELSE Len(d))
    BY ReadIs
<1> QED BY <1>2, <1>3

\* The bytes of the file, of which there are as many as it will have.
LEMMA BytesOfFile ==
    /\ BytesOf(Absent) = Absent
    /\ \A f : Good(f) /\ BlockLengths(f) =>
        BytesOf(f) = Contents(f) /\ BytesOf(f) # Absent /\ f # Absent /\ Len(BytesOf(f)) = NewSize(f)
<1>1. ASSUME NEW f, Good(f), BlockLengths(f)
      PROVE  BytesOf(f) = Contents(f) /\ BytesOf(f) # Absent /\ f # Absent /\ Len(BytesOf(f)) = NewSize(f)
    <2>1. f # Absent
        BY <1>1, AbsentAssumption DEF Good
    <2> QED BY <1>1, <2>1, ContentsIs DEF BytesOf
<1> QED BY <1>1 DEF BytesOf

\* What the refinement rests on: the invariant, and what is assumed of the client.
Consistent == BlockInv /\ LengthInv /\ DataInv
Careful == ~HoleAfterTruncate /\ ~TruncateWhileWriting /\ CutsAtBlocks /\ CutsToNothing

Ready(f) ==
    /\ Good(f) /\ BlockLengths(f) /\ Aligned(f) /\ HoleFree(f) /\ (Failures => f.truncSize = 0)

LEMMA FileIsReady ==
    ASSUME Consistent, Careful, file # Absent
    PROVE  Ready(file) /\ (~Dirty(file) => file = stored)
BY DEF Consistent, Careful, BlockInv, LengthInv, DataInv, CutsAtBlocks, CutsToNothing, Ready, Aligned

LEMMA FlushReady ==
    ASSUME NEW f, Ready(f), ~Dirty(f) => f = stored, NEW o \in FlushOutcomes(f)
    PROVE  /\ Good(o.file) /\ BlockLengths(o.file) /\ HoleFree(o.file) /\ Contents(o.file) = Contents(f)
           /\ BytesOf(o.file) = BytesOf(f) /\ o.file # Absent
           /\ o.ok => ~Dirty(o.file) /\ o.file = o.stored
           /\ ~o.ok => o.file = f /\ o.stored = stored /\ Dirty(f) /\ Failures
<1>1. Good(o.file) /\ BlockLengths(o.file)
    BY FlushGood DEF Ready
<1>2. /\ Contents(o.file) = Contents(f) /\ HoleFree(o.file)
      /\ o.ok => ~Dirty(o.file) /\ o.file = o.stored
      /\ ~o.ok => o.file = f /\ o.stored = stored /\ Dirty(f) /\ Failures
    BY FlushData DEF Ready
<1>3. BytesOf(o.file) = BytesOf(f) /\ o.file # Absent
    BY <1>1, <1>2, BytesOfFile DEF Ready
<1> QED BY <1>1, <1>2, <1>3

\* What an operation keeps and what it is to the abstract file.
Refines == DataInv' /\ Abstract!Next

LEMMA CreateRefines == ASSUME Consistent, Careful, Create PROVE Refines
<1>1. file = Absent /\ file' = [EmptyFile EXCEPT !.create = TRUE] /\ stored' = stored
      /\ call' = Call("create", 0, <<>>)
    BY DEF Create
<1>2. Good(file') /\ BlockLengths(file') /\ Contents(file') = <<>> /\ HoleFree(file') /\ Dirty(file')
    BY <1>1, EmptyFileOK, EmptyFileContents DEF Good
<1>3. DataInv'
    BY <1>2 DEF DataInv
<1>4. Abstract!Create
    BY <1>1, <1>2, BytesOfFile, AbstractIs DEF Abstract!Create
<1> QED BY <1>3, <1>4 DEF Refines, Abstract!Next

LEMMA OpenRefines == ASSUME Consistent, Careful, Open PROVE Refines
<1>1. file # Absent /\ file' = file /\ stored' = stored /\ call' = Call("open", 0, <<>>)
    BY DEF Open
<1>2. DataInv'
    BY <1>1 DEF DataInv, Consistent
<1>3. BytesOf(file) # Absent
    BY <1>1, FileIsReady, BytesOfFile DEF Ready
<1>4. call'.op = "open" /\ call'.ok = TRUE
    BY <1>1 DEF Call
<1>5. Abstract!Open
    BY <1>1, <1>3, <1>4 DEF Abstract!Open, Abstract!Is
<1> QED BY <1>2, <1>5 DEF Refines, Abstract!Next

LEMMA OpenTruncatedRefines == ASSUME Consistent, Careful, OpenTruncated PROVE Refines
<1>1. file # Absent /\ file' = OpenedTruncated(file) /\ stored' = stored
      /\ call' = Call("opentrunc", 0, <<>>) /\ file.pending = <<>>
    BY DEF OpenTruncated, Careful, OpenedTruncated
<1>2. Good(file) /\ BlockLengths(file)
    BY <1>1, FileIsReady DEF Ready
<1>3. Good(file') /\ BlockLengths(file') /\ Contents(file') = <<>> /\ HoleFree(file') /\ Dirty(file')
    BY <1>1, <1>2, OpenedTruncatedOK, OpenedTruncatedContents DEF Good
<1>4. DataInv'
    BY <1>3 DEF DataInv
<1>5. BytesOf(file) # Absent /\ BytesOf(file') = <<>>
    BY <1>2, <1>3, BytesOfFile
<1>6. call'.op = "opentrunc" /\ call'.ok = TRUE
    BY <1>1 DEF Call
<1>7. Abstract!OpenTruncated
    BY <1>1, <1>5, <1>6 DEF Abstract!OpenTruncated, Abstract!Is
<1> QED BY <1>4, <1>7 DEF Refines, Abstract!Next

LEMMA WriteRefines ==
    ASSUME Consistent, Careful, NEW offset \in Offsets, NEW buf \in Buffers, Write(offset, buf)
    PROVE  Refines
<1> DEFINE f == Written(file, offset, buf)
<1>1. /\ file # Absent /\ offset \in Nat /\ buf \in Seq(Nat) \ {<<>>}
      /\ file.trunc => offset <= NewSize(file)
      /\ \/ file' = f /\ call' = Call("write", offset, buf) /\ stored' = stored
         \/ \E o \in FlushOutcomes(f) :
                file' = o.file /\ stored' = o.stored /\ call' = [Call("write", offset, buf) EXCEPT !.ok = o.ok]
    BY ClientAssumption DEF Write, Careful, Written
<1>2. Ready(file)
    BY <1>1, FileIsReady
<1>3. Ready(f) /\ Dirty(f) /\ Contents(f) = Abstract!Overwrite(Contents(file), offset, buf)
    <2>1. Good(f) /\ BlockLengths(f) /\ Aligned(f) /\ Dirty(f) /\ f.truncSize = file.truncSize
        BY <1>1, <1>2, WrittenOK DEF Ready, Good
    <2>2. HoleFree(f)
        BY <1>1, <1>2, WrittenHoleFree DEF Ready
    <2>3. Contents(f) = Abstract!Overwrite(Contents(file), offset, buf)
        BY <1>1, <1>2, AbstractWrite DEF Ready
    <2> HIDE DEF f
    <2> QED BY <1>2, <2>1, <2>2, <2>3 DEF Ready
<1> HIDE DEF f
<1>4. BytesOf(file) # Absent /\ BytesOf(f) = Abstract!Overwrite(BytesOf(file), offset, buf)
    BY <1>2, <1>3, BytesOfFile DEF Ready
<1>5. CASE file' = f /\ call' = Call("write", offset, buf) /\ stored' = stored
    <2>1. DataInv'
        BY <1>3, <1>5 DEF DataInv, Ready
    <2>2. call'.op = "write" /\ call'.at = offset /\ call'.bytes = buf /\ call'.ok = TRUE
        BY <1>5 DEF Call
    <2>3. Abstract!Write
        BY <1>4, <1>5, <2>2 DEF Abstract!Write, Abstract!MaySave
    <2> QED BY <2>1, <2>3 DEF Refines, Abstract!Next
<1>6. ASSUME NEW o \in FlushOutcomes(f), file' = o.file, stored' = o.stored,
             call' = [Call("write", offset, buf) EXCEPT !.ok = o.ok]
      PROVE  Refines
    <2>1. /\ HoleFree(o.file) /\ BytesOf(o.file) = BytesOf(f) /\ o.file # Absent
          /\ o.ok => ~Dirty(o.file) /\ o.file = o.stored
          /\ ~o.ok => o.file = f /\ o.stored = stored /\ Dirty(f)
        BY <1>3, FlushReady
    <2>2. DataInv'
        BY <1>6, <2>1 DEF DataInv
    <2>3. call'.op = "write" /\ call'.at = offset /\ call'.bytes = buf /\ call'.ok = o.ok
        BY <1>6 DEF Call
    <2>4. Abstract!Write
        BY <1>4, <1>6, <2>1, <2>3 DEF Abstract!Write, Abstract!MaySave
    <2> QED BY <2>2, <2>4 DEF Refines, Abstract!Next
<1> QED BY <1>1, <1>5, <1>6

\* The operations that flush the file first.
LEMMA FlushFacts ==
    ASSUME Consistent, Careful, file # Absent, NEW o \in FlushOutcomes(file)
    PROVE  /\ Good(o.file) /\ BlockLengths(o.file) /\ HoleFree(o.file) /\ o.file # Absent
           /\ BytesOf(file) # Absent /\ BytesOf(o.file) = BytesOf(file) /\ BytesOf(file) = Contents(o.file)
           /\ o.ok => ~Dirty(o.file) /\ o.file = o.stored
           /\ ~o.ok => o.file = file /\ o.stored = stored /\ Dirty(file) /\ Failures
BY FileIsReady, FlushReady, BytesOfFile DEF Ready

LEMMA FlushedDataInv ==
    ASSUME Consistent, Careful, file # Absent, NEW o \in FlushOutcomes(file), file' = o.file, stored' = o.stored
    PROVE  DataInv' /\ BytesOf(file') = BytesOf(file) /\ BytesOf(stored') \in {BytesOf(stored), BytesOf(file')}
BY FlushFacts DEF DataInv

LEMMA FailureRefines ==
    ASSUME Consistent, Careful, file # Absent, NEW o \in FlushOutcomes(file),
           file' = o.file, stored' = o.stored,
           NEW op \in {"truncate", "read", "getattr", "flush", "release", "unlink"}, NEW at,
           call' = FailedCall(op, at, <<>>)
    PROVE  Refines
<1>1. call'.op = op /\ call'.ok = FALSE
    BY DEF FailedCall, Call
<1>2. DataInv' /\ BytesOf(file') = BytesOf(file) /\ BytesOf(stored') \in {BytesOf(stored), BytesOf(file')}
    BY FlushedDataInv
<1>3. BytesOf(file) # Absent
    BY FlushFacts
<1>4. Abstract!Fails
    BY <1>1, <1>2, <1>3 DEF Abstract!Fails, Abstract!MaySave
<1> QED BY <1>2, <1>4 DEF Refines, Abstract!Next

LEMMA TruncateRefines == ASSUME Consistent, Careful, NEW n \in TruncateSizes, Truncate(n) PROVE Refines
<1>1. file # Absent /\ n \in Nat
    BY ClientAssumption DEF Truncate
<1>2. PICK o \in FlushOutcomes(file) :
        /\ stored' = o.stored
        /\ IF o.ok THEN file' = TruncatedTo(o.file, n) /\ call' = Call("truncate", n, <<>>)
           ELSE file' = o.file /\ call' = FailedCall("truncate", n, <<>>)
    BY DEF Truncate, Flushing
<1>3. CASE ~o.ok
    BY <1>1, <1>2, <1>3, FailureRefines
<1>4. CASE o.ok
    <2> DEFINE g == TruncatedTo(o.file, n)
    <2>1. /\ Good(o.file) /\ BlockLengths(o.file) /\ ~Dirty(o.file) /\ o.file = o.stored
          /\ BytesOf(file) # Absent /\ BytesOf(o.file) = BytesOf(file) /\ BytesOf(file) = Contents(o.file)
        BY <1>1, <1>4, FlushFacts
    <2>2. Good(g) /\ BlockLengths(g)
        BY <1>1, <2>1, TruncatedToOK DEF Good
    <2>3. HoleFree(g) /\ (~Dirty(g) => g = o.file)
        BY <1>1, <2>1, TruncatedContents
    <2>4. Contents(g) = Abstract!Resized(Contents(o.file), n)
        BY <1>1, <2>1, AbstractTruncate
    <2>5. file' = g /\ stored' = o.stored
        BY <1>2, <1>4
    <2> HIDE DEF g
    <2>6. BytesOf(file') = Abstract!Resized(BytesOf(file), n)
        BY <2>1, <2>2, <2>4, <2>5, BytesOfFile
    <2>7. call'.op = "truncate" /\ call'.at = n /\ call'.ok = TRUE
        BY <1>2, <1>4 DEF Call
    <2>8. BytesOf(stored') = BytesOf(file)
        BY <2>1, <2>5
    <2>9. Abstract!Truncate
        BY <2>1, <2>6, <2>7, <2>8 DEF Abstract!Truncate, Abstract!Is
    <2>10. DataInv'
        BY <2>1, <2>3, <2>5 DEF DataInv
    <2> QED BY <2>9, <2>10 DEF Refines, Abstract!Next
<1> QED BY <1>3, <1>4

LEMMA ReadRefines == ASSUME Consistent, Careful, NEW offset \in Offsets, Read(offset, MaxSize) PROVE Refines
<1>1. file # Absent /\ offset \in Nat /\ MaxSize \in Nat
    BY ClientAssumption DEF Read
<1>2. PICK o \in FlushOutcomes(file) :
        /\ stored' = o.stored /\ file' = o.file
        /\ \/ o.ok /\ call' = Call("read", offset, ReadBytes(o.file, offset, MaxSize))
           \/ call' = FailedCall("read", offset, <<>>)
    BY DEF Read, Flushing
<1>3. CASE call' = FailedCall("read", offset, <<>>)
    BY <1>1, <1>2, <1>3, FailureRefines
<1>4. CASE o.ok /\ call' = Call("read", offset, ReadBytes(o.file, offset, MaxSize))
    <2>1. /\ Good(o.file) /\ BlockLengths(o.file) /\ ~Dirty(o.file) /\ o.file = o.stored
          /\ BytesOf(file) # Absent /\ BytesOf(o.file) = BytesOf(file) /\ BytesOf(file) = Contents(o.file)
        BY <1>1, <1>4, FlushFacts
    <2>2. DataInv' /\ BytesOf(file') = BytesOf(file) /\ BytesOf(stored') = BytesOf(file)
        BY <1>1, <1>2, <2>1, FlushedDataInv
    <2>3. /\ call'.op = "read" /\ call'.at = offset /\ call'.ok = TRUE
          /\ call'.bytes = ReadBytes(o.file, offset, MaxSize)
        BY <1>4 DEF Call
    <2>4. \E n \in 0 .. Len(BytesOf(file)) : call'.bytes = Abstract!Slice(BytesOf(file), call'.at, n)
        BY <1>1, <2>1, <2>3, AbstractRead
    <2>5. Abstract!Read
        BY <2>1, <2>2, <2>3, <2>4 DEF Abstract!Read, Abstract!Is
    <2> QED BY <2>2, <2>5 DEF Refines, Abstract!Next
<1> QED BY <1>2, <1>3, <1>4

LEMMA GetAttrRefines == ASSUME Consistent, Careful, GetAttr PROVE Refines
<1>1. file # Absent
    BY DEF GetAttr
<1>2. CASE file.pending = <<>>
    <2>1. file' = file /\ stored' = stored /\ call' = Call("getattr", StoredSize(file), <<>>)
        BY <1>2 DEF GetAttr, StoredSize
    <2>2. Ready(file)
        BY <1>1, FileIsReady
    <2>3. StoredSize(file) = Len(BytesOf(file)) /\ BytesOf(file) # Absent
        BY <1>2, <2>2, NewSizeClean, BytesOfFile DEF Ready, Good
    <2>4. call'.op = "getattr" /\ call'.ok = TRUE /\ call'.at = StoredSize(file)
        BY <2>1 DEF Call
    <2>5. Abstract!GetAttr
        BY <2>1, <2>3, <2>4 DEF Abstract!GetAttr, Abstract!Is, Abstract!MaySave
    <2>6. DataInv'
        BY <2>1 DEF Consistent, DataInv
    <2> QED BY <2>5, <2>6 DEF Refines, Abstract!Next
<1>3. CASE file.pending # <<>>
    <2>1. PICK o \in FlushOutcomes(file) :
            /\ stored' = o.stored /\ file' = o.file
            /\ IF o.ok THEN call' = Call("getattr", StoredSize(o.file), <<>>)
               ELSE call' = FailedCall("getattr", 0, <<>>)
        BY <1>3 DEF GetAttr, Flushing, StoredSize
    <2>2. CASE ~o.ok
        BY <1>1, <2>1, <2>2, FailureRefines
    <2>3. CASE o.ok
        <3>1. /\ Good(o.file) /\ BlockLengths(o.file) /\ ~Dirty(o.file) /\ o.file = o.stored
              /\ BytesOf(file) # Absent /\ BytesOf(o.file) = BytesOf(file)
            BY <1>1, <2>3, FlushFacts
        <3>2. DataInv' /\ BytesOf(file') = BytesOf(file) /\ BytesOf(stored') = BytesOf(file)
            BY <1>1, <2>1, <3>1, FlushedDataInv
        <3>3. StoredSize(o.file) = Len(BytesOf(file))
            BY <3>1, CleanIs, BytesOfFile
        <3>4. call'.op = "getattr" /\ call'.ok = TRUE /\ call'.at = StoredSize(o.file)
            BY <2>1, <2>3 DEF Call
        <3>5. Abstract!GetAttr
            BY <3>1, <3>2, <3>3, <3>4 DEF Abstract!GetAttr, Abstract!Is, Abstract!MaySave
        <3> QED BY <3>2, <3>5 DEF Refines, Abstract!Next
    <2> QED BY <2>2, <2>3
<1> QED BY <1>2, <1>3

LEMMA FlushRefines == ASSUME Consistent, Careful, Flush PROVE Refines
<1>1. file # Absent
    BY DEF Flush
<1>2. BytesOf(file) # Absent
    BY <1>1, FileIsReady, BytesOfFile DEF Ready
<1>3. CASE file.pending = <<>>
    <2>1. file' = file /\ stored' = stored /\ call' = Call("flush", 0, <<>>)
        BY <1>3 DEF Flush
    <2>2. call'.op = "flush" /\ call'.ok = TRUE
        BY <2>1 DEF Call
    <2>3. Abstract!Flush
        BY <1>2, <2>1, <2>2 DEF Abstract!Flush, Abstract!Is, Abstract!MaySave
    <2>4. DataInv'
        BY <2>1 DEF Consistent, DataInv
    <2> QED BY <2>3, <2>4 DEF Refines, Abstract!Next
<1>4. CASE file.pending # <<>>
    <2>1. PICK o \in FlushOutcomes(file) :
            /\ stored' = o.stored /\ file' = o.file
            /\ IF o.ok THEN call' = Call("flush", 0, <<>>) ELSE call' = FailedCall("flush", 0, <<>>)
        BY <1>4 DEF Flush, Flushing
    <2>2. CASE ~o.ok
        BY <1>1, <2>1, <2>2, FailureRefines
    <2>3. CASE o.ok
        <3>1. DataInv' /\ BytesOf(file') = BytesOf(file) /\ BytesOf(stored') \in {BytesOf(stored), BytesOf(file')}
            BY <1>1, <2>1, FlushedDataInv
        <3>2. call'.op = "flush" /\ call'.ok = TRUE
            BY <2>1, <2>3 DEF Call
        <3>3. Abstract!Flush
            BY <1>2, <3>1, <3>2 DEF Abstract!Flush, Abstract!Is, Abstract!MaySave
        <3> QED BY <3>1, <3>3 DEF Refines, Abstract!Next
    <2> QED BY <2>2, <2>3
<1> QED BY <1>3, <1>4

LEMMA ReleaseRefines == ASSUME Consistent, Careful, Release PROVE Refines
<1>1. file # Absent
    BY DEF Release
<1>2. PICK o \in FlushOutcomes(file) :
        /\ stored' = o.stored /\ file' = o.file
        /\ IF o.ok THEN call' = Call("release", 0, <<>>) ELSE call' = FailedCall("release", 0, <<>>)
    BY DEF Release, Flushing
<1>3. CASE ~o.ok
    BY <1>1, <1>2, <1>3, FailureRefines
<1>4. CASE o.ok
    <2>1. o.file = o.stored /\ BytesOf(file) # Absent
        BY <1>1, <1>4, FlushFacts
    <2>2. DataInv' /\ BytesOf(file') = BytesOf(file) /\ BytesOf(stored') = BytesOf(file)
        BY <1>1, <1>2, <2>1, FlushedDataInv
    <2>3. call'.op = "release" /\ call'.ok = TRUE
        BY <1>2, <1>4 DEF Call
    <2>4. Abstract!Release
        BY <2>1, <2>2, <2>3 DEF Abstract!Release, Abstract!Is
    <2> QED BY <2>2, <2>4 DEF Refines, Abstract!Next
<1> QED BY <1>3, <1>4

LEMMA UnlinkRefines == ASSUME Consistent, Careful, Unlink PROVE Refines
<1>1. file # Absent
    BY DEF Unlink
<1>2. PICK o \in FlushOutcomes(file) :
        \/ file' = Absent /\ stored' = Absent /\ call' = Call("unlink", 0, <<>>)
        \/ file' = o.file /\ stored' = o.stored /\ call' = FailedCall("unlink", 0, <<>>)
    BY DEF Unlink
<1>3. CASE file' = o.file /\ stored' = o.stored /\ call' = FailedCall("unlink", 0, <<>>)
    BY <1>1, <1>3, FailureRefines
<1>4. CASE file' = Absent /\ stored' = Absent /\ call' = Call("unlink", 0, <<>>)
    <2>1. DataInv'
        BY <1>4 DEF DataInv
    <2>2. BytesOf(file) # Absent /\ BytesOf(file') = Absent /\ BytesOf(stored') = Absent
        BY <1>1, <1>4, FileIsReady, BytesOfFile DEF Ready
    <2>3. call'.op = "unlink" /\ call'.ok = TRUE
        BY <1>4 DEF Call
    <2>4. Abstract!Unlink
        BY <2>2, <2>3 DEF Abstract!Unlink, Abstract!Is
    <2> QED BY <2>1, <2>4 DEF Refines, Abstract!Next
<1> QED BY <1>2, <1>3, <1>4

LEMMA CrashRefines == ASSUME Consistent, Careful, Crash PROVE Refines
<1>1. file' = stored /\ stored' = stored /\ call' = Call("mount", 0, <<>>)
    BY DEF Crash
<1>2. stored # Absent => HoleFree(stored)
    BY CleanIs DEF Consistent, BlockInv
<1>3. DataInv'
    BY <1>1, <1>2 DEF DataInv
<1>4. Abstract!Crash
    BY <1>1, AbstractIs DEF Abstract!Crash
<1> QED BY <1>3, <1>4 DEF Refines, Abstract!Next

LEMMA DataInvInit == Init => DataInv /\ Abstract!Init
BY BytesOfFile, AbstractIs DEF Init, DataInv, Abstract!Init

LEMMA StepRefines == Consistent /\ Careful /\ [Next]_vars =>
    DataInv' /\ [Abstract!Next]_<<BytesOf(file), BytesOf(stored), call>>
<1> SUFFICES ASSUME Consistent, Careful, [Next]_vars
             PROVE  DataInv' /\ [Abstract!Next]_<<BytesOf(file), BytesOf(stored), call>>
    OBVIOUS
<1>1. CASE UNCHANGED vars
    BY <1>1 DEF vars, Consistent, DataInv
<1>2. CASE Next
    <2>1. Refines
        BY <1>2, CreateRefines, OpenRefines, OpenTruncatedRefines, WriteRefines, TruncateRefines, ReadRefines,
           GetAttrRefines, FlushRefines, ReleaseRefines, UnlinkRefines, CrashRefines DEF Next
    <2> QED BY <2>1 DEF Refines
<1> QED BY <1>1, <1>2

LEMMA ConsistentNext == Consistent /\ Careful /\ [Next]_vars => Consistent'
<1>1. Consistent /\ Careful /\ [Next]_vars => BlockInv' /\ LengthInv'
    BY BlockInvNext, LengthInvNext DEF Consistent, Careful
<1> QED BY <1>1, StepRefines DEF Consistent

\* An operation that fails leaves the bytes.
LEMMA FailureKeeps ==
    Consistent /\ Careful /\ [Next]_vars =>
        [~call'.ok /\ call'.op # "write" => BytesOf(file') = BytesOf(file)]_vars
<1> SUFFICES ASSUME Consistent, Careful, Next, ~call'.ok, call'.op # "write"
             PROVE  BytesOf(file') = BytesOf(file)
    OBVIOUS
<1>1. [Abstract!Next]_<<BytesOf(file), BytesOf(stored), call>>
    BY StepRefines
<1>2. CASE Abstract!Create
    BY <1>2 DEF Abstract!Create, Abstract!Call
<1>3. CASE Abstract!Crash
    BY <1>3 DEF Abstract!Crash, Abstract!Call
<1>4. CASE \/ Abstract!Open \/ Abstract!OpenTruncated \/ Abstract!Truncate \/ Abstract!Read
           \/ Abstract!GetAttr \/ Abstract!Flush \/ Abstract!Release \/ Abstract!Unlink
    BY <1>4 DEF Abstract!Open, Abstract!OpenTruncated, Abstract!Truncate, Abstract!Read,
                Abstract!GetAttr, Abstract!Flush, Abstract!Release, Abstract!Unlink, Abstract!Is
<1>5. CASE Abstract!Write
    BY <1>5 DEF Abstract!Write
<1>6. CASE Abstract!Fails
    BY <1>6 DEF Abstract!Fails
<1> QED BY <1>1, <1>2, <1>3, <1>4, <1>5, <1>6 DEF Abstract!Next

\* What is proved from here on is about clients that do what the code gets right:
\* no gap behind a pending truncation, no O_TRUNC above pending writes, truncations
\* that do not cut into a block and, where the destination may fail, cut to nothing.

\* Pending writes, the splitting into blocks, the cutting of the last one and the
\* putting together of what is read implement a file of bytes (flush.c, read.c).
THEOREM FileIsBuffered ==
    ~HoleAfterTruncate /\ ~TruncateWhileWriting =>
        (Spec /\ []CutsAtBlocks /\ []CutsToNothing => ImplementsBufferedFile)
<1> SUFFICES ASSUME ~HoleAfterTruncate, ~TruncateWhileWriting
             PROVE  Spec /\ []CutsAtBlocks /\ []CutsToNothing => Abstract!Spec
    BY DEF ImplementsBufferedFile
<1>1. Init => Consistent /\ Abstract!Init
    BY BlockInvInit, DataInvInit DEF Consistent
<1>2. Consistent /\ CutsAtBlocks /\ CutsToNothing /\ [Next]_vars => Consistent'
    BY ConsistentNext DEF Careful
<1>3. Consistent /\ CutsAtBlocks /\ CutsToNothing /\ [Next]_vars =>
        [Abstract!Next]_<<BytesOf(file), BytesOf(stored), call>>
    BY StepRefines DEF Careful
<1> QED BY <1>1, <1>2, <1>3, PTL DEF Spec, Abstract!Spec

\* Whatever fails to be stored stays in place, with every byte, for the next
\* attempt (flush.c:348, 390).
THEOREM FailuresKeepData ==
    ~HoleAfterTruncate /\ ~TruncateWhileWriting =>
        (Spec /\ []CutsAtBlocks /\ []CutsToNothing => FailureKeepsData)
<1> SUFFICES ASSUME ~HoleAfterTruncate, ~TruncateWhileWriting
             PROVE  Spec /\ []CutsAtBlocks /\ []CutsToNothing =>
                        [][~call'.ok /\ call'.op # "write" => BytesOf(file') = BytesOf(file)]_vars
    BY DEF FailureKeepsData
<1>1. Init => Consistent
    BY BlockInvInit, DataInvInit DEF Consistent
<1>2. Consistent /\ CutsAtBlocks /\ CutsToNothing /\ [Next]_vars => Consistent'
    BY ConsistentNext DEF Careful
<1>3. Consistent /\ CutsAtBlocks /\ CutsToNothing /\ [Next]_vars =>
        [~call'.ok /\ call'.op # "write" => BytesOf(file') = BytesOf(file)]_vars
    BY FailureKeeps DEF Careful
<1> QED BY <1>1, <1>2, <1>3, PTL DEF Spec

\* What the hypotheses ask of the constants: sizes to truncate to that every block
\* size divides, and none but 0 where the destination may fail.
LEMMA CutsAreChosen ==
    ASSUME \A n \in TruncateSizes, bs \in BlockSizes \ {0} : n % bs = 0,
           Failures => TruncateSizes \subseteq {0}
    PROVE  Spec => []CutsAtBlocks /\ []CutsToNothing
<1> DEFINE Cut(f) == f.truncSize \in TruncateSizes \union {0}
           CutInv == (file # Absent => Cut(file)) /\ (stored # Absent => Cut(stored))
<1>1. Init => BlockInv /\ CutInv
    BY BlockInvInit DEF Init
<1>2. BlockInv /\ [Next]_vars => BlockInv'
    BY BlockInvNext
<1>3. ASSUME NEW f, Good(f), Cut(f)
      PROVE  /\ Cut(FailedFlush(f)) /\ Cut(OpenedTruncated(f))
             /\ \A w \in PendingWrites : Cut(Written(f, w.offset, w.buf))
             /\ \A n \in TruncateSizes : Cut(TruncatedTo(f, n))
             /\ \A o \in FlushOutcomes(f) : Cut(o.file) /\ (o.stored = stored \/ Cut(o.stored))
    <2>1. f \in File
        BY <1>3 DEF Good
    <2>2. Cut(FailedFlush(f)) /\ Cut(OpenedTruncated(f)) /\ Cut(Saved(f))
        <3>1. Saved(f).truncSize = 0
            BY <1>3, SavedIs DEF Good
        <3> QED BY <2>1, <3>1 DEF FailedFlush, OpenedTruncated, File
    <2>3. \A w \in PendingWrites : Cut(Written(f, w.offset, w.buf))
        BY <1>3, <2>1 DEF Written, File
    <2>4. \A n \in TruncateSizes : Cut(TruncatedTo(f, n))
        BY <1>3, <2>1 DEF TruncatedTo, File
    <2>5. ASSUME NEW o \in FlushOutcomes(f) PROVE Cut(o.file) /\ (o.stored = stored \/ Cut(o.stored))
        BY <1>3, <2>2, FlushOutcomesAre
    <2> QED BY <2>2, <2>3, <2>4, <2>5
<1>4. BlockInv /\ CutInv /\ [Next]_vars => CutInv'
    <2> SUFFICES ASSUME BlockInv, CutInv, [Next]_vars PROVE CutInv'
        OBVIOUS
    <2>1. CASE UNCHANGED vars
        BY <2>1 DEF vars
    <2>2. CASE StaysOrFallsBack
        BY <2>2 DEF StaysOrFallsBack
    <2>3. CASE IsMade
        <3>1. file'.truncSize = 0
            BY <2>3 DEF IsMade, EmptyFile
        <3> QED BY <2>3, <3>1 DEF IsMade
    <2>4. CASE IsCut
        BY <1>3, <2>4 DEF IsCut, BlockInv
    <2>5. ASSUME NEW w \in PendingWrites, IsWritten(w) PROVE CutInv'
        BY <1>3, <2>5 DEF IsWritten, BlockInv
    <2>6. ASSUME NEW w \in PendingWrites, IsWrittenAndFlushed(w) PROVE CutInv'
        <3> DEFINE g == Written(file, w.offset, w.buf)
        <3>1. Good(g) /\ Cut(g)
            BY <1>3, <2>6, WrittenOK DEF IsWrittenAndFlushed, BlockInv, Good, PendingWrites
        <3>2. PICK o \in FlushOutcomes(g) : file' = o.file /\ stored' = o.stored
            BY <2>6 DEF IsWrittenAndFlushed
        <3>3. Cut(o.file) /\ (o.stored = stored \/ Cut(o.stored))
            <4> HIDE DEF g
            <4> QED BY <1>3, <3>1, <3>2
        <3> QED BY <3>2, <3>3
    <2>7. CASE IsFlushed
        <3>1. PICK o \in FlushOutcomes(file) :
                \/ stored' = o.stored /\ file' = o.file
                \/ stored' = Absent /\ file' = Absent
                \/ o.ok /\ stored' = o.stored /\ \E n \in TruncateSizes : file' = TruncatedTo(o.file, n)
            BY <2>7 DEF IsFlushed
        <3>2. Good(file) /\ Cut(file)
            BY <2>7 DEF IsFlushed, BlockInv
        <3>3. Good(o.file) /\ Cut(o.file) /\ (o.stored = stored \/ Cut(o.stored))
            BY <1>3, <3>2, FlushGood
        <3>4. \A n \in TruncateSizes : Cut(TruncatedTo(o.file, n))
            BY <1>3, <3>3
        <3> QED BY <3>1, <3>3, <3>4
    <2> HIDE DEF CutInv
    <2> QED BY <2>1, <2>2, <2>3, <2>4, <2>5, <2>6, <2>7, Operations
<1>5. BlockInv /\ CutInv => CutsAtBlocks /\ CutsToNothing
    <2> SUFFICES ASSUME BlockInv, CutInv, file # Absent
                 PROVE  /\ file.trunc => file.truncSize = 0 \/ file.truncSize % file.blockSize = 0
                        /\ Failures => file.truncSize = 0
        BY DEF CutsAtBlocks, CutsToNothing
    <2>1. file \in File /\ Shape(file) /\ Cut(file)
        BY DEF BlockInv, Good
    <2>2. file.blockSize = 0 /\ file.trunc => file.truncSize = 0
        BY <2>1, FileFacts DEF Shape
    <2>3. file.blockSize \in BlockSizes
        BY <2>1 DEF Shape
    <2> QED BY <2>1, <2>2, <2>3
<1> QED BY <1>1, <1>2, <1>4, <1>5, PTL DEF Spec
====
