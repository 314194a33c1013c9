------------------------------- MODULE FileData -------------------------------
(***************************************************************************)
(* The data of one file (operations/open.c, create.c, write.c, truncate.c, *)
(* flush.c, release.c, read.c, getattr.c, unlink.c, operations.c): writes  *)
(* and truncations wait in memory until flushFile turns them into blocks   *)
(* and an action file.  Every operation holds bucseMutex and is one step;  *)
(* within a flush the blocks are stored before the action file, so that a  *)
(* crash inside it leaves only blocks nobody refers to.                    *)
(***************************************************************************)
EXTENDS Integers, SequencesExt

CONSTANTS
    Absent,                 \* no such file
    MinBlock, MaxBlock,     \* MIN_BLOCK_SIZE and MAX_BLOCK_SIZE
    ResizeAt,               \* RESIZE_AT_BLOCKS_COUNT
    MaxPending,             \* the pending writes that make a write flush
    Offsets, Buffers,       \* what is written and read where
    TruncateSizes,          \* the sizes truncate is called with
    Failures,               \* may the destination fail?
    HoleAfterTruncate,      \* may a write leave a gap while a truncation is pending?
    TruncateWhileWriting,   \* may open truncate a file with pending writes?
    MaxSize,                \* bound on the size of the file
    MaxHeld                 \* bound on the pending writes kept while flushes fail

ASSUME BlockAssumption ==
    /\ MinBlock \in Nat \ {0} /\ MaxBlock \in Nat /\ MinBlock <= MaxBlock
    /\ ResizeAt \in Nat /\ ResizeAt >= 8
ASSUME ClientAssumption ==
    /\ Offsets \subseteq Nat /\ TruncateSizes \subseteq Nat /\ {MaxPending, MaxSize, MaxHeld} \subseteq Nat
    /\ Buffers \subseteq Seq(Nat) \ {<<>>}
    /\ {Failures, HoleAfterTruncate, TruncateWhileWriting} \subseteq BOOLEAN

VARIABLES
    file,       \* the FilesystemFile
    stored,     \* the file as the last action file describes it
    call        \* the last operation and what it answered

vars == <<file, stored, call>>

Call(op, at, bytes) == [op |-> op, at |-> at, bytes |-> bytes, ok |-> TRUE]
FailedCall(op, at, bytes) == [Call(op, at, bytes) EXCEPT !.ok = FALSE]

\* content is the sequence of the blocks themselves: a block never changes once
\* stored under its random name.  The three flags are the bits of dirtyFlags;
\* a write is pending exactly if pending is not empty.
EmptyFile ==
    [content |-> <<>>, size |-> 0, blockSize |-> 0,
     create |-> FALSE, trunc |-> FALSE, truncSize |-> 0, pending |-> <<>>]

File ==
    [content : Seq(Seq(Nat)), size : Nat, blockSize : Nat,
     create : BOOLEAN, trunc : BOOLEAN, truncSize : Nat,
     pending : Seq([offset : Nat, buf : Seq(Nat) \ {<<>>}])]
ASSUME AbsentAssumption == Absent \notin File \union Seq(Nat)

Dirty(f) == f.create \/ f.trunc \/ f.pending # <<>>

-----------------------------------------------------------------------------
\* The loop of getBlockSize: 1, doubled as often as n can be halved.
Doubled[n \in Nat] == IF n = 0 THEN 1 ELSE 2 * Doubled[n \div 2]

\* getBlockSize
BlockSizeFor(size) ==
    IF size = 0 THEN 0 ELSE Min({MaxBlock, Max({MinBlock, Doubled[size \div 4] \div 2})})

BlocksFor(size, bs) == IF bs = 0 THEN 0 ELSE size \div bs + (IF size % bs = 0 THEN 0 ELSE 1)

\* The bytes of the n-th of the blocks that hold size bytes.
LengthOf(size, bs, n) == Min({bs, size - (n - 1) * bs})

NewSize(f) ==
    Max({IF f.trunc THEN f.truncSize ELSE f.size}
        \union {f.pending[w].offset + Len(f.pending[w].buf) : w \in DOMAIN f.pending})

KeptBlockSize(f) == IF f.blockSize = 0 THEN BlockSizeFor(NewSize(f)) ELSE f.blockSize

\* Mutant: the size before the writes decides.
ResizesLate(f) ==
    /\ f.pending # <<>>
    /\ BlocksFor(f.size, KeptBlockSize(f)) > ResizeAt /\ KeptBlockSize(f) < MaxBlock

\* With too many blocks the whole file is written again in larger ones.
Resizes(f) ==
    /\ f.pending # <<>>
    /\ BlocksFor(NewSize(f), KeptBlockSize(f)) > ResizeAt /\ KeptBlockSize(f) < MaxBlock

NewBlockSize(f) == IF Resizes(f) THEN BlockSizeFor(NewSize(f)) ELSE KeptBlockSize(f)
NewBlocks(f) == BlocksFor(NewSize(f), NewBlockSize(f))

\* determineBlocksToWrite
Touched(f, n) ==
    \E w \in DOMAIN f.pending : \E k \in 1 .. Len(f.pending[w].buf) :
        (f.pending[w].offset + k - 1) \div NewBlockSize(f) = n - 1

\* blocksToWrite, with the two special cases of a last block.
Rewritten(f, n) ==
    \/ Resizes(f) \/ Touched(f, n)
    \/ n > Len(f.content)
    \/ Len(f.content) < NewBlocks(f) /\ n = Len(f.content)
    \/ Len(f.content) > NewBlocks(f) /\ n = NewBlocks(f)

\* Mutant: the last block is expected to be full.
FitsFull(f, n) == Len(f.content[n]) = f.blockSize

\* decryptBlock with exactly = 1 gets a block from storage only at the length
\* the file's size implies; a block found in the cache is taken as it is.
FitsSize(f, n) == Len(f.content[n]) = LengthOf(f.size, f.blockSize, n)
BlocksDecrypted(f) ==
    {n \in DOMAIN f.content : Resizes(f) \/ (n <= NewBlocks(f) /\ Rewritten(f, n))}

\* The byte at position k (from 0) before the pending writes: a buffer filled
\* with zeroes, over which the old block is decrypted.
OldByte(f, k) ==
    LET n == k \div f.blockSize + 1
        m == (k % f.blockSize) + 1
    IN IF f.content # <<>> /\ n <= Len(f.content) /\ (Resizes(f) => k < f.size)
       THEN IF m <= Len(f.content[n]) THEN f.content[n][m] ELSE 0
       ELSE 0

Covers(w, k) == w.offset <= k /\ k < w.offset + Len(w.buf)

\* Mutant: the first of two overlapping writes wins.
NewByteOfFirst(f, k) ==
    LET n == SelectInSeq(f.pending, LAMBDA w : Covers(w, k))
    IN IF n = 0 THEN OldByte(f, k) ELSE f.pending[n].buf[k - f.pending[n].offset + 1]

NewByte(f, k) ==
    LET last == SelectLastInSeq(f.pending, LAMBDA w : Covers(w, k))
    IN IF last = 0 THEN OldByte(f, k) ELSE f.pending[last].buf[k - f.pending[last].offset + 1]

\* Mutant: the last block is saved as long as the others.
NewBlockFull(f, n) ==
    [m \in 1 .. NewBlockSize(f) |-> NewByte(f, (n - 1) * NewBlockSize(f) + m - 1)]

NewBlock(f, n) ==
    [m \in 1 .. LengthOf(NewSize(f), NewBlockSize(f), n) |-> NewByte(f, (n - 1) * NewBlockSize(f) + m - 1)]

\* The file after flushFile; without pending writes the blocks are kept as they are.
Saved(f) ==
    [EmptyFile EXCEPT
        !.content = [n \in 1 .. NewBlocks(f) |->
            IF f.pending # <<>> /\ Rewritten(f, n) THEN NewBlock(f, n) ELSE f.content[n]],
        !.size = NewSize(f),
        !.blockSize = NewBlockSize(f)]

\* Mutant: the pending writes are freed before the first thing that can fail.
FlushOutcomesFreed(f) ==
    LET success == [ok |-> TRUE, file |-> Saved(f), stored |-> Saved(f)]
        failure == [ok |-> FALSE, file |-> [f EXCEPT !.truncSize = 0, !.pending = <<>>], stored |-> stored]
    IN IF ~Dirty(f) THEN {[ok |-> TRUE, file |-> f, stored |-> stored]}
       ELSE {success} \union (IF Failures THEN {failure} ELSE {})

\* Every outcome of flushFile: truncSize is cleared before anything can fail.
FlushOutcomes(f) ==
    LET success == [ok |-> TRUE, file |-> Saved(f), stored |-> Saved(f)]
        failure == [ok |-> FALSE, file |-> [f EXCEPT !.truncSize = 0], stored |-> stored]
        mismatch == f.pending # <<>> /\ \E n \in BlocksDecrypted(f) : ~FitsSize(f, n)
    IN IF ~Dirty(f) THEN {[ok |-> TRUE, file |-> f, stored |-> stored]}
       ELSE {success} \union (IF Failures \/ mismatch THEN {failure} ELSE {})

-----------------------------------------------------------------------------
\* What a reader of the file is owed: the last of the pending writes at a place,
\* above the stored bytes, cut where a truncation is pending, above zeroes.
StoredSize(f) == IF f.trunc THEN f.truncSize ELSE f.size
StoredByte(f, k) == f.content[k \div f.blockSize + 1][(k % f.blockSize) + 1]
ByteAt(f, k) ==
    LET last == SelectLastInSeq(f.pending, LAMBDA w : Covers(w, k))
    IN IF last # 0 THEN f.pending[last].buf[k - f.pending[last].offset + 1]
       ELSE IF k < StoredSize(f) THEN StoredByte(f, k) ELSE 0

Contents(f) == [k \in 1 .. NewSize(f) |-> ByteAt(f, k - 1)]

BytesOf(f) == IF f = Absent THEN Absent ELSE Contents(f)

-----------------------------------------------------------------------------
Init == file = Absent /\ stored = Absent /\ call = Call("mount", 0, <<>>)

\* bucse_create, and bucse_open with O_CREAT, of a file that does not exist.
Create ==
    /\ file = Absent
    /\ file' = [EmptyFile EXCEPT !.create = TRUE]
    /\ call' = Call("create", 0, <<>>)
    /\ UNCHANGED stored

Open ==
    /\ file # Absent
    /\ call' = Call("open", 0, <<>>)
    /\ UNCHANGED <<file, stored>>

\* bucse_open with O_TRUNC: earlier pending writes stay.
OpenTruncated ==
    /\ file # Absent
    /\ TruncateWhileWriting \/ file.pending = <<>>
    /\ file' = [file EXCEPT !.trunc = TRUE, !.truncSize = 0]
    /\ call' = Call("opentrunc", 0, <<>>)
    /\ UNCHANGED stored

\* flushFile followed by what an operation does when it succeeds, or its error.
Flushing(op, at, Then(_)) ==
    \E o \in FlushOutcomes(file) :
        /\ stored' = o.stored
        /\ IF o.ok THEN Then(o.file)
           ELSE file' = o.file /\ call' = FailedCall(op, at, <<>>)

Write(offset, buf) ==
    /\ file # Absent /\ offset + Len(buf) <= MaxSize /\ Len(file.pending) <= MaxHeld
    /\ file.trunc /\ ~HoleAfterTruncate => offset <= NewSize(file)
    /\ LET f == [file EXCEPT !.pending = Append(file.pending, [offset |-> offset, buf |-> buf])]
       IN IF Len(f.pending) <= MaxPending
          THEN file' = f /\ call' = Call("write", offset, buf) /\ UNCHANGED stored
          ELSE \E o \in FlushOutcomes(f) :
                /\ file' = o.file /\ stored' = o.stored
                /\ call' = [Call("write", offset, buf) EXCEPT !.ok = o.ok]

\* Mutant: without the early return for a size that does not change.
TruncatedAnyway(f, n) ==
    IF n >= f.size
    THEN [f EXCEPT !.pending = Append(f.pending, [offset |-> f.size, buf |-> [k \in 1 .. n - f.size |-> 0]])]
    ELSE [f EXCEPT !.trunc = TRUE, !.truncSize = n]

\* A file grows by a pending write of zeroes and shrinks by a pending truncation.
TruncatedTo(f, n) ==
    IF n = f.size THEN f
    ELSE IF n > f.size
    THEN [f EXCEPT !.pending = Append(f.pending, [offset |-> f.size, buf |-> [k \in 1 .. n - f.size |-> 0]])]
    ELSE [f EXCEPT !.trunc = TRUE, !.truncSize = n]

Truncate(n) ==
    /\ file # Absent
    /\ Flushing("truncate", n, LAMBDA f : file' = TruncatedTo(f, n) /\ call' = Call("truncate", n, <<>>))

\* determineBlocksToRead and the loop over its pieces.
ReadBytes(f, offset, size) ==
    LET last == Min({offset + size, f.size})
        piece(n) == SubSeq(f.content[n], Max({0, offset - (n - 1) * f.blockSize}) + 1,
                                         Min({f.blockSize, last - (n - 1) * f.blockSize}))
        first == offset \div f.blockSize
    IN IF offset >= last THEN <<>>
       ELSE FlattenSeq([n \in 1 .. BlocksFor(last, f.blockSize) - first |-> piece(first + n)])

Read(offset, size) ==
    /\ file # Absent
    /\ Flushing("read", offset, LAMBDA f :
        /\ file' = f
        /\ \/ call' = Call("read", offset, ReadBytes(f, offset, size))
           \/ Failures /\ call' = FailedCall("read", offset, <<>>))

\* bucse_getattr flushes a file with pending writes, then reports its size.
GetAttr ==
    /\ file # Absent
    /\ LET Report(f) ==
            /\ file' = f
            /\ call' = Call("getattr", IF f.trunc THEN f.truncSize ELSE f.size, <<>>)
       IN IF file.pending # <<>> THEN Flushing("getattr", 0, Report)
          ELSE Report(file) /\ UNCHANGED stored

\* bucse_flush, at every close of a descriptor.
Flush ==
    /\ file # Absent
    /\ LET Answer(f) == file' = f /\ call' = Call("flush", 0, <<>>)
       IN IF file.pending # <<>> THEN Flushing("flush", 0, Answer)
          ELSE Answer(file) /\ UNCHANGED stored

\* bucse_release of a descriptor that could write, after its last close.
Release ==
    /\ file # Absent
    /\ Flushing("release", 0, LAMBDA f : file' = f /\ call' = Call("release", 0, <<>>))

\* bucse_unlink flushes, then stores the action that removes the file.
Unlink ==
    /\ file # Absent
    /\ \E o \in FlushOutcomes(file) :
        \/ /\ o.ok
           /\ file' = Absent /\ stored' = Absent
           /\ call' = Call("unlink", 0, <<>>)
        \/ /\ o.ok => Failures
           /\ file' = o.file /\ stored' = o.stored
           /\ call' = FailedCall("unlink", 0, <<>>)

\* The process dies; the next mount replays the action files.
Crash ==
    /\ file' = stored
    /\ call' = Call("mount", 0, <<>>)
    /\ UNCHANGED stored

Next ==
    \/ Create \/ Open \/ OpenTruncated
    \/ \E offset \in Offsets : \/ \E buf \in Buffers : Write(offset, buf)
                               \/ Read(offset, MaxSize)
    \/ \E n \in TruncateSizes : Truncate(n)
    \/ GetAttr \/ Flush \/ Release \/ Unlink \/ Crash

Spec == Init /\ [][Next]_vars

-----------------------------------------------------------------------------
\* The pending writes and the blocks keep their shape; what was stored is clean.
TypeOK ==
    /\ file \in File \union {Absent}
    /\ stored \in File \union {Absent} /\ (stored # Absent => ~Dirty(stored))

\* The blocks of a file are those its size implies, each at its length: what
\* decryptBlock insists on (operations.c:84) and a flush must therefore keep.
BlocksFit(f) ==
    /\ Len(f.content) = BlocksFor(f.size, f.blockSize)
    /\ \A n \in DOMAIN f.content : FitsSize(f, n)
BlocksFitSize == (file # Absent => BlocksFit(file)) /\ (stored # Absent => BlocksFit(stored))

\* No pending truncation cuts into a block: what BlocksFitSize depends on.
CutsAtBlocks ==
    file # Absent /\ file.trunc => file.truncSize = 0 \/ file.truncSize % file.blockSize = 0

\* Where flushes fail, pending truncations are to nothing: what FailureKeepsData
\* depends on.
CutsToNothing == Failures /\ file # Absent => file.truncSize = 0

\* The blocks of a file are of one of the sizes getBlockSize gives, and they stay
\* few: at most RESIZE_AT_BLOCKS_COUNT unless they are the largest there are.
BlocksStayFew ==
    file # Absent =>
        file.blockSize = MaxBlock \/ Len(file.content) <= ResizeAt

\* While the destination works no operation answers an error.
NoErrorByItself == ~Failures => call.ok

\* A flush that fails, in whatever operation, leaves what was written in place
\* for the next attempt (flush.c:348, 390).
FailureKeepsData == [][~call'.ok /\ call'.op # "write" => BytesOf(file') = BytesOf(file)]_vars

\* The pending writes, the flushing and the splitting into blocks implement a
\* file whose bytes every operation sees at once.
Abstract == INSTANCE BufferedFile WITH data <- BytesOf(file), durable <- BytesOf(stored)
ImplementsBufferedFile == Abstract!Spec
=============================================================================
