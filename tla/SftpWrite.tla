----------------------------- MODULE SftpWrite -----------------------------
(***************************************************************************)
(* sftp_write_multiple_calls (destinations/dest_ssh.c), which sends a      *)
(* block in chunks: its counter is unsigned, the errors of sftp_write are  *)
(* negative, and its callers take its result for an int.                   *)
(***************************************************************************)
EXTENDS Destination

CONSTANTS
    BlockLen,   \* the bytes of a block
    ChunkLen,   \* the bytes of one sftp_write, 32768 in the source
    SizeMax     \* the largest size_t

ASSUME SftpWriteAssumption ==
    /\ BlockLen \in Nat \ {0} /\ ChunkLen \in Nat \ {0}
    /\ SizeMax \in Nat /\ BlockLen <= SizeMax \div 2

\* The bytes of a block are their own positions.
Block == [i \in 1 .. BlockLen |-> i]

\* sentBytes, what the file holds, and as a history whether an error came after
\* bytes were sent.
Sending == [sent : 0 .. SizeMax, bytes : Seq(1 .. BlockLen), late : BOOLEAN]
NothingSent == [sent |-> 0, bytes |-> <<>>, late |-> FALSE]

SendDone(s) == s.sent >= BlockLen

\* sftp_write takes the next chunk, to where the file ends.
SendChunk(s) ==
    LET n == IF BlockLen - s.sent < ChunkLen THEN BlockLen - s.sent ELSE ChunkLen
    IN [sent |-> s.sent + n, bytes |-> s.bytes \o SubSeq(Block, s.sent + 1, s.sent + n),
        late |-> s.late]

\* It fails: as a size_t, -1 is no less than 0, and is added.
SendError(s) ==
    [sent |-> (s.sent + SizeMax) % (SizeMax + 1), bytes |-> s.bytes,
     late |-> s.late \/ s.sent > 0]

AsInt(size) == IF size > SizeMax \div 2 THEN size - SizeMax - 1 ELSE size

\* Mutant: the result is compared as it is.
SendAnswerUnsigned(s) == IF s.sent < 0 THEN "error" ELSE "ok"

SendAnswer(s) == IF AsInt(s.sent) < 0 THEN "error" ELSE "ok"
=============================================================================
