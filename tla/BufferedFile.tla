----------------------------- MODULE BufferedFile -----------------------------
(***************************************************************************)
(* What a file promises to the programs that use it: bytes that every      *)
(* operation sees at once, and a saved version that a crash falls back to. *)
(***************************************************************************)
EXTENDS Integers, SequencesExt

CONSTANT Absent     \* no such file

VARIABLES
    data,       \* the bytes as the operations see them
    durable,    \* the bytes a later mount finds
    call        \* the last operation, its offset or size, its bytes, its success

Call(op, at, bytes) == [op |-> op, at |-> at, bytes |-> bytes, ok |-> TRUE]
FailedCall(op, at, bytes) == [Call(op, at, bytes) EXCEPT !.ok = FALSE]

\* bytes with buf written at offset; a gap in between reads as zeroes.
Overwrite(bytes, offset, buf) ==
    [k \in 1 .. Max({Len(bytes), offset + Len(buf)}) |->
        IF k > offset /\ k <= offset + Len(buf) THEN buf[k - offset]
        ELSE IF k <= Len(bytes) THEN bytes[k] ELSE 0]

Resized(bytes, n) == [k \in 1 .. n |-> IF k <= Len(bytes) THEN bytes[k] ELSE 0]

Slice(bytes, offset, n) == SubSeq(bytes, offset + 1, Min({offset + n, Len(bytes)}))

Init == data = Absent /\ durable = Absent /\ call = Call("mount", 0, <<>>)

Is(op) == data # Absent /\ call'.op = op /\ call'.ok

\* Any operation may save the bytes.
MaySave == durable' \in {durable, data'}

Create == data = Absent /\ call' = Call("create", 0, <<>>) /\ data' = <<>> /\ UNCHANGED durable

Open == Is("open") /\ UNCHANGED <<data, durable>>

OpenTruncated == Is("opentrunc") /\ data' = <<>> /\ UNCHANGED durable

\* A write that answers an error may have been taken all the same.
Write ==
    /\ data # Absent /\ call'.op = "write"
    /\ data' = Overwrite(data, call'.at, call'.bytes)
    /\ call'.ok => MaySave
    /\ ~call'.ok => UNCHANGED durable

Truncate == Is("truncate") /\ data' = Resized(data, call'.at) /\ durable' \in {durable, data}

Read ==
    /\ Is("read") /\ durable' = data /\ UNCHANGED data
    /\ \E n \in 0 .. Len(data) : call'.bytes = Slice(data, call'.at, n)

GetAttr == Is("getattr") /\ call'.at = Len(data) /\ MaySave /\ UNCHANGED data

Flush == Is("flush") /\ MaySave /\ UNCHANGED data

\* Closing a file for writing saves it.
Release == Is("release") /\ durable' = data /\ UNCHANGED data

Unlink == Is("unlink") /\ data' = Absent /\ durable' = Absent

\* Nothing is lost by an operation that fails.
Fails ==
    /\ data # Absent /\ ~call'.ok
    /\ call'.op \in {"truncate", "read", "getattr", "flush", "release", "unlink"}
    /\ MaySave /\ UNCHANGED data

Crash == call' = Call("mount", 0, <<>>) /\ data' = durable /\ UNCHANGED durable

Next ==
    \/ Create \/ Open \/ OpenTruncated
    \/ Write \/ Truncate
    \/ Read \/ GetAttr
    \/ Flush \/ Release
    \/ Unlink \/ Fails \/ Crash

Spec == Init /\ [][Next]_<<data, durable, call>>
=============================================================================
