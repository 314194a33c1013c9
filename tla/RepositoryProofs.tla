-------------------------- MODULE RepositoryProofs --------------------------
(***************************************************************************)
(* Proofs about Repository, for any machines, action files and archives,   *)
(* any sizes of blocks and chunks, and any number of failures.             *)
(***************************************************************************)
EXTENDS Repository, TLAPS, SequenceTheorems

-----------------------------------------------------------------------------
(***************************************************************************)
(* Sending a block.  Without an error, or with one before the first chunk, *)
(* the file has the first bytes of the block, or the counter is what -1    *)
(* becomes.                                                                *)
(***************************************************************************)
Faithful(s) ==
    \/ s.late
    \/ s.sent <= BlockLen /\ s.bytes = SubSeq(Block, 1, s.sent)
    \/ s.sent = SizeMax

LEMMA Sizes ==
    /\ BlockLen \in Nat /\ BlockLen >= 1 /\ ChunkLen \in Nat /\ ChunkLen >= 1
    /\ SizeMax \in Nat /\ BlockLen < SizeMax /\ SizeMax > SizeMax \div 2
<1>1. /\ BlockLen \in Nat \ {0} /\ ChunkLen \in Nat \ {0}
      /\ SizeMax \in Nat /\ BlockLen <= SizeMax \div 2
  BY SftpWriteAssumption
<1>2. QED
  BY <1>1

LEMMA BlockType == Block \in Seq(1 .. BlockLen) /\ Len(Block) = BlockLen
<1>1. Block \in [1 .. BlockLen -> 1 .. BlockLen]
  BY DEF Block
<1>2. QED
  BY <1>1, Sizes

LEMMA NothingSentType == NothingSent \in Sending /\ Faithful(NothingSent)
<1>1. SubSeq(Block, 1, 0) = <<>>
  BY SubSeqEmpty
<1>2. <<>> \in Seq(1 .. BlockLen) /\ 0 \in 0 .. SizeMax /\ 0 <= BlockLen
  BY Sizes
<1>3. QED
  BY <1>1, <1>2 DEF NothingSent, Sending, Faithful

LEMMA SendChunkType ==
  ASSUME NEW s \in Sending, ~SendDone(s)
  PROVE  SendChunk(s) \in Sending /\ (Faithful(s) => Faithful(SendChunk(s)))
<1> DEFINE n == IF BlockLen - s.sent < ChunkLen THEN BlockLen - s.sent ELSE ChunkLen
           t == SubSeq(Block, s.sent + 1, s.sent + n)
<1>1. s.sent \in Nat /\ s.sent < BlockLen /\ s.bytes \in Seq(1 .. BlockLen) /\ s.late \in BOOLEAN
  BY Sizes DEF Sending, SendDone
<1>2. n \in Nat /\ n >= 1 /\ s.sent + n \in Nat /\ s.sent + n <= BlockLen
  BY <1>1, Sizes
<1> HIDE DEF n
<1>3. \A i \in s.sent + 1 .. s.sent + n : Block[i] \in 1 .. BlockLen
  BY <1>1, <1>2, Sizes DEF Block
<1>4. t \in Seq(1 .. BlockLen)
  <2>1. s.sent + 1 \in Int /\ s.sent + n \in Int
    BY <1>1, <1>2
  <2>2. QED
    BY <1>3, <2>1, SubSeqProperties
<1> HIDE DEF t
<1>5. SendChunk(s) = [sent |-> s.sent + n, bytes |-> s.bytes \o t, late |-> s.late]
  BY DEF SendChunk, n, t
<1>6. s.bytes \o t \in Seq(1 .. BlockLen)
  BY <1>1, <1>4
<1>7. s.sent + n \in 0 .. SizeMax
  BY <1>2, Sizes
<1>8. SendChunk(s) \in Sending
  BY <1>1, <1>5, <1>6, <1>7 DEF Sending
<1>9. SubSeq(Block, 1, s.sent) \o t = SubSeq(Block, 1, s.sent + n)
  <2>1. 1 \in 1 .. Len(Block) + 1 /\ s.sent \in 1 - 1 .. Len(Block) /\ s.sent + n \in s.sent .. Len(Block)
    BY <1>1, <1>2, BlockType, Sizes
  <2>2. QED
    BY <2>1, BlockType, ConcatAdjacentSubSeq DEF t
<1>10. ASSUME Faithful(s) PROVE Faithful(SendChunk(s))
  <2>1. s.late \/ s.bytes = SubSeq(Block, 1, s.sent)
    BY <1>1, <1>10, Sizes DEF Faithful
  <2>2. /\ SendChunk(s).late = s.late /\ SendChunk(s).sent = s.sent + n
        /\ SendChunk(s).bytes = s.bytes \o t
    BY <1>5
  <2>3. QED
    BY <1>2, <1>9, <2>1, <2>2 DEF Faithful
<1>11. QED
  BY <1>8, <1>10

LEMMA SendErrorType ==
  ASSUME NEW s \in Sending, ~SendDone(s)
  PROVE  SendError(s) \in Sending /\ (Faithful(s) => Faithful(SendError(s)))
<1>1. s.sent \in Nat /\ s.sent < BlockLen /\ s.bytes \in Seq(1 .. BlockLen) /\ s.late \in BOOLEAN
  BY Sizes DEF Sending, SendDone
<1>2. (s.sent + SizeMax) % (SizeMax + 1) \in 0 .. SizeMax
  BY <1>1, Sizes
<1>3. s.sent > 0 \/ (s.sent + SizeMax) % (SizeMax + 1) = SizeMax
  <2>1. \A k \in Nat : k % (k + 1) = k
    OBVIOUS
  <2>2. s.sent = 0 => s.sent + SizeMax = SizeMax
    BY Sizes
  <2>3. SizeMax % (SizeMax + 1) = SizeMax
    BY <2>1, Sizes
  <2>4. CASE s.sent = 0
    BY <2>2, <2>3, <2>4
  <2>5. QED
    BY <1>1, <2>4
<1>4. /\ SendError(s).sent = (s.sent + SizeMax) % (SizeMax + 1) /\ SendError(s).bytes = s.bytes
      /\ SendError(s).late = (s.late \/ s.sent > 0)
  BY DEF SendError
<1>5. SendError(s) \in Sending
  BY <1>1, <1>2 DEF SendError, Sending
<1>6. Faithful(SendError(s))
  BY <1>3, <1>4 DEF Faithful
<1>7. QED
  BY <1>5, <1>6

\* A block whose put answered 0 is whole, unless an error came after bytes were sent.
LEMMA SentWhole ==
  ASSUME NEW s \in Sending, Faithful(s), SendDone(s), SendAnswer(s) = "ok", ~s.late
  PROVE  s.bytes = Block
<1>1. s.sent \in Nat /\ s.sent >= BlockLen
  BY Sizes DEF Sending, SendDone
<1>2. s.sent # SizeMax
  <2>1. s.sent = SizeMax => AsInt(s.sent) < 0
    BY Sizes DEF AsInt
  <2>2. QED
    BY <2>1 DEF SendAnswer
<1>3. s.sent = BlockLen /\ s.bytes = SubSeq(Block, 1, BlockLen)
  BY <1>1, <1>2, Sizes DEF Faithful
<1>4. QED
  BY <1>3, BlockType, SubSeqFull

-----------------------------------------------------------------------------
(***************************************************************************)
(* Types.                                                                  *)
(***************************************************************************)
USE DEF Places, States

LEMMA FilesFacts ==
    /\ NoFile \notin Singles /\ Singles \subseteq Files /\ Archives \subseteq Files
    /\ \A f \in Singles : HoldsOf(f) = {f}
    /\ \A f \in Archives : f \notin Singles
<1>1. Singles \intersect Archives = {} /\ NoFile \notin Files
  BY RepositoryAssumption
<1>2. QED
  BY <1>1 DEF HoldsOf, Files

LEMMA HoldsOfArchive ==
  ASSUME NEW f \in Archives
  PROVE  HoldsOf(f) \subseteq Singles /\ \A i \in 1 .. Len(Packed[f]) : Packed[f][i] \in HoldsOf(f)
<1>1. Packed[f] \in Seq(Singles)
  BY RepositoryAssumption
<1>2. HoldsOf(f) = {Packed[f][i] : i \in DOMAIN Packed[f]} /\ DOMAIN Packed[f] = 1 .. Len(Packed[f])
  BY <1>1 DEF HoldsOf, Range
<1>3. \A i \in 1 .. Len(Packed[f]) : Packed[f][i] \in Singles
  BY <1>1
<1>4. QED
  BY <1>2, <1>3

LEMMA HoldsOfType == ASSUME NEW f \in Files PROVE HoldsOf(f) \subseteq Singles
  BY FilesFacts, HoldsOfArchive DEF Files

LEMMA FaultsType == faults \in 0 .. MaxFaults /\ (Works \/ Fails) => faults' \in 0 .. MaxFaults
  BY RepositoryAssumption DEF Works, Fails

LEMMA TypeInit == Init => TypeOK
<1> SUFFICES ASSUME Init PROVE TypeOK
  OBVIOUS
<1>1. faults \in 0 .. MaxFaults
  BY RepositoryAssumption DEF Init
<1>2. sending \in [Clients -> Sending]
  BY NothingSentType DEF Init
<1>3. listing \in [Clients -> SUBSET Files] /\ pending \in [Clients -> SUBSET Singles]
  BY DEF Init
<1>4. QED
  BY <1>1, <1>2, <1>3 DEF Init, TypeOK

\* The end of a process, and its start.
LEMMA TypeMount == ASSUME TypeOK, NEW c \in Clients, Mount(c) \/ Stop(c) PROVE TypeOK'
<1>1. CASE Mount(c)
  BY <1>1 DEF TypeOK, Mount, Goes, Works, tickVars, putVars
<1>2. CASE Stop(c)
  BY <1>2, NothingSentType DEF TypeOK, Stop, Works
<1>3. QED
  BY <1>1, <1>2

\* The actions read from a part of an archive.
LEMMA PartOfArchive ==
  ASSUME NEW c, NEW f, ReadPartOfArchive(c, f)
  PROVE  \E actions \in SUBSET HoldsOf(f), absorbs \in BOOLEAN :
             actions \subseteq Singles /\ ActionAdded(c, actions, absorbs)
<1>1. f \in Archives
  BY DEF ReadPartOfArchive
<1>2. PICK n \in 1 .. Len(Packed[f]), between \in BOOLEAN :
        ActionAdded(c, {Packed[f][i] : i \in 1 .. n}, between /\ IsLast(c, f))
  BY DEF ReadPartOfArchive
<1>3. Len(Packed[f]) \in Nat
  BY <1>1, RepositoryAssumption
<1>4. {Packed[f][i] : i \in 1 .. n} \subseteq HoldsOf(f) /\ HoldsOf(f) \subseteq Singles
  BY <1>1, <1>3, HoldsOfArchive
<1>5. (between /\ IsLast(c, f)) \in BOOLEAN
  BY DEF IsLast
<1>6. QED
  BY <1>2, <1>4, <1>5

\* A step of a tick, which leaves files and puts alone.
LEMMA TypeTick == ASSUME TypeOK, NEW c \in Clients, Tick(c) PROVE TypeOK'
<1> USE DEF putVars
<1>1. faults \in 0 .. MaxFaults
  BY DEF TypeOK
<1>2. CASE Scan(c)
  <2>1. PICK found \in SUBSET Unhandled(c) \ {{}} :
          /\ listing' = [listing EXCEPT ![c] = found] /\ todo' = [todo EXCEPT ![c] = found]
          /\ Works \/ Fails
    BY <1>2 DEF Scan
  <2>2. found \subseteq Files /\ faults' \in 0 .. MaxFaults
    BY <1>1, <2>1, FaultsType DEF Unhandled
  <2>3. QED
    BY <1>2, <2>1, <2>2 DEF Scan, TypeOK, Goes
<1>3. CASE ScanDone(c)
  BY <1>3 DEF ScanDone, TypeOK, Goes, Works
<1>4. ASSUME NEW f \in Files,
             ReadWhole(c, f) \/ PassOver(c, f) \/ ReadPart(c, f) \/ ReadPartOfArchive(c, f)
      PROVE  TypeOK'
  <2>1. /\ NextFile(c, f) /\ faults' \in 0 .. MaxFaults
        /\ UNCHANGED missed \/ Misses(c, f)
    BY <1>1, <1>4, FaultsType DEF ReadWhole, PassOver, ReadPart, ReadPartOfArchive
  <2>2. \/ UNCHANGED <<pending, logged>>
        \/ \E actions \in SUBSET Singles, absorbs \in BOOLEAN : ActionAdded(c, actions, absorbs)
    <3>1. CASE ReadWhole(c, f)
      BY <3>1, HoldsOfType DEF ReadWhole, IsLast
    <3>2. CASE PassOver(c, f)
      BY <3>2 DEF PassOver
    <3>3. CASE ReadPart(c, f)
      BY <3>3 DEF ReadPart, IsLast
    <3>4. CASE ReadPartOfArchive(c, f)
      BY <3>4, PartOfArchive
    <3>5. QED
      BY <1>4, <3>1, <3>2, <3>3, <3>4
  <2>3. pending' \in [Clients -> SUBSET Singles] /\ logged' \in [Clients -> SUBSET Singles]
    <3>1. pending \in [Clients -> SUBSET Singles] /\ logged \in [Clients -> SUBSET Singles]
      BY DEF TypeOK
    <3>2. QED
      BY <2>2, <3>1 DEF ActionAdded
  <2>4. missed' \in [Clients -> SUBSET Files]
    BY <2>1 DEF TypeOK, Misses
  <2>5. QED
    BY <2>1, <2>3, <2>4 DEF TypeOK, NextFile
<1>5. QED
  BY <1>2, <1>3, <1>4 DEF Tick

\* What a block becomes, and the action file that follows it.
LEMMA TypeBlockStored ==
  ASSUME TypeOK, NEW c \in Clients, NEW outcome, NEW isLate, BlockStored(c, outcome, isLate),
         outcome.file \in States, Works \/ Fails
  PROVE  TypeOK'
<1>1. faults' \in 0 .. MaxFaults
  BY FaultsType DEF TypeOK
<1>2. putting[c] \in Singles /\ putting[c] \in Files
  BY FilesFacts DEF BlockStored, TypeOK
<1>3. blocks' \in [Singles -> States]
  BY <1>2 DEF BlockStored, TypeOK
<1>4. CASE outcome.answer = "ok"
  BY <1>1, <1>2, <1>3, <1>4 DEF BlockStored, TypeOK, Goes, tickVars
<1>5. CASE outcome.answer # "ok"
  BY <1>1, <1>2, <1>3, <1>5, NothingSentType DEF BlockStored, TypeOK, Goes, EndsPut, tickVars
<1>6. QED
  BY <1>4, <1>5

LEMMA TypeActionStored ==
  ASSUME TypeOK, NEW c \in Clients, NEW outcome, ActionStored(c, outcome),
         outcome.file \in States, Works \/ Fails
  PROVE  TypeOK'
<1>1. faults' \in 0 .. MaxFaults
  BY FaultsType DEF TypeOK
<1>2. putting[c] \in Singles /\ putting[c] \in Files
  BY FilesFacts DEF ActionStored, TypeOK, Goes
<1>3. files' \in [Files -> States]
  BY <1>2 DEF ActionStored, TypeOK
<1>4. CASE outcome.answer = "ok"
  BY <1>1, <1>2, <1>3, <1>4, NothingSentType DEF ActionStored, TypeOK, Goes, EndsPut
<1>5. CASE outcome.answer # "ok"
  BY <1>1, <1>2, <1>3, <1>5, NothingSentType DEF ActionStored, TypeOK, Goes, EndsPut
<1>6. QED
  BY <1>4, <1>5

LEMMA TypePutBlock ==
  ASSUME TypeOK, NEW c \in Clients, NEW f \in Singles, PutBlock(c, f) PROVE TypeOK'
  BY FilesFacts DEF TypeOK, PutBlock, Goes, Works, tickVars

LEMMA TypeSendBlock == ASSUME TypeOK, NEW c \in Clients, SendBlock(c) PROVE TypeOK'
<1>1. sending[c] \in Sending /\ ~SendDone(sending[c])
  BY DEF SendBlock, TypeOK
<1>2. SendChunk(sending[c]) \in Sending /\ SendError(sending[c]) \in Sending
  BY <1>1, SendChunkType, SendErrorType
<1>3. faults' \in 0 .. MaxFaults /\ sending' \in [Clients -> Sending]
  BY <1>2, FaultsType DEF SendBlock, TypeOK
<1>4. QED
  BY <1>3 DEF SendBlock, TypeOK, tickVars

\* What the puts of either destination can come to.
LEMMA Outcomes ==
    /\ Stored.file \in States /\ Stored.answer = "ok" /\ Stored.file = "whole"
    /\ \A o \in LocalFailures \union SshFailures :
        o.file \in {"torn", "whole"} /\ o.answer \in {"ok", "error"}
    /\ \A o \in SshFailures : o.answer = "error"
    /\ \A o \in LocalFailures : o.file = "torn"
  BY DEF Stored, LocalFailures, SshFailures, PutOutcome

LEMMA TypePut == ASSUME TypeOK, NEW c \in Clients, Put(c) PROVE TypeOK'
<1>1. CASE LocalBlock(c)
  BY <1>1, TypeBlockStored, Outcomes DEF LocalBlock
<1>2. CASE SshBlock(c)
  <2> DEFINE o == PutOutcome(IF sending[c].bytes = Block THEN "whole" ELSE "torn", SendAnswer(sending[c]))
  <2>1. o.file \in States
    BY DEF PutOutcome
  <2>2. BlockStored(c, o, sending[c].late) /\ Works
    BY <1>2 DEF SshBlock
  <2>3. QED
    BY <2>1, <2>2, TypeBlockStored
<1>3. CASE PutAction(c)
  BY <1>3, TypeActionStored, Outcomes DEF PutAction, Failures
<1>4. QED
  BY <1>1, <1>2, <1>3, TypeSendBlock DEF Put

LEMMA TypeOthers ==
  ASSUME TypeOK, NEW f \in Files, Copy(f) \/ CopyDone(f) \/ Delete(f) PROVE TypeOK'
<1>1. files' \in [Files -> States]
  BY DEF TypeOK, Copy, CopyDone, Delete
<1>2. UNCHANGED <<at, tickVars, putVars, faults>>
  BY DEF Copy, CopyDone, Delete
<1>3. QED
  BY <1>1, <1>2 DEF TypeOK, tickVars, putVars

LEMMA TypeStep == TypeOK /\ [Next]_vars => TypeOK'
<1> SUFFICES ASSUME TypeOK, [Next]_vars PROVE TypeOK'
  OBVIOUS
<1>1. CASE UNCHANGED vars
  BY <1>1 DEF TypeOK, vars, tickVars, putVars
<1>2. ASSUME NEW c \in Clients, Mount(c) \/ Stop(c) \/ Tick(c) \/ Put(c) PROVE TypeOK'
  BY <1>2, TypeMount, TypeTick, TypePut
<1>3. ASSUME NEW c \in Clients, NEW f \in Singles, PutBlock(c, f) PROVE TypeOK'
  BY <1>3, TypePutBlock
<1>4. CASE (\E f \in Archives : Copy(f) \/ CopyDone(f)) \/ \E f \in Singles : Delete(f)
  BY <1>4, TypeOthers, FilesFacts
<1>5. QED
  BY <1>1, <1>2, <1>3, <1>4 DEF Next

\* Every variable keeps its type, and what a tick or a put keeps is there only while
\* it runs (destLocalTick, destSshTick, the puts of dest_local.c and dest_ssh.c).
THEOREM TypeCorrect == Spec => []TypeOK
  BY TypeInit, TypeStep, PTL DEF Spec

-----------------------------------------------------------------------------
(***************************************************************************)
(* What a client has read.  HandledIsKnown is not inductive: the files of  *)
(* a tick are marked at its end, so that those it is done with must be     *)
(* known before.  Nor is WaitsForUnreadable: it is the last file of a      *)
(* batch, in the middle of a tick, that takes what waits along.            *)
(***************************************************************************)
Knows(c, f) == HoldsOf(f) \subseteq logged[c] \union pending[c]
Read(c) == (handled[c] \union (listing[c] \ todo[c])) \ missed[c]
ReadIsKnown == \A c \in Clients : \A f \in Read(c) : Knows(c, f)

NothingWaits ==
    \A c \in Clients : (at[c] # "scan" \/ todo[c] = {}) /\ pending[c] # {} => missed[c] # {}

\* A tick and a put are steps of one client; this is what either does to the others.
Apart(c) ==
    \A d \in Clients : d # c =>
        /\ at'[d] = at[d] /\ listing'[d] = listing[d] /\ todo'[d] = todo[d]
        /\ handled'[d] = handled[d] /\ missed'[d] = missed[d]
        /\ pending'[d] = pending[d] /\ logged'[d] = logged[d]

LEMMA ReadOfOthers ==
  ASSUME ReadIsKnown, NothingWaits, NEW c \in Clients, Apart(c),
         \A f \in Read(c)' : Knows(c, f)',
         (at'[c] # "scan" \/ todo'[c] = {}) /\ pending'[c] # {} => missed'[c] # {}
  PROVE  ReadIsKnown' /\ NothingWaits'
<1>1. ASSUME NEW d \in Clients, d # c
      PROVE  /\ \A f \in Read(d)' : Knows(d, f)'
             /\ (at'[d] # "scan" \/ todo'[d] = {}) /\ pending'[d] # {} => missed'[d] # {}
  BY <1>1 DEF Apart, ReadIsKnown, NothingWaits, Read, Knows
<1>2. QED
  BY <1>1 DEF ReadIsKnown, NothingWaits

\* A step of a tick: what it is done with is known, or was missed.
LEMMA ReadTick ==
  ASSUME TypeOK, ReadIsKnown, NothingWaits, NEW c \in Clients, Tick(c)
  PROVE  ReadIsKnown' /\ NothingWaits'
<1> USE DEF Read, Knows
<1>1. CASE Scan(c)
  <2>1. PICK found \in SUBSET Unhandled(c) \ {{}} :
          listing' = [listing EXCEPT ![c] = found] /\ todo' = [todo EXCEPT ![c] = found]
    BY <1>1 DEF Scan
  <2>2. /\ at[c] = "idle" /\ at'[c] = "scan" /\ listing[c] = {} /\ listing'[c] = found /\ todo'[c] = found
        /\ UNCHANGED <<handled, pending, logged, missed>> /\ Apart(c)
    BY <1>1, <2>1 DEF Scan, TypeOK, Goes, Apart
  <2>3. Read(c)' \subseteq Read(c)
    BY <2>2
  <2>4. QED
    BY <2>2, <2>3, ReadOfOthers DEF ReadIsKnown, NothingWaits
<1>2. CASE ScanDone(c)
  <2>1. /\ at[c] = "scan" /\ todo[c] = {} /\ at'[c] = "idle" /\ listing'[c] = {}
        /\ handled'[c] = handled[c] \union listing[c]
        /\ UNCHANGED <<todo, pending, logged, missed>> /\ Apart(c)
    BY <1>2 DEF ScanDone, TypeOK, Goes, Apart
  <2>2. Read(c)' = Read(c)
    BY <2>1
  <2>3. QED
    BY <2>1, <2>2, ReadOfOthers DEF ReadIsKnown, NothingWaits
<1>3. ASSUME NEW f \in Files, NextFile(c, f),
             \/ UNCHANGED <<pending, logged>> /\ Misses(c, f)
             \/ \E actions \in SUBSET Singles, absorbs \in BOOLEAN :
                    /\ ActionAdded(c, actions, absorbs)
                    /\ \/ Misses(c, f)
                       \/ UNCHANGED missed /\ actions = HoldsOf(f) /\ absorbs = IsLast(c, f)
      PROVE  ReadIsKnown' /\ NothingWaits'
  <2>1. /\ at[c] = "scan" /\ at'[c] = "scan" /\ f \in todo[c] /\ todo'[c] = todo[c] \ {f}
        /\ UNCHANGED <<listing, handled>>
        /\ Apart(c)
    BY <1>3 DEF NextFile, TypeOK, ActionAdded, Misses, Apart
  <2>2. logged[c] \union pending[c] \subseteq logged'[c] \union pending'[c]
    BY <1>3 DEF TypeOK, ActionAdded
  <2>3. missed[c] \subseteq missed'[c] /\ (Misses(c, f) => f \in missed'[c])
    BY <1>3 DEF TypeOK, Misses
  <2>4. f \in missed'[c] \/ HoldsOf(f) \subseteq logged'[c] \union pending'[c]
    BY <1>3, <2>3 DEF TypeOK, ActionAdded
  <2>5. Read(c)' \subseteq Read(c) \union ({f} \ missed'[c])
    BY <2>1, <2>3
  <2>6. \A g \in Read(c)' : Knows(c, g)'
    BY <2>2, <2>4, <2>5 DEF ReadIsKnown
  <2>7. todo'[c] = {} /\ pending'[c] # {} => missed'[c] # {}
    <3>1. CASE Misses(c, f)
      BY <2>3, <3>1
    <3>2. CASE ~Misses(c, f) /\ todo'[c] = {}
      <4>1. todo[c] = {f}
        BY <2>1, <3>2
      <4>2. pending'[c] = {}
        BY <1>3, <3>2, <4>1 DEF ActionAdded, IsLast, TypeOK
      <4>3. QED
        BY <4>2
    <3>3. QED
      BY <3>1, <3>2
  <2>8. QED
    BY <2>1, <2>6, <2>7, ReadOfOthers
<1>4. ASSUME NEW f \in Files,
             ReadWhole(c, f) \/ PassOver(c, f) \/ ReadPart(c, f) \/ ReadPartOfArchive(c, f)
      PROVE  ReadIsKnown' /\ NothingWaits'
  <2>1. CASE ReadWhole(c, f)
    <3>1. HoldsOf(f) \in SUBSET Singles /\ IsLast(c, f) \in BOOLEAN
      BY HoldsOfType DEF IsLast
    <3>2. QED
      BY <1>3, <2>1, <3>1 DEF ReadWhole
  <2>2. CASE PassOver(c, f)
    BY <1>3, <2>2 DEF PassOver
  <2>3. CASE ReadPart(c, f)
    <3>1. {} \in SUBSET Singles /\ IsLast(c, f) \in BOOLEAN
      BY DEF IsLast
    <3>2. QED
      BY <1>3, <2>3, <3>1 DEF ReadPart
  <2>4. CASE ReadPartOfArchive(c, f)
    <3>1. \E actions \in SUBSET Singles, absorbs \in BOOLEAN : ActionAdded(c, actions, absorbs)
      BY <2>4, PartOfArchive
    <3>2. QED
      BY <1>3, <2>4, <3>1 DEF ReadPartOfArchive
  <2>5. QED
    BY <1>4, <2>1, <2>2, <2>3, <2>4
<1>5. QED
  BY <1>1, <1>2, <1>4 DEF Tick

\* A put that is answered with 0 marks and logs one action file.
LEMMA ReadPut ==
  ASSUME TypeOK, ReadIsKnown, NothingWaits, NEW c \in Clients,
         Put(c) \/ \E f \in Singles : PutBlock(c, f)
  PROVE  ReadIsKnown' /\ NothingWaits'
<1> USE DEF Read, Knows
<1>1. ASSUME NEW outcome, ActionStored(c, outcome)
      PROVE  ReadIsKnown' /\ NothingWaits'
  <2>1. /\ at[c] = "action" /\ at'[c] = "idle" /\ UNCHANGED <<listing, todo, pending, missed>>
        /\ \/ handled'[c] = handled[c] \union {putting[c]} /\ logged'[c] = logged[c] \union {putting[c]}
           \/ UNCHANGED <<handled, logged>>
        /\ Apart(c)
    BY <1>1 DEF ActionStored, TypeOK, Goes, Apart
  <2>2. putting[c] \in Singles
    BY <2>1 DEF TypeOK
  <2>3. HoldsOf(putting[c]) = {putting[c]}
    BY <2>2, FilesFacts
  <2>4. \A g \in Read(c)' : Knows(c, g)'
    BY <2>1, <2>3 DEF ReadIsKnown
  <2>5. QED
    BY <2>1, <2>4, ReadOfOthers DEF NothingWaits
<1>2. ASSUME UNCHANGED tickVars, at[c] # "scan", at'[c] # "scan", \A d \in Clients : d # c => at'[d] = at[d]
      PROVE  ReadIsKnown' /\ NothingWaits'
  <2>1. Apart(c)
    BY <1>2 DEF Apart, tickVars
  <2>2. QED
    BY <1>2, <2>1, ReadOfOthers DEF tickVars, ReadIsKnown, NothingWaits
<1>3. CASE PutAction(c)
  BY <1>1, <1>3 DEF PutAction
<1>4. CASE SendBlock(c)
  BY <1>2, <1>4 DEF SendBlock
<1>5. ASSUME NEW outcome, NEW isLate, BlockStored(c, outcome, isLate) PROVE ReadIsKnown' /\ NothingWaits'
  BY <1>2, <1>5 DEF BlockStored, TypeOK, Goes
<1>6. CASE LocalBlock(c) \/ SshBlock(c)
  BY <1>5, <1>6 DEF LocalBlock, SshBlock
<1>7. CASE \E f \in Singles : PutBlock(c, f)
  BY <1>2, <1>7 DEF PutBlock, TypeOK, Goes
<1>8. QED
  BY <1>3, <1>4, <1>6, <1>7 DEF Put

LEMMA ReadMount ==
  ASSUME TypeOK, ReadIsKnown, NothingWaits, NEW c \in Clients, Mount(c) \/ Stop(c)
  PROVE  ReadIsKnown' /\ NothingWaits'
<1>1. CASE Mount(c)
  <2>1. Apart(c) /\ UNCHANGED tickVars /\ at[c] = "down" /\ at'[c] = "idle"
    BY <1>1 DEF Mount, Goes, Apart, TypeOK, tickVars
  <2>2. QED
    BY <2>1, ReadOfOthers DEF tickVars, ReadIsKnown, NothingWaits, Read, Knows
<1>2. CASE Stop(c)
  <2>1. Apart(c) /\ listing'[c] = {} /\ handled'[c] = {} /\ pending'[c] = {}
    BY <1>2 DEF Stop, Apart, TypeOK
  <2>2. QED
    BY <2>1, ReadOfOthers DEF Read
<1>3. QED
  BY <1>1, <1>2

LEMMA ReadInit == Init => ReadIsKnown /\ NothingWaits
  BY DEF Init, ReadIsKnown, NothingWaits, Read

LEMMA ReadStep == TypeOK /\ ReadIsKnown /\ NothingWaits /\ [Next]_vars => ReadIsKnown' /\ NothingWaits'
<1> SUFFICES ASSUME TypeOK, ReadIsKnown, NothingWaits, [Next]_vars PROVE ReadIsKnown' /\ NothingWaits'
  OBVIOUS
<1>1. CASE UNCHANGED vars \/ (\E f \in Archives : Copy(f) \/ CopyDone(f)) \/ \E f \in Singles : Delete(f)
  <2>1. UNCHANGED <<at, tickVars>>
    BY <1>1 DEF vars, Copy, CopyDone, Delete
  <2>2. QED
    BY <2>1 DEF tickVars, ReadIsKnown, NothingWaits, Read, Knows
<1>2. QED
  BY <1>1, ReadTick, ReadPut, ReadMount DEF Next

\* A client will not look again at a file only if it has all actions of it, or met
\* it when it could not be read in full (dest_local.c:564-571, dest_ssh.c:806-813),
\* whatever ticks and puts of other machines do in between.
THEOREM HandledActionsKnown == Spec => []HandledIsKnown
<1>1. ReadIsKnown => HandledIsKnown
  BY DEF ReadIsKnown, HandledIsKnown, Read, Knows
<1>2. QED
  BY <1>1, ReadInit, ReadStep, TypeCorrect, PTL DEF Spec

\* Between ticks an action waits only if its client met a file it could not read
\* (the moreInThisBatch of actions.c:431).
THEOREM OnlyUnreadableWait == Spec => []WaitsForUnreadable
<1>1. NothingWaits => WaitsForUnreadable
  BY DEF NothingWaits, WaitsForUnreadable
<1>2. QED
  BY <1>1, ReadInit, ReadStep, TypeCorrect, PTL DEF Spec

-----------------------------------------------------------------------------
(***************************************************************************)
(* What is stored.  A name is put once, by its owner, and its block before *)
(* its action file.  An action in memory, or in an archive somebody began  *)
(* to write, was in an action file that was stored in full, and is kept.   *)
(***************************************************************************)
Has(c) == logged[c] \union pending[c]

Putting ==
    /\ \A c \in Clients :
        /\ at[c] \in {"block", "action"} => putting[c] \in Singles /\ Owner[putting[c]] = c
        /\ at[c] = "block" => files[putting[c]] = "none" /\ blocks[putting[c]] # "none"
        /\ at[c] = "action" => files[putting[c]] = "torn"
        /\ Faithful(sending[c])
    /\ \A a \in Singles : blocks[a] = "none" => files[a] = "none"

BlocksBehindFiles ==
    \A a \in Singles : files[a] # "none" => blocks[a] = "whole" \/ a \in late

InArchiveIsKept ==
    \A f \in Archives : Present(f) => \A a \in HoldsOf(f) : Kept(a)

HeldIsKept == \A c \in Clients : \A a \in Has(c) : Kept(a) \/ a \in lied

\* What was put once is there for ever, though it may have been deleted.
HeldWasPut ==
    /\ \A c \in Clients : \A a \in Has(c) : files[a] # "none"
    /\ \A f \in Archives : files[f] # "none" => \A a \in HoldsOf(f) : files[a] # "none"

StoreInv == Putting /\ BlocksBehindFiles /\ InArchiveIsKept /\ HeldIsKept /\ HeldWasPut

LEMMA StoreInit == Init => StoreInv
<1> SUFFICES ASSUME Init PROVE StoreInv
  OBVIOUS
<1>1. \A c \in Clients : Faithful(sending[c])
  BY NothingSentType DEF Init
<1>2. \A c \in Clients : Has(c) = {}
  BY DEF Init, Has
<1>3. QED
  BY <1>1, <1>2, FilesFacts DEF Init, StoreInv, Putting, BlocksBehindFiles, InArchiveIsKept, HeldIsKept,
                               HeldWasPut, Present

\* Files that stay as they were keep what they kept.
LEMMA KeptGrows ==
  ASSUME \A f \in Files : files[f] = "whole" => files'[f] = "whole"
  PROVE  \A a \in Singles : Kept(a) => Kept(a)'
  BY DEF Kept, HoldsOf

\* A tick adds what is kept.
LEMMA StoreTick ==
  ASSUME TypeOK, StoreInv, NEW c \in Clients, Tick(c) PROVE StoreInv'
<1>1. UNCHANGED <<files, putVars>>
  BY DEF Tick, Scan, ScanDone, ReadWhole, PassOver, ReadPart, ReadPartOfArchive, NextFile
<1>2. \A d \in Clients : (at'[d] \in {"block", "action"} \/ at[d] \in {"block", "action"}) => at'[d] = at[d]
  BY DEF Tick, Scan, ScanDone, ReadWhole, PassOver, ReadPart, ReadPartOfArchive, NextFile, Goes, TypeOK
<1>3. Putting' /\ BlocksBehindFiles' /\ InArchiveIsKept'
  BY <1>1, <1>2 DEF StoreInv, Putting, BlocksBehindFiles, InArchiveIsKept, Present, Kept, putVars
<1>4. \A d \in Clients : \A a \in Has(d)' :
        a \in Has(d) \/ (a \in Singles /\ Kept(a) /\ files[a] # "none")
  <2>1. CASE UNCHANGED <<pending, logged>>
    BY <2>1 DEF Has
  <2>2. ASSUME NEW actions \in SUBSET Singles, NEW absorbs \in BOOLEAN, ActionAdded(c, actions, absorbs),
               \A a \in actions : Kept(a) /\ files[a] # "none"
        PROVE  \A d \in Clients : \A a \in Has(d)' :
                 a \in Has(d) \/ (a \in Singles /\ Kept(a) /\ files[a] # "none")
    BY <2>2 DEF ActionAdded, Has, TypeOK
  <2>3. ASSUME NEW f \in Files, ReadWhole(c, f)
        PROVE  HoldsOf(f) \in SUBSET Singles /\ IsLast(c, f) \in BOOLEAN /\ ActionAdded(c, HoldsOf(f), IsLast(c, f))
               /\ \A a \in HoldsOf(f) : Kept(a) /\ files[a] # "none"
    <3>1. files[f] = "whole"
      BY <2>3 DEF ReadWhole
    <3>2. \A a \in HoldsOf(f) : files[a] # "none"
      BY <3>1, FilesFacts DEF StoreInv, HeldWasPut, Files
    <3>3. \A a \in HoldsOf(f) : Kept(a)
      BY <3>1 DEF Kept
    <3>4. QED
      BY <2>3, <3>2, <3>3, HoldsOfType DEF ReadWhole, IsLast
  <2>4. ASSUME NEW f \in Files, ReadPart(c, f)
        PROVE  {} \in SUBSET Singles /\ IsLast(c, f) \in BOOLEAN /\ ActionAdded(c, {}, IsLast(c, f))
    BY <2>4 DEF ReadPart, IsLast
  <2>5. ASSUME NEW f \in Files, ReadPartOfArchive(c, f)
        PROVE  \E actions \in SUBSET Singles, absorbs \in BOOLEAN :
                 ActionAdded(c, actions, absorbs) /\ \A a \in actions : Kept(a) /\ files[a] # "none"
    <3>1. f \in Archives /\ files[f] = "torn"
      BY <2>5 DEF ReadPartOfArchive
    <3>2. \A a \in HoldsOf(f) : Kept(a) /\ files[a] # "none"
      BY <3>1 DEF StoreInv, InArchiveIsKept, HeldWasPut, Present
    <3>3. QED
      BY <2>5, <3>2, PartOfArchive
  <2>6. CASE Scan(c) \/ ScanDone(c) \/ \E f \in Files : PassOver(c, f)
    BY <2>1, <2>6 DEF Scan, ScanDone, PassOver
  <2>7. CASE \E f \in Files : ReadWhole(c, f)
    BY <2>2, <2>3, <2>7
  <2>8. CASE \E f \in Files : ReadPart(c, f)
    BY <2>2, <2>4, <2>8
  <2>9. CASE \E f \in Files : ReadPartOfArchive(c, f)
    BY <2>2, <2>5, <2>9
  <2>10. QED
    BY <2>6, <2>7, <2>8, <2>9 DEF Tick
<1>5. HeldIsKept' /\ HeldWasPut'
  BY <1>1, <1>4 DEF StoreInv, HeldIsKept, HeldWasPut, Kept, putVars
<1>6. QED
  BY <1>3, <1>5 DEF StoreInv

LEMMA StoreMount ==
  ASSUME TypeOK, StoreInv, NEW c \in Clients, Mount(c) \/ Stop(c) PROVE StoreInv'
<1>1. UNCHANGED <<files, blocks, lied, late>>
  BY DEF Mount, Stop, putVars
<1>2. \A d \in Clients : Has(d)' \subseteq Has(d)
  BY DEF Mount, Stop, Has, TypeOK, tickVars
<1>3. \A d \in Clients :
        \/ at'[d] \notin {"block", "action"}
        \/ at'[d] = at[d] /\ putting'[d] = putting[d]
  BY DEF Mount, Stop, Goes, TypeOK, putVars
<1>4. \A d \in Clients : sending'[d] = sending[d] \/ sending'[d] = NothingSent
  BY DEF Mount, Stop, TypeOK, putVars
<1>5. Putting'
  BY <1>1, <1>3, <1>4, NothingSentType DEF StoreInv, Putting
<1>6. QED
  BY <1>1, <1>2, <1>5 DEF StoreInv, BlocksBehindFiles, InArchiveIsKept, HeldIsKept, HeldWasPut, Kept, Present

LEMMA StorePutBlock ==
  ASSUME TypeOK, StoreInv, NEW c \in Clients, NEW f \in Singles, PutBlock(c, f) PROVE StoreInv'
<1>1. /\ at[c] = "idle" /\ at'[c] = "block" /\ putting'[c] = f /\ Owner[f] = c
      /\ blocks[f] = "none" /\ blocks' = [blocks EXCEPT ![f] = "torn"] /\ files[f] = "none"
      /\ UNCHANGED <<files, sending, lied, late, tickVars>>
      /\ \A d \in Clients : d # c => at'[d] = at[d] /\ putting'[d] = putting[d]
  BY DEF PutBlock, Goes, TypeOK, StoreInv, Putting
<1>2. \A a \in Singles : blocks'[a] = IF a = f THEN "torn" ELSE blocks[a]
  BY <1>1 DEF TypeOK
<1>3. Putting'
  BY <1>1, <1>2 DEF StoreInv, Putting
<1>4. BlocksBehindFiles'
  BY <1>1, <1>2 DEF StoreInv, BlocksBehindFiles
<1>5. QED
  BY <1>1, <1>3, <1>4 DEF StoreInv, InArchiveIsKept, HeldIsKept, HeldWasPut, Has, Kept, Present, tickVars

LEMMA StoreSendBlock ==
  ASSUME TypeOK, StoreInv, NEW c \in Clients, SendBlock(c) PROVE StoreInv'
<1>1. UNCHANGED <<files, at, blocks, putting, lied, late, tickVars>>
  BY DEF SendBlock
<1>2. sending[c] \in Sending /\ ~SendDone(sending[c]) /\ Faithful(sending[c])
  BY DEF SendBlock, TypeOK, StoreInv, Putting
<1>3. Faithful(SendChunk(sending[c])) /\ Faithful(SendError(sending[c]))
  BY <1>2, SendChunkType, SendErrorType
<1>4. \A d \in Clients : Faithful(sending[d])'
  <2>1. \A d \in Clients : \/ sending'[d] = sending[d]
                           \/ d = c /\ sending'[d] \in {SendChunk(sending[c]), SendError(sending[c])}
    BY DEF SendBlock, TypeOK
  <2>2. \A d \in Clients : Faithful(sending'[d])
    BY <1>3, <2>1 DEF StoreInv, Putting
  <2>3. QED
    BY <2>2 DEF Faithful
<1>5. Putting'
  BY <1>1, <1>4 DEF StoreInv, Putting
<1>6. QED
  BY <1>1, <1>5 DEF StoreInv, BlocksBehindFiles, InArchiveIsKept, HeldIsKept, HeldWasPut, Has, Kept, Present,
                    tickVars

\* The block is stored before the action file appears.
LEMMA StoreBlockStored ==
  ASSUME TypeOK, StoreInv, NEW c \in Clients, NEW outcome, NEW isLate \in BOOLEAN,
         BlockStored(c, outcome, isLate), outcome.file \in {"torn", "whole"},
         outcome.answer = "ok" /\ outcome.file # "whole" => isLate
  PROVE  StoreInv'
<1> DEFINE p == putting[c]
<1>1. /\ p \in Singles /\ p \in Files /\ p \notin Archives /\ Owner[p] = c /\ at[c] = "block" /\ files[p] = "none"
  BY FilesFacts DEF BlockStored, StoreInv, Putting
<1> HIDE DEF p
<1>2. \A a \in Singles : blocks'[a] = IF a = p THEN outcome.file ELSE blocks[a]
  BY <1>1 DEF BlockStored, TypeOK, p
<1>3. \A f \in Files : files'[f] = files[f] \/ (f = p /\ files'[f] = "torn" /\ outcome.answer = "ok")
  BY <1>1 DEF BlockStored, TypeOK, p
<1>4. \A d \in Clients : d # c => at'[d] = at[d] /\ putting'[d] = putting[d] /\ sending'[d] = sending[d]
  BY DEF BlockStored, Goes, EndsPut, TypeOK
<1>5. UNCHANGED <<lied, tickVars>>
  BY DEF BlockStored
<1>6. \A d \in Clients : d # c /\ at[d] \in {"block", "action"} => putting[d] # p
  BY <1>1 DEF StoreInv, Putting
<1>7. /\ sending'[c] \in {sending[c], NothingSent}
      /\ at'[c] = "idle" \/ (at'[c] = "action" /\ putting'[c] = p /\ files'[p] = "torn")
  BY <1>1 DEF BlockStored, Goes, EndsPut, TypeOK, p
<1>8. Putting'
  <2>1. \A d \in Clients : Faithful(sending[d])'
    BY <1>4, <1>7, NothingSentType DEF StoreInv, Putting, Faithful
  <2>2. \A d \in Clients : d # c =>
          /\ at'[d] \in {"block", "action"} => putting'[d] \in Singles /\ Owner[putting'[d]] = d
          /\ at'[d] = "block" => files'[putting'[d]] = "none" /\ blocks'[putting'[d]] # "none"
          /\ at'[d] = "action" => files'[putting'[d]] = "torn"
    BY <1>2, <1>3, <1>4, <1>6, FilesFacts DEF StoreInv, Putting
  <2>3. \A a \in Singles : blocks'[a] = "none" => files'[a] = "none"
    BY <1>1, <1>2, <1>3, FilesFacts DEF StoreInv, Putting
  <2>4. QED
    BY <1>1, <1>7, <2>1, <2>2, <2>3 DEF Putting
<1>9. BlocksBehindFiles'
  <2>1. late \subseteq late'
    BY DEF BlockStored
  <2>2. \A a \in Singles : a # p => files'[a] = files[a] /\ blocks'[a] = blocks[a]
    BY <1>2, <1>3, FilesFacts
  <2>3. files'[p] # "none" => blocks'[p] = "whole" \/ p \in late'
    <3>1. CASE outcome.answer = "ok"
      BY <1>1, <1>2, <3>1 DEF BlockStored, p
    <3>2. CASE outcome.answer # "ok"
      BY <1>1, <1>3, <3>2
    <3>3. QED
      BY <3>1, <3>2
  <2>4. QED
    BY <2>1, <2>2, <2>3 DEF StoreInv, BlocksBehindFiles
<1>10. \A a \in Singles : Kept(a) => Kept(a)'
  BY <1>1, <1>3, KeptGrows
<1>11. \A d \in Clients : Has(d)' = Has(d) /\ Has(d) \subseteq Singles
  BY <1>5 DEF Has, tickVars, TypeOK
<1>12. \A f \in Archives : files'[f] = files[f] /\ HoldsOf(f) \subseteq Singles
  BY <1>1, <1>3, FilesFacts, HoldsOfArchive
<1>13. InArchiveIsKept' /\ HeldIsKept'
  BY <1>5, <1>10, <1>11, <1>12 DEF StoreInv, InArchiveIsKept, HeldIsKept, Present
<1>14. HeldWasPut'
  <2>1. \A a \in Singles : files[a] # "none" => files'[a] # "none"
    BY <1>3, FilesFacts
  <2>2. QED
    BY <1>11, <1>12, <2>1 DEF StoreInv, HeldWasPut
<1>15. QED
  BY <1>8, <1>9, <1>13, <1>14 DEF StoreInv

\* The action file is filled, and the action is held if the put says so.
LEMMA StoreActionStored ==
  ASSUME TypeOK, StoreInv, NEW c \in Clients, NEW outcome, ActionStored(c, outcome),
         outcome.file \in {"torn", "whole"}
  PROVE  StoreInv'
<1>0. PICK p \in Singles : p = putting[c]
  BY DEF ActionStored, Goes, StoreInv, Putting
<1>1. /\ p \in Singles /\ p \in Files /\ p \notin Archives /\ Owner[p] = c /\ at[c] = "action" /\ files[p] = "torn"
  BY <1>0, FilesFacts DEF ActionStored, Goes, StoreInv, Putting
<1>2. \A f \in Files : files'[f] = IF f = p THEN outcome.file ELSE files[f]
  BY <1>0, <1>1 DEF ActionStored, TypeOK
<1>3. /\ \A d \in Clients : d # c => /\ at'[d] = at[d] /\ putting'[d] = putting[d] /\ sending'[d] = sending[d]
                                     /\ Has(d)' = Has(d)
      /\ at'[c] = "idle" /\ sending'[c] = NothingSent
      /\ UNCHANGED <<blocks, late>>
  BY DEF ActionStored, Goes, EndsPut, TypeOK, Has
<1>4. /\ lied \subseteq lied' /\ Has(c)' \subseteq Has(c) \union {p}
      /\ p \in Has(c)' \ Has(c) => outcome.file = "whole" \/ p \in lied'
  BY <1>0, <1>1 DEF ActionStored, TypeOK, Has
<1>5. \A d \in Clients : d # c /\ at[d] \in {"block", "action"} => putting[d] # p
  BY <1>1 DEF StoreInv, Putting
<1>6. Putting'
  <2>1. \A d \in Clients : Faithful(sending[d])'
    BY <1>3, NothingSentType DEF StoreInv, Putting, Faithful
  <2>2. \A d \in Clients : d # c =>
          /\ at'[d] \in {"block", "action"} => putting'[d] \in Singles /\ Owner[putting'[d]] = d
          /\ at'[d] = "block" => files'[putting'[d]] = "none" /\ blocks'[putting'[d]] # "none"
          /\ at'[d] = "action" => files'[putting'[d]] = "torn"
    BY <1>2, <1>3, <1>5, FilesFacts DEF StoreInv, Putting
  <2>3. \A a \in Singles : blocks'[a] = "none" => files'[a] = "none"
    BY <1>1, <1>2, <1>3, FilesFacts DEF StoreInv, Putting
  <2>4. QED
    BY <1>3, <2>1, <2>2, <2>3 DEF Putting
<1>7. BlocksBehindFiles'
  BY <1>1, <1>2, <1>3, FilesFacts DEF StoreInv, BlocksBehindFiles
<1>8. \A a \in Singles : Kept(a) => Kept(a)'
  BY <1>1, <1>2, KeptGrows
<1>9. \A f \in Archives : files'[f] = files[f] /\ HoldsOf(f) \subseteq Singles
  BY <1>1, <1>2, FilesFacts, HoldsOfArchive
<1>10. outcome.file = "whole" => Kept(p)'
  BY <1>1, <1>2, FilesFacts DEF Kept
<1>11. \A d \in Clients : Has(d) \subseteq Singles
  BY DEF Has, TypeOK
<1>12. InArchiveIsKept'
  BY <1>8, <1>9 DEF StoreInv, InArchiveIsKept, Present
<1>13. HeldIsKept'
  <2>1. \A d \in Clients : \A a \in Has(d) : Kept(a)' \/ a \in lied'
    BY <1>4, <1>8, <1>11 DEF StoreInv, HeldIsKept
  <2>2. p \in Has(c)' => Kept(p)' \/ p \in lied'
    BY <1>4, <1>10, <2>1
  <2>3. QED
    BY <1>3, <1>4, <2>1, <2>2 DEF HeldIsKept
<1>14. HeldWasPut'
  <2>1. \A a \in Singles : files[a] # "none" => files'[a] # "none"
    BY <1>2, FilesFacts
  <2>2. files'[p] # "none"
    BY <1>1, <1>2
  <2>3. QED
    BY <1>3, <1>4, <1>9, <1>11, <2>1, <2>2 DEF StoreInv, HeldWasPut
<1>15. QED
  BY <1>6, <1>7, <1>12, <1>13, <1>14 DEF StoreInv

LEMMA StorePut ==
  ASSUME TypeOK, StoreInv, NEW c \in Clients, Put(c) PROVE StoreInv'
<1>1. CASE LocalBlock(c)
  <2>1. \/ BlockStored(c, Stored, FALSE)
        \/ \E o \in LocalFailures : BlockStored(c, o, TRUE)
    BY <1>1 DEF LocalBlock
  <2>2. QED
    BY <2>1, StoreBlockStored, Outcomes
<1>2. CASE SshBlock(c)
  <2> DEFINE o == PutOutcome(IF sending[c].bytes = Block THEN "whole" ELSE "torn", SendAnswer(sending[c]))
  <2>1. sending[c] \in Sending /\ Faithful(sending[c]) /\ SendDone(sending[c])
    BY <1>2 DEF SshBlock, TypeOK, StoreInv, Putting
  <2>2. sending[c].late \in BOOLEAN /\ o.file \in {"torn", "whole"}
    BY <2>1 DEF Sending, PutOutcome
  <2>3. o.answer = SendAnswer(sending[c]) /\ (sending[c].bytes = Block => o.file = "whole")
    BY DEF PutOutcome
  <2>4. o.answer = "ok" /\ o.file # "whole" => sending[c].late
    BY <2>1, <2>3, SentWhole
  <2>5. BlockStored(c, o, sending[c].late)
    BY <1>2 DEF SshBlock
  <2>6. QED
    BY <2>2, <2>4, <2>5, StoreBlockStored
<1>3. CASE PutAction(c)
  <2>1. \/ ActionStored(c, Stored)
        \/ \E o \in LocalFailures \union SshFailures : ActionStored(c, o)
    BY <1>3 DEF PutAction, Failures
  <2>2. QED
    BY <2>1, StoreActionStored, Outcomes
<1>4. QED
  BY <1>1, <1>2, <1>3, StoreSendBlock DEF Put

\* An action file is deleted when an archive has it; what is copied is kept.
LEMMA StoreOthers ==
  ASSUME TypeOK, StoreInv,
         (\E f \in Archives : Copy(f) \/ CopyDone(f)) \/ \E f \in Singles : Delete(f)
  PROVE  StoreInv'
<1>1. UNCHANGED <<at, tickVars, putVars>>
  BY DEF Copy, CopyDone, Delete
<1>2. PICK f \in Files :
        /\ \A g \in Files : g # f => files'[g] = files[g]
        /\ \/ f \in Archives /\ files[f] = "none" /\ files'[f] = "torn"
              /\ \A a \in HoldsOf(f) : files[a] = "whole"
           \/ f \in Archives /\ files[f] = "torn" /\ files'[f] = "whole"
           \/ f \in Singles /\ files[f] = "whole" /\ files'[f] = "deleted"
              /\ \E g \in Archives : files[g] = "whole" /\ f \in HoldsOf(g)
  BY FilesFacts DEF Copy, CopyDone, Delete, TypeOK
<1>3. \A a \in Singles : Kept(a) => Kept(a)'
  <2>1. CASE f \in Archives
    BY <1>2, <2>1, FilesFacts, KeptGrows
  <2>2. ASSUME f \notin Archives, NEW a \in Singles, Kept(a) PROVE Kept(a)'
    <3>1. PICK g \in Files : a \in HoldsOf(g) /\ files[g] = "whole"
      BY <2>2 DEF Kept
    <3>2. CASE g # f
      BY <1>2, <3>1, <3>2 DEF Kept, HoldsOf
    <3>3. CASE g = f
      <4>1. PICK h \in Archives : files[h] = "whole" /\ f \in HoldsOf(h)
        BY <1>2, <2>2
      <4>2. a = f /\ h # f /\ h \in Files
        BY <1>2, <2>2, <3>1, <3>3, <4>1, FilesFacts
      <4>3. QED
        BY <1>2, <4>1, <4>2 DEF Kept, HoldsOf
    <3>4. QED
      BY <3>2, <3>3
  <2>3. QED
    BY <2>1, <2>2
<1>4. \A a \in Singles : (files'[a] = "none" <=> files[a] = "none")
                         /\ (files'[a] = "torn" <=> files[a] = "torn")
  BY <1>2, FilesFacts
<1>5. \A d \in Clients : Has(d)' = Has(d) /\ Has(d) \subseteq Singles
  BY <1>1 DEF Has, tickVars, TypeOK
<1>6. Putting'
  <2>1. \A d \in Clients : Faithful(sending[d])'
    BY <1>1 DEF StoreInv, Putting, Faithful, putVars
  <2>2. QED
    BY <1>1, <1>4, <2>1 DEF StoreInv, Putting, putVars
<1>7. BlocksBehindFiles'
  BY <1>1, <1>4 DEF StoreInv, BlocksBehindFiles, putVars
<1>8. InArchiveIsKept'
  <2>1. ASSUME NEW g \in Archives, Present(g)', NEW a \in HoldsOf(g) PROVE Kept(a)'
    <3>1. a \in Singles /\ g \in Files
      BY <2>1, FilesFacts, HoldsOfArchive
    <3>2. CASE Present(g)
      BY <1>3, <2>1, <3>1, <3>2 DEF StoreInv, InArchiveIsKept
    <3>3. CASE ~Present(g)
      <4>1. g = f /\ files[a] = "whole"
        BY <1>2, <2>1, <3>1, <3>3, FilesFacts DEF Present
      <4>2. Kept(a)
        BY <3>1, <4>1, FilesFacts DEF Kept
      <4>3. QED
        BY <1>3, <3>1, <4>2
    <3>4. QED
      BY <3>2, <3>3
  <2>2. QED
    BY <2>1 DEF InArchiveIsKept, Present
<1>9. HeldIsKept'
  BY <1>1, <1>3, <1>5 DEF StoreInv, HeldIsKept, putVars
<1>10. HeldWasPut'
  <2>1. ASSUME NEW g \in Archives, files'[g] # "none", NEW a \in HoldsOf(g) PROVE files'[a] # "none"
    <3>1. a \in Singles /\ g \in Files
      BY <2>1, FilesFacts, HoldsOfArchive
    <3>2. files[g] # "none" \/ files[a] = "whole"
      BY <1>2, <2>1, <3>1
    <3>3. QED
      BY <1>4, <2>1, <3>1, <3>2 DEF StoreInv, HeldWasPut
  <2>2. QED
    BY <1>4, <1>5, <2>1 DEF StoreInv, HeldWasPut
<1>11. QED
  BY <1>6, <1>7, <1>8, <1>9, <1>10 DEF StoreInv

LEMMA StoreStep == TypeOK /\ StoreInv /\ [Next]_vars => StoreInv'
<1> SUFFICES ASSUME TypeOK, StoreInv, [Next]_vars PROVE StoreInv'
  OBVIOUS
<1>1. CASE UNCHANGED vars
  BY <1>1 DEF vars, tickVars, putVars, StoreInv, Putting, BlocksBehindFiles, InArchiveIsKept, HeldIsKept,
              HeldWasPut, Has, Kept, Present, Faithful
<1>2. QED
  BY <1>1, StoreTick, StoreMount, StorePutBlock, StorePut, StoreOthers DEF Next

\* What a client holds is in the repository, for everybody to read and for itself
\* after a crash, whatever is packed and deleted meanwhile; except for what a put
\* answered with 0 and did not store (fclose, dest_local.c:329).
THEOREM LoggedActionsStored == Spec => []LoggedIsStored
<1>1. StoreInv => LoggedIsStored
  BY DEF StoreInv, HeldIsKept, Has, LoggedIsStored
<1>2. QED
  BY <1>1, StoreInit, StoreStep, TypeCorrect, PTL DEF Spec

\* No client sees an action whose block is not stored in full, except after an error
\* in mid-block (dest_ssh.c:196) or in fclose (dest_local.c:256).
THEOREM BlocksAreFirst == Spec => []BlocksFirst
<1>1. TypeOK /\ StoreInv => BlocksFirst
  BY DEF TypeOK, StoreInv, HeldWasPut, BlocksBehindFiles, Has, BlocksFirst
<1>2. QED
  BY <1>1, StoreInit, StoreStep, TypeCorrect, PTL DEF Spec
=============================================================================
