----------------------------- MODULE Repository -----------------------------
(***************************************************************************)
(* Several machines share a repository: each stores its operations in      *)
(* action files of its own, after the block the action names, and reads    *)
(* the files of the others in ticks (destLocalTick, destSshTick, the       *)
(* callback in bucse-mount.c, tar.c, actionAdded).  Others copy action     *)
(* files into archives and delete the files.  A tick and a file operation  *)
(* each hold their machine's bucseMutex from begin to end, but nothing     *)
(* keeps two machines apart.  An action is named by the file its machine   *)
(* stored it in.                                                           *)
(***************************************************************************)
EXTENDS SftpWrite, Functions

CONSTANTS
    Clients,    \* the machines
    Ssh,        \* those that reach the repository over ssh
    Singles,    \* the action files the machines may store: random names
    Owner,      \* the machine that draws each of these names
    Archives,   \* the tar files
    Packed,     \* the action files in each, in their order
    MaxFaults   \* bound on the failures of the file systems and the server

Files == Singles \union Archives
NoFile == "no file"

\* A tar file without a regular file in it calls nothing back, which is excluded.
ASSUME RepositoryAssumption ==
    /\ Ssh \subseteq Clients /\ Singles \intersect Archives = {}
    /\ Owner \in [Singles -> Clients]
    /\ Packed \in [Archives -> Seq(Singles) \ {<<>>}]
    /\ NoFile \notin Files /\ MaxFaults \in Nat

VARIABLES
    files,      \* the action files and archives in the repository
    blocks,     \* the block that each action names
    at,         \* what each client does
    listing,    \* the files found by its tick
    todo,       \* those it has not opened yet
    handled,    \* handledActions
    pending,    \* actionsPending
    logged,     \* actions
    putting,    \* the file it stores
    sending,    \* the block it stores
    faults,     \* how often anything failed
    missed,     \* history: handled files that were not read, or not all of them
    lied,       \* history: files not stored though the put answered 0
    late        \* history: the same for blocks, after an error in mid-block

tickVars == <<listing, todo, handled, pending, logged, missed>>
putVars == <<blocks, putting, sending, lied, late>>
vars == <<files, at, tickVars, putVars, faults>>

Places == {"down", "idle", "scan", "block", "action"}
HoldsOf(f) == IF f \in Archives THEN Range(Packed[f]) ELSE {f}
Present(f) == files[f] \in {"torn", "whole"}

Init ==
    /\ files = [f \in Files |-> "none"] /\ blocks = [f \in Singles |-> "none"]
    /\ at = [c \in Clients |-> "down"]
    /\ listing = [c \in Clients |-> {}] /\ todo = listing
    /\ handled = listing /\ pending = listing /\ logged = listing /\ missed = listing
    /\ putting = [c \in Clients |-> NoFile] /\ sending = [c \in Clients |-> NothingSent]
    /\ faults = 0 /\ lied = {} /\ late = {}

-----------------------------------------------------------------------------
Goes(c, from, to) == at[c] = from /\ at' = [at EXCEPT ![c] = to]
Works == UNCHANGED faults
Fails == faults < MaxFaults /\ faults' = faults + 1

\* The process starts with nothing in memory.
Mount(c) == Goes(c, "down", "idle") /\ Works /\ UNCHANGED <<files, tickVars, putVars>>

\* It ends, or dies in the middle of anything.
Stop(c) ==
    /\ at[c] # "down" /\ at' = [at EXCEPT ![c] = "down"]
    /\ listing' = [listing EXCEPT ![c] = {}] /\ todo' = [todo EXCEPT ![c] = {}]
    /\ handled' = [handled EXCEPT ![c] = {}] /\ pending' = [pending EXCEPT ![c] = {}]
    /\ logged' = [logged EXCEPT ![c] = {}] /\ missed' = [missed EXCEPT ![c] = {}]
    /\ putting' = [putting EXCEPT ![c] = NoFile] /\ sending' = [sending EXCEPT ![c] = NothingSent]
    /\ Works /\ UNCHANGED <<files, blocks, lied, late>>

-----------------------------------------------------------------------------
\* The directory is read.  Over ssh an error of readdir looks like the end of it.
Unhandled(c) == {f \in Files : Present(f) /\ f \notin handled[c]}

\* Mutant: the files found are marked before they are read.
ScanMarked(c) ==
    /\ Goes(c, "idle", "scan") /\ Unhandled(c) # {}
    /\ listing' = [listing EXCEPT ![c] = Unhandled(c)]
    /\ todo' = [todo EXCEPT ![c] = Unhandled(c)]
    /\ handled' = [handled EXCEPT ![c] = @ \union Unhandled(c)]
    /\ Works /\ UNCHANGED <<files, pending, logged, missed, putVars>>

Scan(c) ==
    /\ Goes(c, "idle", "scan")
    /\ \E found \in SUBSET Unhandled(c) \ {{}} :
        /\ IF found = Unhandled(c) THEN Works ELSE c \in Ssh /\ Fails
        /\ listing' = [listing EXCEPT ![c] = found]
        /\ todo' = [todo EXCEPT ![c] = found]
    /\ UNCHANGED <<files, handled, pending, logged, missed, putVars>>

\* moreInThisBatch is 0.
\* Mutant: it counts the file that is read as well.
IsLastOfNone(c, f) == todo[c] = {}
IsLast(c, f) == todo[c] = {f}

\* actionAdded: the actions wait until the last file of the batch was read.
ActionAdded(c, actions, absorbs) ==
    /\ pending' = [pending EXCEPT ![c] = IF absorbs THEN {} ELSE pending[c] \union actions]
    /\ logged' = [logged EXCEPT ![c] =
                    IF absorbs THEN logged[c] \union pending[c] \union actions ELSE logged[c]]

NextFile(c, f) ==
    /\ at[c] = "scan" /\ f \in todo[c]
    /\ todo' = [todo EXCEPT ![c] = todo[c] \ {f}]
    /\ UNCHANGED <<files, at, listing, handled, putVars>>

Misses(c, f) == missed' = [missed EXCEPT ![c] = missed[c] \union {f}]

ReadWhole(c, f) ==
    /\ NextFile(c, f) /\ files[f] = "whole"
    /\ ActionAdded(c, HoldsOf(f), IsLast(c, f))
    /\ Works /\ UNCHANGED missed

\* A file that cannot be opened or read, or that cannot be decrypted for what it
\* lacks, is passed over without a call of actionAdded.
PassOver(c, f) ==
    /\ NextFile(c, f) /\ IF files[f] = "whole" THEN Fails ELSE Works
    /\ Misses(c, f)
    /\ UNCHANGED <<pending, logged>>

\* A part of an action file parses to nothing, and still counts as the last one.
ReadPart(c, f) ==
    /\ NextFile(c, f) /\ f \in Singles /\ files[f] = "torn"
    /\ ActionAdded(c, {}, IsLast(c, f))
    /\ Misses(c, f) /\ Works

\* A part of an archive yields the action files it has in full; the one cut short
\* is counted, so that none of them is the last, unless the cut falls between two.
ReadPartOfArchive(c, f) ==
    /\ NextFile(c, f) /\ f \in Archives /\ files[f] = "torn"
    /\ \E n \in 1 .. Len(Packed[f]), between \in BOOLEAN :
        ActionAdded(c, {Packed[f][i] : i \in 1 .. n}, between /\ IsLast(c, f))
    /\ Misses(c, f) /\ Works

\* Whatever came of them, the files found are not looked at again.
ScanDone(c) ==
    /\ todo[c] = {} /\ Goes(c, "scan", "idle")
    /\ handled' = [handled EXCEPT ![c] = handled[c] \union listing[c]]
    /\ listing' = [listing EXCEPT ![c] = {}]
    /\ Works /\ UNCHANGED <<files, todo, pending, logged, missed, putVars>>

-----------------------------------------------------------------------------
\* A flush stores a block under a new random name,
PutBlock(c, f) ==
    /\ Owner[f] = c /\ Goes(c, "idle", "block") /\ blocks[f] = "none"
    /\ blocks' = [blocks EXCEPT ![f] = "torn"]
    /\ putting' = [putting EXCEPT ![c] = f]
    /\ Works /\ UNCHANGED <<files, sending, lied, late, tickVars>>

\* in chunks over ssh,
SendBlock(c) ==
    /\ at[c] = "block" /\ c \in Ssh /\ ~SendDone(sending[c])
    /\ \/ sending' = [sending EXCEPT ![c] = SendChunk(sending[c])] /\ Works
       \/ sending' = [sending EXCEPT ![c] = SendError(sending[c])] /\ Fails
    /\ UNCHANGED <<files, at, blocks, putting, lied, late, tickVars>>

\* Mutant: the file stays the one to store.
EndsPutKeeping(c) == sending' = [sending EXCEPT ![c] = NothingSent] /\ UNCHANGED putting

EndsPut(c) ==
    /\ putting' = [putting EXCEPT ![c] = NoFile] /\ sending' = [sending EXCEPT ![c] = NothingSent]

\* and, when that was answered with 0, an action file, which appears at once and
\* is filled later.  Either may be answered with an error: the operation fails.
BlockStored(c, outcome, isLate) ==
    /\ at[c] = "block"
    /\ blocks' = [blocks EXCEPT ![putting[c]] = outcome.file]
    /\ IF outcome.answer = "ok"
       THEN /\ Goes(c, "block", "action")
            /\ files' = [files EXCEPT ![putting[c]] = "torn"]
            /\ late' = IF isLate THEN late \union {putting[c]} ELSE late
            /\ UNCHANGED <<putting, sending>>
       ELSE Goes(c, "block", "idle") /\ EndsPut(c) /\ UNCHANGED <<files, late>>
    /\ UNCHANGED <<lied, tickVars>>

LocalBlock(c) ==
    /\ c \notin Ssh
    /\ \/ BlockStored(c, Stored, FALSE) /\ Works
       \/ \E outcome \in LocalFailures : BlockStored(c, outcome, TRUE) /\ Fails

SshBlock(c) ==
    /\ c \in Ssh /\ SendDone(sending[c])
    /\ BlockStored(c, PutOutcome(IF sending[c].bytes = Block THEN "whole" ELSE "torn",
                                 SendAnswer(sending[c])), sending[c].late)
    /\ Works

Failures(c) == IF c \in Ssh THEN SshFailures ELSE LocalFailures

\* Mutant: what the put answered is not looked at.
ActionStoredAnyway(c, outcome) ==
    /\ Goes(c, "action", "idle") /\ EndsPut(c)
    /\ files' = [files EXCEPT ![putting[c]] = outcome.file]
    /\ handled' = [handled EXCEPT ![c] = handled[c] \union {putting[c]}]
    /\ logged' = [logged EXCEPT ![c] = logged[c] \union {putting[c]}]
    /\ UNCHANGED <<lied, blocks, late, listing, todo, pending, missed>>

\* addActionFile puts the name with the handled ones, addAction logs the action.
ActionStored(c, outcome) ==
    /\ Goes(c, "action", "idle") /\ EndsPut(c)
    /\ files' = [files EXCEPT ![putting[c]] = outcome.file]
    /\ IF outcome.answer = "ok"
       THEN /\ handled' = [handled EXCEPT ![c] = handled[c] \union {putting[c]}]
            /\ logged' = [logged EXCEPT ![c] = logged[c] \union {putting[c]}]
            /\ lied' = IF outcome.file = "torn" THEN lied \union {putting[c]} ELSE lied
       ELSE UNCHANGED <<handled, logged, lied>>
    /\ UNCHANGED <<blocks, late, listing, todo, pending, missed>>

PutAction(c) ==
    \/ ActionStored(c, Stored) /\ Works
    \/ \E outcome \in Failures(c) : ActionStored(c, outcome) /\ Fails

-----------------------------------------------------------------------------
\* Somebody packs action files and deletes them (tests/test10.py).
Copy(f) ==
    /\ files[f] = "none" /\ \A g \in HoldsOf(f) : files[g] = "whole"
    /\ files' = [files EXCEPT ![f] = "torn"]
    /\ UNCHANGED <<at, tickVars, putVars, faults>>

CopyDone(f) ==
    /\ files[f] = "torn"
    /\ files' = [files EXCEPT ![f] = "whole"]
    /\ UNCHANGED <<at, tickVars, putVars, faults>>

Delete(f) ==
    /\ files[f] = "whole" /\ \E g \in Archives : files[g] = "whole" /\ f \in HoldsOf(g)
    /\ files' = [files EXCEPT ![f] = "deleted"]
    /\ UNCHANGED <<at, tickVars, putVars, faults>>

-----------------------------------------------------------------------------
Tick(c) ==
    \/ Scan(c) \/ ScanDone(c)
    \/ \E f \in Files : ReadWhole(c, f) \/ PassOver(c, f) \/ ReadPart(c, f) \/ ReadPartOfArchive(c, f)
Put(c) == SendBlock(c) \/ LocalBlock(c) \/ SshBlock(c) \/ PutAction(c)

Next ==
    \/ \E c \in Clients : Mount(c) \/ Stop(c) \/ Tick(c) \/ Put(c)
    \/ \E c \in Clients, f \in Singles : PutBlock(c, f)
    \/ \E f \in Archives : Copy(f) \/ CopyDone(f)
    \/ \E f \in Singles : Delete(f)

\* The tick thread looks again and again, and the mutex comes free: every call of
\* the destination returns.
Fairness == \A c \in Clients : WF_vars(Tick(c) \/ Put(c))
Spec == Init /\ [][Next]_vars /\ Fairness

-----------------------------------------------------------------------------
\* Every variable keeps its type, and what a tick or a put keeps is there only while
\* it runs.
TypeOK ==
    /\ files \in [Files -> States] /\ blocks \in [Singles -> States]
    /\ at \in [Clients -> Places]
    /\ listing \in [Clients -> SUBSET Files] /\ todo \in [Clients -> SUBSET Files]
    /\ handled \in [Clients -> SUBSET Files] /\ missed \in [Clients -> SUBSET Files]
    /\ pending \in [Clients -> SUBSET Singles] /\ logged \in [Clients -> SUBSET Singles]
    /\ putting \in [Clients -> Singles \union {NoFile}] /\ sending \in [Clients -> Sending]
    /\ faults \in 0 .. MaxFaults /\ lied \subseteq Singles /\ late \subseteq Singles
    /\ \A c \in Clients :
        /\ todo[c] \subseteq listing[c] /\ (listing[c] # {} => at[c] = "scan")
        /\ putting[c] # NoFile <=> at[c] \in {"block", "action"}

\* A client has every action of every file it will not look at again, unless it
\* could not read the file in full when it did.
HandledIsKnown ==
    \A c \in Clients : \A f \in handled[c] \ missed[c] : HoldsOf(f) \subseteq logged[c] \union pending[c]

\* Between ticks an action waits only if a file of its batch could not be read.
WaitsForUnreadable ==
    \A c \in Clients : at[c] \in {"idle", "block", "action"} /\ pending[c] # {} => missed[c] # {}

\* What a client has is in the repository for everyone to read and for itself after
\* a crash, in its own file or in an archive, unless the put was answered wrongly.
Kept(a) == \E f \in Files : a \in HoldsOf(f) /\ files[f] = "whole"
LoggedIsStored == \A c \in Clients : \A a \in logged[c] \union pending[c] : Kept(a) \/ a \in lied

\* No client sees an action before the block it names is stored; only an error that
\* met the put in mid-block, or in fclose, leaves a damaged block behind an action.
BlocksFirst == \A c \in Clients : \A a \in logged[c] \union pending[c] : blocks[a] = "whole" \/ a \in late

\* A client that stays up catches up with every file stored in full, except for those
\* it met when they were not readable, after which actions may also wait.
Lacks(c, f) ==
    /\ files[f] = "whole" /\ f \notin missed[c]
    /\ ~(HoldsOf(f) \subseteq logged[c] \union (IF missed[c] = {} THEN {} ELSE pending[c]))
Behind(c) == at[c] # "down" /\ \E f \in Files : Lacks(c, f)
Delivered == \A c \in Clients : Behind(c) ~> ~Behind(c)
=============================================================================
