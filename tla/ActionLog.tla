------------------------------ MODULE ActionLog ------------------------------
(***************************************************************************)
(* The log of actions of one mounted client (actions.c) and the directory  *)
(* tree it drives.  Two parties append to the log: the destination thread, *)
(* which hands in the action files other machines stored (actionAdded),    *)
(* and the file operations of this machine (addAction).  actionAdded is    *)
(* modelled loop iteration by loop iteration, since its three loops decide *)
(* which actions survive; bucseMutex keeps file operations out while it    *)
(* runs (pc # "idle").  Indices are the 1-based form of the C indices.     *)
(***************************************************************************)
EXTENDS FsTree

CONSTANTS
    Paths,          \* the paths that occur
    PathRank,       \* their position in strcmp order
    Remote,         \* the actions other machines have stored or will store
    LocalFiles,     \* the paths file operations of this machine name
    LocalDirs,      \* the paths its mkdir and rmdir name
    LocalTimes,     \* the clock readings it takes
    ClockSkew,      \* may a remote action carry a time this clock has not reached?
    PerFile,        \* actions in one action file, at most
    MaxLog,         \* bound on the actions held at a time
    MaxNodes        \* bound on the directories allocated

Actions == [time : Int, type : ActionTypes, path : Paths, content : ContentOf]

ASSUME PathsAssumption ==
    /\ Paths \subseteq Seq(Names) \ {<<>>}
    /\ PathRank \in [Paths -> Nat]
    /\ \A p, q \in Paths : PathRank[p] = PathRank[q] => p = q
ASSUME ActionsAssumption ==
    Remote \subseteq Actions /\ LocalTimes \subseteq Int /\ LocalFiles \union LocalDirs \subseteq Paths
ASSUME BoundsAssumption ==
    ClockSkew \in BOOLEAN /\ PerFile \in Nat /\ MaxLog \in Nat /\ MaxNodes \in Nat

VARIABLES
    actions,    \* the log, "actions"
    pending,    \* "actionsPending"
    tree,       \* the tree at "root"
    pc,         \* where actionAdded is; "idle" when no call is running
    i, j,       \* its loop indices
    dups,       \* its count of dropped duplicates
    undone,     \* its outOfOrderActions
    received,   \* history: every action parsed or made here
    made,       \* history: those made here
    redoneDir   \* history: has the addition of a directory been done again?

vars == <<actions, pending, tree, pc, i, j, dups, undone, received, made, redoneDir>>

-----------------------------------------------------------------------------
SameKey(a, b) == a.time = b.time /\ a.type = b.type /\ a.path = b.path

\* compareActionsByTimeTypePath(a, b) > 0
After(a, b) ==
    \/ a.time > b.time
    \/ a.time = b.time /\ a.type > b.type
    \/ a.time = b.time /\ a.type = b.type /\ PathRank[a.path] > PathRank[b.path]

\* The bijections of D; TLC enumerates them as Permutations.
Reorderings(D) == Permutations(D) \intersect Bijection(D, D)

\* qsort with compareActionsByTime: the order of equal times is unspecified.
SortedByTime(s) == \A m, n \in DOMAIN s : m < n => s[m].time <= s[n].time
TimeSorts(s) ==
    {t \in {[n \in DOMAIN s |-> s[p[n]]] : p \in Reorderings(DOMAIN s)} : SortedByTime(t)}

\* Mutant: an action of the same time as the last one counts as in order.
OutOfOrderStrictly(log, pend) ==
    /\ log # <<>> /\ pend # <<>>
    /\ Last(log).time > Head(pend).time

\* The last action of the log is not older than the first pending one.
OutOfOrder(log, pend) ==
    /\ log # <<>> /\ pend # <<>>
    /\ Last(log).time >= Head(pend).time

Init ==
    /\ actions = <<>> /\ pending = <<>> /\ tree = EmptyTree
    /\ pc = "idle" /\ i = 0 /\ j = 0 /\ dups = 0 /\ undone = 0
    /\ received = {} /\ made = {} /\ redoneDir = FALSE

-----------------------------------------------------------------------------
\* actionAdded, up to its two early returns: parseAction appends what it can
\* read of the file, and the work starts with the last file of a batch.
Receive(as, more) ==
    /\ pc = "idle"
    /\ as # <<>> => Len(actions) + Len(pending) + Len(as) <= MaxLog /\ Len(tree) <= MaxNodes
    /\ pending' = pending \o as
    /\ received' = received \union ToSet(as)
    /\ pc' = IF more \/ pending' = <<>> THEN "idle" ELSE "sort"
    /\ UNCHANGED <<actions, tree, i, j, dups, undone, made, redoneDir>>

SortPending ==
    /\ pc = "sort"
    /\ pending' \in TimeSorts(pending)
    /\ i' = Len(pending) /\ j' = Len(actions) /\ dups' = 0
    /\ pc' = IF OutOfOrder(actions, pending') THEN "dedup" ELSE "tail"
    /\ UNCHANGED <<actions, tree, undone, received, made, redoneDir>>

\* Is the logged action the next largest, rather than pending[i-1]?
LoggedIsNext == i > 1 => ~After(pending[i-1], actions[j])

InDedup == pc = "dedup" /\ i >= 1 /\ j >= 1
InLoop == UNCHANGED <<actions, tree, undone, received, made, redoneDir>>

SkipLogged ==
    /\ InDedup /\ LoggedIsNext /\ After(actions[j], pending[i])
    /\ j' = j - 1
    /\ UNCHANGED <<pc, i, dups, pending>> /\ InLoop

SkipPending ==
    /\ InDedup /\ LoggedIsNext /\ After(pending[i], actions[j])
    /\ i' = i - 1
    /\ UNCHANGED <<pc, j, dups, pending>> /\ InLoop

DropLogged ==
    /\ InDedup /\ LoggedIsNext
    /\ SameKey(actions[j], pending[i])
    /\ pending' = RemoveUnordered(pending, i)
    /\ dups' = dups + 1 /\ i' = i - 1
    /\ UNCHANGED <<pc, j>> /\ InLoop

\* Mutant: the index stays when an action is dropped.
DropAndStay ==
    LET same == SameKey(pending[i], pending[i-1])
    IN /\ pending' = IF same THEN RemoveUnordered(pending, i) ELSE pending
       /\ dups' = IF same THEN dups + 1 ELSE dups
       /\ i' = IF same THEN i ELSE i - 1

\* Mutant: the index moves only when an action is dropped.
DropAndMove ==
    LET same == SameKey(pending[i], pending[i-1])
    IN /\ pending' = IF same THEN RemoveUnordered(pending, i) ELSE pending
       /\ dups' = IF same THEN dups + 1 ELSE dups
       /\ i' = IF same THEN i - 1 ELSE i

\* Compare a pending action with the one before it, dropping it if it is the same.
DropRepeated ==
    LET same == SameKey(pending[i], pending[i-1])
    IN /\ pending' = IF same THEN RemoveUnordered(pending, i) ELSE pending
       /\ dups' = IF same THEN dups + 1 ELSE dups
       /\ i' = i - 1

DedupRepeated ==
    /\ InDedup /\ ~LoggedIsNext
    /\ DropRepeated
    /\ UNCHANGED <<pc, j>> /\ InLoop

DedupDone ==
    /\ pc = "dedup" /\ ~(i >= 1 /\ j >= 1)
    /\ pc' = "tail"
    /\ UNCHANGED <<i, j, dups, pending>> /\ InLoop

TailRepeated ==
    /\ pc = "tail" /\ i > 1
    /\ DropRepeated
    /\ UNCHANGED <<pc, j>> /\ InLoop

TailDone ==
    /\ pc = "tail" /\ i <= 1
    /\ pending' \in IF dups > 0 THEN TimeSorts(pending) ELSE {pending}
    /\ pc' = "undo" /\ undone' = 0
    /\ UNCHANGED <<actions, tree, i, j, dups, received, made, redoneDir>>

\* Mutant: the action taken back is not made pending.
UndoAndForget ==
    /\ pc = "undo" /\ OutOfOrder(actions, pending)
    /\ actions' = Front(actions)
    /\ undone' = undone + 1
    /\ redoneDir' = (redoneDir \/ Last(actions).type = AddDirectory)
    /\ UNCHANGED <<pending, tree, pc, i, j, dups, received, made>>

\* Take the last action back from the log; undoAction itself does nothing.
Undo ==
    /\ pc = "undo" /\ OutOfOrder(actions, pending)
    /\ pending' = Append(pending, Last(actions))
    /\ actions' = Front(actions)
    /\ undone' = undone + 1
    /\ redoneDir' = (redoneDir \/ Last(actions).type = AddDirectory)
    /\ UNCHANGED <<tree, pc, i, j, dups, received, made>>

\* Mutant: the pending actions are not sorted again.
UndoneUnsorted ==
    /\ pc = "undo" /\ ~OutOfOrder(actions, pending)
    /\ pc' = "do" /\ i' = 1
    /\ UNCHANGED <<actions, pending, tree, j, dups, undone, received, made, redoneDir>>

UndoDone ==
    /\ pc = "undo" /\ ~OutOfOrder(actions, pending)
    /\ pending' \in IF undone > 0 THEN TimeSorts(pending) ELSE {pending}
    /\ pc' = "do" /\ i' = 1
    /\ UNCHANGED <<actions, tree, j, dups, undone, received, made, redoneDir>>

Do ==
    /\ pc = "do" /\ i <= Len(pending)
    /\ actions' = Append(actions, pending[i])
    /\ tree' = DoAction(tree, pending[i])
    /\ i' = i + 1
    /\ UNCHANGED <<pending, pc, j, dups, undone, received, made, redoneDir>>

Finish ==
    /\ pc = "do" /\ i > Len(pending)
    /\ pending' = <<>>
    /\ pc' = "idle" /\ i' = 0 /\ j' = 0 /\ dups' = 0 /\ undone' = 0
    /\ UNCHANGED <<actions, tree, received, made, redoneDir>>

ActionAddedStep ==
    \/ SortPending
    \/ SkipLogged \/ SkipPending \/ DropLogged \/ DedupRepeated \/ DedupDone
    \/ TailRepeated \/ TailDone
    \/ Undo \/ UndoDone
    \/ Do \/ Finish

-----------------------------------------------------------------------------
\* getCurrentTime, read by an operation that makes an action: later than any
\* reading before and, without skew, than what other machines stored before.
Reads(t) ==
    /\ t \in LocalTimes
    /\ \A a \in IF ClockSkew THEN made ELSE received : t > a.time

Action(t, type, p, c) == [time |-> t, type |-> type, path |-> p, content |-> c]

\* addAction, with the operation's own update of the tree.
MakeActions(as, newTree) ==
    /\ Len(actions) + Len(pending) + Len(as) <= MaxLog
    /\ Len(newTree) <= MaxNodes
    /\ actions' = actions \o as
    /\ tree' = newTree
    /\ received' = received \union ToSet(as)
    /\ made' = made \union ToSet(as)
    /\ UNCHANGED <<pending, pc, i, j, dups, undone, redoneDir>>

Mkdir(p, t) ==
    /\ pc = "idle" /\ Reads(t)
    /\ FindContainingDir(tree, p) \in DOMAIN tree
    /\ ~FileExists(tree, p) /\ ~DirExists(tree, p)
    /\ MakeActions(<<Action(t, AddDirectory, p, NoContent)>>,
                   AddDirTo(tree, FindContainingDir(tree, p), Last(p)))

\* Mutant: the directory stays in memory.
RmdirInLog(p, t) ==
    /\ pc = "idle" /\ Reads(t)
    /\ DirExists(tree, p)
    /\ tree[FindDirByPath(tree, p)] = EmptyDir
    /\ MakeActions(<<Action(t, RemoveDirectory, p, NoContent)>>, tree)

Rmdir(p, t) ==
    /\ pc = "idle" /\ Reads(t)
    /\ DirExists(tree, p)
    /\ tree[FindDirByPath(tree, p)] = EmptyDir
    /\ MakeActions(<<Action(t, RemoveDirectory, p, NoContent)>>,
                   RemoveDirFrom(tree, FindContainingDir(tree, p), Last(p)))

\* An operation that changes memory only.
InMemory(newTree) ==
    /\ pc = "idle" /\ tree' = newTree
    /\ UNCHANGED <<actions, pending, pc, i, j, dups, undone, received, made, redoneDir>>

\* bucse_create of a new file: it enters the tree at once and the log when flushed.
Create(p) ==
    /\ FindContainingDir(tree, p) \in DOMAIN tree
    /\ ~FileExists(tree, p) /\ ~DirExists(tree, p)
    /\ InMemory(AddFileTo(tree, FindContainingDir(tree, p),
                          [CleanFile(Last(p), NoContent) EXCEPT !.create = TRUE]))

\* bucse_write to an open file.
Write(p) ==
    /\ FileExists(tree, p)
    /\ InMemory(SetFile(tree, FindContainingDir(tree, p), Last(p),
                        [FileAt(tree, p) EXCEPT !.write = TRUE]))

\* flushFile: the content after the pending writes is c, or unchanged without any.
Dirty(f) == f.create \/ f.write
FlushAction(p, t, c) ==
    LET f == FileAt(tree, p)
    IN Action(t, IF f.create THEN AddFile ELSE EditFile, p, IF f.write THEN c ELSE f.content)
Flushed(p, a) ==
    SetFile(tree, FindContainingDir(tree, p), Last(p), CleanFile(Last(p), a.content))

\* flushFile as release calls it (bucse_flush only does so after a write).
Flush(p, t, c) ==
    /\ pc = "idle" /\ Reads(t)
    /\ FileExists(tree, p) /\ Dirty(FileAt(tree, p))
    /\ LET a == FlushAction(p, t, c) IN MakeActions(<<a>>, Flushed(p, a))

\* bucse_unlink: a dirty file is flushed first.
Unlink(p, t, u, c) ==
    /\ pc = "idle" /\ Reads(t)
    /\ FileExists(tree, p)
    /\ LET dirty == Dirty(FileAt(tree, p))
           remove == Action(IF dirty THEN u ELSE t, RemoveFile, p, NoContent)
       IN /\ IF dirty THEN u \in LocalTimes /\ u > t ELSE u = t
          /\ MakeActions(IF dirty THEN <<FlushAction(p, t, c), remove>> ELSE <<remove>>,
                         RemoveFileFrom(tree, FindContainingDir(tree, p), Last(p)))

FileOperation ==
    \/ \E p \in LocalFiles :
        \/ Create(p)
        \/ Write(p)
        \/ \E t \in LocalTimes, c \in Contents :
            Flush(p, t, c) \/ \E u \in LocalTimes : Unlink(p, t, u, c)
    \/ \E p \in LocalDirs, t \in LocalTimes : Mkdir(p, t) \/ Rmdir(p, t)

\* A machine that packs actions into a tar file stores those of this one again, too.
Deliver == \E as \in BoundedSeq(Remote \union received, PerFile), more \in BOOLEAN : Receive(as, more)

Next == Deliver \/ ActionAddedStep \/ FileOperation

\* Once entered, actionAdded runs to its end; nothing makes files arrive.
Spec == Init /\ [][Next]_vars /\ WF_vars(ActionAddedStep)

-----------------------------------------------------------------------------
Phases == {"idle", "sort", "dedup", "tail", "undo", "do"}

\* Every variable keeps its type; the loop indices stay within the arrays.
TypeOK ==
    /\ actions \in Seq(Actions) /\ pending \in Seq(Actions)
    /\ TreeOK(tree)
    /\ pc \in Phases
    /\ i \in Nat /\ j \in Nat /\ dups \in Nat /\ undone \in Nat
    /\ pc \in {"dedup", "tail"} => i <= Len(pending) /\ j <= Len(actions)
    /\ received \subseteq Actions /\ made \subseteq received
    /\ redoneDir \in BOOLEAN

Has(s, a) == \E n \in DOMAIN s : SameKey(s[n], a)

\* Whatever the order, batching and repetition in which files arrive, an action
\* once read is in the log or still pending: the dropping loops and the undoing
\* of the log's tail (actions.c:452-521) lose none.
NoActionLost == \A a \in received : Has(actions, a) \/ Has(pending, a)

\* Without clock skew the log is in time order at every step of the loops, late
\* arrivals and actions of this machine included; the dedup and undo loops look
\* at its last element only and rely on it (actions.c:449, 502).
LogSorted == ~ClockSkew => SortedByTime(actions)

\* An action delivered again (in a tar file, under another name) is not logged
\* twice ("Check for duplicates", actions.c:444).
NothingRepeated ==
    pc = "idle" => \A m, n \in DOMAIN actions : m # n => ~SameKey(actions[m], actions[n])

\* What NothingRepeated needs besides clocks that agree: the arrays are sorted by
\* time only, and the walks over them look at neighbours.
OneActionPerTime == \A a, b \in received : a.time = b.time => SameKey(a, b)

Settled ==
    /\ pc = "idle"
    /\ \A n \in DOMAIN tree : \A k \in DOMAIN tree[n].files : ~Dirty(tree[n].files[k])

\* No entry of the log fails when it is replayed in order.
ReplaysCleanly(log) ==
    \A n \in DOMAIN log : CanDo(Replay(SubSeq(log, 1, n - 1)), log[n])

\* Once no local change waits for a flush, a mounted client shows what a client
\* mounted now would build from the same log.
ShowsTheLog ==
    Settled /\ ReplaysCleanly(actions) =>
        \A p \in Paths \union {<<>>} : Shown(tree, p) = Shown(Replay(actions), p)

\* No entry of the log adds a directory that is there already.
AddsNewDirs(log) ==
    \A n \in DOMAIN log :
        log[n].type = AddDirectory => ~DirExists(Replay(SubSeq(log, 1, n - 1)), log[n].path)

\* The same as long as no addition of a directory was done again and none found it
\* there: redoing the tail of the log on a tree that already holds its effects
\* (actions.c:500-526 with the empty undoAction) comes out right for files, whose
\* entries overwrite each other.
ShowsTheFiles == ~redoneDir /\ AddsNewDirs(actions) => ShowsTheLog

\* actionAdded returns: none of its loops runs forever.
ActionAddedReturns == (pc # "idle") ~> (pc = "idle")

\* What identifies an action: the comparisons of actionAdded look at no content.
Key(a) == <<a.time, a.type, a.path>>
KeysOf(s) == {Key(s[n]) : n \in DOMAIN s}

\* The log as a set, see LogSet: an action becomes part of it when the dropping
\* loops are over, even though the undo loop still moves it to and fro.
Absorbed == pc \in {"undo", "do"}
Logged == KeysOf(actions) \union IF Absorbed THEN KeysOf(pending) ELSE {}
Waiting == IF Absorbed THEN {} ELSE KeysOf(pending) \ KeysOf(actions)
Log == INSTANCE LogSet WITH logged <- Logged, waiting <- Waiting

\* The array juggling of actionAdded implements a set that only grows.
ImplementsLogSet == Log!Spec
=============================================================================
