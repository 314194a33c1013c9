--------------------------- MODULE ActionLogProofs ---------------------------
(***************************************************************************)
(* Proofs about ActionLog for every set of names, paths and actions: the   *)
(* types, that no action is lost or logged twice, that the log stays in    *)
(* time order, that the whole is a set that grows (LogSet), and that the   *)
(* tree comes out as a replay of the log although nothing is ever undone.  *)
(***************************************************************************)
EXTENDS ActionLog, FsTreeProofs

LEMMA ToSetType ==
    ASSUME NEW S, NEW s \in Seq(S)
    PROVE  ToSet(s) \subseteq S
<1>1. DOMAIN s = 1 .. Len(s) /\ \A n \in 1 .. Len(s) : s[n] \in S
    BY LenProperties, ElementOfSeq
<1> QED BY <1>1 DEF ToSet

\* Sorting permutes: type and length stay, nothing is lost and nothing made up.
LEMMA TimeSortsPermutes ==
    ASSUME NEW S, NEW s \in Seq(S), NEW t \in TimeSorts(s)
    PROVE  /\ t \in Seq(S) /\ Len(t) = Len(s) /\ SortedByTime(t)
           /\ \A n \in DOMAIN s : \E m \in DOMAIN t : t[m] = s[n]
           /\ \A m \in DOMAIN t : \E n \in DOMAIN s : t[m] = s[n]
<1>1. DOMAIN s = 1 .. Len(s) /\ Len(s) \in Nat
    BY LenProperties
<1>2. PICK p \in Bijection(DOMAIN s, DOMAIN s) : t = [n \in DOMAIN s |-> s[p[n]]]
    BY DEF TimeSorts, Reorderings
<1>3. p \in [DOMAIN s -> DOMAIN s] /\ \A w \in DOMAIN s : \E v \in DOMAIN s : p[v] = w
    BY <1>2 DEF Bijection, Injection, Surjection
<1>4. SortedByTime(t)
    BY DEF TimeSorts
<1>5. t \in [1 .. Len(s) -> S]
    BY <1>1, <1>2, <1>3, LenProperties
<1>6. t \in Seq(S) /\ Len(t) = Len(s) /\ DOMAIN t = DOMAIN s
    BY <1>1, <1>5
<1> QED BY <1>2, <1>3, <1>4, <1>6

\* The containing directory found for a path whose file or directory exists.
LEMMA ExistsIn ==
    ASSUME NEW p
    PROVE  /\ FileExists(tree, p) => FindContainingDir(tree, p) \in DOMAIN tree
           /\ DirExists(tree, p) => FindContainingDir(tree, p) \in DOMAIN tree
BY DEF FileExists, DirExists

LEMMA FileAtType ==
    ASSUME NEW p, TreeOK(tree), FileExists(tree, p)
    PROVE  FileAt(tree, p) \in Files
<1> DEFINE d == FindContainingDir(tree, p)
<1>1. d \in DOMAIN tree /\ FindFile(tree[d], Last(p)) # 0
    BY DEF FileExists
<1>2. tree[d].files \in Seq(Files)
    BY <1>1, DirOK
<1>3. FindFile(tree[d], Last(p)) \in DOMAIN tree[d].files
    BY <1>1, <1>2, FindFileResult
<1> HIDE DEF d
<1>4. tree[d].files[FindFile(tree[d], Last(p))] \in Files
    BY <1>2, <1>3, ElementOfSeq, LenProperties
<1> QED BY <1>4 DEF FileAt, d

LEMMA LastName ==
    ASSUME NEW p \in Paths
    PROVE  p \in Seq(Names) \ {<<>>} /\ Last(p) \in Names
<1>1. p \in Seq(Names) \ {<<>>}
    BY PathsAssumption
<1> QED BY <1>1 DEF Last

LEMMA CleanFileType ==
    ASSUME NEW name \in Names, NEW c \in ContentOf
    PROVE  CleanFile(name, c) \in Files
BY DEF CleanFile, Files

-----------------------------------------------------------------------------
\* No two elements have the same time.
Distinct(s) == \A m, n \in DOMAIN s : m # n => s[m].time # s[n].time

\* The actions an operation of this machine logs are in time order and, without
\* skew, later than all received.
OnTime(as) ==
    /\ SortedByTime(as) /\ Distinct(as)
    /\ \A n \in DOMAIN as : as[n].time \in LocalTimes
    /\ ~ClockSkew => \A n \in DOMAIN as : \A a \in received : as[n].time > a.time

\* What the invariants need to know of a file operation.
OperationEffect ==
    /\ TypeOK' /\ pc = "idle" /\ pc' = pc /\ i' = i /\ pending' = pending
    /\ \E as \in Seq(Actions) :
        /\ actions' = actions \o as
        /\ received' = received \union ToSet(as)
        /\ OnTime(as)

LEMMA FileOperationEffect ==
    ASSUME TypeOK, FileOperation
    PROVE  OperationEffect
<1> USE DEF TypeOK
<1>1. ASSUME NEW as \in Seq(Actions), NEW newTree, TreeOK(newTree), pc = "idle", MakeActions(as, newTree), OnTime(as)
      PROVE  OperationEffect
    <2>1. ToSet(as) \subseteq Actions
        BY ToSetType
    <2>2. actions \o as \in Seq(Actions)
        BY ConcatProperties
    <2>3. TypeOK' /\ pc' = pc /\ i' = i /\ pending' = pending
        BY <1>1, <2>1, <2>2 DEF MakeActions
    <2>4. actions' = actions \o as /\ received' = received \union ToSet(as)
        BY <1>1 DEF MakeActions
    <2> QED BY <1>1, <2>3, <2>4 DEF OperationEffect
<1>2. ASSUME NEW newTree, TreeOK(newTree), InMemory(newTree)
      PROVE  OperationEffect
    <2>1. actions = actions \o <<>> /\ ToSet(<<>>) = {} /\ OnTime(<<>>) /\ <<>> \in Seq(Actions)
        BY ConcatEmptySeq DEF ToSet, OnTime, SortedByTime, Distinct
    <2>2. TypeOK' /\ pc = "idle" /\ pc' = pc /\ i' = i /\ pending' = pending
        BY <1>2 DEF InMemory
    <2>3. actions' = actions \o <<>> /\ received' = received \union ToSet(<<>>)
        BY <1>2, <2>1 DEF InMemory
    <2> QED BY <2>1, <2>2, <2>3 DEF OperationEffect
<1>3. ASSUME NEW t \in LocalTimes, NEW type \in ActionTypes, NEW p \in Paths, NEW c \in ContentOf
      PROVE  Action(t, type, p, c) \in Actions /\ <<Action(t, type, p, c)>> \in Seq(Actions)
    <2>1. Action(t, type, p, c) \in Actions
        BY <1>3, ActionsAssumption DEF Action, Actions
    <2> QED BY <2>1
<1>14. ASSUME NEW a \in Actions, Reads(a.time)
       PROVE  OnTime(<<a>>)
    BY <1>14 DEF OnTime, SortedByTime, Distinct, Reads
<1>4. \A p \in LocalFiles \union LocalDirs : p \in Paths
    BY ActionsAssumption
<1>5. NoContent \in ContentOf /\ Contents \subseteq ContentOf
    BY DEF ContentOf
<1>6. {AddFile, RemoveFile, AddDirectory, RemoveDirectory, EditFile} = ActionTypes
    BY DEF ActionTypes
<1>7. ASSUME NEW p \in LocalFiles, Create(p)
      PROVE  OperationEffect
    <2> DEFINE file == [CleanFile(Last(p), NoContent) EXCEPT !.create = TRUE]
    <2>1. file \in Files
        BY <1>4, <1>5, LastName DEF CleanFile, Files
    <2> HIDE DEF file
    <2>2. TreeOK(AddFileTo(tree, FindContainingDir(tree, p), file))
        BY <1>7, <2>1, AddFileToOK DEF Create
    <2> QED BY <1>2, <1>7, <2>2 DEF Create, file
<1>8. ASSUME NEW p \in LocalFiles, Write(p)
      PROVE  OperationEffect
    <2> DEFINE file == [FileAt(tree, p) EXCEPT !.write = TRUE]
    <2>1. file \in Files
        BY <1>8, FileAtType DEF Write, Files
    <2> HIDE DEF file
    <2>2. TreeOK(SetFile(tree, FindContainingDir(tree, p), Last(p), file))
        BY <1>8, <2>1, ExistsIn, SetFileOK DEF Write
    <2> QED BY <1>2, <1>8, <2>2 DEF Write, file
<1>9. ASSUME NEW p \in LocalFiles, NEW t \in LocalTimes, NEW c \in Contents, FileExists(tree, p)
      PROVE  FlushAction(p, t, c) \in Actions /\ FlushAction(p, t, c).time = t
    <2>1. FileAt(tree, p) \in Files
        BY <1>9, FileAtType
    <2> QED BY <1>3, <1>4, <1>5, <1>6, <2>1 DEF FlushAction, Files, Action
<1>10. ASSUME NEW p \in LocalFiles, NEW t \in LocalTimes, NEW c \in Contents, Flush(p, t, c)
       PROVE  OperationEffect
    <2> DEFINE a == FlushAction(p, t, c)
    <2>1. a \in Actions /\ FileExists(tree, p)
        BY <1>9, <1>10 DEF Flush
    <2>2. CleanFile(Last(p), a.content) \in Files
        BY <1>4, <2>1, LastName, CleanFileType DEF Actions
    <2> HIDE DEF a
    <2>3. TreeOK(Flushed(p, a))
        BY <2>1, <2>2, ExistsIn, SetFileOK DEF Flushed
    <2>4. <<a>> \in Seq(Actions) /\ OnTime(<<a>>)
        BY <1>9, <1>10, <1>14, <2>1 DEF Flush, a
    <2> QED BY <1>1, <1>10, <2>3, <2>4 DEF Flush, a
<1>11. ASSUME NEW p \in LocalFiles, NEW t \in LocalTimes, NEW u \in LocalTimes, NEW c \in Contents,
              Unlink(p, t, u, c)
       PROVE  OperationEffect
    <2> DEFINE dirty == Dirty(FileAt(tree, p))
               remove == Action(IF dirty THEN u ELSE t, RemoveFile, p, NoContent)
               as == IF dirty THEN <<FlushAction(p, t, c), remove>> ELSE <<remove>>
    <2>1. remove \in Actions /\ remove.time = IF dirty THEN u ELSE t
        BY <1>3, <1>4, <1>5, <1>6 DEF Action
    <2>2. FlushAction(p, t, c) \in Actions /\ FlushAction(p, t, c).time = t
        BY <1>9, <1>11 DEF Unlink
    <2> HIDE DEF remove
    <2>3. as \in Seq(Actions)
        <3>1. <<remove>> \in Seq(Actions) /\ <<FlushAction(p, t, c), remove>> \in Seq(Actions)
            BY <2>1, <2>2
        <3> QED BY <3>1
    <2>4. TreeOK(RemoveFileFrom(tree, FindContainingDir(tree, p), Last(p)))
        BY <1>11, ExistsIn, RemoveFileFromOK DEF Unlink
    <2>5. pc = "idle" /\ MakeActions(as, RemoveFileFrom(tree, FindContainingDir(tree, p), Last(p)))
        BY <1>11 DEF Unlink, remove
    <2>6. OnTime(as)
        <3>1. Reads(t) /\ (dirty => u > t) /\ t \in Int /\ u \in Int
            BY <1>11, ActionsAssumption DEF Unlink
        <3>2. CASE dirty
            <4>1. as = <<FlushAction(p, t, c), remove>>
                BY <2>1, <2>2, <3>2
            <4>2. /\ SortedByTime(<<FlushAction(p, t, c), remove>>)
                  /\ Distinct(<<FlushAction(p, t, c), remove>>)
                  /\ \A n \in DOMAIN <<FlushAction(p, t, c), remove>> :
                        <<FlushAction(p, t, c), remove>>[n].time \in LocalTimes
                BY <2>1, <2>2, <3>1, <3>2 DEF SortedByTime, Distinct
            <4>3. ASSUME ~ClockSkew, NEW a \in received PROVE t > a.time /\ u > a.time
                <5>1. a.time \in Int
                    BY DEF Actions
                <5> QED BY <3>1, <3>2, <4>3, <5>1 DEF Reads
            <4>4. OnTime(<<FlushAction(p, t, c), remove>>)
                <5> HIDE DEF dirty
                <5> QED BY <2>1, <2>2, <3>2, <4>2, <4>3 DEF OnTime
            <4> QED BY <4>1, <4>4
        <3>3. CASE ~dirty
            <4>1. as = <<remove>> /\ remove.time = t
                BY <2>1, <3>3
            <4> QED BY <1>14, <2>1, <3>1, <4>1
        <3> QED BY <3>2, <3>3
    <2> HIDE DEF as
    <2> QED BY <1>1, <2>3, <2>4, <2>5, <2>6
<1>12. ASSUME NEW p \in LocalDirs, NEW t \in LocalTimes, Mkdir(p, t)
       PROVE  OperationEffect
    <2>1. /\ <<Action(t, AddDirectory, p, NoContent)>> \in Seq(Actions)
          /\ OnTime(<<Action(t, AddDirectory, p, NoContent)>>)
        <3>1. Action(t, AddDirectory, p, NoContent).time = t
            BY DEF Action
        <3> QED BY <1>3, <1>4, <1>5, <1>6, <1>12, <1>14, <3>1 DEF Mkdir
    <2>2. TreeOK(AddDirTo(tree, FindContainingDir(tree, p), Last(p)))
        BY <1>4, <1>12, LastName, AddDirToOK DEF Mkdir
    <2> QED BY <1>1, <1>12, <2>1, <2>2 DEF Mkdir
<1>13. ASSUME NEW p \in LocalDirs, NEW t \in LocalTimes, Rmdir(p, t)
       PROVE  OperationEffect
    <2>1. /\ <<Action(t, RemoveDirectory, p, NoContent)>> \in Seq(Actions)
          /\ OnTime(<<Action(t, RemoveDirectory, p, NoContent)>>)
        <3>1. Action(t, RemoveDirectory, p, NoContent).time = t
            BY DEF Action
        <3> QED BY <1>3, <1>4, <1>5, <1>6, <1>13, <1>14, <3>1 DEF Rmdir
    <2>2. TreeOK(RemoveDirFrom(tree, FindContainingDir(tree, p), Last(p)))
        BY <1>13, ExistsIn, RemoveDirFromOK DEF Rmdir
    <2> QED BY <1>1, <1>13, <2>1, <2>2 DEF Rmdir
<1> QED BY <1>7, <1>8, <1>10, <1>11, <1>12, <1>13 DEF FileOperation

\* One action file holds actions.
LEMMA BatchType ==
    ASSUME received \subseteq Actions, NEW as \in BoundedSeq(Remote \union received, PerFile)
    PROVE  as \in Seq(Actions)
<1>1. Remote \union received \subseteq Actions
    BY ActionsAssumption
<1>2. PICK n \in 0 .. PerFile : as \in [1 .. n -> Remote \union received]
    BY DEF BoundedSeq, SeqOf
<1>3. as \in [1 .. n -> Actions] /\ n \in Nat
    BY <1>1, <1>2, BoundsAssumption, 0 .. PerFile \subseteq Nat
<1> QED BY <1>3, SeqDef

\* The last loop's index is at least 1 when it is used.
TypeInv == TypeOK /\ (pc = "do" => i >= 1)

\* Taking an element out of the middle of the pending actions.
LEMMA DropType ==
    ASSUME NEW n \in 1 .. Len(pending), pending \in Seq(Actions)
    PROVE  /\ RemoveUnordered(pending, n) \in Seq(Actions)
           /\ Len(RemoveUnordered(pending, n)) = Len(pending) - 1
BY RemoveUnorderedType, EmptySeq

LEMMA DropRepeatedType ==
    ASSUME pending \in Seq(Actions), i \in Nat, i > 1, i <= Len(pending), dups \in Nat, DropRepeated
    PROVE  /\ pending' \in Seq(Actions) /\ i' \in Nat /\ i' <= Len(pending') /\ dups' \in Nat
           /\ i' = i - 1
<1>1. i \in 1 .. Len(pending) /\ Len(pending) \in Nat
    BY LenProperties
<1> QED BY <1>1, DropType DEF DropRepeated

LEMMA TypeInvariant == Spec => []TypeInv
<1>1. Init => TypeInv
    <2>1. EmptyTree \in Seq(Dirs) /\ DOMAIN EmptyTree = {1} /\ EmptyTree[1] = EmptyDir
        BY DEF EmptyTree, EmptyDir, Dirs
    <2>2. TreeOK(EmptyTree)
        BY <2>1 DEF TreeOK, Root, EmptyDir
    <2>3. <<>> \in Seq(Actions)
        OBVIOUS
    <2> SUFFICES ASSUME Init PROVE TypeInv
        OBVIOUS
    <2>4. pc = "idle" /\ i = 0 /\ j = 0 /\ dups = 0 /\ undone = 0 /\ received = {} /\ made = {}
        BY DEF Init
    <2>5. actions \in Seq(Actions) /\ pending \in Seq(Actions) /\ TreeOK(tree) /\ redoneDir \in BOOLEAN
        BY <2>2, <2>3 DEF Init
    <2>6. TypeOK
        BY <2>4, <2>5 DEF TypeOK, Phases
    <2> QED BY <2>4, <2>6 DEF TypeInv
<1>2. TypeInv /\ [Next]_vars => TypeInv'
    <2> SUFFICES ASSUME TypeInv, [Next]_vars PROVE TypeInv'
        OBVIOUS
    <2> USE DEF TypeInv, TypeOK, Phases
    <2>1. CASE Deliver
        <3>1. PICK as \in BoundedSeq(Remote \union received, PerFile), more \in BOOLEAN : Receive(as, more)
            BY <2>1 DEF Deliver
        <3>2. as \in Seq(Actions)
            BY <3>1, BatchType
        <3>3. ToSet(as) \subseteq Actions /\ pending \o as \in Seq(Actions)
            BY <3>2, ToSetType, ConcatProperties
        <3> QED BY <3>1, <3>3 DEF Receive
    <2>2. CASE SortPending
        <3>1. pending' \in Seq(Actions) /\ Len(pending') = Len(pending)
            BY <2>2, TimeSortsPermutes DEF SortPending
        <3>2. Len(pending) \in Nat /\ Len(actions) \in Nat
            BY LenProperties
        <3> QED BY <2>2, <3>1, <3>2 DEF SortPending
    <2>3. CASE SkipLogged
        BY <2>3 DEF SkipLogged, InDedup, InLoop
    <2>4. CASE SkipPending
        BY <2>4 DEF SkipPending, InDedup, InLoop
    <2>5. CASE DropLogged
        <3>1. i \in 1 .. Len(pending) /\ pc = "dedup"
            BY <2>5, LenProperties DEF DropLogged, InDedup
        <3>2. pending' \in Seq(Actions) /\ Len(pending') = Len(pending) - 1
            BY <2>5, <3>1, DropType DEF DropLogged
        <3> QED BY <2>5, <3>1, <3>2 DEF DropLogged, InDedup, InLoop
    <2>6. CASE DedupRepeated
        <3>1. i > 1 /\ i <= Len(pending) /\ DropRepeated /\ pc = "dedup"
            BY <2>6 DEF DedupRepeated, InDedup, LoggedIsNext
        <3>2. pending' \in Seq(Actions) /\ i' \in Nat /\ i' <= Len(pending') /\ dups' \in Nat
            BY <3>1, DropRepeatedType
        <3> QED BY <2>6, <3>1, <3>2 DEF DedupRepeated, InLoop
    <2>7. CASE DedupDone
        BY <2>7 DEF DedupDone, InLoop
    <2>8. CASE TailRepeated
        <3>1. i > 1 /\ i <= Len(pending) /\ DropRepeated /\ pc = "tail"
            BY <2>8 DEF TailRepeated
        <3>2. pending' \in Seq(Actions) /\ i' \in Nat /\ i' <= Len(pending') /\ dups' \in Nat
            BY <3>1, DropRepeatedType
        <3> QED BY <2>8, <3>1, <3>2 DEF TailRepeated, InLoop
    <2>9. CASE TailDone
        <3>1. pending' \in Seq(Actions)
            BY <2>9, TimeSortsPermutes DEF TailDone
        <3> QED BY <2>9, <3>1 DEF TailDone
    <2>10. CASE Undo
        <3>1. actions # <<>>
            BY <2>10 DEF Undo, OutOfOrder
        <3>2. Last(actions) \in Actions /\ Front(actions) \in Seq(Actions)
            BY <3>1 DEF Last, Front
        <3>3. Append(pending, Last(actions)) \in Seq(Actions)
            BY <3>2
        <3> QED BY <2>10, <3>2, <3>3 DEF Undo
    <2>11. CASE UndoDone
        <3>1. pending' \in Seq(Actions)
            BY <2>11, TimeSortsPermutes DEF UndoDone
        <3> QED BY <2>11, <3>1 DEF UndoDone
    <2>12. CASE Do
        <3>1. i \in 1 .. Len(pending)
            BY <2>12, LenProperties DEF Do
        <3>2. pending[i] \in Actions
            BY <3>1, ElementOfSeq
        <3>3. TreeOK(DoAction(tree, pending[i]))
            BY <3>2, DoActionOK, PathsAssumption DEF Actions
        <3>4. Append(actions, pending[i]) \in Seq(Actions)
            BY <3>2
        <3> QED BY <2>12, <3>3, <3>4 DEF Do
    <2>13. CASE Finish
        BY <2>13 DEF Finish
    <2>14. CASE FileOperation
        BY <2>14, FileOperationEffect DEF OperationEffect
    <2>15. CASE UNCHANGED vars
        BY <2>15 DEF vars
    <2> QED
        BY <2>1, <2>2, <2>3, <2>4, <2>5, <2>6, <2>7, <2>8, <2>9, <2>10, <2>11, <2>12, <2>13, <2>14, <2>15
        DEF Next, ActionAddedStep
<1> QED BY <1>1, <1>2, PTL DEF Spec

\* Every variable keeps its type, for every set of names, paths and actions.
THEOREM TypeCorrect == Spec => []TypeOK
<1>1. TypeInv => TypeOK
    BY DEF TypeInv
<1> QED BY <1>1, TypeInvariant, PTL

-----------------------------------------------------------------------------
\* Every element of s is an element of t.
Within(s, t) == \A n \in DOMAIN s : \E m \in DOMAIN t : t[m] = s[n]

LEMMA HasWithin ==
    ASSUME NEW s, NEW t, Within(s, t), NEW a, Has(s, a)
    PROVE  Has(t, a)
BY DEF Has, Within

LEMMA WithinAppend ==
    ASSUME NEW s \in Seq(Actions), NEW e \in Actions
    PROVE  /\ Within(s, Append(s, e))
           /\ Len(s) + 1 \in DOMAIN Append(s, e) /\ Append(s, e)[Len(s) + 1] = e
<1>1. /\ DOMAIN s = 1 .. Len(s) /\ Len(s) \in Nat
      /\ DOMAIN Append(s, e) = 1 .. Len(s) + 1
      /\ \A n \in 1 .. Len(s) : Append(s, e)[n] = s[n]
      /\ Append(s, e)[Len(s) + 1] = e
    BY AppendProperties, LenProperties
<1> QED BY <1>1 DEF Within

LEMMA HasInConcat ==
    ASSUME NEW s \in Seq(Actions), NEW t \in Seq(Actions)
    PROVE  /\ \A a : Has(s, a) \/ Has(t, a) => Has(s \o t, a)
           /\ \A a \in ToSet(t) : Has(s \o t, a)
<1>1. /\ DOMAIN s = 1 .. Len(s) /\ DOMAIN t = 1 .. Len(t) /\ Len(s) \in Nat /\ Len(t) \in Nat
      /\ DOMAIN (s \o t) = 1 .. Len(s) + Len(t)
    BY LenProperties, ConcatProperties
<1>2. Within(s, s \o t)
    BY <1>1, ConcatProperties DEF Within
<1>3. \A n \in DOMAIN t : Len(s) + n \in DOMAIN (s \o t) /\ (s \o t)[Len(s) + n] = t[n]
    BY <1>1, ConcatProperties
<1>4. Within(t, s \o t)
    BY <1>3 DEF Within
<1>5. \A a \in ToSet(t) : Has(t, a)
    BY DEF ToSet, Has, SameKey
<1> QED BY <1>2, <1>4, <1>5, HasWithin

\* Dropping a pending action whose key stays in the log or with another pending
\* action loses no key.
LEMMA DropKeepsKeys ==
    ASSUME NEW s \in Seq(Actions), NEW n \in 1 .. Len(s), NEW t,
           \/ Has(t, s[n])
           \/ \E k \in 1 .. Len(s) : k # n /\ SameKey(s[k], s[n]),
           NEW a, Has(t, a) \/ Has(s, a)
    PROVE  Has(t, a) \/ Has(RemoveUnordered(s, n), a)
<1>1. DOMAIN s = 1 .. Len(s)
    BY LenProperties
<1>2. CASE Has(t, a)
    BY <1>2
<1>3. CASE Has(s, a)
    <2>1. PICK m \in 1 .. Len(s) : SameKey(s[m], a)
        BY <1>1, <1>3 DEF Has
    <2>2. ASSUME NEW k \in 1 .. Len(s), k # n, SameKey(s[k], a)
          PROVE  Has(RemoveUnordered(s, n), a)
        <3>1. PICK l \in DOMAIN RemoveUnordered(s, n) : RemoveUnordered(s, n)[l] = s[k]
            BY <2>2, RemoveUnorderedKeeps
        <3> QED BY <2>2, <3>1 DEF Has
    <2>3. CASE m # n
        BY <2>1, <2>2, <2>3
    <2>4. CASE m = n /\ Has(t, s[n])
        BY <2>1, <2>4 DEF Has, SameKey
    <2>5. CASE m = n /\ \E k \in 1 .. Len(s) : k # n /\ SameKey(s[k], s[n])
        <3>1. PICK k \in 1 .. Len(s) : k # n /\ SameKey(s[k], s[n])
            BY <2>5
        <3>2. SameKey(s[k], a)
            BY <2>1, <2>5, <3>1 DEF SameKey
        <3> QED BY <2>2, <3>1, <3>2
    <2> QED BY <2>3, <2>4, <2>5
<1> QED BY <1>2, <1>3

LEMMA DropRepeatedKeepsKeys ==
    ASSUME pending \in Seq(Actions), i \in Nat, i > 1, i <= Len(pending), DropRepeated,
           NEW a, Has(actions, a) \/ Has(pending, a)
    PROVE  Has(actions, a) \/ Has(pending', a)
<1>1. i \in 1 .. Len(pending) /\ i - 1 \in 1 .. Len(pending) /\ i - 1 # i
    BY LenProperties
<1>2. CASE SameKey(pending[i], pending[i-1])
    <2>1. SameKey(pending[i-1], pending[i])
        BY <1>2 DEF SameKey
    <2>2. pending' = RemoveUnordered(pending, i)
        BY <1>2 DEF DropRepeated
    <2> QED BY <1>1, <2>1, <2>2, DropKeepsKeys
<1>3. CASE ~SameKey(pending[i], pending[i-1])
    BY <1>3 DEF DropRepeated
<1> QED BY <1>2, <1>3

\* Nothing is lost, and what the last loop has passed is in the log.
LostInv ==
    /\ NoActionLost
    /\ pc = "do" => \A n \in DOMAIN pending : n < i => Has(actions, pending[n])

\* A step that leaves the log alone and permutes the pending actions.
LEMMA SortKeepsKeys ==
    ASSUME pending \in Seq(Actions), pending' \in TimeSorts(pending), actions' = actions,
           received' = received, NoActionLost
    PROVE  NoActionLost'
<1>1. Within(pending, pending')
    BY TimeSortsPermutes DEF Within
<1> QED BY <1>1, HasWithin DEF NoActionLost

LEMMA LostInvariant == Spec => []LostInv
<1>1. Init => LostInv
    BY DEF Init, LostInv, NoActionLost
<1>2. TypeInv /\ LostInv /\ [Next]_vars => LostInv'
    <2> SUFFICES ASSUME TypeInv, LostInv, [Next]_vars PROVE LostInv'
        OBVIOUS
    <2>0. TypeOK
        BY DEF TypeInv
    <2>1. CASE Deliver
        <3>1. PICK as \in BoundedSeq(Remote \union received, PerFile), more \in BOOLEAN : Receive(as, more)
            BY <2>1 DEF Deliver
        <3>2. as \in Seq(Actions) /\ pending \in Seq(Actions)
            BY <2>0, <3>1, BatchType DEF TypeOK
        <3>3. NoActionLost'
            BY <3>1, <3>2, HasInConcat DEF Receive, NoActionLost, LostInv
        <3> QED BY <3>1, <3>3 DEF LostInv, Receive
    <2>2. CASE SortPending
        BY <2>0, <2>2, SortKeepsKeys DEF SortPending, LostInv, TypeOK
    <2>3. CASE SkipLogged \/ SkipPending \/ DedupDone
        BY <2>3 DEF SkipLogged, SkipPending, DedupDone, InDedup, InLoop, LostInv, NoActionLost
    <2>4. CASE DropLogged
        <3>1. i \in 1 .. Len(pending) /\ j \in DOMAIN actions /\ SameKey(actions[j], pending[i]) /\ pc' = "dedup"
            BY <2>0, <2>4, LenProperties DEF DropLogged, InDedup, TypeOK
        <3>2. Has(actions, pending[i])
            BY <3>1 DEF Has
        <3>3. \A a \in received : Has(actions, a) \/ Has(RemoveUnordered(pending, i), a)
            BY <2>0, <3>1, <3>2, DropKeepsKeys DEF LostInv, NoActionLost, TypeOK
        <3> QED BY <2>4, <3>1, <3>3 DEF DropLogged, InLoop, LostInv, NoActionLost
    <2>5. CASE DedupRepeated
        <3>1. i > 1 /\ i <= Len(pending) /\ DropRepeated /\ pc' = "dedup"
            BY <2>0, <2>5 DEF DedupRepeated, InDedup, LoggedIsNext, TypeOK
        <3>2. \A a \in received : Has(actions, a) \/ Has(pending', a)
            BY <2>0, <3>1, DropRepeatedKeepsKeys DEF LostInv, NoActionLost, TypeOK
        <3> QED BY <2>5, <3>1, <3>2 DEF DedupRepeated, InLoop, LostInv, NoActionLost
    <2>6. CASE TailRepeated
        <3>1. i > 1 /\ i <= Len(pending) /\ DropRepeated /\ pc' = "tail"
            BY <2>0, <2>6 DEF TailRepeated, TypeOK
        <3>2. \A a \in received : Has(actions, a) \/ Has(pending', a)
            BY <2>0, <3>1, DropRepeatedKeepsKeys DEF LostInv, NoActionLost, TypeOK
        <3> QED BY <2>6, <3>1, <3>2 DEF TailRepeated, InLoop, LostInv, NoActionLost
    <2>7. CASE TailDone
        <3>1. CASE pending' \in TimeSorts(pending)
            BY <2>0, <2>7, <3>1, SortKeepsKeys DEF TailDone, LostInv, TypeOK
        <3>2. CASE pending' = pending
            BY <2>7, <3>2 DEF TailDone, LostInv, NoActionLost
        <3> QED BY <2>7, <3>1, <3>2 DEF TailDone
    <2>8. CASE Undo
        <3>1. actions \in Seq(Actions) /\ actions # <<>> /\ pending \in Seq(Actions)
            BY <2>0, <2>8 DEF Undo, OutOfOrder, TypeOK
        <3>2. Last(actions) \in Actions /\ Front(actions) \in Seq(Actions)
            BY <3>1 DEF Last, Front
        <3>3. Within(pending, pending') /\ Len(pending) + 1 \in DOMAIN pending' /\ pending'[Len(pending) + 1] = Last(actions)
            BY <2>8, <3>1, <3>2, WithinAppend DEF Undo
        <3>4. \A n \in DOMAIN actions : n # Len(actions) => n \in DOMAIN Front(actions) /\ Front(actions)[n] = actions[n]
            BY <3>1 DEF Front
        <3>5. ASSUME NEW a, Has(actions, a)
              PROVE  Has(actions', a) \/ Has(pending', a)
            <4>1. PICK n \in DOMAIN actions : SameKey(actions[n], a)
                BY <3>5 DEF Has
            <4>2. CASE n = Len(actions)
                BY <3>3, <4>1, <4>2 DEF Has, Last
            <4>3. CASE n # Len(actions)
                BY <2>8, <3>4, <4>1, <4>3 DEF Undo, Has
            <4> QED BY <4>2, <4>3
        <3>6. NoActionLost'
            BY <2>8, <3>3, <3>5, HasWithin DEF Undo, NoActionLost, LostInv
        <3> QED BY <2>8, <3>6 DEF Undo, LostInv
    <2>9. CASE UndoDone
        <3>1. NoActionLost'
            <4>1. CASE pending' \in TimeSorts(pending)
                BY <2>0, <2>9, <4>1, SortKeepsKeys DEF UndoDone, LostInv, TypeOK
            <4>2. CASE pending' = pending
                BY <2>9, <4>2 DEF UndoDone, LostInv, NoActionLost
            <4> QED BY <2>9, <4>1, <4>2 DEF UndoDone
        <3>2. pending' \in Seq(Actions)
            BY <2>0, <2>9, TimeSortsPermutes DEF UndoDone, TypeOK
        <3>3. \A n \in DOMAIN pending' : ~(n < i')
            BY <2>9, <3>2 DEF UndoDone
        <3> QED BY <3>1, <3>3 DEF LostInv
    <2>10. CASE Do
        <3>1. actions \in Seq(Actions) /\ pending[i] \in Actions /\ i \in DOMAIN pending /\ pending \in Seq(Actions)
            BY <2>0, <2>10, LenProperties, ElementOfSeq DEF Do, TypeOK, TypeInv
        <3>2. /\ Within(actions, actions')
              /\ Len(actions) + 1 \in DOMAIN actions' /\ actions'[Len(actions) + 1] = pending[i]
            BY <2>10, <3>1, WithinAppend DEF Do
        <3>3. Has(actions', pending[i])
            BY <3>2 DEF Has, SameKey
        <3>4. ASSUME NEW n \in DOMAIN pending, n < i + 1
              PROVE  Has(actions', pending[n])
            <4>1. n < i \/ n = i
                BY <3>1, <3>4
            <4> QED BY <2>10, <3>2, <3>3, <4>1, HasWithin DEF LostInv, Do
        <3> QED BY <2>10, <3>2, <3>4, HasWithin DEF Do, LostInv, NoActionLost
    <2>11. CASE Finish
        <3>1. ASSUME NEW a, Has(pending, a)
              PROVE  Has(actions, a)
            <4>1. PICK n \in DOMAIN pending : SameKey(pending[n], a)
                BY <3>1 DEF Has
            <4>2. n < i
                BY <2>0, <2>11, LenProperties DEF Finish, TypeOK
            <4>3. Has(actions, pending[n])
                BY <2>11, <4>2 DEF LostInv, Finish
            <4> QED BY <4>1, <4>3 DEF Has, SameKey
        <3> QED BY <2>11, <3>1 DEF Finish, LostInv, NoActionLost
    <2>12. CASE FileOperation
        <3>1. PICK as \in Seq(Actions) : actions' = actions \o as /\ received' = received \union ToSet(as)
            BY <2>0, <2>12, FileOperationEffect DEF OperationEffect
        <3>2. pc' = "idle" /\ pending' = pending
            BY <2>0, <2>12, FileOperationEffect DEF OperationEffect
        <3> QED BY <2>0, <3>1, <3>2, HasInConcat DEF LostInv, NoActionLost, TypeOK
    <2>13. CASE UNCHANGED vars
        BY <2>13 DEF vars, LostInv, NoActionLost
    <2> QED
        BY <2>1, <2>2, <2>3, <2>4, <2>5, <2>6, <2>7, <2>8, <2>9, <2>10, <2>11, <2>12, <2>13
        DEF Next, ActionAddedStep
<1> QED BY <1>1, <1>2, TypeInvariant, PTL DEF Spec

\* No action once read is lost, however files arrive: for every set of actions.
THEOREM NothingLost == Spec => []NoActionLost
<1>1. LostInv => NoActionLost
    BY DEF LostInv
<1> QED BY <1>1, LostInvariant, PTL

-----------------------------------------------------------------------------
\* Elements of s and t together, taken from s and t separately.
LEMMA AppendElements ==
    ASSUME NEW s \in Seq(Actions), NEW e \in Actions
    PROVE  /\ Append(s, e) \in Seq(Actions)
           /\ DOMAIN Append(s, e) = 1 .. Len(s) + 1 /\ DOMAIN s = 1 .. Len(s) /\ Len(s) \in Nat
           /\ \A n \in 1 .. Len(s) : Append(s, e)[n] = s[n]
           /\ Append(s, e)[Len(s) + 1] = e
BY AppendProperties, LenProperties

LEMMA FrontElements ==
    ASSUME NEW s \in Seq(Actions), s # <<>>
    PROVE  /\ Front(s) \in Seq(Actions) /\ Last(s) \in Actions
           /\ DOMAIN Front(s) = 1 .. Len(s) - 1 /\ DOMAIN s = 1 .. Len(s) /\ Len(s) \in Nat \ {0}
           /\ \A n \in 1 .. Len(s) - 1 : Front(s)[n] = s[n]
BY DEF Front, Last

LEMMA ConcatElements ==
    ASSUME NEW s \in Seq(Actions), NEW t \in Seq(Actions)
    PROVE  /\ s \o t \in Seq(Actions)
           /\ DOMAIN s = 1 .. Len(s) /\ DOMAIN t = 1 .. Len(t) /\ Len(s) \in Nat /\ Len(t) \in Nat
           /\ DOMAIN (s \o t) = 1 .. Len(s) + Len(t)
           /\ \A n \in 1 .. Len(s) : (s \o t)[n] = s[n]
           /\ \A n \in Len(s) + 1 .. Len(s) + Len(t) : (s \o t)[n] = t[n - Len(s)]
BY ConcatProperties, LenProperties

\* The keys of a sequence, under the operations of actionAdded on sequences.
LEMMA KeysWithin ==
    ASSUME NEW s, NEW t, Within(s, t)
    PROVE  KeysOf(s) \subseteq KeysOf(t)
<1> SUFFICES ASSUME NEW n \in DOMAIN s PROVE Key(s[n]) \in KeysOf(t)
    BY DEF KeysOf
<1>1. PICK m \in DOMAIN t : t[m] = s[n]
    BY DEF Within
<1> QED BY <1>1 DEF KeysOf

LEMMA KeysOfSorted ==
    ASSUME NEW s \in Seq(Actions), NEW t \in TimeSorts(s)
    PROVE  KeysOf(t) = KeysOf(s)
<1>1. Within(s, t) /\ Within(t, s)
    BY TimeSortsPermutes DEF Within
<1>2. KeysOf(s) \subseteq KeysOf(t)
    BY <1>1, KeysWithin, Zenon
<1>3. KeysOf(t) \subseteq KeysOf(s)
    BY <1>1, KeysWithin, Zenon
<1> QED BY <1>2, <1>3

LEMMA KeysOfConcat ==
    ASSUME NEW s \in Seq(Actions), NEW t \in Seq(Actions)
    PROVE  KeysOf(s \o t) = KeysOf(s) \union KeysOf(t)
<1>1. Within(s, s \o t) /\ Within(t, s \o t)
    <2>1. /\ DOMAIN s = 1 .. Len(s) /\ DOMAIN t = 1 .. Len(t) /\ Len(s) \in Nat /\ Len(t) \in Nat
          /\ DOMAIN (s \o t) = 1 .. Len(s) + Len(t)
        BY LenProperties, ConcatProperties
    <2>2. \A n \in DOMAIN t : Len(s) + n \in DOMAIN (s \o t) /\ (s \o t)[Len(s) + n] = t[n]
        BY <2>1, ConcatProperties
    <2>3. \A n \in DOMAIN s : n \in DOMAIN (s \o t) /\ (s \o t)[n] = s[n]
        BY <2>1, ConcatElements
    <2> QED BY <2>2, <2>3, Zenon DEF Within
<1>2. \A n \in DOMAIN s : Key(s[n]) \in KeysOf(s)
    BY DEF KeysOf
<1>3. \A n \in DOMAIN t : Key(t[n]) \in KeysOf(t)
    BY DEF KeysOf
<1>4. ASSUME NEW n \in DOMAIN (s \o t)
      PROVE  Key((s \o t)[n]) \in KeysOf(s) \union KeysOf(t)
    <2>1. Len(s) \in Nat /\ Len(t) \in Nat /\ n \in 1 .. Len(s) + Len(t)
        BY ConcatElements
    <2>2. CASE n \in 1 .. Len(s)
        BY <1>2, <2>2, ConcatElements
    <2>3. CASE n \in Len(s) + 1 .. Len(s) + Len(t)
        <3>1. n - Len(s) \in 1 .. Len(t)
            BY <2>1, <2>3
        <3> QED BY <1>3, <2>3, <3>1, ConcatElements
    <2> QED BY <2>1, <2>2, <2>3
<1>5. KeysOf(s \o t) \subseteq KeysOf(s) \union KeysOf(t)
    BY <1>4 DEF KeysOf
<1> QED BY <1>1, <1>5, KeysWithin

LEMMA KeysOfAppended ==
    ASSUME NEW s \in Seq(Actions), NEW e \in Actions
    PROVE  KeysOf(Append(s, e)) = KeysOf(s) \union {Key(e)}
<1>1. Append(s, e) = s \o <<e>> /\ <<e>> \in Seq(Actions)
    BY AppendIsConcat
<1>2. KeysOf(<<e>>) = {Key(e)}
    BY DEF KeysOf
<1> QED BY <1>1, <1>2, KeysOfConcat

LEMMA KeysOfFront ==
    ASSUME NEW s \in Seq(Actions), s # <<>>
    PROVE  KeysOf(Front(s)) \union {Key(Last(s))} = KeysOf(s)
<1>1. /\ DOMAIN Front(s) = 1 .. Len(s) - 1 /\ DOMAIN s = 1 .. Len(s) /\ Len(s) \in Nat \ {0}
      /\ \A n \in 1 .. Len(s) - 1 : Front(s)[n] = s[n]
    BY FrontElements
<1>2. Last(s) = s[Len(s)]
    BY DEF Last
<1>3. Within(Front(s), s) /\ Len(s) \in DOMAIN s
    BY <1>1 DEF Within
<1>4. ASSUME NEW n \in DOMAIN s PROVE Key(s[n]) \in KeysOf(Front(s)) \union {Key(Last(s))}
    <2>1. n = Len(s) \/ n \in 1 .. Len(s) - 1
        BY <1>1
    <2> QED BY <1>1, <1>2, <2>1 DEF KeysOf
<1>5. KeysOf(s) \subseteq KeysOf(Front(s)) \union {Key(Last(s))}
    BY <1>4 DEF KeysOf
<1>6. Key(Last(s)) \in KeysOf(s)
    BY <1>2, <1>3 DEF KeysOf
<1> QED BY <1>3, <1>5, <1>6, KeysWithin

LEMMA KeysOfDropped ==
    ASSUME NEW s \in Seq(Actions), NEW n \in 1 .. Len(s)
    PROVE  /\ KeysOf(RemoveUnordered(s, n)) \subseteq KeysOf(s)
           /\ KeysOf(s) \subseteq KeysOf(RemoveUnordered(s, n)) \union {Key(s[n])}
           /\ (\E k \in 1 .. Len(s) : k # n /\ Key(s[k]) = Key(s[n])) =>
                KeysOf(RemoveUnordered(s, n)) = KeysOf(s)
<1> DEFINE r == RemoveUnordered(s, n)
<1>1. Within(r, s)
    BY RemoveUnorderedType DEF Within
<1>2. \A k \in 1 .. Len(s) : k # n => Key(s[k]) \in KeysOf(r)
    <2> SUFFICES ASSUME NEW k \in 1 .. Len(s), k # n PROVE Key(s[k]) \in KeysOf(r)
        OBVIOUS
    <2>1. PICK m \in DOMAIN r : r[m] = s[k]
        BY RemoveUnorderedKeeps
    <2> QED BY <2>1 DEF KeysOf
<1>3. \A k \in DOMAIN s : k \in 1 .. Len(s)
    BY LenProperties
<1> HIDE DEF r
<1>4. KeysOf(s) \subseteq KeysOf(r) \union {Key(s[n])}
    BY <1>2, <1>3 DEF KeysOf
<1>5. KeysOf(r) \subseteq KeysOf(s)
    BY <1>1, KeysWithin
<1>6. (\E k \in 1 .. Len(s) : k # n /\ Key(s[k]) = Key(s[n])) => Key(s[n]) \in KeysOf(r)
    BY <1>2
<1> QED BY <1>4, <1>5, <1>6 DEF r

LEMMA DropRepeatedKeys ==
    ASSUME pending \in Seq(Actions), i \in Nat, i > 1, i <= Len(pending), DropRepeated
    PROVE  KeysOf(pending') = KeysOf(pending)
<1>1. i \in 1 .. Len(pending) /\ i - 1 \in 1 .. Len(pending) /\ i - 1 # i
    BY LenProperties
<1>2. CASE SameKey(pending[i], pending[i-1])
    <2>1. Key(pending[i-1]) = Key(pending[i])
        BY <1>2 DEF SameKey, Key
    <2>2. pending' = RemoveUnordered(pending, i)
        BY <1>2 DEF DropRepeated
    <2> QED BY <1>1, <2>1, <2>2, KeysOfDropped
<1>3. CASE ~SameKey(pending[i], pending[i-1])
    BY <1>3 DEF DropRepeated
<1> QED BY <1>2, <1>3

\* What a step does to the two sets.
LEMMA StepRefines ==
    ASSUME TypeInv, LostInv, [Next]_vars
    PROVE  Log!Next \/ (Logged' = Logged /\ Waiting' = Waiting)
<1>0. TypeOK /\ actions \in Seq(Actions) /\ pending \in Seq(Actions)
    BY DEF TypeInv, TypeOK
<1>1. ASSUME KeysOf(actions') = KeysOf(actions), KeysOf(pending') = KeysOf(pending), Absorbed' <=> Absorbed
      PROVE  Logged' = Logged /\ Waiting' = Waiting
    BY <1>1 DEF Logged, Waiting, KeysOf, Key
<1>2. CASE Deliver
    <2>1. PICK as \in BoundedSeq(Remote \union received, PerFile), more \in BOOLEAN : Receive(as, more)
        BY <1>2 DEF Deliver
    <2>2. KeysOf(pending \o as) = KeysOf(pending) \union KeysOf(as)
        BY <1>0, <2>1, BatchType, KeysOfConcat DEF TypeOK
    <2>3. ~Absorbed /\ ~Absorbed' /\ actions' = actions /\ pending' = pending \o as
        BY <2>1 DEF Receive, Absorbed
    <2>4. Logged = KeysOf(actions) /\ Logged' = Logged
        BY <2>3 DEF Logged
    <2>5. Waiting = KeysOf(pending) \ KeysOf(actions) /\ Waiting' = KeysOf(pending \o as) \ KeysOf(actions)
        BY <2>3 DEF Waiting
    <2> QED BY <2>2, <2>4, <2>5 DEF Log!Next, Log!Arrive
<1>3. CASE SortPending
    <2>1. KeysOf(pending') = KeysOf(pending)
        BY <1>0, <1>3, KeysOfSorted DEF SortPending
    <2> QED BY <1>1, <1>3, <2>1 DEF SortPending, Absorbed
<1>4. CASE SkipLogged \/ SkipPending \/ DedupDone
    BY <1>1, <1>4 DEF SkipLogged, SkipPending, DedupDone, InDedup, InLoop, Absorbed
<1>5. CASE DropLogged
    <2>1. /\ i \in 1 .. Len(pending) /\ j \in DOMAIN actions /\ SameKey(actions[j], pending[i])
          /\ pc = "dedup" /\ pc' = "dedup" /\ actions' = actions /\ pending' = RemoveUnordered(pending, i)
        BY <1>0, <1>5, LenProperties DEF DropLogged, InDedup, InLoop, TypeOK
    <2>2. Key(pending[i]) \in KeysOf(actions)
        BY <2>1 DEF KeysOf, Key, SameKey
    <2>3. /\ KeysOf(pending') \subseteq KeysOf(pending)
          /\ KeysOf(pending) \subseteq KeysOf(pending') \union {Key(pending[i])}
        BY <1>0, <2>1, KeysOfDropped
    <2>4. ~Absorbed /\ ~Absorbed'
        BY <2>1 DEF Absorbed
    <2>5. Logged' = Logged
        BY <2>1, <2>4 DEF Logged
    <2>6. Waiting = KeysOf(pending) \ KeysOf(actions) /\ Waiting' = KeysOf(pending') \ KeysOf(actions)
        BY <2>1, <2>4 DEF Waiting
    <2> QED BY <2>2, <2>3, <2>5, <2>6
<1>6. CASE DedupRepeated \/ TailRepeated
    <2>1. i > 1 /\ i <= Len(pending) /\ DropRepeated /\ actions' = actions /\ pc' = pc /\ i \in Nat
        BY <1>0, <1>6 DEF DedupRepeated, TailRepeated, InDedup, LoggedIsNext, InLoop, TypeOK
    <2>2. KeysOf(pending') = KeysOf(pending)
        BY <1>0, <2>1, DropRepeatedKeys
    <2> QED BY <1>1, <2>1, <2>2 DEF Absorbed
<1>7. CASE TailDone
    <2>1. KeysOf(pending') = KeysOf(pending)
        BY <1>0, <1>7, KeysOfSorted DEF TailDone
    <2>2. ~Absorbed /\ Absorbed' /\ actions' = actions
        BY <1>7 DEF TailDone, Absorbed
    <2>3. Logged = KeysOf(actions) /\ Waiting = KeysOf(pending) \ KeysOf(actions)
        BY <2>2 DEF Logged, Waiting
    <2>4. Logged' = KeysOf(actions) \union KeysOf(pending') /\ Waiting' = {}
        BY <2>2 DEF Logged, Waiting
    <2> QED BY <2>1, <2>3, <2>4 DEF Log!Next, Log!Absorb
<1>8. CASE Undo
    <2>1. actions # <<>> /\ Absorbed /\ Absorbed' /\ actions' = Front(actions) /\ pending' = Append(pending, Last(actions))
        BY <1>8 DEF Undo, OutOfOrder, Absorbed
    <2>2. KeysOf(pending') = KeysOf(pending) \union {Key(Last(actions))}
        BY <1>0, <2>1, FrontElements, KeysOfAppended
    <2>3. KeysOf(actions') \union {Key(Last(actions))} = KeysOf(actions)
        BY <1>0, <2>1, KeysOfFront
    <2>4. Logged = KeysOf(actions) \union KeysOf(pending) /\ Logged' = KeysOf(actions') \union KeysOf(pending')
        BY <2>1 DEF Logged
    <2>5. Waiting = {} /\ Waiting' = {}
        BY <2>1 DEF Waiting
    <2> QED BY <2>2, <2>3, <2>4, <2>5
<1>9. CASE UndoDone
    <2>1. KeysOf(pending') = KeysOf(pending)
        BY <1>0, <1>9, KeysOfSorted DEF UndoDone
    <2> QED BY <1>1, <1>9, <2>1 DEF UndoDone, Absorbed
<1>10. CASE Do
    <2>1. i \in DOMAIN pending /\ pending[i] \in Actions
        BY <1>0, <1>10, LenProperties, ElementOfSeq DEF Do, TypeInv, TypeOK
    <2>2. Absorbed /\ Absorbed' /\ actions' = Append(actions, pending[i]) /\ pending' = pending
        BY <1>10 DEF Do, Absorbed
    <2>3. KeysOf(actions') = KeysOf(actions) \union {Key(pending[i])}
        BY <1>0, <2>1, <2>2, KeysOfAppended
    <2>4. Key(pending[i]) \in KeysOf(pending)
        BY <2>1 DEF KeysOf
    <2>5. Logged = KeysOf(actions) \union KeysOf(pending) /\ Logged' = KeysOf(actions') \union KeysOf(pending)
        BY <2>2 DEF Logged
    <2>6. Waiting = {} /\ Waiting' = {}
        BY <2>2 DEF Waiting
    <2> QED BY <2>3, <2>4, <2>5, <2>6
<1>11. CASE Finish
    <2>1. \A n \in DOMAIN pending : Has(actions, pending[n])
        BY <1>0, <1>11, LenProperties DEF Finish, LostInv, TypeOK
    <2>2. KeysOf(pending) \subseteq KeysOf(actions)
        BY <2>1 DEF Has, SameKey, KeysOf, Key
    <2>3. Absorbed /\ ~Absorbed' /\ actions' = actions /\ KeysOf(pending') = {}
        BY <1>11 DEF Finish, Absorbed, KeysOf
    <2>4. Logged = KeysOf(actions) \union KeysOf(pending) /\ Logged' = KeysOf(actions)
        BY <2>3 DEF Logged
    <2>5. Waiting = {} /\ Waiting' = {}
        BY <2>3 DEF Waiting
    <2> QED BY <2>2, <2>4, <2>5
<1>12. CASE FileOperation
    <2>1. PICK as \in Seq(Actions) : actions' = actions \o as
        BY <1>0, <1>12, FileOperationEffect DEF OperationEffect
    <2>2. ~Absorbed /\ ~Absorbed' /\ pending' = pending
        BY <1>0, <1>12, FileOperationEffect DEF OperationEffect, Absorbed
    <2>3. KeysOf(actions') = KeysOf(actions) \union KeysOf(as)
        BY <1>0, <2>1, KeysOfConcat
    <2>4. Logged = KeysOf(actions) /\ Logged' = KeysOf(actions')
        BY <2>2 DEF Logged
    <2>5. Waiting = KeysOf(pending) \ KeysOf(actions) /\ Waiting' = KeysOf(pending) \ KeysOf(actions')
        BY <2>2 DEF Waiting
    <2>6. Logged \subseteq Logged' /\ Waiting' = Waiting \ Logged'
        BY <2>3, <2>4, <2>5
    <2> QED BY <2>6 DEF Log!Next, Log!Make
<1>13. CASE UNCHANGED vars
    BY <1>1, <1>13 DEF vars, Absorbed
<1> QED
    BY <1>2, <1>3, <1>4, <1>5, <1>6, <1>7, <1>8, <1>9, <1>10, <1>11, <1>12, <1>13
    DEF Next, ActionAddedStep

\* The sorting, dropping, undoing and redoing of actionAdded amounts to a set of
\* keys that takes in everything read at once when a batch ends, and that only
\* grows: what an observer of whole calls sees, for every set of actions.
THEOREM LogIsASet == Spec => ImplementsLogSet
<1>1. Init => Log!Init
    BY DEF Init, Log!Init, Logged, Waiting, Absorbed, KeysOf
<1>2. TypeInv /\ LostInv /\ [Next]_vars => [Log!Next]_<<Logged, Waiting>>
    BY StepRefines
<1> QED BY <1>1, <1>2, TypeInvariant, LostInvariant, PTL DEF Spec, ImplementsLogSet, Log!Spec

-----------------------------------------------------------------------------
\* Why the log stays sorted: the pending actions are sorted when the loops start
\* and again unless nothing was dropped or taken back; the undo loop stops only
\* when the rest of the log is older than every pending action.
FromReceived ==
    /\ \A n \in DOMAIN actions : actions[n] \in received
    /\ \A n \in DOMAIN pending : pending[n] \in received

SortInv ==
    /\ SortedByTime(actions)
    /\ pc \in {"dedup", "tail"} /\ dups = 0 => SortedByTime(pending)
    /\ pc = "undo" =>
        /\ undone = 0 => SortedByTime(pending)
        /\ \A n \in DOMAIN pending : pending[1].time <= pending[n].time
    /\ pc = "do" =>
        /\ SortedByTime(pending)
        /\ \A m \in DOMAIN actions, n \in DOMAIN pending : n >= i => actions[m].time <= pending[n].time

LEMMA FromAppended ==
    ASSUME NEW s \in Seq(Actions), NEW e \in Actions, NEW S,
           \A n \in DOMAIN s : s[n] \in S, e \in S
    PROVE  \A n \in DOMAIN Append(s, e) : Append(s, e)[n] \in S
<1> SUFFICES ASSUME NEW n \in DOMAIN Append(s, e) PROVE Append(s, e)[n] \in S
    OBVIOUS
<1>1. Len(s) \in Nat /\ n \in 1 .. Len(s) + 1
    BY AppendElements
<1>2. n \in 1 .. Len(s) \/ n = Len(s) + 1
    BY <1>1
<1> QED BY <1>2, AppendElements

LEMMA FromEither ==
    ASSUME NEW s \in Seq(Actions), NEW t \in Seq(Actions), NEW S, NEW T,
           \A n \in DOMAIN s : s[n] \in S, \A n \in DOMAIN t : t[n] \in T
    PROVE  \A n \in DOMAIN (s \o t) : (s \o t)[n] \in S \union T
<1> SUFFICES ASSUME NEW n \in DOMAIN (s \o t) PROVE (s \o t)[n] \in S \union T
    OBVIOUS
<1>1. Len(s) \in Nat /\ Len(t) \in Nat /\ n \in 1 .. Len(s) + Len(t)
    BY ConcatElements
<1>2. CASE n \in 1 .. Len(s)
    BY <1>2, ConcatElements
<1>3. CASE n \in Len(s) + 1 .. Len(s) + Len(t)
    <2>1. n - Len(s) \in 1 .. Len(t)
        BY <1>1, <1>3
    <2> QED BY <1>3, <2>1, ConcatElements
<1> QED BY <1>1, <1>2, <1>3

\* Nothing enters the log that was not read or made here.
LEMMA ReceivedInvariant == Spec => []FromReceived
<1>1. Init => FromReceived
    BY DEF Init, FromReceived
<1>2. TypeInv /\ FromReceived /\ [Next]_vars => FromReceived'
    <2> SUFFICES ASSUME TypeInv, FromReceived, [Next]_vars PROVE FromReceived'
        OBVIOUS
    <2>0. TypeOK /\ actions \in Seq(Actions) /\ pending \in Seq(Actions)
        BY DEF TypeInv, TypeOK
    <2> USE DEF FromReceived
    <2>1. CASE Deliver
        <3>1. PICK as \in BoundedSeq(Remote \union received, PerFile), more \in BOOLEAN : Receive(as, more)
            BY <2>1 DEF Deliver
        <3>2. as \in Seq(Actions)
            BY <2>0, <3>1, BatchType DEF TypeOK
        <3>3. \A n \in DOMAIN as : as[n] \in ToSet(as)
            BY DEF ToSet
        <3>4. \A n \in DOMAIN (pending \o as) : (pending \o as)[n] \in received \union ToSet(as)
            BY <2>0, <3>2, <3>3, FromEither
        <3> QED BY <3>1, <3>4 DEF Receive
    <2>2. ASSUME pending' \in TimeSorts(pending), actions' = actions, received' = received
          PROVE  FromReceived'
        BY <2>0, <2>2, TimeSortsPermutes
    <2>3. ASSUME NEW k, pending' = RemoveUnordered(pending, k), actions' = actions, received' = received
          PROVE  FromReceived'
        BY <2>0, <2>3, RemoveUnorderedType
    <2>4. CASE SortPending
        BY <2>2, <2>4 DEF SortPending
    <2>5. CASE SkipLogged \/ SkipPending \/ DedupDone
        BY <2>5 DEF SkipLogged, SkipPending, DedupDone, InLoop
    <2>6. CASE DropLogged
        BY <2>3, <2>6 DEF DropLogged, InLoop
    <2>7. CASE DedupRepeated \/ TailRepeated
        <3>1. actions' = actions /\ received' = received /\ DropRepeated
            BY <2>7 DEF DedupRepeated, TailRepeated, InLoop
        <3> QED BY <2>3, <3>1 DEF DropRepeated
    <2>8. CASE TailDone \/ UndoDone
        <3>1. /\ actions' = actions /\ received' = received
              /\ pending' \in TimeSorts(pending) \/ pending' = pending
            BY <2>8 DEF TailDone, UndoDone
        <3> QED BY <2>2, <3>1
    <2>9. CASE Undo
        <3>1. actions # <<>>
            BY <2>9 DEF Undo, OutOfOrder
        <3>2. Last(actions) \in received /\ Last(actions) \in Actions
            BY <2>0, <3>1, FrontElements DEF Last
        <3>3. ASSUME NEW n \in DOMAIN Front(actions) PROVE Front(actions)[n] \in received
            <4>1. /\ DOMAIN Front(actions) = 1 .. Len(actions) - 1 /\ DOMAIN actions = 1 .. Len(actions)
                  /\ Len(actions) \in Nat
                BY <2>0, <3>1, FrontElements
            <4>2. n \in 1 .. Len(actions) - 1
                BY <4>1
            <4>3. Front(actions)[n] = actions[n]
                BY <2>0, <3>1, <4>2, FrontElements
            <4> QED BY <4>1, <4>2, <4>3
        <3>4. \A n \in DOMAIN Append(pending, Last(actions)) : Append(pending, Last(actions))[n] \in received
            BY <2>0, <3>2, FromAppended
        <3> QED BY <2>9, <3>3, <3>4 DEF Undo
    <2>10. CASE Do
        <3>1. i \in DOMAIN pending /\ pending[i] \in Actions
            BY <2>0, <2>10, LenProperties, ElementOfSeq DEF Do, TypeInv, TypeOK
        <3>2. \A n \in DOMAIN Append(actions, pending[i]) : Append(actions, pending[i])[n] \in received
            BY <2>0, <3>1, FromAppended
        <3> QED BY <2>10, <3>2 DEF Do
    <2>11. CASE Finish
        BY <2>11 DEF Finish
    <2>12. CASE FileOperation
        <3>1. PICK as \in Seq(Actions) : actions' = actions \o as /\ received' = received \union ToSet(as)
            BY <2>0, <2>12, FileOperationEffect DEF OperationEffect
        <3>2. pending' = pending
            BY <2>0, <2>12, FileOperationEffect DEF OperationEffect
        <3>3. \A n \in DOMAIN as : as[n] \in ToSet(as)
            BY DEF ToSet
        <3>4. \A n \in DOMAIN (actions \o as) : (actions \o as)[n] \in received \union ToSet(as)
            BY <2>0, <3>1, <3>3, FromEither
        <3> QED BY <3>1, <3>2, <3>4
    <2>13. CASE UNCHANGED vars
        BY <2>13 DEF vars
    <2> QED
        BY <2>1, <2>4, <2>5, <2>6, <2>7, <2>8, <2>9, <2>10, <2>11, <2>12, <2>13
        DEF Next, ActionAddedStep
<1> QED BY <1>1, <1>2, TypeInvariant, PTL DEF Spec

LEMMA TimesOf ==
    ASSUME NEW s \in Seq(Actions)
    PROVE  \A n \in DOMAIN s : s[n] \in Actions /\ s[n].time \in Int
<1>1. \A n \in DOMAIN s : s[n] \in Actions
    BY LenProperties, ElementOfSeq
<1> QED BY <1>1 DEF Actions

\* A later element at the end, or a later sorted sequence, keeps a sequence sorted.
LEMMA SortedAppend ==
    ASSUME NEW s \in Seq(Actions), NEW e \in Actions, SortedByTime(s),
           \A n \in DOMAIN s : s[n].time <= e.time
    PROVE  SortedByTime(Append(s, e))
<1> SUFFICES ASSUME NEW m \in DOMAIN Append(s, e), NEW n \in DOMAIN Append(s, e), m < n
             PROVE  Append(s, e)[m].time <= Append(s, e)[n].time
    BY DEF SortedByTime
<1>1. Len(s) \in Nat /\ m \in 1 .. Len(s) + 1 /\ n \in 1 .. Len(s) + 1
    BY AppendElements
<1>2. m \in 1 .. Len(s) /\ (n \in 1 .. Len(s) \/ n = Len(s) + 1)
    BY <1>1
<1> QED BY <1>2, AppendElements DEF SortedByTime

LEMMA SortedConcat ==
    ASSUME NEW s \in Seq(Actions), NEW t \in Seq(Actions), SortedByTime(s), SortedByTime(t),
           \A m \in DOMAIN s, n \in DOMAIN t : s[m].time <= t[n].time
    PROVE  SortedByTime(s \o t)
<1> SUFFICES ASSUME NEW m \in DOMAIN (s \o t), NEW n \in DOMAIN (s \o t), m < n
             PROVE  (s \o t)[m].time <= (s \o t)[n].time
    BY DEF SortedByTime
<1>1. Len(s) \in Nat /\ Len(t) \in Nat /\ m \in 1 .. Len(s) + Len(t) /\ n \in 1 .. Len(s) + Len(t)
    BY ConcatElements
<1>2. CASE n \in 1 .. Len(s)
    <2>1. m \in 1 .. Len(s)
        BY <1>1, <1>2
    <2> QED BY <1>2, <2>1, ConcatElements DEF SortedByTime
<1>3. CASE n \in Len(s) + 1 .. Len(s) + Len(t)
    <2>1. n - Len(s) \in DOMAIN t /\ (s \o t)[n] = t[n - Len(s)]
        BY <1>1, <1>3, ConcatElements
    <2>2. CASE m \in 1 .. Len(s)
        BY <2>1, <2>2, ConcatElements
    <2>3. CASE m \in Len(s) + 1 .. Len(s) + Len(t)
        <3>1. m - Len(s) \in DOMAIN t /\ (s \o t)[m] = t[m - Len(s)]
            BY <1>1, <2>3, ConcatElements
        <3>2. m - Len(s) < n - Len(s)
            BY <1>1
        <3> QED BY <2>1, <3>1, <3>2 DEF SortedByTime
    <2> QED BY <1>1, <2>2, <2>3
<1> QED BY <1>1, <1>2, <1>3

LEMMA SortedFront ==
    ASSUME NEW s \in Seq(Actions), s # <<>>, SortedByTime(s)
    PROVE  SortedByTime(Front(s)) /\ \A n \in DOMAIN s : s[n].time <= Last(s).time
<1>1. Len(s) \in DOMAIN s /\ Last(s) = s[Len(s)]
    BY FrontElements DEF Last
<1>2. ASSUME NEW n \in DOMAIN s
      PROVE  s[n].time <= Last(s).time
    <2>1. n < Len(s) \/ n = Len(s)
        BY FrontElements
    <2> QED BY <1>1, <2>1, TimesOf DEF SortedByTime
<1>3. SortedByTime(Front(s))
    <2> SUFFICES ASSUME NEW m \in DOMAIN Front(s), NEW n \in DOMAIN Front(s), m < n
                 PROVE  Front(s)[m].time <= Front(s)[n].time
        BY DEF SortedByTime
    <2>1. m \in 1 .. Len(s) - 1 /\ n \in 1 .. Len(s) - 1 /\ Len(s) \in Nat
        BY FrontElements
    <2>2. m \in DOMAIN s /\ n \in DOMAIN s
        BY <2>1, FrontElements
    <2>3. Front(s)[m] = s[m] /\ Front(s)[n] = s[n]
        BY <2>1, FrontElements
    <2> QED BY <2>2, <2>3 DEF SortedByTime
<1> QED BY <1>2, <1>3

LEMMA DropKeepsOrder ==
    ASSUME SortInv, TypeInv, DropRepeated, pc' = pc, pc \in {"dedup", "tail"}, actions' = actions
    PROVE  SortInv'
<1>1. CASE SameKey(pending[i], pending[i-1])
    BY <1>1 DEF DropRepeated, SortInv, TypeInv, TypeOK
<1>2. CASE ~SameKey(pending[i], pending[i-1])
    BY <1>2 DEF DropRepeated, SortInv
<1> QED BY <1>1, <1>2

\* Taking the last action back while it is not older than the first pending one.
LEMMA UndoKeepsOrder ==
    ASSUME SortInv, TypeInv, Undo
    PROVE  SortInv'
<1> DEFINE last == Last(actions)
<1>1. /\ actions \in Seq(Actions) /\ actions # <<>> /\ last \in Actions /\ last.time \in Int
      /\ pending \in Seq(Actions) /\ pending # <<>> /\ pending[1].time <= last.time
    <2>1. actions \in Seq(Actions) /\ actions # <<>> /\ pending \in Seq(Actions) /\ pending # <<>>
        BY DEF Undo, OutOfOrder, TypeInv, TypeOK
    <2>2. last \in Actions
        BY <2>1, FrontElements
    <2> QED BY <2>1, <2>2 DEF Undo, OutOfOrder, Actions
<1>2. SortedByTime(actions')
    BY <1>1, SortedFront DEF Undo, SortInv
<1>3. 1 \in DOMAIN pending /\ 1 \in 1 .. Len(pending)
    BY <1>1
<1> HIDE DEF last
<1>4. Append(pending, last)[1] = pending[1]
    BY <1>1, <1>3, AppendElements
<1>5. ASSUME NEW n \in DOMAIN Append(pending, last)
      PROVE  Append(pending, last)[1].time <= Append(pending, last)[n].time
    <2>1. n \in 1 .. Len(pending) \/ n = Len(pending) + 1
        BY <1>1, AppendElements
    <2>2. CASE n \in 1 .. Len(pending)
        BY <1>1, <1>4, <2>2, AppendElements DEF SortInv, Undo
    <2>3. CASE n = Len(pending) + 1
        BY <1>1, <1>4, <2>3, AppendElements
    <2> QED BY <2>1, <2>2, <2>3
<1>6. pending' = Append(pending, last) /\ pc' = "undo" /\ undone' # 0
    BY DEF Undo, TypeInv, TypeOK, last
<1> QED BY <1>2, <1>5, <1>6 DEF SortInv

\* When the undo loop ends the whole log is older than every pending action.
LEMMA UndoneIsOlder ==
    ASSUME SortInv, TypeInv, UndoDone
    PROVE  SortInv'
<1>1. actions \in Seq(Actions) /\ pending \in Seq(Actions)
    BY DEF TypeInv, TypeOK
<1>2. /\ SortedByTime(pending')
      /\ \A k \in DOMAIN pending' : \E n \in DOMAIN pending : pending'[k] = pending[n]
    <2>1. CASE undone > 0
        BY <1>1, <2>1, TimeSortsPermutes DEF UndoDone
    <2>2. CASE undone = 0
        BY <2>2 DEF UndoDone, SortInv
    <2> QED BY <2>1, <2>2 DEF TypeInv, TypeOK
<1>3. ASSUME NEW m \in DOMAIN actions, NEW n \in DOMAIN pending
      PROVE  actions[m].time <= pending[n].time
    <2>1. actions # <<>> /\ pending # <<>> /\ 1 \in DOMAIN pending
        BY <1>1
    <2>2. Last(actions).time < pending[1].time
        <3>1. Last(actions) \in Actions /\ Head(pending) = pending[1]
            BY <1>1, <2>1, FrontElements
        <3>2. Last(actions).time \in Int /\ pending[1].time \in Int
            BY <1>1, <2>1, <3>1, TimesOf DEF Actions
        <3> QED BY <2>1, <3>1, <3>2 DEF UndoDone, OutOfOrder
    <2>3. actions[m].time <= Last(actions).time
        BY <1>1, <2>1, SortedFront DEF SortInv
    <2>4. pending[1].time <= pending[n].time
        BY DEF SortInv, UndoDone
    <2>5. /\ actions[m].time \in Int /\ pending[1].time \in Int /\ pending[n].time \in Int
          /\ Last(actions).time \in Int
        <3>1. Last(actions) \in Actions
            BY <1>1, <2>1, FrontElements
        <3> QED BY <1>1, <2>1, <3>1, TimesOf DEF Actions
    <2> QED BY <2>2, <2>3, <2>4, <2>5
<1>4. \A m \in DOMAIN actions, k \in DOMAIN pending' : actions[m].time <= pending'[k].time
    BY <1>2, <1>3
<1> QED BY <1>2, <1>4 DEF UndoDone, SortInv

LEMMA DoKeepsOrder ==
    ASSUME SortInv, TypeInv, Do
    PROVE  SortInv'
<1>1. /\ actions \in Seq(Actions) /\ pending \in Seq(Actions)
      /\ i \in Nat /\ i \in DOMAIN pending /\ pending[i] \in Actions
    BY LenProperties, ElementOfSeq DEF Do, TypeInv, TypeOK
<1>2. \A m \in DOMAIN actions : actions[m].time <= pending[i].time
    BY <1>1 DEF SortInv, Do
<1>3. SortedByTime(Append(actions, pending[i]))
    BY <1>1, <1>2, SortedAppend DEF SortInv
<1>4. ASSUME NEW m \in DOMAIN Append(actions, pending[i]), NEW n \in DOMAIN pending, n >= i + 1
      PROVE  Append(actions, pending[i])[m].time <= pending[n].time
    <2>1. n \in Nat /\ n >= i /\ i < n
        BY <1>1, <1>4, LenProperties
    <2>2. m \in 1 .. Len(actions) \/ m = Len(actions) + 1
        BY <1>1, AppendElements
    <2>3. CASE m \in 1 .. Len(actions)
        BY <1>1, <2>1, <2>3, AppendElements DEF SortInv, Do
    <2>4. CASE m = Len(actions) + 1
        BY <1>1, <2>1, <2>4, AppendElements DEF SortInv, Do, SortedByTime
    <2> QED BY <2>2, <2>3, <2>4
<1>5. /\ pc' = "do" /\ i' = i + 1 /\ pending' = pending /\ actions' = Append(actions, pending[i])
    BY DEF Do
<1>6. SortedByTime(pending)
    BY DEF SortInv, Do
<1> QED BY <1>3, <1>4, <1>5, <1>6 DEF SortInv

LEMMA SortInvariant ==
    ASSUME ~ClockSkew
    PROVE  Spec => []SortInv
<1>1. Init => SortInv
    BY DEF Init, SortInv, SortedByTime
<1>2. TypeInv /\ FromReceived /\ SortInv /\ [Next]_vars => SortInv'
    <2> SUFFICES ASSUME TypeInv, FromReceived, SortInv, [Next]_vars PROVE SortInv'
        OBVIOUS
    <2>0. TypeOK /\ actions \in Seq(Actions) /\ pending \in Seq(Actions)
        BY DEF TypeInv, TypeOK
    <2>1. CASE Deliver
        BY <2>1 DEF Deliver, Receive, SortInv
    <2>2. CASE SortPending
        BY <2>0, <2>2, TimeSortsPermutes DEF SortPending, SortInv
    <2>3. CASE SkipLogged \/ SkipPending \/ DedupDone
        BY <2>3 DEF SkipLogged, SkipPending, DedupDone, InDedup, InLoop, SortInv
    <2>4. CASE DropLogged
        BY <2>0, <2>4 DEF DropLogged, InDedup, InLoop, SortInv, TypeOK
    <2>5. CASE DedupRepeated \/ TailRepeated
        BY <2>5, DropKeepsOrder DEF DedupRepeated, TailRepeated, InDedup, InLoop
    <2>6. CASE TailDone
        <3>1. SortedByTime(pending') /\ pending' \in Seq(Actions)
            <4>1. CASE dups > 0
                BY <2>0, <2>6, <4>1, TimeSortsPermutes DEF TailDone
            <4>2. CASE dups = 0
                BY <2>0, <2>6, <4>2 DEF TailDone, SortInv
            <4> QED BY <2>0, <4>1, <4>2 DEF TypeOK
        <3>2. ASSUME NEW n \in DOMAIN pending' PROVE pending'[1].time <= pending'[n].time
            <4>1. 1 \in DOMAIN pending' /\ (n = 1 \/ 1 < n) /\ pending'[1].time \in Int
                BY <3>1, LenProperties, TimesOf
            <4> QED BY <3>1, <4>1 DEF SortedByTime
        <3> QED BY <2>6, <3>1, <3>2 DEF TailDone, SortInv
    <2>7. CASE Undo
        BY <2>7, UndoKeepsOrder
    <2>8. CASE UndoDone
        BY <2>8, UndoneIsOlder
    <2>9. CASE Do
        BY <2>9, DoKeepsOrder
    <2>10. CASE Finish
        BY <2>10 DEF Finish, SortInv
    <2>11. CASE FileOperation
        <3>1. PICK as \in Seq(Actions) : OnTime(as) /\ actions' = actions \o as
            BY <2>0, <2>11, FileOperationEffect DEF OperationEffect
        <3>2. pc' = "idle"
            BY <2>0, <2>11, FileOperationEffect DEF OperationEffect
        <3>3. ASSUME NEW m \in DOMAIN actions, NEW n \in DOMAIN as
              PROVE  actions[m].time <= as[n].time
            <4>1. as[n].time > actions[m].time
                BY <3>1 DEF OnTime, FromReceived
            <4>2. actions[m].time \in Int /\ as[n].time \in Int
                BY <2>0, <3>1, TimesOf
            <4> DEFINE x == actions[m].time
                       y == as[n].time
            <4>3. x \in Int /\ y \in Int /\ y > x
                BY <4>1, <4>2
            <4> HIDE DEF x, y
            <4>4. x <= y
                BY <4>3
            <4> QED BY <4>4 DEF x, y
        <3>4. SortedByTime(actions \o as)
            BY <2>0, <3>1, <3>3, SortedConcat DEF OnTime, SortInv
        <3> QED BY <3>1, <3>2, <3>4 DEF SortInv
    <2>12. CASE UNCHANGED vars
        BY <2>12 DEF vars, SortInv
    <2> QED
        BY <2>1, <2>2, <2>3, <2>4, <2>5, <2>6, <2>7, <2>8, <2>9, <2>10, <2>11, <2>12
        DEF Next, ActionAddedStep
<1> QED BY <1>1, <1>2, TypeInvariant, ReceivedInvariant, PTL DEF Spec

\* Without clock skew an operation of this machine logs its actions in order
\* behind everything received, and so does actionAdded, wherever the times fall.
THEOREM LogStaysSorted == Spec => []LogSorted
<1>1. CASE ~ClockSkew
    <2>1. SortInv => LogSorted
        BY DEF SortInv, LogSorted
    <2> QED BY <1>1, <2>1, SortInvariant, PTL
<1>2. CASE ClockSkew
    <2>1. LogSorted
        BY <1>2 DEF LogSorted
    <2> QED BY <2>1, PTL
<1> QED BY <1>1, <1>2

-----------------------------------------------------------------------------
\* Why nothing is logged twice.  Both walks go down pending from its end: what is
\* at or before i is still sorted, what is behind i is different from all else
\* in either array.  The first walk goes down the log at the same time: what is
\* behind j in the log is later than all that is left of pending.
PrefixSorted == \A m, n \in 1 .. i : m < n => pending[m].time <= pending[n].time
SuffixDone ==
    \A n \in i + 1 .. Len(pending) :
        /\ \A m \in 1 .. Len(pending) : m # n => pending[m].time # pending[n].time
        /\ \A k \in 1 .. Len(actions) : actions[k].time # pending[n].time
Passed == \A k \in j + 1 .. Len(actions), n \in 1 .. i : actions[k].time > pending[n].time
PrefixNew == \A k \in 1 .. Len(actions), n \in 1 .. i : actions[k].time # pending[n].time

\* The elements of pending from the nth on are different from those of the log.
NewFrom(first) ==
    \A m \in DOMAIN actions, n \in DOMAIN pending : n >= first => actions[m].time # pending[n].time

OnceInv ==
    /\ Distinct(actions)
    /\ pc \in {"dedup", "tail"} => PrefixSorted /\ SuffixDone
    /\ pc = "dedup" => Passed
    /\ pc = "tail" => PrefixNew
    /\ pc \in {"undo", "do"} => Distinct(pending)
    /\ pc = "undo" => NewFrom(1)
    /\ pc = "do" => NewFrom(i)

\* With one action per time the comparisons compare times.
LEMMA ComparesTimes ==
    ASSUME OneActionPerTime, received \subseteq Actions, NEW a \in received, NEW b \in received
    PROVE  /\ a.time \in Int /\ b.time \in Int
           /\ After(a, b) <=> a.time > b.time
           /\ SameKey(a, b) <=> a.time = b.time
<1>1. /\ a.time \in Int /\ b.time \in Int /\ a.type \in Int /\ b.type \in Int
      /\ PathRank[a.path] \in Int /\ PathRank[b.path] \in Int
    <2>1. ActionTypes \subseteq Int
        BY DEF ActionTypes, AddFile, RemoveFile, AddDirectory, RemoveDirectory, EditFile
    <2>2. a \in Actions /\ b \in Actions
        OBVIOUS
    <2>3. /\ a.time \in Int /\ b.time \in Int /\ a.type \in ActionTypes /\ b.type \in ActionTypes
          /\ a.path \in Paths /\ b.path \in Paths
        BY <2>2 DEF Actions
    <2>4. PathRank[a.path] \in Nat /\ PathRank[b.path] \in Nat
        BY <2>3, PathsAssumption
    <2>5. a.type \in Int /\ b.type \in Int
        BY <2>1, <2>3
    <2>6. PathRank[a.path] \in Int /\ PathRank[b.path] \in Int
        BY <2>4
    <2> QED BY <2>3, <2>5, <2>6
<1>2. a.time = b.time => SameKey(a, b)
    BY DEF OneActionPerTime
<1> QED BY <1>1, <1>2 DEF After, SameKey

LEMMA PermutesDistinct ==
    ASSUME NEW s \in Seq(Actions), NEW t \in TimeSorts(s), Distinct(s)
    PROVE  Distinct(t)
<1>1. PICK p \in Bijection(DOMAIN s, DOMAIN s) : t = [n \in DOMAIN s |-> s[p[n]]]
    BY DEF TimeSorts, Reorderings
<1>2. p \in [DOMAIN s -> DOMAIN s] /\ \A v, w \in DOMAIN s : p[v] = p[w] => v = w
    BY <1>1 DEF Bijection, Injection, IsInjective
<1> QED BY <1>1, <1>2 DEF Distinct

\* A walk drops the pending action it is at.
LEMMA WalkDrops ==
    ASSUME TypeOK, i \in 1 .. Len(pending), PrefixSorted, SuffixDone,
           pending' = RemoveUnordered(pending, i), i' = i - 1, actions' = actions
    PROVE  /\ PrefixSorted' /\ SuffixDone'
           /\ Passed /\ j' = j => Passed'
           /\ PrefixNew => PrefixNew'
<1> DEFINE from(n) == IF n = i THEN Len(pending) ELSE n
<1>1. /\ Len(pending) \in Nat /\ i \in Nat /\ 1 <= i /\ i <= Len(pending)
      /\ Len(pending') = Len(pending) - 1
      /\ \A n \in 1 .. Len(pending) - 1 : pending'[n] = pending[from(n)]
    BY LenProperties DEF RemoveUnordered, TypeOK
<1>2. \A n \in 1 .. Len(pending) - 1 : from(n) \in 1 .. Len(pending) /\ (n >= i => from(n) \in i + 1 .. Len(pending))
    BY <1>1
<1>3. \A m, n \in 1 .. Len(pending) - 1 : m # n => from(m) # from(n)
    BY <1>1
<1>4. \A n \in 1 .. i - 1 : n \in 1 .. i /\ n \in 1 .. Len(pending) - 1 /\ from(n) = n
    BY <1>1
<1>5. \A n \in i' + 1 .. Len(pending') : n \in 1 .. Len(pending) - 1 /\ n >= i
    BY <1>1
<1> HIDE DEF from
<1>6. PrefixSorted'
    BY <1>1, <1>4 DEF PrefixSorted
<1>7. SuffixDone'
    <2> SUFFICES ASSUME NEW n \in i' + 1 .. Len(pending')
                 PROVE  /\ \A m \in 1 .. Len(pending') : m # n => pending'[m].time # pending'[n].time
                        /\ \A k \in 1 .. Len(actions') : actions'[k].time # pending'[n].time
        BY DEF SuffixDone
    <2>1. n \in 1 .. Len(pending) - 1 /\ from(n) \in i + 1 .. Len(pending)
        BY <1>2, <1>5
    <2>2. /\ \A m \in 1 .. Len(pending) : m # from(n) => pending[m].time # pending[from(n)].time
          /\ \A k \in 1 .. Len(actions) : actions[k].time # pending[from(n)].time
        BY <2>1 DEF SuffixDone
    <2>3. pending'[n] = pending[from(n)]
        BY <1>1, <2>1
    <2>4. ASSUME NEW m \in 1 .. Len(pending) - 1, m # n PROVE pending'[m].time # pending'[n].time
        <3>1. from(m) # from(n) /\ from(m) \in 1 .. Len(pending)
            BY <1>2, <1>3, <2>1, <2>4
        <3>2. pending'[m] = pending[from(m)]
            BY <1>1
        <3> QED BY <2>2, <2>3, <3>1, <3>2
    <2> QED BY <1>1, <2>2, <2>3, <2>4
<1>8. \A n \in 1 .. i - 1 : pending'[n] = pending[n] /\ n \in 1 .. i
    BY <1>1, <1>4
<1>9. Passed /\ j' = j => Passed'
    BY <1>8 DEF Passed
<1>10. PrefixNew => PrefixNew'
    BY <1>8 DEF PrefixNew
<1> QED BY <1>6, <1>7, <1>9, <1>10

\* A walk leaves behind an action that is like no other.
LEMMA WalkKeeps ==
    ASSUME TypeOK, i \in 1 .. Len(pending), PrefixSorted, SuffixDone,
           pending' = pending, i' = i - 1, actions' = actions,
           \A m \in 1 .. i - 1 : pending[m].time # pending[i].time,
           \A k \in 1 .. Len(actions) : actions[k].time # pending[i].time
    PROVE  /\ PrefixSorted' /\ SuffixDone'
           /\ Passed /\ j' = j => Passed'
           /\ PrefixNew => PrefixNew'
<1>1. Len(pending) \in Nat /\ i \in Nat /\ 1 <= i /\ i <= Len(pending)
    BY LenProperties DEF TypeOK
<1>2. \A n \in 1 .. i - 1 : n \in 1 .. i
    BY <1>1
<1>3. PrefixSorted'
    BY <1>2 DEF PrefixSorted
<1>4. SuffixDone'
    <2> SUFFICES ASSUME NEW n \in i .. Len(pending)
                 PROVE  /\ \A m \in 1 .. Len(pending) : m # n => pending[m].time # pending[n].time
                        /\ \A k \in 1 .. Len(actions) : actions[k].time # pending[n].time
        BY <1>1 DEF SuffixDone
    <2>1. CASE n = i
        <3>1. ASSUME NEW m \in 1 .. Len(pending), m # i PROVE pending[m].time # pending[i].time
            <4>1. CASE m \in 1 .. i - 1
                BY <4>1
            <4>2. CASE m \in i + 1 .. Len(pending)
                BY <4>2 DEF SuffixDone
            <4> QED BY <1>1, <3>1, <4>1, <4>2
        <3> QED BY <2>1, <3>1
    <2>2. CASE n # i
        <3>1. n \in i + 1 .. Len(pending)
            BY <1>1, <2>2
        <3> QED BY <3>1 DEF SuffixDone
    <2> QED BY <2>1, <2>2
<1> QED BY <1>2, <1>3, <1>4 DEF Passed, PrefixNew

\* What the walks read: both arrays hold received actions, and times compare.
LEMMA WalkTimes ==
    ASSUME TypeOK, FromReceived, OneActionPerTime
    PROVE  /\ \A k \in 1 .. Len(actions) : actions[k].time \in Int
           /\ \A n \in 1 .. Len(pending) : pending[n].time \in Int
           /\ \A k \in 1 .. Len(actions), n \in 1 .. Len(pending) :
                /\ After(actions[k], pending[n]) <=> actions[k].time > pending[n].time
                /\ After(pending[n], actions[k]) <=> pending[n].time > actions[k].time
                /\ SameKey(actions[k], pending[n]) <=> actions[k].time = pending[n].time
           /\ \A m, n \in 1 .. Len(pending) : SameKey(pending[m], pending[n]) <=> pending[m].time = pending[n].time
<1>1. /\ \A k \in 1 .. Len(actions) : actions[k] \in received
      /\ \A n \in 1 .. Len(pending) : pending[n] \in received
      /\ received \subseteq Actions
    BY LenProperties DEF FromReceived, TypeOK
<1> QED BY <1>1, ComparesTimes

\* Comparing a pending action with the one before it, when the log has nothing
\* like what is left of pending, or that one is later than the log's jth.
LEMMA RepeatedWalks ==
    ASSUME TypeOK, FromReceived, OneActionPerTime, PrefixSorted, SuffixDone, DropRepeated, i > 1, i <= Len(pending),
           actions' = actions, \A k \in 1 .. Len(actions) : SameKey(pending[i], pending[i-1]) \/ actions[k].time # pending[i].time
    PROVE  /\ PrefixSorted' /\ SuffixDone'
           /\ Passed /\ j' = j => Passed'
           /\ PrefixNew => PrefixNew'
<1>1. i \in 1 .. Len(pending) /\ i - 1 \in 1 .. Len(pending) /\ i \in Nat /\ Len(pending) \in Nat /\ i' = i - 1
    BY LenProperties DEF TypeOK, DropRepeated
<1>2. CASE SameKey(pending[i], pending[i-1])
    BY <1>1, <1>2, WalkDrops DEF DropRepeated
<1>3. CASE ~SameKey(pending[i], pending[i-1])
    <2>1. pending' = pending /\ \A k \in 1 .. Len(actions) : actions[k].time # pending[i].time
        BY <1>3 DEF DropRepeated
    <2>2. /\ pending[i-1].time # pending[i].time
          /\ \A n \in 1 .. Len(pending) : pending[n].time \in Int
        BY <1>1, <1>3, WalkTimes
    <2>3. ASSUME NEW m \in 1 .. i - 1 PROVE pending[m].time # pending[i].time
        <3>1. m \in 1 .. i /\ i - 1 \in 1 .. i /\ i \in 1 .. i /\ i - 1 < i /\ m \in 1 .. Len(pending)
            BY <1>1
        <3>2. pending[i-1].time <= pending[i].time
            BY <3>1 DEF PrefixSorted
        <3>3. m = i - 1 \/ pending[m].time <= pending[i-1].time
            BY <1>1, <3>1 DEF PrefixSorted
        <3> DEFINE x == pending[m].time
                   y == pending[i-1].time
                   z == pending[i].time
        <3>4. x \in Int /\ y \in Int /\ z \in Int /\ y <= z /\ y # z /\ (x = y \/ x <= y)
            BY <1>1, <2>2, <3>1, <3>2, <3>3
        <3> HIDE DEF x, y, z
        <3>5. x # z
            BY <3>4
        <3> QED BY <3>5 DEF x, z
    <2> QED BY <1>1, <2>1, <2>3, WalkKeeps
<1> QED BY <1>2, <1>3

LEMMA DedupOnce ==
    ASSUME TypeOK, FromReceived, SortInv, OneActionPerTime, OnceInv,
           SkipLogged \/ SkipPending \/ DropLogged \/ DedupRepeated
    PROVE  OnceInv'
<1> DEFINE A(k) == actions[k].time
           P(n) == pending[n].time
<1>0. /\ pc = "dedup" /\ pc' = "dedup" /\ actions' = actions
      /\ i \in Nat /\ j \in Nat /\ 1 <= i /\ i <= Len(pending) /\ 1 <= j /\ j <= Len(actions)
      /\ Len(pending) \in Nat /\ Len(actions) \in Nat /\ DOMAIN actions = 1 .. Len(actions)
    BY LenProperties DEF SkipLogged, SkipPending, DropLogged, DedupRepeated, InDedup, InLoop, TypeOK
<1>1. PrefixSorted /\ SuffixDone /\ Passed /\ Distinct(actions)
    BY <1>0 DEF OnceInv
<1>2. PrefixSorted' /\ SuffixDone' /\ Passed' => OnceInv'
    BY <1>0, <1>1 DEF OnceInv, Distinct
<1>3. /\ \A k \in 1 .. Len(actions) : A(k) \in Int
      /\ \A n \in 1 .. Len(pending) : P(n) \in Int
    BY WalkTimes
<1>4. \A k \in 1 .. j : A(k) <= A(j)
    BY <1>0, <1>3 DEF SortInv, SortedByTime
<1>5. \A n \in 1 .. i : P(n) <= P(i)
    BY <1>0, <1>1, <1>3 DEF PrefixSorted
<1>6. i \in 1 .. Len(pending) /\ j \in 1 .. Len(actions) /\ (i > 1 => i - 1 \in 1 .. Len(pending))
    BY <1>0
<1>7. LoggedIsNext => (i > 1 => P(i - 1) <= A(j))
    BY <1>0, <1>3, <1>6, WalkTimes DEF LoggedIsNext
<1>8. ~LoggedIsNext => i > 1 /\ P(i - 1) > A(j)
    BY <1>0, <1>3, <1>6, WalkTimes DEF LoggedIsNext
<1>9. \A k \in j + 1 .. Len(actions) : A(k) > P(i)
    BY <1>0, <1>1 DEF Passed
<1>10. CASE SkipLogged
    <2>1. A(j) > P(i) /\ j' = j - 1 /\ i' = i /\ pending' = pending
        BY <1>6, <1>10, WalkTimes DEF SkipLogged
    <2>2. Passed'
        <3> SUFFICES ASSUME NEW k \in j .. Len(actions), NEW n \in 1 .. i
                     PROVE  A(k) > P(n)
            BY <1>0, <2>1 DEF Passed
        <3>1. CASE k = j
            <4>1. n \in 1 .. Len(pending) /\ P(n) <= P(i)
                BY <1>0, <1>5
            <4> HIDE DEF A, P
            <4> QED BY <1>3, <1>6, <2>1, <3>1, <4>1
        <3>2. CASE k # j
            <4>1. k \in j + 1 .. Len(actions)
                BY <1>0, <3>2
            <4> QED BY <1>1, <4>1 DEF Passed
        <3> QED BY <3>1, <3>2
    <2>3. PrefixSorted' /\ SuffixDone'
        BY <1>0, <1>1, <2>1 DEF PrefixSorted, SuffixDone
    <2> QED BY <1>2, <2>2, <2>3
<1>11. CASE SkipPending
    <2>1. P(i) > A(j) /\ LoggedIsNext /\ j' = j /\ i' = i - 1 /\ pending' = pending
        BY <1>6, <1>11, WalkTimes DEF SkipPending
    <2>2. ASSUME NEW m \in 1 .. i - 1 PROVE P(m) # P(i)
        <3>1. m \in 1 .. Len(pending) /\ i > 1 /\ i - 1 \in 1 .. i /\ m \in 1 .. i
            BY <1>0
        <3>2. P(m) <= P(i - 1)
            BY <1>0, <1>1, <1>3, <3>1 DEF PrefixSorted
        <3>3. P(i - 1) <= A(j)
            BY <1>7, <2>1, <3>1
        <3> HIDE DEF A, P
        <3> QED BY <1>3, <1>6, <2>1, <3>1, <3>2, <3>3
    <2>3. ASSUME NEW k \in 1 .. Len(actions) PROVE A(k) # P(i)
        <3>1. k \in 1 .. j \/ k \in j + 1 .. Len(actions)
            BY <1>0
        <3> HIDE DEF A, P
        <3> QED BY <1>3, <1>4, <1>6, <1>9, <2>1, <3>1
    <2> QED BY <1>0, <1>1, <1>2, <1>6, <2>1, <2>2, <2>3, WalkKeeps
<1>12. CASE DropLogged
    <2>1. pending' = RemoveUnordered(pending, i) /\ i' = i - 1 /\ j' = j
        BY <1>12 DEF DropLogged
    <2> QED BY <1>0, <1>1, <1>2, <1>6, <2>1, WalkDrops
<1>13. CASE DedupRepeated
    <2>1. DropRepeated /\ j' = j /\ i > 1 /\ P(i - 1) > A(j)
        BY <1>8, <1>13 DEF DedupRepeated
    <2>2. ASSUME NEW k \in 1 .. Len(actions) PROVE A(k) # P(i)
        <3>1. P(i - 1) <= P(i)
            BY <1>0, <1>5, <2>1
        <3>2. k \in 1 .. j \/ k \in j + 1 .. Len(actions)
            BY <1>0
        <3> HIDE DEF A, P
        <3> QED BY <1>3, <1>4, <1>6, <1>9, <2>1, <3>1, <3>2
    <2> QED BY <1>0, <1>1, <1>2, <2>1, <2>2, RepeatedWalks
<1> QED BY <1>10, <1>11, <1>12, <1>13

\* At the end of the walks pending holds no time twice and none of the log.
LEMMA TailOnce ==
    ASSUME TypeOK, OnceInv, TailDone
    PROVE  OnceInv'
<1>1. /\ i \in Nat /\ i <= 1 /\ Len(pending) \in Nat /\ Len(actions) \in Nat
      /\ DOMAIN pending = 1 .. Len(pending) /\ DOMAIN actions = 1 .. Len(actions)
      /\ PrefixSorted /\ SuffixDone /\ PrefixNew /\ Distinct(actions)
      /\ pc' = "undo" /\ actions' = actions /\ pending \in Seq(Actions)
    BY LenProperties DEF TailDone, OnceInv, TypeOK
<1>2. ASSUME NEW n \in 1 .. Len(pending)
      PROVE  n \in 1 .. i \/ n \in i + 1 .. Len(pending)
    BY <1>1
<1>3. ASSUME NEW m \in 1 .. Len(pending), NEW n \in 1 .. Len(pending), m # n
      PROVE  pending[m].time # pending[n].time
    <2>1. n \in i + 1 .. Len(pending) \/ m \in i + 1 .. Len(pending)
        BY <1>1, <1>3
    <2> QED BY <1>1, <1>3, <2>1 DEF SuffixDone
<1>4. \A k \in 1 .. Len(actions), n \in 1 .. Len(pending) : actions[k].time # pending[n].time
    BY <1>1, <1>2 DEF SuffixDone, PrefixNew
<1>5. CASE pending' = pending
    BY <1>1, <1>3, <1>4, <1>5 DEF OnceInv, Distinct, NewFrom
<1>6. CASE pending' \in TimeSorts(pending)
    <2>1. Distinct(pending')
        BY <1>1, <1>3, <1>6, PermutesDistinct DEF Distinct
    <2>2. \A m \in DOMAIN pending' : \E n \in 1 .. Len(pending) : pending'[m] = pending[n]
        <3>1. pending \in Seq(Actions)
            BY <1>1
        <3>2. \A m \in DOMAIN pending' : \E n \in DOMAIN pending : pending'[m] = pending[n]
            BY <1>6, <3>1, TimeSortsPermutes
        <3> QED BY <1>1, <3>2
    <2>3. \A k \in 1 .. Len(actions), m \in DOMAIN pending' : actions[k].time # pending'[m].time
        BY <1>4, <2>2
    <2> QED BY <1>1, <2>1, <2>3 DEF OnceInv, Distinct, NewFrom
<1> QED BY <1>5, <1>6 DEF TailDone

\* The last action of the log goes to the end of pending.
LEMMA UndoOnce ==
    ASSUME TypeOK, OnceInv, Undo
    PROVE  OnceInv'
<1> DEFINE last == Last(actions)
<1>1. /\ actions \in Seq(Actions) /\ actions # <<>> /\ pending \in Seq(Actions)
      /\ pc' = "undo" /\ actions' = Front(actions) /\ pending' = Append(pending, last)
      /\ Distinct(actions) /\ Distinct(pending) /\ NewFrom(1)
    BY DEF Undo, OutOfOrder, TypeOK, OnceInv
<1>2. /\ last = actions[Len(actions)] /\ last \in Actions /\ Len(actions) \in Nat \ {0}
      /\ DOMAIN actions = 1 .. Len(actions) /\ DOMAIN Front(actions) = 1 .. Len(actions) - 1
      /\ \A n \in 1 .. Len(actions) - 1 : Front(actions)[n] = actions[n]
    BY <1>1, FrontElements DEF Last
<1>3. /\ Len(pending) \in Nat /\ DOMAIN pending = 1 .. Len(pending)
      /\ DOMAIN Append(pending, last) = 1 .. Len(pending) + 1
      /\ \A n \in 1 .. Len(pending) : Append(pending, last)[n] = pending[n]
      /\ Append(pending, last)[Len(pending) + 1] = last
    BY <1>1, <1>2, AppendElements
<1> HIDE DEF last
<1>4. \A n \in 1 .. Len(pending) + 1 : n \in 1 .. Len(pending) \/ n = Len(pending) + 1
    BY <1>3
<1>5. \A n \in 1 .. Len(actions) - 1 : n \in 1 .. Len(actions) /\ n # Len(actions)
    <2>1. Len(actions) \in Nat \ {0}
        BY <1>2
    <2> QED BY <2>1
<1>6. \A n \in 1 .. Len(actions) - 1 : actions[n].time # last.time
    <2>1. Len(actions) \in 1 .. Len(actions)
        BY <1>2
    <2> QED BY <1>1, <1>2, <1>5, <2>1 DEF Distinct
<1>7. \A n \in 1 .. Len(pending) : pending[n].time # last.time
    BY <1>1, <1>2, <1>3 DEF NewFrom
<1>8. \A k \in 1 .. Len(actions), n \in 1 .. Len(pending) : actions[k].time # pending[n].time
    BY <1>1, <1>2, <1>3 DEF NewFrom
<1>9. Distinct(actions')
    <2>1. \A m, n \in 1 .. Len(actions) - 1 : m # n => Front(actions)[m].time # Front(actions)[n].time
        BY <1>1, <1>2, <1>5 DEF Distinct
    <2> QED BY <1>1, <1>2, <2>1 DEF Distinct
<1>10. Distinct(pending')
    BY <1>1, <1>3, <1>4, <1>7 DEF Distinct
<1>11. \A k \in DOMAIN actions', n \in DOMAIN pending' : actions'[k].time # pending'[n].time
    <2> SUFFICES ASSUME NEW k \in 1 .. Len(actions) - 1, NEW n \in 1 .. Len(pending) + 1
                 PROVE  actions[k].time # Append(pending, last)[n].time
        BY <1>1, <1>2, <1>3
    <2> QED BY <1>3, <1>4, <1>5, <1>6, <1>8
<1> QED BY <1>1, <1>9, <1>10, <1>11 DEF OnceInv, NewFrom

\* The next pending action goes to the end of the log.
LEMMA DoOnce ==
    ASSUME TypeInv, OnceInv, Do
    PROVE  OnceInv'
<1>1. /\ actions \in Seq(Actions) /\ pending \in Seq(Actions) /\ Len(pending) \in Nat
      /\ DOMAIN pending = 1 .. Len(pending) /\ i \in DOMAIN pending /\ pending[i] \in Actions
      /\ pc' = "do" /\ i' = i + 1 /\ pending' = pending /\ actions' = Append(actions, pending[i])
      /\ Distinct(actions) /\ Distinct(pending) /\ NewFrom(i)
    BY LenProperties, ElementOfSeq DEF Do, TypeInv, TypeOK, OnceInv
<1>2. /\ Len(actions) \in Nat /\ DOMAIN actions = 1 .. Len(actions)
      /\ DOMAIN Append(actions, pending[i]) = 1 .. Len(actions) + 1
      /\ \A n \in 1 .. Len(actions) : Append(actions, pending[i])[n] = actions[n]
      /\ Append(actions, pending[i])[Len(actions) + 1] = pending[i]
    BY <1>1, AppendElements
<1>3. \A n \in 1 .. Len(actions) + 1 : n \in 1 .. Len(actions) \/ n = Len(actions) + 1
    BY <1>2
<1>4. \A n \in DOMAIN pending : n >= i + 1 => n >= i /\ n # i
    BY <1>1
<1>5. i >= i
    BY <1>1
<1>6. \A k \in 1 .. Len(actions) : actions[k].time # pending[i].time
    BY <1>1, <1>2, <1>5 DEF NewFrom
<1>7. Distinct(actions')
    BY <1>1, <1>2, <1>3, <1>6 DEF Distinct
<1>8. ASSUME NEW k \in 1 .. Len(actions) + 1, NEW n \in DOMAIN pending, n >= i + 1
      PROVE  Append(actions, pending[i])[k].time # pending[n].time
    <2>1. n >= i /\ n # i
        BY <1>4, <1>8
    <2>2. pending[i].time # pending[n].time
        BY <1>1, <2>1 DEF Distinct
    <2> QED BY <1>1, <1>2, <1>3, <2>1, <2>2 DEF NewFrom
<1>9. NewFrom(i)'
    BY <1>1, <1>2, <1>8 DEF NewFrom
<1> QED BY <1>1, <1>7, <1>9 DEF OnceInv

LEMMA DistinctConcat ==
    ASSUME NEW s \in Seq(Actions), NEW t \in Seq(Actions), Distinct(s), Distinct(t),
           \A m \in DOMAIN s, n \in DOMAIN t : s[m].time # t[n].time
    PROVE  Distinct(s \o t)
<1> SUFFICES ASSUME NEW m \in DOMAIN (s \o t), NEW n \in DOMAIN (s \o t), m # n
             PROVE  (s \o t)[m].time # (s \o t)[n].time
    BY DEF Distinct
<1>1. Len(s) \in Nat /\ Len(t) \in Nat /\ m \in 1 .. Len(s) + Len(t) /\ n \in 1 .. Len(s) + Len(t)
    BY ConcatElements
<1>2. \A k \in 1 .. Len(s) : k \in DOMAIN s /\ (s \o t)[k] = s[k]
    BY ConcatElements
<1>3. ASSUME NEW k \in Len(s) + 1 .. Len(s) + Len(t)
      PROVE  k - Len(s) \in DOMAIN t /\ (s \o t)[k] = t[k - Len(s)]
    <2>1. k - Len(s) \in 1 .. Len(t)
        BY <1>1
    <2> QED BY <2>1, ConcatElements
<1>4. CASE m \in 1 .. Len(s) /\ n \in 1 .. Len(s)
    BY <1>2, <1>4 DEF Distinct
<1>5. CASE m \in 1 .. Len(s) /\ n \in Len(s) + 1 .. Len(s) + Len(t)
    BY <1>2, <1>3, <1>5
<1>6. CASE m \in Len(s) + 1 .. Len(s) + Len(t) /\ n \in 1 .. Len(s)
    BY <1>2, <1>3, <1>6
<1>7. CASE m \in Len(s) + 1 .. Len(s) + Len(t) /\ n \in Len(s) + 1 .. Len(s) + Len(t)
    <2>1. m - Len(s) # n - Len(s)
        BY <1>1
    <2> QED BY <1>3, <1>7, <2>1 DEF Distinct
<1> QED BY <1>1, <1>4, <1>5, <1>6, <1>7

\* An operation of this machine logs later times than all received.
LEMMA OperationOnce ==
    ASSUME ~ClockSkew, TypeOK, FromReceived, OnceInv, FileOperation
    PROVE  OnceInv'
<1>1. PICK as \in Seq(Actions) : OnTime(as) /\ actions' = actions \o as
    BY FileOperationEffect DEF OperationEffect
<1>2. pc' = "idle" /\ actions \in Seq(Actions) /\ Distinct(actions) /\ Distinct(as)
    BY <1>1, FileOperationEffect DEF OperationEffect, TypeOK, OnceInv, OnTime
<1>3. ASSUME NEW k \in DOMAIN actions, NEW n \in DOMAIN as
      PROVE  actions[k].time # as[n].time
    <2>1. as[n].time > actions[k].time
        BY <1>1 DEF OnTime, FromReceived
    <2>2. actions[k].time \in Int /\ as[n].time \in Int
        BY <1>1, <1>2, TimesOf
    <2> DEFINE x == actions[k].time
               y == as[n].time
    <2>3. x \in Int /\ y \in Int /\ y > x
        BY <2>1, <2>2
    <2> HIDE DEF x, y
    <2>4. x # y
        BY <2>3
    <2> QED BY <2>4 DEF x, y
<1>4. Distinct(actions')
    BY <1>1, <1>2, <1>3, DistinctConcat
<1> QED BY <1>2, <1>4 DEF OnceInv

LEMMA OnceStep ==
    ASSUME ~ClockSkew, TypeInv, FromReceived, SortInv, OneActionPerTime, OnceInv, [Next]_vars
    PROVE  OnceInv'
<1>0. TypeOK /\ actions \in Seq(Actions) /\ pending \in Seq(Actions)
    BY DEF TypeInv, TypeOK
<1>1. CASE Deliver
    BY <1>1 DEF Deliver, Receive, OnceInv
<1>2. CASE SortPending
    <2>1. /\ pending' \in Seq(Actions) /\ SortedByTime(pending')
          /\ \A m \in DOMAIN pending' : \E n \in DOMAIN pending : pending'[m] = pending[n]
        BY <1>0, <1>2, TimeSortsPermutes DEF SortPending
    <2>2. /\ actions' = actions /\ i' = Len(pending') /\ j' = Len(actions) /\ Distinct(actions)
          /\ pc' = IF OutOfOrder(actions, pending') THEN "dedup" ELSE "tail"
        BY <1>0, <1>2, TimeSortsPermutes DEF SortPending, OnceInv
    <2>3. /\ Len(pending') \in Nat /\ Len(actions) \in Nat
          /\ DOMAIN pending' = 1 .. Len(pending') /\ DOMAIN actions = 1 .. Len(actions)
        BY <1>0, <2>1, LenProperties
    <2>4. PrefixSorted'
        BY <2>1, <2>2, <2>3 DEF PrefixSorted, SortedByTime
    <2>5. SuffixDone' /\ Passed'
        BY <2>2, <2>3 DEF SuffixDone, Passed
    <2>6. ~OutOfOrder(actions, pending') => PrefixNew'
        <3> SUFFICES ASSUME ~OutOfOrder(actions, pending'), NEW k \in 1 .. Len(actions), NEW n \in 1 .. Len(pending')
                     PROVE  actions[k].time # pending'[n].time
            BY <2>2 DEF PrefixNew
        <3>1. actions # <<>> /\ pending' # <<>> /\ 1 \in DOMAIN pending' /\ (n = 1 \/ 1 < n)
            BY <1>0, <2>1, <2>3
        <3>2. Last(actions) \in Actions /\ Head(pending') = pending'[1]
            BY <1>0, <2>1, <3>1, FrontElements
        <3>3. /\ Last(actions).time \in Int /\ pending'[1].time \in Int
              /\ actions[k].time \in Int /\ pending'[n].time \in Int
            BY <1>0, <2>1, <2>3, <3>1, <3>2, TimesOf DEF Actions
        <3>4. Last(actions).time < pending'[1].time
            BY <3>1, <3>2, <3>3 DEF OutOfOrder
        <3>5. actions[k].time <= Last(actions).time
            BY <1>0, <2>3, <3>1, SortedFront DEF SortInv
        <3>6. n = 1 \/ pending'[1].time <= pending'[n].time
            BY <2>1, <2>3, <3>1 DEF SortedByTime
        <3> QED BY <3>3, <3>4, <3>5, <3>6
    <2> QED BY <2>2, <2>4, <2>5, <2>6 DEF OnceInv, Distinct
<1>3. CASE SkipLogged \/ SkipPending \/ DropLogged \/ DedupRepeated
    BY <1>0, <1>3, DedupOnce
<1>4. CASE DedupDone
    <2>1. /\ pc = "dedup" /\ pc' = "tail" /\ i' = i /\ j' = j /\ pending' = pending /\ actions' = actions
          /\ i \in Nat /\ j \in Nat /\ (i < 1 \/ j < 1)
        BY <1>0, <1>4 DEF DedupDone, InLoop, TypeOK
    <2>2. PrefixNew
        <3> SUFFICES ASSUME NEW k \in 1 .. Len(actions), NEW n \in 1 .. i
                     PROVE  actions[k].time # pending[n].time
            BY DEF PrefixNew
        <3>1. i \in Nat /\ j = 0 /\ k \in j + 1 .. Len(actions) /\ i <= Len(pending)
            BY <1>0, <2>1 DEF TypeOK
        <3>2. actions[k].time > pending[n].time
            BY <2>1, <3>1 DEF OnceInv, Passed
        <3>3. n \in DOMAIN pending /\ k \in DOMAIN actions
            BY <1>0, <3>1, LenProperties
        <3>4. actions[k].time \in Int /\ pending[n].time \in Int
            BY <1>0, <3>3, TimesOf
        <3> QED BY <3>2, <3>4
    <2> QED BY <2>1, <2>2 DEF OnceInv, Distinct, PrefixSorted, SuffixDone, PrefixNew
<1>5. CASE TailRepeated
    <2>1. /\ pc = "tail" /\ pc' = "tail" /\ i > 1 /\ i <= Len(pending) /\ i \in Nat /\ DropRepeated /\ actions' = actions
          /\ Len(pending) \in Nat
        BY <1>0, <1>5, LenProperties DEF TailRepeated, InLoop, TypeOK
    <2>2. PrefixSorted /\ SuffixDone /\ PrefixNew /\ Distinct(actions) /\ i \in 1 .. i
        BY <2>1 DEF OnceInv
    <2>3. PrefixSorted' /\ SuffixDone' /\ PrefixNew'
        BY <1>0, <2>1, <2>2, RepeatedWalks DEF PrefixNew
    <2> QED BY <2>1, <2>2, <2>3 DEF OnceInv, Distinct
<1>6. CASE TailDone
    BY <1>0, <1>6, TailOnce
<1>7. CASE Undo
    BY <1>0, <1>7, UndoOnce
<1>8. CASE UndoDone
    <2>1. /\ pc' = "do" /\ actions' = actions /\ i' = 1 /\ Distinct(actions) /\ Distinct(pending) /\ NewFrom(1)
          /\ pending' = pending \/ pending' \in TimeSorts(pending)
        BY <1>8 DEF UndoDone, OnceInv
    <2>2. CASE pending' = pending
        BY <2>1, <2>2 DEF OnceInv, Distinct, NewFrom
    <2>3. CASE pending' \in TimeSorts(pending)
        <3>1. Distinct(pending')
            BY <1>0, <2>1, <2>3, PermutesDistinct
        <3>2. \A m \in DOMAIN pending' : \E n \in DOMAIN pending : pending'[m] = pending[n]
            BY <1>0, <2>3, TimeSortsPermutes
        <3>3. \A n \in DOMAIN pending : n >= 1
            BY <1>0, LenProperties
        <3>4. NewFrom(1)'
            BY <2>1, <3>2, <3>3 DEF NewFrom
        <3> QED BY <2>1, <3>1, <3>4 DEF OnceInv, Distinct, NewFrom
    <2> QED BY <2>1, <2>2, <2>3
<1>9. CASE Do
    BY <1>9, DoOnce
<1>10. CASE Finish
    BY <1>10 DEF Finish, OnceInv, Distinct
<1>11. CASE FileOperation
    BY <1>0, <1>11, OperationOnce
<1>12. CASE UNCHANGED vars
    BY <1>12 DEF vars, OnceInv, Distinct, PrefixSorted, SuffixDone, Passed, PrefixNew, NewFrom
<1> QED
    BY <1>1, <1>2, <1>3, <1>4, <1>5, <1>6, <1>7, <1>8, <1>9, <1>10, <1>11, <1>12
    DEF Next, ActionAddedStep

\* With clocks that agree, and as long as no two actions have one time, an action
\* delivered again in any order, batch or archive is logged once only: the two
\* walks of actionAdded (actions.c:444-496) find every repetition, although they
\* remove elements from the array they walk.
THEOREM LoggedOnce == ~ClockSkew => (Spec /\ []OneActionPerTime => []NothingRepeated)
<1> SUFFICES ASSUME ~ClockSkew PROVE Spec /\ []OneActionPerTime => []NothingRepeated
    OBVIOUS
<1>1. Init => OnceInv
    BY DEF Init, OnceInv, Distinct
<1>2. TypeInv /\ FromReceived /\ SortInv /\ OneActionPerTime /\ OnceInv /\ [Next]_vars => OnceInv'
    BY OnceStep
<1>3. OnceInv => NothingRepeated
    BY DEF OnceInv, NothingRepeated, Distinct, SameKey
<1> QED BY <1>1, <1>2, <1>3, TypeInvariant, ReceivedInvariant, SortInvariant, PTL DEF Spec

\* What OneActionPerTime asks of the constants: no two remote actions have one
\* time, nor a remote one and a reading of this machine's clock.
LEMMA TimesApart ==
    ASSUME ~ClockSkew,
           \A a, b \in Remote : a.time = b.time => SameKey(a, b),
           \A a \in Remote : a.time \notin LocalTimes
    PROVE  Spec => []OneActionPerTime
<1> DEFINE Known == \A a \in received : a \in Remote \/ a.time \in LocalTimes
           TimesInv == OneActionPerTime /\ Known
<1>1. Init => TimesInv
    BY DEF Init, OneActionPerTime
<1>2. TypeInv /\ TimesInv /\ [Next]_vars => TimesInv'
    <2> SUFFICES ASSUME TypeInv, TimesInv, [Next]_vars PROVE TimesInv'
        OBVIOUS
    <2>0. TypeOK
        BY DEF TypeInv
    <2>1. CASE Deliver
        <3>1. PICK as \in BoundedSeq(Remote \union received, PerFile), more \in BOOLEAN : Receive(as, more)
            BY <2>1 DEF Deliver
        <3>2. ToSet(as) \subseteq Remote \union received
            <4>1. PICK n \in 0 .. PerFile : as \in [1 .. n -> Remote \union received]
                BY <3>1 DEF BoundedSeq, SeqOf
            <4> QED BY <4>1 DEF ToSet
        <3>3. \A a \in received' : a \in Remote \/ a \in received
            BY <3>1, <3>2 DEF Receive
        <3>4. Known'
            BY <3>3
        <3>5. ASSUME NEW a \in received', NEW b \in received', a.time = b.time
              PROVE  SameKey(a, b)
            BY <3>3, <3>5 DEF OneActionPerTime, SameKey
        <3> QED BY <3>4, <3>5 DEF OneActionPerTime
    <2>2. CASE FileOperation
        <3>1. PICK as \in Seq(Actions) : received' = received \union ToSet(as) /\ OnTime(as)
            BY <2>0, <2>2, FileOperationEffect DEF OperationEffect
        <3>2. \A a \in ToSet(as) : a.time \in LocalTimes
            BY <3>1 DEF OnTime, ToSet
        <3>3. \A a \in ToSet(as), b \in received : a.time # b.time
            <4> SUFFICES ASSUME NEW n \in DOMAIN as, NEW b \in received PROVE as[n].time # b.time
                BY DEF ToSet
            <4>1. as[n].time > b.time
                BY <3>1 DEF OnTime
            <4>2. as[n].time \in Int /\ b.time \in Int
                BY <2>0, <3>1, TimesOf DEF TypeOK, Actions
            <4> DEFINE x == as[n].time
                       y == b.time
            <4>3. x \in Int /\ y \in Int /\ x > y
                BY <4>1, <4>2
            <4> HIDE DEF x, y
            <4>4. x # y
                BY <4>3
            <4> QED BY <4>4 DEF x, y
        <3>4. \A a, b \in ToSet(as) : a.time = b.time => a = b
            BY <3>1 DEF OnTime, ToSet, Distinct
        <3>5. Known'
            BY <3>1, <3>2
        <3>6. ASSUME NEW a \in received', NEW b \in received', a.time = b.time
              PROVE  SameKey(a, b)
            BY <3>1, <3>3, <3>4, <3>6 DEF OneActionPerTime, SameKey
        <3> QED BY <3>5, <3>6 DEF OneActionPerTime
    <2>3. CASE ActionAddedStep \/ UNCHANGED vars
        <3>1. received' = received
            BY <2>3
            DEF ActionAddedStep, SortPending, SkipLogged, SkipPending, DropLogged, DedupRepeated, DedupDone,
                TailRepeated, TailDone, Undo, UndoDone, Do, Finish, InLoop, vars
        <3> QED BY <3>1 DEF OneActionPerTime
    <2> QED BY <2>1, <2>2, <2>3 DEF Next
<1> QED BY <1>1, <1>2, TypeInvariant, PTL DEF Spec

-----------------------------------------------------------------------------
\* What the tree in memory owes the log while the tail of the log is taken back and
\* done again: e is the replay of the log, and the actions s[n], n in R, are still
\* to be done although t may hold their effects.
Of(s, R, type, p) == \E n \in R : s[n].type = type /\ s[n].path = p

\* One of them removes the directory q or one above it.
RemovesDir(s, R, q) == \E n \in R : s[n].type = RemoveDirectory /\ Under(s[n].path, q)
Removes(s, R, p) == RemovesDir(s, R, Front(p)) \/ Of(s, R, RemoveFile, p)

\* s[n] is the only one that adds the file p.
OneAdd(s, R, p, n) ==
    /\ n \in R /\ s[n].type = AddFile /\ s[n].path = p
    /\ \A m \in R : s[m].type = AddFile /\ s[m].path = p => m = n

\* The file is there if the log has one, and is that one but for a local change.
Agrees(t, e, p) ==
    /\ Filed(e, p) # {} => Filed(t, p) # {}
    /\ \A f \in Filed(t, p) : Dirty(f) \/ Filed(e, p) = {f}

FileRel(t, e, s, R, p) ==
    /\ ~Of(s, R, AddFile, p) /\ ~Of(s, R, EditFile, p) => Agrees(t, e, p)
    /\ ~Of(s, R, AddFile, p) /\ Filed(e, p) # {} => Filed(t, p) # {}
    /\ ~Of(s, R, EditFile, p) /\ Filed(e, p) = {} =>
        \A n \in R : OneAdd(s, R, p, n) => \A f \in Filed(t, p) : Dirty(f) \/ f = CleanOf(s[n])

DirRel(t, e, s, R, q) ==
    /\ HasDir(t, q) => HasDir(e, q)
    /\ HasDir(e, q) => HasDir(t, q) \/ RemovesDir(s, R, q)

\* C holds the paths at which no action on a file has failed.
Rel(t, e, C, s, R) ==
    /\ IsTree(t) /\ IsTree(e) /\ C \subseteq SomePaths
    /\ \A q \in Seq(Names) : DirRel(t, e, s, R, q)
    /\ \A p \in C : ~Removes(s, R, p) => FileRel(t, e, s, R, p)

ActsOnFile(x, p) == x.path = p /\ x.type \in {AddFile, EditFile, RemoveFile}
StayClean(C, e, x) == {p \in C : ActsOnFile(x, p) => CanDo(e, x)}

\* Nothing is left to be done.
Draws(t, e, C) ==
    /\ IsTree(t) /\ IsTree(e) /\ C \subseteq SomePaths
    /\ \A q \in Seq(Names) : HasDir(t, q) <=> HasDir(e, q)
    /\ \A p \in C : Agrees(t, e, p)

LEMMA NothingLeft ==
    ASSUME NEW t, NEW e, NEW C, NEW s
    PROVE  Rel(t, e, C, s, {}) <=> Draws(t, e, C)
<1>1. ASSUME NEW p PROVE ~Removes(s, {}, p) /\ ~RemovesDir(s, {}, p) /\ \A ty : ~Of(s, {}, ty, p)
    BY DEF Removes, RemovesDir, Of
<1>2. ASSUME NEW p PROVE FileRel(t, e, s, {}, p) <=> Agrees(t, e, p)
    <2>1. ~Of(s, {}, AddFile, p) /\ ~Of(s, {}, EditFile, p)
        BY DEF Of
    <2>2. Agrees(t, e, p) => (Filed(e, p) # {} => Filed(t, p) # {})
        BY DEF Agrees
    <2> QED BY <2>1, <2>2 DEF FileRel
<1>3. ASSUME NEW q PROVE DirRel(t, e, s, {}, q) <=> (HasDir(t, q) <=> HasDir(e, q))
    BY <1>1 DEF DirRel
<1> QED BY <1>1, <1>2, <1>3 DEF Rel, Draws

\* More may be left to be done, in another order.
LEMMA MoreLeft ==
    ASSUME NEW t, NEW e, NEW C, NEW s, NEW R, Rel(t, e, C, s, R),
           NEW k, NEW Q, NEW g \in [R -> Q],
           \A m, n \in R : g[m] = g[n] => m = n,
           \A n \in R : k[g[n]] = s[n]
    PROVE  Rel(t, e, C, k, Q)
<1>0. \A n \in R : g[n] \in Q
    OBVIOUS
<1>1. \A q : RemovesDir(s, R, q) => RemovesDir(k, Q, q)
    BY <1>0 DEF RemovesDir
<1>2. \A ty, p : Of(s, R, ty, p) => Of(k, Q, ty, p)
    BY <1>0 DEF Of
<1>3. \A p : Removes(s, R, p) => Removes(k, Q, p)
    BY <1>1, <1>2 DEF Removes
<1>4. \A q \in Seq(Names) : DirRel(t, e, k, Q, q)
    BY <1>1 DEF Rel, DirRel
<1>5. ASSUME NEW p, FileRel(t, e, s, R, p)
      PROVE  FileRel(t, e, k, Q, p)
    <2>1. ASSUME ~Of(k, Q, EditFile, p), Filed(e, p) = {}, NEW n \in Q, OneAdd(k, Q, p, n),
                 NEW f \in Filed(t, p)
          PROVE  Dirty(f) \/ f = CleanOf(k[n])
        <3>1. ~Of(s, R, EditFile, p)
            BY <1>2, <2>1
        <3>2. CASE Of(s, R, AddFile, p)
            <4>1. PICK m \in R : s[m].type = AddFile /\ s[m].path = p
                BY <3>2 DEF Of
            <4>2. \A l \in R : s[l].type = AddFile /\ s[l].path = p => g[l] = n
                BY <1>0, <2>1 DEF OneAdd
            <4>3. OneAdd(s, R, p, m)
                BY <4>1, <4>2 DEF OneAdd
            <4>4. k[n] = s[m]
                BY <4>1, <4>2
            <4> QED BY <1>5, <2>1, <3>1, <4>3, <4>4 DEF FileRel
        <3>3. CASE ~Of(s, R, AddFile, p)
            <4>1. Agrees(t, e, p)
                BY <1>5, <3>1, <3>3 DEF FileRel
            <4> QED BY <2>1, <4>1 DEF Agrees
        <3> QED BY <3>2, <3>3
    <2>2. ~Of(k, Q, AddFile, p) => ~Of(s, R, AddFile, p)
        BY <1>2
    <2>3. ~Of(k, Q, EditFile, p) => ~Of(s, R, EditFile, p)
        BY <1>2
    <2>4. ~Of(k, Q, AddFile, p) /\ ~Of(k, Q, EditFile, p) => Agrees(t, e, p)
        BY <1>5, <2>2, <2>3 DEF FileRel
    <2>5. ~Of(k, Q, AddFile, p) /\ Filed(e, p) # {} => Filed(t, p) # {}
        BY <1>5, <2>2 DEF FileRel
    <2> QED BY <2>1, <2>4, <2>5 DEF FileRel
<1> QED BY <1>3, <1>4, <1>5 DEF Rel

\* The last action of the log is taken back: the tree keeps its effects.
LEMMA UndoneLeft ==
    ASSUME NEW t, NEW e, IsTree(e), NEW x, ActionShape(x), x.type # AddDirectory,
           NEW C, C \subseteq SomePaths, NEW s, NEW R, Rel(t, DoAction(e, x), StayClean(C, e, x), s, R),
           NEW k, NEW m, m \notin R, k[m] = x, \A n \in R : k[n] = s[n]
    PROVE  Rel(t, e, C, k, R \union {m})
<1> DEFINE Q == R \union {m}
           e1 == DoAction(e, x)
           D == StayClean(C, e, x)
<1>1. /\ \A q \in Seq(Names) : HasDir(e1, q) <=> DirAfter(e, x, q)
      /\ \A q \in SomePaths : Filed(e1, q) = FileAfter(e, x, q)
    BY AnyActionIs
<1>2. /\ IsTree(t) /\ \A q \in Seq(Names) : DirRel(t, e1, s, R, q)
      /\ \A p \in D : ~Removes(s, R, p) => FileRel(t, e1, s, R, p)
    BY DEF Rel
<1> HIDE DEF e1
<1>3. \A n : n \in Q <=> n \in R \/ n = m
    OBVIOUS
<1> HIDE DEF Q
<1>4. \A q : RemovesDir(k, Q, q) <=> RemovesDir(s, R, q) \/ (x.type = RemoveDirectory /\ Under(x.path, q))
    BY <1>3 DEF RemovesDir
<1>5. \A ty, p : Of(k, Q, ty, p) <=> Of(s, R, ty, p) \/ (x.type = ty /\ x.path = p)
    BY <1>3 DEF Of
<1>6. \A q \in Seq(Names) : HasDir(e1, q) <=> HasDir(e, q) /\ ~(x.type = RemoveDirectory /\ Under(x.path, q))
    BY <1>1 DEF DirAfter
<1>7. ASSUME NEW q \in Seq(Names)
      PROVE  DirRel(t, e, k, Q, q)
    <2>1. DirRel(t, e1, s, R, q)
        BY <1>2
    <2> QED BY <1>4, <1>6, <2>1 DEF DirRel
<1>8. ASSUME NEW p \in C, ~Removes(k, Q, p)
      PROVE  FileRel(t, e, k, Q, p)
    <2>1. ~Removes(s, R, p) /\ ~(x.type = RemoveDirectory /\ Under(x.path, Front(p)))
          /\ ~(x.type = RemoveFile /\ x.path = p)
        BY <1>4, <1>5, <1>8 DEF Removes
    <2>2. p \in SomePaths /\ Front(p) \in Seq(Names)
        BY SplitPath DEF SomePaths
    <2>3. Filed(e1, p) = FiledAfter(e, x, p)
        BY <1>1, <2>1, <2>2 DEF FileAfter
    <2>4. p \in D => FileRel(t, e1, s, R, p)
        BY <1>2, <2>1
    <2>5. CASE x.path # p \/ x.type \notin {AddFile, EditFile}
        <3>1. ~ActsOnFile(x, p)
            BY <2>1, <2>5 DEF ActsOnFile
        <3>2. FileRel(t, e1, s, R, p)
            BY <2>4, <3>1 DEF StayClean
        <3>3. x.type = RemoveDirectory => Front(p) # x.path
            <4>1. x.path \in SomePaths
                BY DEF ActionShape, SomePaths
            <4>2. Under(x.path, x.path)
                BY <4>1, UnderFront
            <4> QED BY <2>1, <4>2
        <3>4. Filed(e1, p) = Filed(e, p)
            BY <2>1, <2>3, <2>5, <3>3 DEF FiledAfter
        <3>5. (Of(k, Q, AddFile, p) <=> Of(s, R, AddFile, p)) /\ (Of(k, Q, EditFile, p) <=> Of(s, R, EditFile, p))
            BY <1>5, <2>5
        <3>6. ASSUME NEW n, OneAdd(k, Q, p, n) PROVE n \in R /\ OneAdd(s, R, p, n) /\ k[n] = s[n]
            BY <1>3, <2>5, <3>6 DEF OneAdd
        <3>7. Agrees(t, e1, p) => Agrees(t, e, p)
            BY <3>4 DEF Agrees
        <3> QED BY <3>2, <3>4, <3>5, <3>6, <3>7 DEF FileRel
    <2>6. CASE x.path = p /\ x.type = AddFile
        <3>1. Of(k, Q, AddFile, p)
            BY <1>5, <2>6
        <3>2. ASSUME ~Of(k, Q, EditFile, p), Filed(e, p) = {}, NEW n \in Q, OneAdd(k, Q, p, n), NEW f \in Filed(t, p)
              PROVE  Dirty(f) \/ f = CleanOf(k[n])
            <4>1. n = m /\ k[n] = x /\ ~Of(s, R, AddFile, p) /\ ~Of(s, R, EditFile, p)
                <5>1. n = m
                    BY <1>3, <2>6, <3>2 DEF OneAdd
                <5>2. ~Of(s, R, AddFile, p)
                    BY <1>3, <2>6, <3>2, <5>1 DEF OneAdd, Of
                <5> QED BY <1>5, <3>2, <5>1, <5>2
            <4>2. CASE HasDir(e, Front(p))
                <5>1. CanDo(e, x)
                    BY <2>6, <3>2, <4>2, CanDoIs DEF AddFile, EditFile, RemoveFile, RemoveDirectory
                <5>2. FileRel(t, e1, s, R, p)
                    BY <2>4, <5>1 DEF StayClean
                <5>3. Agrees(t, e1, p)
                    BY <4>1, <5>2 DEF FileRel
                <5>4. Filed(e1, p) = {CleanOf(x)}
                    BY <2>3, <2>6, <3>2, <4>2 DEF FiledAfter
                <5>5. Dirty(f) \/ {CleanOf(x)} = {f}
                    BY <3>2, <5>3, <5>4 DEF Agrees
                <5>6. CleanOf(x) \in {CleanOf(x)}
                    OBVIOUS
                <5> QED BY <4>1, <5>5, <5>6
            <4>3. CASE ~HasDir(e, Front(p))
                <5>1. ~HasDir(e1, Front(p))
                    BY <1>6, <2>2, <4>3
                <5>2. ~HasDir(t, Front(p))
                    BY <1>2, <2>2, <5>1 DEF DirRel
                <5>3. Filed(t, p) = {}
                    BY <1>2, <2>2, <5>2, FiledOfDir DEF SomePaths
                <5> QED BY <3>2, <5>3
            <4> QED BY <4>2, <4>3
        <3> QED BY <3>1, <3>2 DEF FileRel
    <2>7. CASE x.path = p /\ x.type = EditFile
        <3>1. Of(k, Q, EditFile, p)
            BY <1>5, <2>7
        <3>2. ASSUME ~Of(k, Q, AddFile, p), Filed(e, p) # {} PROVE Filed(t, p) # {}
            <4>1. HasDir(e, Front(p))
                BY <2>2, <3>2, FiledOfDir DEF SomePaths
            <4>2. CanDo(e, x)
                BY <2>7, <3>2, <4>1, CanDoIs DEF AddFile, EditFile, RemoveFile, RemoveDirectory
            <4>3. FileRel(t, e1, s, R, p)
                BY <2>4, <4>2 DEF StayClean
            <4>4. Filed(e1, p) = {CleanOf(x)}
                BY <2>3, <2>7, <3>2 DEF FiledAfter, AddFile, EditFile
            <4>5. ~Of(s, R, AddFile, p)
                BY <1>5, <3>2
            <4> QED BY <4>3, <4>4, <4>5 DEF FileRel
        <3> QED BY <3>1, <3>2 DEF FileRel
    <2> QED BY <2>5, <2>6, <2>7
<1> QED BY <1>2, <1>7, <1>8 DEF Rel, Q

\* One of the actions left is done.
LEMMA OneDone ==
    ASSUME NEW t, NEW e, NEW C, NEW s, NEW R, Rel(t, e, C, s, R),
           \A m \in R : ActionShape(s[m]),
           NEW n \in R, s[n].type = AddDirectory => ~HasDir(e, s[n].path)
    PROVE  Rel(DoAction(t, s[n]), DoAction(e, s[n]), StayClean(C, e, s[n]), s, R \ {n})
<1> DEFINE x == s[n]
           Q == R \ {n}
           t1 == DoAction(t, x)
           e1 == DoAction(e, x)
           D == StayClean(C, e, x)
<1>1. /\ IsTree(t) /\ IsTree(e) /\ C \subseteq SomePaths /\ D \subseteq C
      /\ \A q \in Seq(Names) : DirRel(t, e, s, R, q)
      /\ \A p \in C : ~Removes(s, R, p) => FileRel(t, e, s, R, p)
    BY DEF Rel, StayClean
<1>2. ActionShape(x) /\ x.path \in SomePaths /\ x.path \in Seq(Names)
    BY DEF ActionShape, SomePaths
<1>3. x.type = AddDirectory => ~HasDir(t, x.path) /\ ~HasDir(e, x.path)
    BY <1>1, <1>2 DEF DirRel
<1>4. /\ IsTree(e1)
      /\ \A q \in Seq(Names) : HasDir(e1, q) <=> DirAfter(e, x, q)
      /\ \A q \in SomePaths : Filed(e1, q) = FileAfter(e, x, q)
    BY <1>1, <1>2, <1>3, AnyActionIs
<1>5. /\ IsTree(t1)
      /\ \A q \in Seq(Names) : HasDir(t1, q) <=> DirAfter(t, x, q)
      /\ \A q \in SomePaths : Filed(t1, q) = FileAfter(t, x, q)
    BY <1>1, <1>2, <1>3, AnyActionIs
<1> HIDE DEF t1, e1
<1>6. \A m : m \in R <=> m \in Q \/ m = n
    OBVIOUS
<1> HIDE DEF Q
<1>7. \A q : RemovesDir(s, R, q) <=> RemovesDir(s, Q, q) \/ (x.type = RemoveDirectory /\ Under(x.path, q))
    BY <1>6 DEF RemovesDir
<1>8. \A ty, p : Of(s, R, ty, p) <=> Of(s, Q, ty, p) \/ (x.type = ty /\ x.path = p)
    BY <1>6 DEF Of
<1>9. ASSUME NEW q \in Seq(Names)
      PROVE  DirRel(t1, e1, s, Q, q)
    <2>1. DirRel(t, e, s, R, q) /\ Front(x.path) \in Seq(Names)
        BY <1>1, <1>2, SplitPath DEF SomePaths
    <2>2. DirRel(t, e, s, R, Front(x.path))
        BY <1>1, <2>1
    <2>3. CASE x.type = AddDirectory /\ q = x.path
        <3>1. HasDir(t1, q) => HasDir(e1, q)
            BY <1>4, <1>5, <2>1, <2>2, <2>3 DEF DirAfter, DirRel, AddDirectory, RemoveDirectory
        <3>2. ASSUME HasDir(e1, q), ~HasDir(t1, q) PROVE RemovesDir(s, Q, q)
            <4>1. HasDir(e, Front(q)) /\ ~HasDir(t, Front(q))
                BY <1>3, <1>4, <1>5, <2>3, <3>2 DEF DirAfter, AddDirectory, RemoveDirectory
            <4>2. RemovesDir(s, R, Front(q))
                BY <2>2, <2>3, <4>1 DEF DirRel
            <4>3. PICK m \in R : s[m].type = RemoveDirectory /\ Under(s[m].path, Front(q))
                BY <4>2 DEF RemovesDir
            <4>4. s[m].path \in SomePaths /\ q \in SomePaths
                BY <1>2, <2>3 DEF ActionShape, SomePaths
            <4>5. Under(s[m].path, q)
                BY <4>3, <4>4, UnderFront
            <4>6. m # n
                BY <2>3, <4>3 DEF AddDirectory, RemoveDirectory
            <4> QED BY <1>6, <4>3, <4>5, <4>6 DEF RemovesDir
        <3> QED BY <3>1, <3>2 DEF DirRel
    <2>4. CASE ~(x.type = AddDirectory /\ q = x.path)
        <3>1. HasDir(t1, q) <=> HasDir(t, q) /\ ~(x.type = RemoveDirectory /\ Under(x.path, q))
            BY <1>5, <2>4 DEF DirAfter
        <3>2. HasDir(e1, q) <=> HasDir(e, q) /\ ~(x.type = RemoveDirectory /\ Under(x.path, q))
            BY <1>4, <2>4 DEF DirAfter
        <3> QED BY <1>7, <2>1, <3>1, <3>2 DEF DirRel
    <2> QED BY <2>3, <2>4
<1>10. ASSUME NEW p \in D, ~Removes(s, Q, p)
       PROVE  FileRel(t1, e1, s, Q, p)
    <2>1. p \in C /\ p \in SomePaths /\ Front(p) \in Seq(Names)
        BY <1>1, SplitPath DEF SomePaths
    <2>2. Filed(t1, p) = FileAfter(t, x, p) /\ Filed(e1, p) = FileAfter(e, x, p)
        BY <1>4, <1>5, <2>1
    <2>3. ActsOnFile(x, p) => CanDo(e, x)
        BY DEF StayClean
    <2>4. CASE (x.type = RemoveDirectory /\ Under(x.path, Front(p))) \/ (x.type = RemoveFile /\ x.path = p)
        <3>1. Filed(t1, p) = {} /\ Filed(e1, p) = {}
            BY <2>2, <2>4 DEF FileAfter, FiledAfter, AddFile, EditFile, RemoveFile, RemoveDirectory
        <3> QED BY <3>1 DEF FileRel, Agrees
    <2>5. CASE ~(x.type = RemoveDirectory /\ Under(x.path, Front(p))) /\ ~(x.type = RemoveFile /\ x.path = p)
        <3>1. ~Removes(s, R, p)
            BY <1>7, <1>8, <1>10, <2>5 DEF Removes
        <3>2. FileRel(t, e, s, R, p)
            BY <1>1, <2>1, <3>1
        <3>3. Filed(t1, p) = FiledAfter(t, x, p) /\ Filed(e1, p) = FiledAfter(e, x, p)
            BY <2>2, <2>5 DEF FileAfter
        <3>4. CASE x.type = AddFile /\ x.path = p
            <4>1. HasDir(e, Front(p)) /\ Filed(e, p) = {}
                BY <1>1, <1>2, <2>3, <3>4, CanDoIs DEF ActsOnFile
            <4>2. HasDir(t, Front(p))
                BY <1>1, <2>1, <3>1, <4>1 DEF DirRel, Removes
            <4>3. Filed(e1, p) = {CleanOf(x)}
                BY <3>3, <3>4, <4>1 DEF FiledAfter
            <4>4. Filed(t1, p) = IF Filed(t, p) = {} THEN {CleanOf(x)} ELSE Filed(t, p)
                BY <3>3, <3>4, <4>2 DEF FiledAfter, AddFile, EditFile, RemoveFile, RemoveDirectory
            <4>5. Filed(t1, p) # {} /\ Filed(e1, p) # {}
                BY <4>3, <4>4
            <4>6. ASSUME ~Of(s, Q, AddFile, p), ~Of(s, Q, EditFile, p), NEW f \in Filed(t1, p)
                  PROVE  Dirty(f) \/ Filed(e1, p) = {f}
                <5>1. ~Of(s, R, EditFile, p)
                    BY <1>8, <3>4, <4>6 DEF AddFile, EditFile
                <5>2. OneAdd(s, R, p, n)
                    BY <1>6, <3>4, <4>6 DEF OneAdd, Of
                <5>3. f \in Filed(t, p) => Dirty(f) \/ f = CleanOf(x)
                    BY <3>2, <4>1, <5>1, <5>2 DEF FileRel
                <5> QED BY <4>3, <4>4, <4>6, <5>3
            <4> QED BY <4>5, <4>6 DEF FileRel, Agrees
        <3>5. CASE x.type = EditFile /\ x.path = p
            <4>1. Filed(e, p) # {}
                BY <1>1, <1>2, <2>3, <3>5, CanDoIs DEF ActsOnFile
            <4>2. Filed(e1, p) = {CleanOf(x)}
                BY <3>3, <3>5, <4>1 DEF FiledAfter, AddFile, EditFile
            <4>3. Filed(t1, p) = IF Filed(t, p) # {} THEN {CleanOf(x)} ELSE {}
                BY <3>3, <3>5 DEF FiledAfter, AddFile, EditFile, RemoveFile, RemoveDirectory
            <4>4. ASSUME ~Of(s, Q, AddFile, p) PROVE Filed(t1, p) = {CleanOf(x)}
                <5>1. ~Of(s, R, AddFile, p)
                    BY <1>8, <3>5, <4>4 DEF AddFile, EditFile
                <5>2. Filed(t, p) # {}
                    BY <3>2, <4>1, <5>1 DEF FileRel
                <5> QED BY <4>3, <5>2
            <4>5. Filed(e1, p) # {}
                BY <4>2
            <4>6. ~Of(s, Q, AddFile, p) => Agrees(t1, e1, p)
                BY <4>2, <4>4 DEF Agrees
            <4>7. ~Of(s, Q, AddFile, p) => Filed(t1, p) # {}
                BY <4>4
            <4> QED BY <4>5, <4>6, <4>7 DEF FileRel
        <3>6. CASE ~(x.type \in {AddFile, EditFile} /\ x.path = p)
            <4>1. x.type = RemoveDirectory => Front(p) # x.path
                <5>1. Under(x.path, x.path)
                    BY <1>2, UnderFront
                <5> QED BY <2>5, <5>1
            <4>2. Filed(t1, p) = Filed(t, p) /\ Filed(e1, p) = Filed(e, p)
                BY <2>5, <3>3, <3>6, <4>1 DEF FiledAfter
            <4>3. (Of(s, Q, AddFile, p) <=> Of(s, R, AddFile, p)) /\ (Of(s, Q, EditFile, p) <=> Of(s, R, EditFile, p))
                BY <1>8, <3>6
            <4>4. ASSUME NEW m \in Q, OneAdd(s, Q, p, m) PROVE m \in R /\ OneAdd(s, R, p, m)
                BY <1>6, <3>6, <4>4 DEF OneAdd
            <4>5. Agrees(t, e, p) => Agrees(t1, e1, p)
                BY <4>2 DEF Agrees
            <4> QED BY <3>2, <4>2, <4>3, <4>4, <4>5 DEF FileRel
        <3> QED BY <3>4, <3>5, <3>6
    <2> QED BY <2>4, <2>5
<1> QED BY <1>1, <1>4, <1>5, <1>9, <1>10 DEF Rel, Q, t1, e1

\* An action of this machine that does to the tree what its replay does.
LEMMA DoneHere ==
    ASSUME NEW t, NEW e, NEW C, Draws(t, e, C),
           NEW x, ActionShape(x), x.type = AddDirectory => ~HasDir(e, x.path)
    PROVE  Draws(DoAction(t, x), DoAction(e, x), StayClean(C, e, x))
<1> DEFINE s == [n \in {1} |-> x]
           g == [n \in {} |-> 1]
<1>1. Rel(t, e, C, s, {})
    BY NothingLeft
<1>2. s[1] = x /\ g \in [{} -> {1}] /\ {1} \ {1} = {}
    OBVIOUS
<1> HIDE DEF s, g
<1>3. Rel(t, e, C, s, {1})
    BY <1>1, <1>2, MoreLeft
<1>4. Rel(DoAction(t, s[1]), DoAction(e, s[1]), StayClean(C, e, s[1]), s, {1} \ {1})
    BY <1>2, <1>3, OneDone
<1>5. Rel(DoAction(t, x), DoAction(e, x), StayClean(C, e, x), s, {})
    BY <1>2, <1>4
<1> QED BY <1>5, NothingLeft

\* A change in memory only.
LEMMA ChangedHere ==
    ASSUME NEW t, NEW e, NEW C, Draws(t, e, C), NEW p, NEW u, NEW f, FileUpdate(t, u, p, {f}), Dirty(f)
    PROVE  Draws(u, e, C)
<1>1. \A q \in Seq(Names) : HasDir(u, q) <=> HasDir(t, q)
    BY DEF FileUpdate, HasDir
<1>2. \A q \in C : Filed(u, q) = IF q = p THEN {f} ELSE Filed(t, q)
    BY DEF FileUpdate, Draws, SomePaths
<1>3. ASSUME NEW q \in C PROVE Agrees(u, e, q)
    <2>1. Agrees(t, e, q)
        BY DEF Draws
    <2> QED BY <1>2, <2>1 DEF Agrees
<1> QED BY <1>1, <1>3 DEF Draws, FileUpdate

\* A flush: the tree holds what the action says, the replay if it does not fail.
LEMMA FlushedHere ==
    ASSUME NEW t, NEW e, NEW C, Draws(t, e, C),
           NEW x, ActionShape(x), x.type \in {AddFile, EditFile},
           NEW u, FileUpdate(t, u, x.path, {CleanOf(x)})
    PROVE  Draws(u, DoAction(e, x), StayClean(C, e, x))
<1> DEFINE e1 == DoAction(e, x)
           D == StayClean(C, e, x)
<1>1. x.type # AddDirectory /\ x.type # RemoveDirectory /\ x.type # RemoveFile
    BY DEF AddFile, EditFile, RemoveFile, AddDirectory, RemoveDirectory
<1>2. IsTree(e) /\ D \subseteq C /\ D \subseteq SomePaths
    BY DEF Draws, StayClean
<1>3. /\ IsTree(e1)
      /\ \A q \in Seq(Names) : HasDir(e1, q) <=> DirAfter(e, x, q)
      /\ \A q \in SomePaths : Filed(e1, q) = FileAfter(e, x, q)
    BY <1>1, <1>2, AnyActionIs
<1> HIDE DEF e1
<1>4. \A q \in Seq(Names) : HasDir(u, q) <=> HasDir(t, q)
    BY DEF FileUpdate, HasDir
<1>5. \A q \in Seq(Names) : HasDir(e1, q) <=> HasDir(e, q)
    BY <1>1, <1>3 DEF DirAfter
<1>6. ASSUME NEW q \in D PROVE Agrees(u, e1, q)
    <2>1. Filed(u, q) = IF q = x.path THEN {CleanOf(x)} ELSE Filed(t, q)
        BY <1>2 DEF FileUpdate, SomePaths
    <2>2. Filed(e1, q) = FiledAfter(e, x, q)
        BY <1>1, <1>2, <1>3 DEF FileAfter
    <2>3. CASE q = x.path
        <3>1. CanDo(e, x)
            BY <2>3 DEF StayClean, ActsOnFile
        <3>2. /\ HasDir(e, Front(q)) /\ x.type = AddFile => Filed(e, q) = {}
              /\ x.type = EditFile => Filed(e, q) # {}
            BY <1>2, <2>3, <3>1, CanDoIs
        <3>3. HasDir(e, Front(q))
            BY <1>2, <2>3, <3>1, CanDoIs
        <3>4. Filed(e1, q) = {CleanOf(x)}
            BY <2>2, <2>3, <3>2, <3>3 DEF FiledAfter, AddFile, EditFile
        <3> QED BY <2>1, <2>3, <3>4 DEF Agrees
    <2>4. CASE q # x.path
        <3>1. Filed(e1, q) = Filed(e, q)
            BY <1>1, <2>2, <2>4 DEF FiledAfter
        <3>2. Agrees(t, e, q)
            BY <1>2 DEF Draws
        <3> QED BY <2>1, <2>4, <3>1, <3>2 DEF Agrees
    <2> QED BY <2>3, <2>4
<1> QED BY <1>2, <1>3, <1>4, <1>5, <1>6 DEF Draws, FileUpdate, e1

\* A file is removed: w is the tree before, t the one its flush would have left.
LEMMA RemovedHere ==
    ASSUME NEW t, NEW e, NEW C, Draws(t, e, C),
           NEW x, ActionShape(x), x.type = RemoveFile,
           NEW w, \A q \in Seq(Names) : HasDir(w, q) <=> HasDir(t, q),
           \A q \in SomePaths \ {x.path} : Filed(w, q) = Filed(t, q),
           NEW u, FileUpdate(w, u, x.path, {})
    PROVE  Draws(u, DoAction(e, x), StayClean(C, e, x))
<1> DEFINE e1 == DoAction(e, x)
           D == StayClean(C, e, x)
<1>1. x.type # AddDirectory /\ x.type # RemoveDirectory /\ x.type # AddFile /\ x.type # EditFile
    BY DEF AddFile, EditFile, RemoveFile, AddDirectory, RemoveDirectory
<1>2. IsTree(e) /\ D \subseteq C /\ D \subseteq SomePaths
    BY DEF Draws, StayClean
<1>3. /\ IsTree(e1)
      /\ \A q \in Seq(Names) : HasDir(e1, q) <=> DirAfter(e, x, q)
      /\ \A q \in SomePaths : Filed(e1, q) = FileAfter(e, x, q)
    BY <1>1, <1>2, AnyActionIs
<1> HIDE DEF e1
<1>4. \A q \in Seq(Names) : HasDir(u, q) <=> HasDir(t, q)
    BY DEF FileUpdate, HasDir
<1>5. \A q \in Seq(Names) : HasDir(e1, q) <=> HasDir(e, q)
    BY <1>1, <1>3 DEF DirAfter
<1>6. ASSUME NEW q \in D PROVE Agrees(u, e1, q)
    <2>1. Filed(u, q) = IF q = x.path THEN {} ELSE Filed(t, q)
        BY <1>2 DEF FileUpdate, SomePaths
    <2>2. Filed(e1, q) = IF q = x.path THEN {} ELSE Filed(e, q)
        BY <1>1, <1>2, <1>3 DEF FileAfter, FiledAfter
    <2>3. Agrees(t, e, q)
        BY <1>2 DEF Draws
    <2> QED BY <2>1, <2>2, <2>3 DEF Agrees
<1> QED BY <1>2, <1>3, <1>4, <1>5, <1>6 DEF Draws, FileUpdate, e1

-----------------------------------------------------------------------------
\* The tree a replay has when it comes to entry n.
Before(log, n) == Replay(SubSeq(log, 1, n - 1))

CleanPaths(log) ==
    {p \in SomePaths : \A n \in DOMAIN log : ActsOnFile(log[n], p) => CanDo(Before(log, n), log[n])}

LEMMA PlacesOfAppend ==
    ASSUME NEW log \in Seq(Actions), NEW x \in Actions
    PROVE  LET more == Append(log, x)
           IN /\ Len(log) \in Nat /\ DOMAIN log = 1 .. Len(log) /\ DOMAIN more = 1 .. Len(log) + 1
              /\ \A n \in 1 .. Len(log) : more[n] = log[n] /\ Before(more, n) = Before(log, n)
              /\ more[Len(log) + 1] = x /\ Before(more, Len(log) + 1) = Replay(log)
<1> DEFINE more == Append(log, x)
<1>1. /\ Len(log) \in Nat /\ DOMAIN log = 1 .. Len(log) /\ DOMAIN more = 1 .. Len(log) + 1
      /\ \A n \in 1 .. Len(log) : more[n] = log[n]
      /\ more[Len(log) + 1] = x
    BY AppendElements
<1>2. \A n \in 1 .. Len(log) + 1 :
        /\ SubSeq(more, 1, n - 1) = SubSeq(log, 1, n - 1)
        /\ n = Len(log) + 1 => SubSeq(log, 1, n - 1) = log
    BY BeforePlace
<1> DEFINE sub(l, n) == SubSeq(l, 1, n - 1)
<1>3. \A n \in 1 .. Len(log) + 1 : sub(more, n) = sub(log, n) /\ (n = Len(log) + 1 => sub(log, n) = log)
    BY <1>2
<1>4. \A l, n : Before(l, n) = Replay(sub(l, n))
    BY DEF Before
<1>5. Len(log) + 1 \in 1 .. Len(log) + 1 /\ \A n \in 1 .. Len(log) : n \in 1 .. Len(log) + 1
    BY <1>1
<1> HIDE DEF sub, more
<1>6. \A n \in 1 .. Len(log) : Before(more, n) = Before(log, n)
    BY <1>3, <1>4, <1>5
<1>7. Before(more, Len(log) + 1) = Replay(log)
    BY <1>3, <1>4, <1>5
<1> QED BY <1>1, <1>6, <1>7 DEF more

\* What one entry more asks of the log.
LEMMA EntryMore ==
    ASSUME NEW log \in Seq(Actions), NEW x \in Actions
    PROVE  /\ CleanPaths(Append(log, x)) = StayClean(CleanPaths(log), Replay(log), x)
           /\ AddsNewDirs(Append(log, x)) <=>
                AddsNewDirs(log) /\ (x.type = AddDirectory => ~DirExists(Replay(log), x.path))
<1> DEFINE more == Append(log, x)
<1>1. /\ Len(log) \in Nat /\ DOMAIN log = 1 .. Len(log) /\ DOMAIN more = 1 .. Len(log) + 1
      /\ \A n \in 1 .. Len(log) : more[n] = log[n] /\ Before(more, n) = Before(log, n)
      /\ more[Len(log) + 1] = x /\ Before(more, Len(log) + 1) = Replay(log)
    BY PlacesOfAppend
<1>2. \A l : AddsNewDirs(l) <=> \A n \in DOMAIN l : l[n].type = AddDirectory => ~DirExists(Before(l, n), l[n].path)
    BY DEF AddsNewDirs, Before
<1> HIDE DEF more
<1>3. \A n : n \in DOMAIN more <=> n \in DOMAIN log \/ n = Len(log) + 1
    BY <1>1
<1> DEFINE Ok(l, n, p) == ActsOnFile(l[n], p) => CanDo(Before(l, n), l[n])
           New(l, n) == l[n].type = AddDirectory => ~DirExists(Before(l, n), l[n].path)
<1>4. \A p : \A n \in DOMAIN log : Ok(more, n, p) <=> Ok(log, n, p)
    BY <1>1
<1>5. \A n \in DOMAIN log : New(more, n) <=> New(log, n)
    BY <1>1
<1>6. \A p : Ok(more, Len(log) + 1, p) <=> (ActsOnFile(x, p) => CanDo(Replay(log), x))
    BY <1>1
<1>7. New(more, Len(log) + 1) <=> (x.type = AddDirectory => ~DirExists(Replay(log), x.path))
    BY <1>1
<1>8. \A l : CleanPaths(l) = {p \in SomePaths : \A n \in DOMAIN l : Ok(l, n, p)}
    BY DEF CleanPaths
<1>9. AddsNewDirs(more) <=> AddsNewDirs(log) /\ New(more, Len(log) + 1)
    <2>1. \A l : AddsNewDirs(l) <=> \A n \in DOMAIN l : New(l, n)
        BY <1>2
    <2> HIDE DEF New
    <2> QED BY <1>3, <1>5, <2>1
<1>10. CleanPaths(more) = StayClean(CleanPaths(log), Replay(log), x)
    <2>1. ASSUME NEW p \in SomePaths
          PROVE  (\A n \in DOMAIN more : Ok(more, n, p)) <=>
                    (\A n \in DOMAIN log : Ok(log, n, p)) /\ Ok(more, Len(log) + 1, p)
        <3> HIDE DEF Ok
        <3> QED BY <1>3, <1>4
    <2>2. StayClean(CleanPaths(log), Replay(log), x) =
            {p \in CleanPaths(log) : ActsOnFile(x, p) => CanDo(Replay(log), x)}
        BY DEF StayClean
    <2> HIDE DEF Ok
    <2> QED BY <1>6, <1>8, <2>1, <2>2
<1> QED BY <1>7, <1>9, <1>10 DEF more

LEMMA LastPut ==
    ASSUME NEW s \in Seq(Actions), s # <<>>
    PROVE  s = Append(Front(s), Last(s))
<1> DEFINE k == Front(s)
           x == Last(s)
<1>1. /\ k \in Seq(Actions) /\ x \in Actions /\ Len(s) \in Nat \ {0} /\ DOMAIN k = 1 .. Len(s) - 1
      /\ \A n \in 1 .. Len(s) - 1 : k[n] = s[n]
    BY FrontElements
<1>2. x = s[Len(s)]
    BY DEF Last
<1> HIDE DEF k, x
<1>3. Len(k) = Len(s) - 1
    BY <1>1, LenProperties
<1>4. /\ Append(k, x) \in Seq(Actions) /\ DOMAIN Append(k, x) = 1 .. Len(k) + 1
      /\ \A n \in 1 .. Len(k) : Append(k, x)[n] = k[n]
      /\ Append(k, x)[Len(k) + 1] = x
    BY <1>1, AppendElements
<1> DEFINE r == Append(k, x)
<1>5. r \in Seq(Actions) /\ Len(r) = Len(s)
    BY <1>1, <1>3, <1>4
<1>6. \A n \in 1 .. Len(s) : r[n] = s[n]
    <2> SUFFICES ASSUME NEW n \in 1 .. Len(s) PROVE r[n] = s[n]
        OBVIOUS
    <2>1. n \in 1 .. Len(k) \/ n = Len(k) + 1
        BY <1>1, <1>3
    <2> QED BY <1>1, <1>2, <1>3, <1>4, <2>1
<1> HIDE DEF r
<1>7. r = s
    BY <1>5, <1>6, SeqEqual
<1> QED BY <1>7 DEF r, k, x

LEMMA EmptyReplay == Replay(<<>>) = EmptyTree /\ CleanPaths(<<>>) = SomePaths /\ IsTree(EmptyTree)
<1> DEFINE s == <<>>
<1>1. s \in Seq(Actions) /\ Len(s) = 0 /\ DOMAIN s = {} /\ 1 .. 0 = {}
    OBVIOUS
<1> HIDE DEF s
<1>2. PICK g : ReplaysUpTo(g, s, 0) /\ Replay(s) = g[1 .. 0]
    BY <1>1, ReplayIs
<1>3. g[{}] = EmptyTree
    <2>1. {} \in SUBSET (1 .. 0)
        OBVIOUS
    <2> QED BY <1>2, <2>1 DEF ReplaysUpTo
<1>4. CleanPaths(s) = SomePaths
    BY <1>1 DEF CleanPaths
<1>5. EmptyTree \in Seq(Dirs) /\ DOMAIN EmptyTree = {1} /\ EmptyTree[1] = EmptyDir
    BY DEF EmptyTree, EmptyDir, Dirs
<1>6. DOMAIN EmptyDir.files = {} /\ DOMAIN EmptyDir.dirs = {}
    BY DEF EmptyDir
<1>7. IsTree(EmptyTree)
    BY <1>5, <1>6 DEF IsTree, TreeOK, Root, NamesDiffer, EntriesDiffer
<1> QED BY <1>1, <1>2, <1>3, <1>4, <1>7 DEF s

LEMMA ActionIsShaped ==
    ASSUME NEW x \in Actions
    PROVE  ActionShape(x) /\ x.path \in SomePaths
BY PathsAssumption DEF Actions, ActionShape, SomePaths

\* For a tree the two ways to ask for a directory are one.
LEMMA DirThere ==
    ASSUME NEW t, IsTree(t), NEW p \in SomePaths
    PROVE  DirExists(t, p) <=> HasDir(t, p)
<1>1. TreeOK(t) /\ p \in Seq(Names) /\ p \in Seq(Names) \ {<<>>}
    BY DEF IsTree, SomePaths
<1> QED BY <1>1, DirExistsIs, DirIsNode DEF HasDir

\* A log that adds no directory twice replays to a tree.
LEMMA ReplayIsTree ==
    ASSUME NEW log \in Seq(Actions), AddsNewDirs(log)
    PROVE  IsTree(Replay(log))
<1> DEFINE Bad == {n \in Nat : \E l \in Seq(Actions) : Len(l) = n /\ AddsNewDirs(l) /\ ~IsTree(Replay(l))}
<1> SUFFICES ASSUME Bad # {} PROVE FALSE
    <2>1. Len(log) \in Nat
        BY LenProperties
    <2> QED BY <2>1
<1>1. PICK n \in Bad : \A m \in Bad : n <= m
    BY LeastNatural
<1>2. PICK l \in Seq(Actions) : Len(l) = n /\ AddsNewDirs(l) /\ ~IsTree(Replay(l))
    OBVIOUS
<1>3. l # <<>>
    BY <1>2, EmptyReplay
<1> DEFINE k == Front(l)
           x == Last(l)
<1>4. k \in Seq(Actions) /\ x \in Actions /\ l = Append(k, x) /\ Len(k) \in Nat /\ ~(Len(l) <= Len(k))
    <2>1. k \in Seq(Actions) /\ x \in Actions /\ DOMAIN k = 1 .. Len(l) - 1 /\ Len(l) \in Nat \ {0}
          /\ Len(k) \in Nat /\ DOMAIN k = 1 .. Len(k)
        BY <1>3, FrontElements, LenProperties
    <2>2. l = Append(k, x)
        BY <1>3, <2>1, LastPut
    <2>3. Len(Append(k, x)) = Len(k) + 1
        BY <2>1
    <2> QED BY <2>1, <2>2, <2>3
<1> HIDE DEF k, x
<1>5. AddsNewDirs(k) /\ (x.type = AddDirectory => ~DirExists(Replay(k), x.path))
    BY <1>2, <1>4, EntryMore
<1>6. IsTree(Replay(k))
    <2> SUFFICES ASSUME ~IsTree(Replay(k)) PROVE FALSE
        OBVIOUS
    <2>1. Len(k) \in Bad
        BY <1>4, <1>5
    <2> QED BY <1>1, <1>2, <1>4, <2>1
<1>7. Replay(l) = DoAction(Replay(k), x)
    BY <1>4, ReplayAppend
<1>8. ActionShape(x) /\ (x.type = AddDirectory => ~HasDir(Replay(k), x.path))
    BY <1>4, <1>5, <1>6, ActionIsShaped, DirThere
<1>9. IsTree(DoAction(Replay(k), x))
    BY <1>6, <1>8, AnyActionIs
<1> QED BY <1>2, <1>7, <1>9

LEMMA PutOne ==
    ASSUME NEW s \in Seq(Actions), NEW x \in Actions
    PROVE  s \o <<x>> = Append(s, x)
BY AppendIsConcat

LEMMA PutTwo ==
    ASSUME NEW s \in Seq(Actions), NEW x \in Actions, NEW y \in Actions
    PROVE  s \o <<x, y>> = Append(Append(s, x), y)
<1>1. <<x, y>> = <<x>> \o <<y>> /\ <<x>> \in Seq(Actions) /\ <<y>> \in Seq(Actions)
    <2>1. <<x>> \in Seq(Actions) /\ <<y>> \in Seq(Actions)
        OBVIOUS
    <2>2. <<x, y>> = Append(<<x>>, y)
        OBVIOUS
    <2>3. Append(<<x>>, y) = <<x>> \o <<y>>
        BY <2>1, PutOne
    <2> QED BY <2>1, <2>2, <2>3
<1> DEFINE a == <<x>>
           b == <<y>>
<1>2. a \in Seq(Actions) /\ b \in Seq(Actions) /\ s \o <<x, y>> = s \o (a \o b)
    BY <1>1
<1>3. s \o a = Append(s, x) /\ Append(s, x) \in Seq(Actions)
    BY PutOne, AppendElements
<1> HIDE DEF a
<1>4. Append(s, x) \o b = Append(Append(s, x), y)
    BY <1>3, PutOne
<1> HIDE DEF b
<1>5. s \o (a \o b) = (s \o a) \o b
    BY <1>2, ConcatAssociative
<1> QED BY <1>2, <1>3, <1>4, <1>5

\* Sorting the actions that are left.
LEMMA SortedLeft ==
    ASSUME NEW t, NEW e, NEW C, NEW s \in Seq(Actions), Rel(t, e, C, s, DOMAIN s),
           NEW k \in TimeSorts(s)
    PROVE  Rel(t, e, C, k, DOMAIN k)
<1> DEFINE D == DOMAIN s
<1>1. PICK p \in Bijection(D, D) : k = [n \in D |-> s[p[n]]]
    BY DEF TimeSorts, Reorderings
<1>2. /\ DOMAIN k = D /\ \A n \in D : p[n] \in D /\ k[n] = s[p[n]]
      /\ \A n \in D : \E m \in D : p[m] = n
    BY <1>1 DEF Bijection, Injection, Surjection
<1> DEFINE g == [n \in D |-> CHOOSE m \in D : p[m] = n]
<1>3. \A n \in D : g[n] \in D /\ p[g[n]] = n
    BY <1>2
<1>4. g \in [D -> D]
    BY <1>3
<1> HIDE DEF g
<1>5. \A m, n \in D : g[m] = g[n] => m = n
    BY <1>3
<1>6. \A n \in D : k[g[n]] = s[n]
    BY <1>2, <1>3
<1>7. Rel(t, e, C, k, D)
    BY <1>4, <1>5, <1>6, MoreLeft
<1> QED BY <1>2, <1>7

-----------------------------------------------------------------------------
\* Where the log stands and what is still to be done of it.
Rest == IF pc = "undo" THEN DOMAIN pending ELSE IF pc = "do" THEN i .. Len(pending) ELSE {}

DrawsTree ==
    ~redoneDir /\ AddsNewDirs(actions) =>
        Rel(tree, Replay(actions), CleanPaths(actions), pending, Rest)

\* A step that changes neither the log nor the tree when nothing is left.
LEMMA QuietStep ==
    ASSUME DrawsTree, Rest = {}, actions' = actions, tree' = tree, redoneDir' = redoneDir
    PROVE  DrawsTree'
<1> DEFINE e == Replay(actions)
           C == CleanPaths(actions)
           g == [n \in {} |-> 1]
<1> SUFFICES ASSUME ~redoneDir, AddsNewDirs(actions) PROVE Rel(tree, e, C, pending', Rest')
    BY DEF DrawsTree
<1>1. Rel(tree, e, C, pending, {})
    BY DEF DrawsTree
<1> HIDE DEF e, C
<1>2. g \in [{} -> Rest']
    OBVIOUS
<1> HIDE DEF g
<1> QED BY <1>1, <1>2, MoreLeft

LEMMA UndoDraws ==
    ASSUME TypeInv, DrawsTree, Undo
    PROVE  DrawsTree'
<1> DEFINE log == Front(actions)
           x == Last(actions)
           m == Len(pending) + 1
<1> SUFFICES ASSUME ~redoneDir', AddsNewDirs(log)
             PROVE  Rel(tree', Replay(log), CleanPaths(log), pending', Rest')
    BY DEF DrawsTree, Undo
<1>1. /\ actions \in Seq(Actions) /\ pending \in Seq(Actions) /\ actions # <<>>
      /\ pc = "undo" /\ pc' = "undo" /\ tree' = tree /\ pending' = Append(pending, x)
      /\ ~redoneDir /\ x.type # AddDirectory
    BY DEF Undo, OutOfOrder, TypeInv, TypeOK
<1>2. log \in Seq(Actions) /\ x \in Actions /\ actions = Append(log, x)
    BY <1>1, FrontElements, LastPut
<1> HIDE DEF log, x
<1>3. AddsNewDirs(actions) /\ CleanPaths(actions) = StayClean(CleanPaths(log), Replay(log), x)
    BY <1>1, <1>2, EntryMore
<1>4. Replay(actions) = DoAction(Replay(log), x)
    BY <1>2, ReplayAppend
<1>5. IsTree(Replay(log)) /\ ActionShape(x) /\ CleanPaths(log) \subseteq SomePaths
    BY <1>2, ReplayIsTree, ActionIsShaped DEF CleanPaths
<1>6. /\ Len(pending) \in Nat /\ DOMAIN pending = 1 .. Len(pending)
      /\ DOMAIN Append(pending, x) = 1 .. Len(pending) + 1
      /\ \A n \in 1 .. Len(pending) : Append(pending, x)[n] = pending[n]
      /\ Append(pending, x)[Len(pending) + 1] = x
    BY <1>1, <1>2, AppendElements
<1> DEFINE k == Append(pending, x)
           R == DOMAIN pending
           e == Replay(log)
           C == CleanPaths(log)
<1>7. m \notin R /\ k[m] = x /\ (\A n \in R : k[n] = pending[n]) /\ DOMAIN k = R \union {m}
    BY <1>6
<1>8. Rel(tree, DoAction(e, x), StayClean(C, e, x), pending, R)
    BY <1>1, <1>3, <1>4 DEF DrawsTree, Rest
<1>9. pending' = k /\ Rest' = DOMAIN k
    BY <1>1 DEF Rest
<1> HIDE DEF k, R, e, C, m
<1>10. IsTree(e) /\ C \subseteq SomePaths
    BY <1>5 DEF e, C
<1>11. Rel(tree, e, C, k, R \union {m})
    BY <1>1, <1>5, <1>7, <1>8, <1>10, UndoneLeft
<1> QED BY <1>1, <1>7, <1>9, <1>11 DEF e, C

LEMMA DoDraws ==
    ASSUME TypeInv, DrawsTree, Do
    PROVE  DrawsTree'
<1> DEFINE x == pending[i]
           R == i .. Len(pending)
           e == Replay(actions)
           C == CleanPaths(actions)
<1> SUFFICES ASSUME ~redoneDir', AddsNewDirs(actions')
             PROVE  Rel(tree', Replay(actions'), CleanPaths(actions'), pending', Rest')
    BY DEF DrawsTree
<1>1. /\ actions \in Seq(Actions) /\ pending \in Seq(Actions)
      /\ pc = "do" /\ pc' = "do" /\ tree' = DoAction(tree, x) /\ pending' = pending /\ actions' = Append(actions, x)
      /\ ~redoneDir /\ i \in Nat /\ i >= 1 /\ i <= Len(pending) /\ i' = i + 1
    BY DEF Do, TypeInv, TypeOK
<1>2. Len(pending) \in Nat /\ R \subseteq DOMAIN pending /\ i \in R /\ \A n \in DOMAIN pending : pending[n] \in Actions
    BY <1>1, LenProperties, ElementOfSeq
<1>3. x \in Actions /\ \A n \in R : ActionShape(pending[n])
    BY <1>2, ActionIsShaped
<1>4. Rest' = R \ {i} /\ Rest = R
    BY <1>1, <1>2 DEF Rest
<1> HIDE DEF x
<1>5. /\ AddsNewDirs(actions) /\ (x.type = AddDirectory => ~DirExists(e, x.path))
      /\ CleanPaths(actions') = StayClean(C, e, x)
    BY <1>1, <1>3, EntryMore
<1>6. Replay(actions') = DoAction(e, x)
    BY <1>1, <1>3, ReplayAppend
<1>7. IsTree(e) /\ x.path \in SomePaths
    BY <1>1, <1>3, <1>5, ReplayIsTree, ActionIsShaped
<1>8. x.type = AddDirectory => ~HasDir(e, x.path)
    BY <1>5, <1>7, DirThere
<1>9. Rel(tree, e, C, pending, R)
    BY <1>1, <1>4, <1>5 DEF DrawsTree
<1> HIDE DEF R, e, C
<1>10. Rel(DoAction(tree, x), DoAction(e, x), StayClean(C, e, x), pending, R \ {i})
    BY <1>2, <1>3, <1>8, <1>9, OneDone DEF x
<1> QED BY <1>1, <1>4, <1>5, <1>6, <1>10

LEMMA UndoDoneDraws ==
    ASSUME TypeInv, DrawsTree, UndoDone
    PROVE  DrawsTree'
<1> DEFINE e == Replay(actions)
           C == CleanPaths(actions)
<1>1. /\ pending \in Seq(Actions) /\ pc = "undo" /\ pc' = "do" /\ i' = 1
      /\ actions' = actions /\ tree' = tree /\ redoneDir' = redoneDir
      /\ pending' = pending \/ pending' \in TimeSorts(pending)
    BY DEF UndoDone, TypeInv, TypeOK
<1> SUFFICES ASSUME ~redoneDir, AddsNewDirs(actions) PROVE Rel(tree, e, C, pending', Rest')
    BY <1>1 DEF DrawsTree
<1>2. Rel(tree, e, C, pending, DOMAIN pending)
    BY <1>1 DEF DrawsTree, Rest
<1> HIDE DEF e, C
<1>3. pending' \in Seq(Actions) /\ Rel(tree, e, C, pending', DOMAIN pending')
    <2>1. CASE pending' = pending
        BY <1>1, <1>2, <2>1
    <2>2. CASE pending' \in TimeSorts(pending)
        BY <1>1, <1>2, <2>2, SortedLeft, TimeSortsPermutes
    <2> QED BY <1>1, <2>1, <2>2
<1>4. Rest' = DOMAIN pending'
    BY <1>1, <1>3, LenProperties DEF Rest
<1> QED BY <1>3, <1>4

-----------------------------------------------------------------------------
\* An operation that logs one action.
LEMMA OneMade ==
    ASSUME TypeInv, DrawsTree, pc = "idle", NEW x \in Actions, NEW u, MakeActions(<<x>>, u),
           NEW e, e = Replay(actions),
           \A C : Draws(tree, e, C) /\ (x.type = AddDirectory => ~HasDir(e, x.path))
                    => Draws(u, DoAction(e, x), StayClean(C, e, x))
    PROVE  DrawsTree'
<1> DEFINE D == CleanPaths(actions)
<1> SUFFICES ASSUME ~redoneDir', AddsNewDirs(actions')
             PROVE  Rel(tree', Replay(actions'), CleanPaths(actions'), pending', Rest')
    BY DEF DrawsTree
<1>1. /\ actions \in Seq(Actions) /\ actions' = actions \o <<x>> /\ tree' = u /\ ~redoneDir
      /\ pc' = "idle" /\ Rest = {} /\ Rest' = {}
    BY DEF MakeActions, TypeInv, TypeOK, Rest
<1>2. actions' = Append(actions, x)
    BY <1>1, PutOne
<1>3. /\ AddsNewDirs(actions) /\ (x.type = AddDirectory => ~DirExists(e, x.path))
      /\ CleanPaths(actions') = StayClean(D, e, x)
    BY <1>1, <1>2, EntryMore
<1>4. Replay(actions') = DoAction(e, x)
    BY <1>1, <1>2, ReplayAppend
<1>5. x.type = AddDirectory => ~HasDir(e, x.path)
    BY <1>1, <1>3, ReplayIsTree, ActionIsShaped, DirThere
<1>6. Rel(tree, e, D, pending, {})
    BY <1>1, <1>3 DEF DrawsTree
<1> HIDE DEF D
<1>7. Draws(u, DoAction(e, x), StayClean(D, e, x))
    BY <1>5, <1>6, NothingLeft
<1>8. Rel(u, DoAction(e, x), StayClean(D, e, x), pending', {})
    BY <1>7, NothingLeft
<1> QED BY <1>1, <1>3, <1>4, <1>8

\* An operation that changes memory only.
LEMMA NoneMade ==
    ASSUME TypeInv, DrawsTree, NEW u, InMemory(u),
           NEW p, NEW f, FileUpdate(tree, u, p, {f}), Dirty(f)
    PROVE  DrawsTree'
<1> DEFINE e == Replay(actions)
           C == CleanPaths(actions)
<1>1. actions' = actions /\ tree' = u /\ redoneDir' = redoneDir /\ Rest = {} /\ Rest' = {}
    BY DEF InMemory, Rest
<1> SUFFICES ASSUME ~redoneDir, AddsNewDirs(actions) PROVE Rel(u, e, C, pending', {})
    BY <1>1 DEF DrawsTree
<1>2. Rel(tree, e, C, pending, {})
    BY <1>1 DEF DrawsTree
<1> HIDE DEF e, C
<1>3. Draws(tree, e, C)
    BY <1>2, NothingLeft
<1>4. Draws(u, e, C)
    BY <1>3, ChangedHere
<1> QED BY <1>4, NothingLeft

LEMMA OperationDraws ==
    ASSUME TypeInv, DrawsTree, IsTree(tree), FileOperation
    PROVE  DrawsTree'
<1>0. TypeOK /\ TreeOK(tree) /\ \A p \in LocalFiles \union LocalDirs : p \in Paths
    BY ActionsAssumption DEF TypeInv, TypeOK
<1>1. ASSUME NEW p \in Paths
      PROVE  /\ p \in SomePaths /\ p \in Seq(Names) \ {<<>>} /\ Last(p) \in Names
             /\ FindContainingDir(tree, p) \in DOMAIN tree <=> HasDir(tree, Front(p))
             /\ FileExists(tree, p) <=> Filed(tree, p) # {}
    BY <1>1, LastName, FiledIs, FiledOfDir DEF SomePaths
<1>2. NoContent \in ContentOf /\ Contents \subseteq ContentOf
    BY DEF ContentOf
<1>3. ASSUME NEW t \in LocalTimes, NEW type \in ActionTypes, NEW p \in Paths, NEW c \in ContentOf
      PROVE  LET x == Action(t, type, p, c)
             IN x \in Actions /\ x.type = type /\ x.path = p /\ x.content = c
    BY <1>3, ActionsAssumption DEF Action, Actions
<1>4. {AddFile, RemoveFile, AddDirectory, RemoveDirectory, EditFile} \subseteq ActionTypes
    BY DEF ActionTypes
<1>5. ASSUME NEW p \in LocalFiles, Create(p)
      PROVE  DrawsTree'
    <2> DEFINE file == [CleanFile(Last(p), NoContent) EXCEPT !.create = TRUE]
               u == AddFileTo(tree, FindContainingDir(tree, p), file)
    <2>1. p \in Paths /\ file \in Files /\ file.name = Last(p) /\ Dirty(file)
        BY <1>0, <1>1, <1>2 DEF CleanFile, Files, Dirty
    <2> HIDE DEF file
    <2>2. InMemory(u) /\ HasDir(tree, Front(p)) /\ Filed(tree, p) = {}
        BY <1>1, <1>5, <2>1 DEF Create, file
    <2>3. FileUpdate(tree, u, p, {file})
        BY <1>1, <2>1, <2>2, AddFileView
    <2> HIDE DEF u
    <2> QED BY <2>1, <2>2, <2>3, NoneMade
<1>6. ASSUME NEW p \in LocalFiles, Write(p)
      PROVE  DrawsTree'
    <2> DEFINE file == [FileAt(tree, p) EXCEPT !.write = TRUE]
               u == SetFile(tree, FindContainingDir(tree, p), Last(p), file)
    <2>1. p \in Paths /\ p \in Seq(Names) \ {<<>>} /\ FileExists(tree, p)
        BY <1>0, <1>1, <1>6 DEF Write
    <2>2. FileAt(tree, p) \in Files /\ FileAt(tree, p).name = Last(p)
        BY <2>1, FiledOfDir
    <2>3. file \in Files /\ file.name = Last(p) /\ Dirty(file)
        BY <2>2 DEF Files, Dirty
    <2> HIDE DEF file
    <2>4. FileUpdate(tree, u, p, {file})
        BY <2>1, <2>3, SetFileView
    <2>5. InMemory(u)
        BY <1>6 DEF Write, file
    <2> HIDE DEF u
    <2> QED BY <2>3, <2>4, <2>5, NoneMade
<1>7. ASSUME NEW p \in LocalFiles, NEW t \in LocalTimes, NEW c \in Contents, FileExists(tree, p)
      PROVE  LET a == FlushAction(p, t, c)
             IN /\ a \in Actions /\ a.path = p /\ a.type \in {AddFile, EditFile} /\ a.type # AddDirectory
                /\ FileUpdate(tree, Flushed(p, a), p, {CleanOf(a)})
    <2> DEFINE a == FlushAction(p, t, c)
               f == FileAt(tree, p)
    <2>1. p \in Paths /\ p \in Seq(Names) \ {<<>>} /\ Last(p) \in Names
        BY <1>0, <1>1
    <2>2. f \in Files
        BY <1>7, <2>1, FiledOfDir
    <2> DEFINE type == IF f.create THEN AddFile ELSE EditFile
               content == IF f.write THEN c ELSE f.content
    <2>3. type \in ActionTypes /\ content \in ContentOf /\ type \in {AddFile, EditFile} /\ type # AddDirectory
        BY <1>2, <1>4, <2>2 DEF Files, AddFile, EditFile, AddDirectory
    <2>4. a = Action(t, type, p, content)
        BY DEF FlushAction
    <2> HIDE DEF f, type, content, a
    <2>5. a \in Actions /\ a.type = type /\ a.path = p /\ a.content = content
        BY <1>3, <2>1, <2>3, <2>4
    <2>6. CleanOf(a) = CleanFile(Last(p), a.content) /\ CleanOf(a) \in Files /\ CleanOf(a).name = Last(p)
        <3>1. CleanOf(a) = CleanFile(Last(p), a.content)
            BY <2>5 DEF CleanOf
        <3>2. CleanFile(Last(p), a.content) \in Files /\ CleanFile(Last(p), a.content).name = Last(p)
            BY <2>1, <2>3, <2>5 DEF CleanFile, Files
        <3> QED BY <3>1, <3>2
    <2>7. FileUpdate(tree, Flushed(p, a), p, {CleanOf(a)})
        BY <1>7, <2>1, <2>6, SetFileView DEF Flushed
    <2> QED BY <2>3, <2>5, <2>7 DEF a
<1>8. ASSUME NEW p \in LocalFiles, NEW t \in LocalTimes, NEW c \in Contents, Flush(p, t, c)
      PROVE  DrawsTree'
    <2> DEFINE x == FlushAction(p, t, c)
               u == Flushed(p, x)
               e == Replay(actions)
    <2>1. pc = "idle" /\ FileExists(tree, p) /\ MakeActions(<<x>>, u)
        BY <1>8 DEF Flush
    <2>2. /\ x \in Actions /\ x.path = p /\ x.type \in {AddFile, EditFile}
          /\ FileUpdate(tree, u, p, {CleanOf(x)})
        BY <1>7, <2>1
    <2> HIDE DEF x, u, e
    <2>3. ActionShape(x)
        BY <2>2, ActionIsShaped
    <2>4. \A C : Draws(tree, e, C) => Draws(u, DoAction(e, x), StayClean(C, e, x))
        BY <2>2, <2>3, FlushedHere
    <2> QED BY <2>1, <2>2, <2>4, OneMade DEF e
<1>9. ASSUME NEW p \in LocalFiles, NEW t \in LocalTimes, NEW v \in LocalTimes, NEW c \in Contents,
             Unlink(p, t, v, c)
      PROVE  DrawsTree'
    <2> DEFINE a == FlushAction(p, t, c)
               dirty == Dirty(FileAt(tree, p))
               x == Action(IF dirty THEN v ELSE t, RemoveFile, p, NoContent)
               u == RemoveFileFrom(tree, FindContainingDir(tree, p), Last(p))
               e == Replay(actions)
    <2>1. /\ pc = "idle" /\ FileExists(tree, p)
          /\ MakeActions(IF dirty THEN <<a, x>> ELSE <<x>>, u)
        BY <1>9 DEF Unlink
    <2>2. p \in Paths /\ p \in Seq(Names) \ {<<>>}
        BY <1>0, <1>1
    <2>3. x \in Actions /\ x.type = RemoveFile /\ x.path = p
        <3>1. (IF dirty THEN v ELSE t) \in LocalTimes
            OBVIOUS
        <3> QED BY <1>2, <1>3, <1>4, <2>2, <3>1
    <2>4. FileUpdate(tree, u, p, {})
        BY <2>1, <2>2, RemoveFileView
    <2>5. /\ a \in Actions /\ a.path = p /\ a.type \in {AddFile, EditFile} /\ a.type # AddDirectory
          /\ FileUpdate(tree, Flushed(p, a), p, {CleanOf(a)})
        BY <1>7, <2>1
    <2> HIDE DEF a, x, u, e
    <2>6. ActionShape(x) /\ ActionShape(a) /\ x.type # AddDirectory
        BY <2>3, <2>5, ActionIsShaped DEF RemoveFile, AddDirectory
    <2>7. CASE ~dirty
        <3>1. MakeActions(<<x>>, u)
            BY <2>1, <2>7
        <3>2. \A C : Draws(tree, e, C) => Draws(u, DoAction(e, x), StayClean(C, e, x))
            BY <2>3, <2>4, <2>6, RemovedHere
        <3> QED BY <2>1, <2>3, <3>1, <3>2, OneMade DEF e
    <2>8. CASE dirty
        <3> DEFINE w == Flushed(p, a)
                   D == CleanPaths(actions)
                   e1 == DoAction(e, a)
                   D1 == StayClean(D, e, a)
        <3> SUFFICES ASSUME ~redoneDir', AddsNewDirs(actions')
                     PROVE  Rel(tree', Replay(actions'), CleanPaths(actions'), pending', Rest')
            BY DEF DrawsTree
        <3>1. MakeActions(<<a, x>>, u)
            BY <2>1, <2>8
        <3>2. /\ actions \in Seq(Actions) /\ actions' = actions \o <<a, x>> /\ tree' = u /\ ~redoneDir
              /\ pc' = "idle" /\ Rest = {} /\ Rest' = {}
            BY <2>1, <3>1 DEF MakeActions, TypeInv, TypeOK, Rest
        <3> DEFINE log == Append(actions, a)
        <3>3. log \in Seq(Actions) /\ actions' = Append(log, x)
            BY <2>3, <2>5, <3>2, PutTwo, AppendElements
        <3>4. /\ AddsNewDirs(actions) /\ CleanPaths(log) = D1 /\ Replay(log) = e1
            BY <2>3, <2>5, <3>2, <3>3, EntryMore, ReplayAppend DEF e
        <3>5. CleanPaths(actions') = StayClean(D1, e1, x) /\ Replay(actions') = DoAction(e1, x)
            BY <2>3, <3>3, <3>4, EntryMore, ReplayAppend
        <3>6. Rel(tree, e, D, pending, {})
            BY <3>2, <3>4 DEF DrawsTree, e
        <3>7. FileUpdate(tree, w, p, {CleanOf(a)})
            BY <2>5
        <3> HIDE DEF w, D
        <3>8. Draws(w, e1, D1)
            BY <2>5, <2>6, <3>6, <3>7, NothingLeft, FlushedHere
        <3>9. /\ \A q \in Seq(Names) : HasDir(tree, q) <=> HasDir(w, q)
              /\ \A q \in SomePaths \ {p} : Filed(tree, q) = Filed(w, q)
            BY <3>7 DEF FileUpdate, HasDir, SomePaths
        <3> HIDE DEF e1, D1
        <3>10. Draws(u, DoAction(e1, x), StayClean(D1, e1, x))
            BY <2>3, <2>4, <2>6, <3>8, <3>9, RemovedHere
        <3>11. Rel(u, DoAction(e1, x), StayClean(D1, e1, x), pending', {})
            BY <3>10, NothingLeft
        <3> QED BY <3>2, <3>5, <3>11
    <2> QED BY <2>7, <2>8
<1>10. ASSUME NEW p \in LocalDirs, NEW t \in LocalTimes, Mkdir(p, t)
       PROVE  DrawsTree'
    <2> DEFINE x == Action(t, AddDirectory, p, NoContent)
               u == AddDirTo(tree, FindContainingDir(tree, p), Last(p))
               e == Replay(actions)
    <2>1. x \in Actions /\ x.type = AddDirectory /\ x.path = p
        BY <1>0, <1>2, <1>3, <1>4
    <2> HIDE DEF x, e
    <2>2. pc = "idle" /\ MakeActions(<<x>>, u) /\ CanDo(tree, x)
        BY <1>10, <2>1 DEF Mkdir, CanDo, x, AddFile, EditFile, RemoveFile, AddDirectory, RemoveDirectory
    <2>3. u = DoAction(tree, x)
        BY <2>1, <2>2 DEF DoAction, AddFile, EditFile, RemoveFile, AddDirectory, RemoveDirectory
    <2>4. ActionShape(x)
        BY <2>1, ActionIsShaped
    <2> HIDE DEF u
    <2>5. \A C : Draws(tree, e, C) /\ (x.type = AddDirectory => ~HasDir(e, x.path))
                    => Draws(u, DoAction(e, x), StayClean(C, e, x))
        BY <2>3, <2>4, DoneHere
    <2> QED BY <2>1, <2>2, <2>5, OneMade DEF e
<1>11. ASSUME NEW p \in LocalDirs, NEW t \in LocalTimes, Rmdir(p, t)
       PROVE  DrawsTree'
    <2> DEFINE x == Action(t, RemoveDirectory, p, NoContent)
               u == RemoveDirFrom(tree, FindContainingDir(tree, p), Last(p))
               e == Replay(actions)
    <2>1. x \in Actions /\ x.type = RemoveDirectory /\ x.path = p
        BY <1>0, <1>2, <1>3, <1>4
    <2> HIDE DEF x, e
    <2>2. pc = "idle" /\ MakeActions(<<x>>, u) /\ CanDo(tree, x)
        BY <1>11, <2>1 DEF Rmdir, DirExists, CanDo, x, AddFile, EditFile, RemoveFile, AddDirectory, RemoveDirectory
    <2>3. u = DoAction(tree, x)
        BY <2>1, <2>2 DEF DoAction, AddFile, EditFile, RemoveFile, AddDirectory, RemoveDirectory
    <2>4. ActionShape(x)
        BY <2>1, ActionIsShaped
    <2> HIDE DEF u
    <2>5. \A C : Draws(tree, e, C) /\ (x.type = AddDirectory => ~HasDir(e, x.path))
                    => Draws(u, DoAction(e, x), StayClean(C, e, x))
        BY <2>3, <2>4, DoneHere
    <2> QED BY <2>1, <2>2, <2>5, OneMade DEF e
<1> QED BY <1>5, <1>6, <1>8, <1>9, <1>10, <1>11 DEF FileOperation

\* The start of a log that adds no directory twice adds none twice.
LEMMA StartOfLog ==
    ASSUME NEW s \in Seq(Actions), NEW t \in Seq(Actions), AddsNewDirs(s \o t)
    PROVE  AddsNewDirs(s)
<1> DEFINE more == s \o t
           sub(l, n) == SubSeq(l, 1, n - 1)
<1>1. /\ Len(s) \in Nat /\ Len(t) \in Nat /\ DOMAIN s = 1 .. Len(s) /\ DOMAIN more = 1 .. Len(s) + Len(t)
      /\ \A n \in 1 .. Len(s) : more[n] = s[n]
    BY ConcatElements
<1>2. ASSUME NEW n \in 1 .. Len(s) PROVE sub(more, n) = sub(s, n)
    <2> DEFINE k == n - 1
    <2>1. CASE n = 1
        <3>1. k = 0
            BY <2>1
        <3>2. SubSeq(more, 1, 0) = <<>> /\ SubSeq(s, 1, 0) = <<>>
            <4> HIDE DEF more
            <4> QED OBVIOUS
        <3> HIDE DEF more
        <3> QED BY <3>1, <3>2
    <2>2. CASE n # 1
        <3>1. k \in 1 .. Len(s) /\ 1 \in 1 .. Len(s)
            BY <1>1, <2>2
        <3> HIDE DEF k
        <3>2. SubSeq(s \o t, 1, k) = SubSeq(s, 1, k)
            BY <3>1, SubSeqOfConcat1
        <3> QED BY <3>2 DEF k
    <2> QED BY <2>1, <2>2
<1>3. \A n \in DOMAIN s : n \in DOMAIN more /\ n \in 1 .. Len(s)
    BY <1>1
<1>4. \A l : AddsNewDirs(l) <=> \A n \in DOMAIN l : l[n].type = AddDirectory => ~DirExists(Replay(sub(l, n)), l[n].path)
    BY DEF AddsNewDirs
<1>5. AddsNewDirs(more)
    OBVIOUS
<1> HIDE DEF sub, more
<1> QED BY <1>1, <1>2, <1>3, <1>4, <1>5

LEMMA DrawsStep ==
    ASSUME TypeInv, DrawsTree, [Next]_vars
    PROVE  DrawsTree'
<1>1. CASE Deliver
    <2>1. pc = "idle" /\ actions' = actions /\ tree' = tree /\ redoneDir' = redoneDir
        BY <1>1 DEF Deliver, Receive
    <2> QED BY <2>1, QuietStep DEF Rest
<1>2. CASE SortPending \/ SkipLogged \/ SkipPending \/ DropLogged \/ DedupRepeated \/ DedupDone
           \/ TailRepeated \/ TailDone
    <2>1. pc \in {"sort", "dedup", "tail"} /\ actions' = actions /\ tree' = tree /\ redoneDir' = redoneDir
        BY <1>2 DEF SortPending, SkipLogged, SkipPending, DropLogged, DedupRepeated, DedupDone,
                    TailRepeated, TailDone, InDedup, InLoop
    <2> QED BY <2>1, QuietStep DEF Rest
<1>3. CASE Undo
    BY <1>3, UndoDraws
<1>4. CASE UndoDone
    BY <1>4, UndoDoneDraws
<1>5. CASE Do
    BY <1>5, DoDraws
<1>6. CASE Finish
    <2>1. /\ pc = "do" /\ i > Len(pending) /\ i \in Nat /\ Len(pending) \in Nat
          /\ actions' = actions /\ tree' = tree /\ redoneDir' = redoneDir
        BY <1>6, LenProperties DEF Finish, TypeInv, TypeOK
    <2>2. Rest = {}
        BY <2>1 DEF Rest
    <2> QED BY <2>1, <2>2, QuietStep
<1>7. CASE FileOperation
    <2>1. redoneDir' = redoneDir
        <3>1. \A as, u : MakeActions(as, u) => redoneDir' = redoneDir
            BY DEF MakeActions
        <3>2. \A u : InMemory(u) => redoneDir' = redoneDir
            BY DEF InMemory
        <3>3. \A p : Create(p) \/ Write(p) => redoneDir' = redoneDir
            BY <3>2 DEF Create, Write
        <3>4. \A p, t, c : Flush(p, t, c) => redoneDir' = redoneDir
            BY <3>1 DEF Flush
        <3>5. \A p, t, u, c : Unlink(p, t, u, c) => redoneDir' = redoneDir
            BY <3>1 DEF Unlink
        <3>6. \A p, t : Mkdir(p, t) \/ Rmdir(p, t) => redoneDir' = redoneDir
            BY <3>1 DEF Mkdir, Rmdir
        <3> QED BY <1>7, <3>3, <3>4, <3>5, <3>6 DEF FileOperation
    <2>2. PICK as \in Seq(Actions) : actions' = actions \o as /\ pc = "idle"
        BY <1>7, FileOperationEffect DEF OperationEffect, TypeInv
    <2>3. AddsNewDirs(actions') => AddsNewDirs(actions)
        BY <2>2, StartOfLog DEF TypeInv, TypeOK
    <2>4. CASE ~redoneDir /\ AddsNewDirs(actions)
        <3>1. IsTree(tree)
            BY <2>4 DEF DrawsTree, Rel
        <3> QED BY <1>7, <3>1, OperationDraws
    <2>5. CASE ~(~redoneDir /\ AddsNewDirs(actions))
        BY <2>1, <2>3, <2>5 DEF DrawsTree
    <2> QED BY <2>4, <2>5
<1>8. CASE UNCHANGED vars
    BY <1>8 DEF vars, DrawsTree, Rest
<1> QED BY <1>1, <1>2, <1>3, <1>4, <1>5, <1>6, <1>7, <1>8 DEF Next, ActionAddedStep

\* What a settled client owes its readers.
LEMMA DrawnIsShown ==
    ASSUME TypeInv, DrawsTree
    PROVE  ShowsTheFiles
<1> DEFINE e == Replay(actions)
           C == CleanPaths(actions)
<1> SUFFICES ASSUME ~redoneDir, AddsNewDirs(actions), Settled, ReplaysCleanly(actions),
                    NEW p \in Paths \union {<<>>}
             PROVE  Shown(tree, p) = Shown(e, p)
    BY DEF ShowsTheFiles, ShowsTheLog
<1>1. Rel(tree, e, C, pending, {})
    BY DEF DrawsTree, Settled, Rest
<1>2. C = SomePaths
    <2>1. \A n \in DOMAIN actions : CanDo(Before(actions, n), actions[n])
        BY DEF ReplaysCleanly, Before
    <2> QED BY <2>1 DEF CleanPaths
<1> HIDE DEF e, C
<1>3. Draws(tree, e, C)
    BY <1>1, NothingLeft
<1>4. IsTree(tree) /\ IsTree(e)
    BY <1>3 DEF Draws
<1>5. ASSUME NEW q \in SomePaths, NEW f \in Filed(tree, q) PROVE ~Dirty(f)
    <2> DEFINE d == FindContainingDir(tree, q)
    <2>1. d \in DOMAIN tree /\ Filed(tree, q) = Named(tree[d].files, Last(q))
        BY <1>4, <1>5, FiledIs DEF SomePaths
    <2> HIDE DEF d
    <2>2. PICK k \in DOMAIN tree[d].files : f = tree[d].files[k]
        BY <1>5, <2>1 DEF Named
    <2> QED BY <2>1, <2>2 DEF Settled
<1>6. ASSUME NEW q \in SomePaths PROVE Filed(tree, q) = Filed(e, q)
    <2>1. Agrees(tree, e, q)
        BY <1>2, <1>3 DEF Draws
    <2>2. CASE Filed(tree, q) = {}
        BY <2>1, <2>2 DEF Agrees
    <2>3. CASE Filed(tree, q) # {}
        <3>1. Filed(tree, q) = {FileAt(tree, q)}
            BY <1>4, <2>3, FiledOfDir DEF SomePaths
        <3>2. Filed(e, q) = {FileAt(tree, q)}
            BY <1>5, <2>1, <3>1 DEF Agrees
        <3> QED BY <3>1, <3>2
    <2> QED BY <2>2, <2>3
<1>7. SameView(tree, e)
    BY <1>3, <1>6 DEF Draws, SameView, SomePaths
<1>8. p \in Seq(Names)
    <2>1. <<>> \in Seq(Names)
        OBVIOUS
    <2>2. p \in Paths \/ p = <<>>
        OBVIOUS
    <2> QED BY <2>1, <2>2, PathsAssumption
<1> QED BY <1>4, <1>7, <1>8, ShownAlike

\* For every set of paths and actions, whatever the order, batches and repetitions in
\* which action files arrive and whatever the clocks say: as long as no addition of a
\* directory was done again and none found it there, a client without unflushed
\* changes shows what a replay of its log shows, although undoAction undoes nothing
\* and the tail of the log is done again on a tree that has its effects
\* (actions.c:498-526).
THEOREM FilesAreShown == Spec => []ShowsTheFiles
<1>1. Init => DrawsTree
    <2> SUFFICES ASSUME Init PROVE DrawsTree
        OBVIOUS
    <2>1. actions = <<>> /\ tree = EmptyTree /\ Rest = {}
        BY DEF Init, Rest
    <2>2. Replay(actions) = EmptyTree /\ CleanPaths(actions) = SomePaths /\ IsTree(EmptyTree)
        BY <2>1, EmptyReplay
    <2>3. ASSUME NEW q \in SomePaths PROVE Filed(EmptyTree, q) = {}
        <3>1. Filed(EmptyTree, q) # {} => \E d \in DOMAIN EmptyTree : DOMAIN EmptyTree[d].files # {}
            BY <2>2, FiledIs DEF Named, SomePaths
        <3>2. DOMAIN EmptyTree = {1} /\ EmptyTree[1].files = <<>>
            BY DEF EmptyTree, EmptyDir
        <3> QED BY <3>1, <3>2
    <2>4. Draws(EmptyTree, EmptyTree, SomePaths)
        BY <2>2, <2>3 DEF Draws, Agrees
    <2>5. Rel(EmptyTree, EmptyTree, SomePaths, pending, {})
        BY <2>4, NothingLeft
    <2> QED BY <2>1, <2>2, <2>5 DEF DrawsTree
<1>2. TypeInv /\ DrawsTree /\ [Next]_vars => DrawsTree'
    BY DrawsStep
<1>3. TypeInv /\ DrawsTree => ShowsTheFiles
    BY DrawnIsShown
<1> QED BY <1>1, <1>2, <1>3, TypeInvariant, PTL DEF Spec

=============================================================================
