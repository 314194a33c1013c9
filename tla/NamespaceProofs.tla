-------------------------- MODULE NamespaceProofs --------------------------
(***************************************************************************)
(* Proofs about Namespace for any names, paths, start of the repository    *)
(* and number of requests, refused action files and mounts included.       *)
(*                                                                         *)
(* The inductive invariant is IInv.  Its core, Coherent, relates the       *)
(* repository, the tree and the steps left to do:                          *)
(*   - OrdersAgree: whichever way a mount sorts the action files of one    *)
(*     time it finds a tree, with the directories the client has in        *)
(*     memory, and the same files each time;                               *)
(*   - FilesAgree: those files are the ones in memory, but for what waits  *)
(*     for a flush.  Between the two actions of a moved file it holds of   *)
(*     the repository before the first of them (BeforeCopy);               *)
(*   - TodoFor: the list of steps has the shape rename gives it, and each  *)
(*     step finds what it needs in the tree when its turn comes.           *)
(* In this order: the orders of a mount, what a stored action does to      *)
(* them, the list of steps, one lemma per kind of step about Coherent      *)
(* (...Stores, Turn...), the lists the requests make (ListFor...), one     *)
(* lemma per action about IInv (...Keeps), and the first theorems.  Then   *)
(* what a crash in a rename leaves (RenameInv, CrashKeepsFiles), and how a *)
(* rename ends (Progress): RefusedAtOnce, RenameMovesAll, NoneOfOneName.   *)
(***************************************************************************)
EXTENDS Namespace, FsTreeProofs

\* The orders a mount may see, one action file more.
PairsOf(log) == {n \in 1 .. Len(log) - 1 : log[n].time = log[n + 1].time}
SwappedAt(log, S) == [n \in DOMAIN log |->
    IF n \in S THEN log[n + 1] ELSE IF n - 1 \in S THEN log[n - 1] ELSE log[n]]

\* A mount exchanges some pairs of neighbours of one time.
LEMMA OrdersAre ==
    ASSUME NEW log
    PROVE  MountOrders(log) = {SwappedAt(log, S) : S \in SUBSET PairsOf(log)}
BY DEF MountOrders, PairsOf, SwappedAt

LEMMA OrderType ==
    ASSUME NEW log \in Seq(Actions), NEW S \in SUBSET PairsOf(log)
    PROVE  SwappedAt(log, S) \in Seq(Actions) /\ Len(SwappedAt(log, S)) = Len(log)
           /\ SwappedAt(log, S) \in [1 .. Len(log) -> Actions]
<1>1. Len(log) \in Nat /\ DOMAIN log = 1 .. Len(log) /\ \A n \in 1 .. Len(log) : log[n] \in Actions
    BY LenProperties, ElementOfSeq
<1>2. ASSUME NEW n \in DOMAIN log
      PROVE  (IF n \in S THEN log[n + 1] ELSE IF n - 1 \in S THEN log[n - 1] ELSE log[n]) \in Actions
    <2>1. n \in S => n + 1 \in 1 .. Len(log)
        BY <1>1 DEF PairsOf
    <2>2. n - 1 \in S => n - 1 \in 1 .. Len(log)
        BY <1>1 DEF PairsOf
    <2> QED BY <1>1, <2>1, <2>2
<1>3. SwappedAt(log, S) \in [1 .. Len(log) -> Actions]
    BY <1>1, <1>2 DEF SwappedAt
<1> HIDE DEF Actions
<1> QED BY <1>1, <1>3

LEMMA OrdersType ==
    ASSUME NEW log \in Seq(Actions), NEW l \in MountOrders(log)
    PROVE  l \in Seq(Actions)
BY OrdersAre, OrderType

\* The order of the repository is one of them.
LEMMA LogIsAnOrder ==
    ASSUME NEW log \in Seq(Actions)
    PROVE  log \in MountOrders(log)
<1>1. {} \in SUBSET PairsOf(log) /\ SwappedAt(log, {}) = [n \in DOMAIN log |-> log[n]]
    BY DEF SwappedAt
<1>2. [n \in DOMAIN log |-> log[n]] = log
    OBVIOUS
<1> QED BY <1>1, <1>2, OrdersAre

LEMMA AppendIs ==
    ASSUME NEW log \in Seq(Actions), NEW x \in Actions
    PROVE  /\ Append(log, x) \in Seq(Actions) /\ Len(Append(log, x)) = Len(log) + 1
           /\ Len(log) \in Nat /\ DOMAIN log = 1 .. Len(log)
           /\ DOMAIN Append(log, x) = 1 .. Len(log) + 1
           /\ \A n \in 1 .. Len(log) : Append(log, x)[n] = log[n]
           /\ Append(log, x)[Len(log) + 1] = x
<1> HIDE DEF Actions
<1> QED OBVIOUS

\* Exchanges do not reach an action stored later.
LEMMA SwapsOfFront ==
    ASSUME NEW log \in Seq(Actions), NEW x \in Actions, NEW S \in SUBSET PairsOf(log)
    PROVE  SwappedAt(Append(log, x), S) = Append(SwappedAt(log, S), x)
<1> DEFINE more == Append(log, x)
           k == SwappedAt(log, S)
           l == SwappedAt(more, S)
           N == Len(log)
<1>1. /\ more \in Seq(Actions) /\ Len(more) = N + 1 /\ N \in Nat /\ DOMAIN log = 1 .. N
      /\ DOMAIN more = 1 .. N + 1 /\ more[N + 1] = x /\ \A n \in 1 .. N : more[n] = log[n]
    BY AppendIs
<1>2. \A n \in S : n \in 1 .. N - 1
    BY DEF PairsOf
<1>3. k \in Seq(Actions) /\ Len(k) = N
    BY OrderType
<1>4. /\ Append(k, x) \in Seq(Actions) /\ Len(Append(k, x)) = N + 1
      /\ \A n \in 1 .. N : Append(k, x)[n] = k[n]
      /\ Append(k, x)[N + 1] = x
    BY <1>3, AppendIs
<1> HIDE DEF more, N
<1>5. DOMAIN l = 1 .. N + 1 /\ \A n \in 1 .. N + 1 :
        l[n] = IF n \in S THEN more[n + 1] ELSE IF n - 1 \in S THEN more[n - 1] ELSE more[n]
    BY <1>1 DEF SwappedAt
<1>6. \A n \in 1 .. N :
        k[n] = IF n \in S THEN log[n + 1] ELSE IF n - 1 \in S THEN log[n - 1] ELSE log[n]
    BY <1>1 DEF SwappedAt
<1>7. l \in Seq(Actions) /\ Len(l) = N + 1
    <2>1. S \in SUBSET PairsOf(more)
        <3>1. \A n \in PairsOf(log) : n \in 1 .. N - 1 /\ log[n].time = log[n + 1].time
            BY DEF PairsOf, N
        <3>2. \A n \in 1 .. N - 1 : n \in 1 .. N /\ n + 1 \in 1 .. N /\ n \in 1 .. (N + 1) - 1
            BY <1>1
        <3>3. \A n \in PairsOf(log) : n \in PairsOf(more)
            BY <1>1, <3>1, <3>2 DEF PairsOf
        <3> QED BY <3>3
    <2> QED BY <1>1, <2>1, OrderType
<1> HIDE DEF k, l
<1>8. ASSUME NEW n \in 1 .. N + 1 PROVE l[n] = Append(k, x)[n]
    <2>1. CASE n = N + 1
        <3>1. n \notin S /\ n - 1 \notin S
            BY <1>1, <1>2, <2>1
        <3> QED BY <1>1, <1>4, <1>5, <2>1, <3>1
    <2>2. CASE n \in 1 .. N
        <3>1. n \in S => n + 1 \in 1 .. N
            BY <1>1, <1>2
        <3>2. n - 1 \in S => n - 1 \in 1 .. N
            BY <1>1, <1>2
        <3>3. l[n] = k[n]
            BY <1>1, <1>5, <1>6, <2>2, <3>1, <3>2
        <3> QED BY <1>4, <2>2, <3>3
    <2>3. n = N + 1 \/ n \in 1 .. N
        BY <1>1
    <2> QED BY <2>1, <2>2, <2>3
<1>9. l = Append(k, x)
    <2> DEFINE j == Append(k, x)
    <2>1. j \in Seq(Actions) /\ Len(j) = N + 1 /\ \A n \in 1 .. N + 1 : l[n] = j[n]
        BY <1>4, <1>8
    <2> HIDE DEF j
    <2>2. l = j
        BY <1>7, <2>1, SeqEqual
    <2> QED BY <2>2 DEF j
<1> QED BY <1>9 DEF k, l, more

\* A new time: the new action is read last.
LEMMA OrdersAppend ==
    ASSUME NEW log \in Seq(Actions), NEW x \in Actions,
           log # <<>> => log[Len(log)].time # x.time,
           NEW l \in MountOrders(Append(log, x))
    PROVE  \E k \in MountOrders(log) : l = Append(k, x)
<1>1. PICK S \in SUBSET PairsOf(Append(log, x)) : l = SwappedAt(Append(log, x), S)
    BY OrdersAre
<1>2. S \in SUBSET PairsOf(log)
    <2> SUFFICES ASSUME NEW n \in S PROVE n \in PairsOf(log)
        OBVIOUS
    <2> DEFINE N == Len(log)
    <2>1. /\ N \in Nat /\ n \in 1 .. N /\ Append(log, x)[n].time = Append(log, x)[n + 1].time
        BY <1>1, AppendIs DEF PairsOf
    <2>2. n # N
        <3>1. N # 0 => log # <<>>
            OBVIOUS
        <3>2. Append(log, x)[N + 1] = x /\ (N # 0 => Append(log, x)[N] = log[N])
            BY <2>1, AppendIs
        <3> QED BY <2>1, <3>1, <3>2
    <2>3. n \in 1 .. N - 1 /\ Append(log, x)[n] = log[n] /\ Append(log, x)[n + 1] = log[n + 1]
        <3>1. n \in 1 .. N /\ n + 1 \in 1 .. N
            BY <2>1, <2>2
        <3> QED BY <2>1, <2>2, <3>1, AppendIs
    <2> QED BY <2>1, <2>3 DEF PairsOf
<1>3. l = Append(SwappedAt(log, S), x)
    BY <1>1, <1>2, SwapsOfFront
<1> QED BY <1>2, <1>3, OrdersAre

\* Two actions of one time: they are read in either order, after all others.
LEMMA OrdersPair ==
    ASSUME NEW log \in Seq(Actions), NEW c \in Actions, NEW x \in Actions, c.time = x.time,
           log # <<>> => log[Len(log)].time # c.time,
           NEW l \in MountOrders(Append(Append(log, c), x))
    PROVE  \E k \in MountOrders(log) : l = Append(Append(k, c), x) \/ l = Append(Append(k, x), c)
<1> DEFINE one == Append(log, c)
           two == Append(one, x)
           N == Len(log)
<1>1. /\ one \in Seq(Actions) /\ Len(one) = N + 1 /\ N \in Nat /\ DOMAIN log = 1 .. N
      /\ DOMAIN one = 1 .. N + 1 /\ one[N + 1] = c /\ \A n \in 1 .. N : one[n] = log[n]
    BY AppendIs
<1>2. /\ two \in Seq(Actions) /\ Len(two) = N + 2 /\ DOMAIN two = 1 .. N + 2
      /\ two[N + 2] = x /\ \A n \in 1 .. N + 1 : two[n] = one[n]
    <2>1. N + 1 + 1 = N + 2
        BY <1>1
    <2> HIDE DEF one, N
    <2> QED BY <1>1, <2>1, AppendIs
<1>3. PICK S \in SUBSET PairsOf(two) : l = SwappedAt(two, S)
    BY OrdersAre
<1> HIDE DEF one, two, N
<1> DEFINE T == S \ {N + 1}
<1>4. \A n \in S : n \in 1 .. N + 1 /\ two[n].time = two[n + 1].time
    BY <1>1, <1>2, <1>3 DEF PairsOf
<1>5. N \notin S
    <2>1. CASE N = 0
        BY <1>4, <2>1
    <2>2. CASE N # 0
        <3>1. log # <<>>
            BY <2>2 DEF N
        <3>2. two[N] = log[N] /\ two[N + 1] = c
            BY <1>1, <1>2, <2>2
        <3> QED BY <1>4, <3>1, <3>2 DEF N
    <2> QED BY <2>1, <2>2
<1>6. T \in SUBSET PairsOf(log)
    <2> SUFFICES ASSUME NEW n \in T PROVE n \in PairsOf(log)
        OBVIOUS
    <2>1. n \in 1 .. N - 1 /\ two[n].time = two[n + 1].time
        BY <1>1, <1>4, <1>5
    <2>2. two[n] = log[n] /\ two[n + 1] = log[n + 1]
        BY <1>1, <1>2, <2>1
    <2> QED BY <2>1, <2>2 DEF PairsOf, N
<1> DEFINE k == SwappedAt(log, T)
<1>7. k \in MountOrders(log)
    BY <1>6, OrdersAre
<1>8. k \in Seq(Actions) /\ Len(k) = N
    BY <1>6, OrderType DEF N
<1>9. \A n \in 1 .. N : k[n] = IF n \in T THEN log[n + 1] ELSE IF n - 1 \in T THEN log[n - 1] ELSE log[n]
    BY <1>1 DEF SwappedAt
<1>10. l \in Seq(Actions) /\ Len(l) = N + 2
       /\ \A n \in 1 .. N + 2 : l[n] = IF n \in S THEN two[n + 1] ELSE IF n - 1 \in S THEN two[n - 1] ELSE two[n]
    BY <1>2, <1>3, OrderType DEF SwappedAt
<1> HIDE DEF k
<1>11. ASSUME NEW n \in 1 .. N PROVE l[n] = k[n]
    <2>1. n \in S <=> n \in T
        BY <1>1
    <2>2. n - 1 \in S <=> n - 1 \in T
        BY <1>1
    <2>3. n \in S => n + 1 \in 1 .. N
        BY <1>1, <1>4, <1>5
    <2>4. n - 1 \in S => n - 1 \in 1 .. N
        BY <1>1, <1>4
    <2>5. n \in 1 .. N + 2
        BY <1>1
    <2> HIDE DEF T
    <2>6. l[n] = IF n \in S THEN two[n + 1] ELSE IF n - 1 \in S THEN two[n - 1] ELSE two[n]
        BY <1>10, <2>5
    <2>7. k[n] = IF n \in S THEN log[n + 1] ELSE IF n - 1 \in S THEN log[n - 1] ELSE log[n]
        BY <1>9, <2>1, <2>2
    <2>8. \A i \in 1 .. N : two[i] = log[i]
        BY <1>1, <1>2
    <2> QED BY <2>3, <2>4, <2>6, <2>7, <2>8
<1>12. l[N + 1] = (IF N + 1 \in S THEN x ELSE c) /\ l[N + 2] = (IF N + 1 \in S THEN c ELSE x)
    <2>1. N + 2 \notin S /\ N + 2 \in 1 .. N + 2 /\ N + 1 \in 1 .. N + 2 /\ (N + 1) - 1 \notin S /\ (N + 2) - 1 = N + 1
          /\ (N + 1) + 1 = N + 2
        BY <1>1, <1>4, <1>5
    <2>2. two[N + 1] = c /\ two[N + 2] = x
        BY <1>1, <1>2
    <2> HIDE DEF T
    <2>3. l[N + 1] = (IF N + 1 \in S THEN two[N + 2] ELSE two[N + 1])
        BY <1>10, <2>1
    <2>4. l[N + 2] = (IF N + 1 \in S THEN two[N + 1] ELSE two[N + 2])
        BY <1>10, <2>1
    <2> QED BY <2>2, <2>3, <2>4
<1>13. ASSUME NEW y \in Actions, NEW z \in Actions, l[N + 1] = y, l[N + 2] = z
       PROVE  l = Append(Append(k, y), z)
    <2> DEFINE j == Append(k, y)
               i == Append(j, z)
    <2>1. /\ j \in Seq(Actions) /\ Len(j) = N + 1 /\ j[N + 1] = y /\ \A n \in 1 .. N : j[n] = k[n]
        BY <1>8, AppendIs
    <2> HIDE DEF j
    <2>2. /\ i \in Seq(Actions) /\ Len(i) = N + 2 /\ i[N + 2] = z /\ \A n \in 1 .. N + 1 : i[n] = j[n]
        <3>1. (N + 1) + 1 = N + 2
            BY <1>1
        <3> QED BY <2>1, <3>1, AppendIs
    <2> HIDE DEF i
    <2>3. \A n \in 1 .. N + 2 : l[n] = i[n]
        <3> SUFFICES ASSUME NEW n \in 1 .. N + 2 PROVE l[n] = i[n]
            OBVIOUS
        <3>1. n \in 1 .. N \/ n = N + 1 \/ n = N + 2
            BY <1>1
        <3>2. N + 1 \in 1 .. N + 1 /\ \A m \in 1 .. N : m \in 1 .. N + 1
            BY <1>1
        <3> QED BY <1>11, <1>13, <2>1, <2>2, <3>1, <3>2
    <2>4. l = i
        BY <1>10, <2>2, <2>3, SeqEqual
    <2> QED BY <2>4 DEF i, j
<1> QED BY <1>7, <1>12, <1>13

-----------------------------------------------------------------------------
\* What a mount of the repository shows.
AllClean(t) == \A q \in Seq(Names) \ {<<>>} : \A f \in Filed(t, q) : ~Dirty(f)
SameDirs(t, u) == \A q \in Seq(Names) : HasDir(t, q) <=> HasDir(u, q)

\* Whichever way a mount sorts the log, it finds the directories of a tree, and the
\* same files.
OrdersAgree(log, t) ==
    \A l \in MountOrders(log) :
        /\ IsTree(Replay(l)) /\ AllClean(Replay(l))
        /\ SameDirs(Replay(l), t)
        /\ SameView(Replay(log), Replay(l))

\* The files of a tree are those of a mounted one, but for what waits for a flush.
FilesAgree(m, t) ==
    \A p \in Seq(Names) \ {<<>>} :
        /\ Filed(m, p) # {} <=> \E f \in Filed(t, p) : ~f.create
        /\ \A f \in Filed(t, p) : ~Dirty(f) => Filed(m, p) = {f}

LEMMA ActionsHaveShape ==
    ASSUME NEW a \in Actions
    PROVE  ActionShape(a) /\ a.time \in Nat
BY DEF Actions, ActionShape

\* An action leaves nothing that waits for a flush.
LEMMA CleanStays ==
    ASSUME NEW t, IsTree(t), AllClean(t), NEW a, ActionShape(a), Apt(t, a)
    PROVE  AllClean(DoAction(t, a))
<1>1. ~Dirty(CleanOf(a))
    BY DEF CleanOf, CleanFile, Dirty
<1>2. ASSUME NEW q \in Seq(Names) \ {<<>>}, NEW f \in FiledAfter(t, a, q)
      PROVE  f = CleanOf(a) \/ f \in Filed(t, q)
    BY <1>2 DEF FiledAfter
<1>3. \A q \in Seq(Names) \ {<<>>} : Filed(DoAction(t, a), q) = FiledAfter(t, a, q)
    BY DoActionIs DEF ShowsAfter
<1> QED BY <1>1, <1>2, <1>3 DEF AllClean

\* Directories of trees that show the same ones go the same way.
LEMMA AptWithSameDirs ==
    ASSUME NEW t, NEW u, SameDirs(t, u), NEW a, ActionShape(a), Apt(t, a)
    PROVE  /\ Apt(u, a)
           /\ \A q \in Seq(Names) : HasDirAfter(t, a, q) <=> HasDirAfter(u, a, q)
<1>1. a.path \in Seq(Names) \ {<<>>} /\ Front(a.path) \in Seq(Names)
    BY SplitPath DEF ActionShape
<1>2. \A name \in Names : Append(a.path, name) \in Seq(Names)
    BY <1>1, AppendPath
<1>3. Apt(u, a)
    BY <1>1, <1>2 DEF Apt, SameDirs, NoDirIn
<1> QED BY <1>1, <1>3 DEF HasDirAfter, SameDirs

\* An action with a new time is stored.
LEMMA StoreOne ==
    ASSUME NEW log \in Seq(Actions), NEW t, OrdersAgree(log, t),
           NEW x \in Actions, log # <<>> => log[Len(log)].time # x.time, Apt(t, x),
           NEW u, \A q \in Seq(Names) : HasDir(u, q) <=> HasDirAfter(t, x, q)
    PROVE  /\ OrdersAgree(Append(log, x), u)
           /\ IsTree(Replay(log)) /\ SameDirs(Replay(log), t)
           /\ ShowsAfter(Replay(log), x, Replay(Append(log, x)))
<1> DEFINE more == Append(log, x)
<1>1. ASSUME NEW k \in MountOrders(log)
      PROVE  /\ Replay(Append(k, x)) = DoAction(Replay(k), x)
             /\ IsTree(Replay(k)) /\ SameDirs(Replay(k), t) /\ Apt(Replay(k), x)
             /\ ShowsAfter(Replay(k), x, DoAction(Replay(k), x))
             /\ IsTree(DoAction(Replay(k), x)) /\ AllClean(DoAction(Replay(k), x))
             /\ SameDirs(DoAction(Replay(k), x), u)
    <2>1. k \in Seq(Actions)
        BY OrdersType
    <2>2. Replay(Append(k, x)) = DoAction(Replay(k), x)
        BY <2>1, ReplayAppend
    <2> DEFINE m == Replay(k)
    <2>3. IsTree(m) /\ AllClean(m) /\ SameDirs(m, t) /\ SameDirs(t, m)
        BY DEF OrdersAgree, SameDirs
    <2> HIDE DEF m
    <2>4. Apt(m, x) /\ \A q \in Seq(Names) : HasDirAfter(t, x, q) <=> HasDirAfter(m, x, q)
        BY <2>3, ActionsHaveShape, AptWithSameDirs
    <2>5. IsTree(DoAction(m, x)) /\ ShowsAfter(m, x, DoAction(m, x)) /\ AllClean(DoAction(m, x))
        BY <2>3, <2>4, ActionsHaveShape, DoActionIs, CleanStays
    <2>6. SameDirs(DoAction(m, x), u)
        BY <2>4, <2>5 DEF ShowsAfter, SameDirs
    <2> QED BY <2>2, <2>3, <2>4, <2>5, <2>6 DEF m
<1>2. log \in MountOrders(log)
    BY LogIsAnOrder
<1>3. ASSUME NEW l \in MountOrders(more)
      PROVE  /\ IsTree(Replay(l)) /\ AllClean(Replay(l)) /\ SameDirs(Replay(l), u)
             /\ SameView(Replay(more), Replay(l))
    <2>1. PICK k \in MountOrders(log) : l = Append(k, x)
        BY OrdersAppend
    <2>2. SameView(Replay(log), Replay(k))
        BY DEF OrdersAgree
    <2>3. SameView(DoAction(Replay(log), x), DoAction(Replay(k), x))
        <3>1. /\ IsTree(Replay(log)) /\ IsTree(Replay(k)) /\ Apt(Replay(log), x) /\ ActionShape(x)
            BY <1>1, <1>2, ActionsHaveShape
        <3> QED BY <2>2, <3>1, SameAct
    <2>4. Replay(l) = DoAction(Replay(k), x) /\ Replay(more) = DoAction(Replay(log), x)
        BY <1>1, <1>2, <2>1
    <2> QED BY <1>1, <2>3, <2>4
<1>4. OrdersAgree(more, u)
    BY <1>3 DEF OrdersAgree
<1> QED BY <1>1, <1>2, <1>4

LEMMA SameViewIs ==
    ASSUME NEW t, NEW u, NEW v, SameView(t, u), SameView(u, v)
    PROVE  SameView(t, v) /\ SameView(u, t)
BY DEF SameView

\* A file that comes or changes and one that goes are stored with one time.
LEMMA StorePair ==
    ASSUME NEW log \in Seq(Actions), NEW t, OrdersAgree(log, t),
           NEW c \in Actions, c.type \in {AddFile, EditFile},
           NEW x \in Actions, x.type = RemoveFile, c.path # x.path, c.time = x.time,
           log # <<>> => log[Len(log)].time # c.time,
           NEW u, SameDirs(u, t)
    PROVE  /\ OrdersAgree(Append(Append(log, c), x), u)
           /\ IsTree(Replay(log)) /\ SameDirs(Replay(log), t)
           /\ ShowsAfter(Replay(log), c, Replay(Append(log, c)))
           /\ ShowsAfter(Replay(Append(log, c)), x, Replay(Append(Append(log, c), x)))
<1> USE DEF AddFile, EditFile, RemoveFile, AddDirectory, RemoveDirectory
<1>1. ActionShape(c) /\ ActionShape(x)
    BY ActionsHaveShape
<1>2. \A v : Apt(v, c) /\ Apt(v, x)
    BY DEF Apt
<1>3. \A v, q : (HasDirAfter(v, c, q) <=> HasDir(v, q)) /\ (HasDirAfter(v, x, q) <=> HasDir(v, q))
    BY DEF HasDirAfter
<1> DEFINE cx(m) == DoAction(DoAction(m, c), x)
           xc(m) == DoAction(DoAction(m, x), c)
<1>4. ASSUME NEW k \in MountOrders(log)
      PROVE  /\ Replay(Append(Append(k, c), x)) = cx(Replay(k))
             /\ Replay(Append(Append(k, x), c)) = xc(Replay(k))
             /\ Replay(Append(k, c)) = DoAction(Replay(k), c)
    <2>1. k \in Seq(Actions)
        BY OrdersType
    <2>2. Append(k, c) \in Seq(Actions) /\ Append(k, x) \in Seq(Actions)
        BY <2>1, AppendIs
    <2> QED BY <2>1, <2>2, ReplayAppend
<1>5. ASSUME NEW m, IsTree(m), AllClean(m), SameDirs(m, t)
      PROVE  /\ IsTree(cx(m)) /\ AllClean(cx(m)) /\ SameDirs(cx(m), u)
             /\ IsTree(xc(m)) /\ AllClean(xc(m)) /\ SameDirs(xc(m), u)
             /\ SameView(cx(m), xc(m))
             /\ ShowsAfter(m, c, DoAction(m, c)) /\ ShowsAfter(DoAction(m, c), x, cx(m))
    <2> DEFINE mc == DoAction(m, c)
               mx == DoAction(m, x)
    <2>1. /\ IsTree(mc) /\ AllClean(mc) /\ ShowsAfter(m, c, mc)
          /\ IsTree(mx) /\ AllClean(mx) /\ ShowsAfter(m, x, mx)
        BY <1>1, <1>2, <1>5, DoActionIs, CleanStays
    <2> HIDE DEF mc, mx
    <2>2. /\ IsTree(DoAction(mc, x)) /\ AllClean(DoAction(mc, x)) /\ ShowsAfter(mc, x, DoAction(mc, x))
          /\ IsTree(DoAction(mx, c)) /\ AllClean(DoAction(mx, c)) /\ ShowsAfter(mx, c, DoAction(mx, c))
        BY <1>1, <1>2, <2>1, DoActionIs, CleanStays
    <2> DEFINE mcx == DoAction(mc, x)
               mxc == DoAction(mx, c)
    <2> HIDE DEF mcx, mxc
    <2>3. SameDirs(mcx, u) /\ SameDirs(mxc, u)
        BY <1>3, <1>5, <2>1, <2>2 DEF ShowsAfter, SameDirs, mcx, mxc
    <2>4. SameView(DoAction(DoAction(m, c), x), DoAction(DoAction(m, x), c))
        BY <1>1, <1>5, FileActsCommute
    <2> QED BY <2>1, <2>2, <2>3, <2>4 DEF mc, mx, mcx, mxc
<1>6. log \in MountOrders(log)
    BY LogIsAnOrder
<1> HIDE DEF cx, xc
<1> DEFINE two == Append(Append(log, c), x)
           w == Replay(log)
<1>7. Replay(two) = cx(w) /\ IsTree(w) /\ AllClean(w) /\ SameDirs(w, t)
    BY <1>4, <1>6 DEF OrdersAgree
<1>8. ASSUME NEW l \in MountOrders(two)
      PROVE  /\ IsTree(Replay(l)) /\ AllClean(Replay(l)) /\ SameDirs(Replay(l), u)
             /\ SameView(Replay(two), Replay(l))
    <2>1. PICK k \in MountOrders(log) : l = Append(Append(k, c), x) \/ l = Append(Append(k, x), c)
        BY OrdersPair
    <2> DEFINE m == Replay(k)
    <2>2. IsTree(m) /\ AllClean(m) /\ SameDirs(m, t) /\ SameView(w, m)
        BY DEF OrdersAgree
    <2>3. Replay(l) = cx(m) \/ Replay(l) = xc(m)
        BY <1>4, <2>1
    <2> HIDE DEF m, w, two
    <2>4. SameView(DoAction(w, c), DoAction(m, c)) /\ IsTree(DoAction(w, c)) /\ IsTree(DoAction(m, c))
        BY <1>1, <1>2, <1>7, <2>2, SameAct, DoActionIs
    <2>5. SameView(cx(w), cx(m))
        BY <1>1, <1>2, <2>4, SameAct DEF cx
    <2>6. SameView(cx(m), xc(m)) /\ SameView(cx(w), xc(m))
        BY <1>5, <2>2, <2>5, SameViewIs
    <2> QED BY <1>5, <1>7, <2>2, <2>3, <2>5, <2>6
<1>9. OrdersAgree(two, u)
    BY <1>8 DEF OrdersAgree
<1>10. ShowsAfter(w, c, DoAction(w, c)) /\ ShowsAfter(DoAction(w, c), x, cx(w))
    BY <1>5, <1>7
<1> QED BY <1>4, <1>6, <1>7, <1>9, <1>10 DEF w, two

-----------------------------------------------------------------------------
\* Paths of which neither holds the other.
Apart(p, q) == \E l \in 1 .. Len(p) : l <= Len(q) /\ p[l] # q[l]

\* This is what the kernel checks of a rename.
LEMMA NoPrefixApart ==
    ASSUME NEW p \in Seq(Names), NEW q \in Seq(Names), ~IsPrefix(p, q), ~IsPrefix(q, p)
    PROVE  Apart(p, q)
<1> SUFFICES ASSUME ~Apart(p, q) PROVE FALSE
    OBVIOUS
<1>1. Len(p) \in Nat /\ Len(q) \in Nat
    OBVIOUS
<1>2. \A l \in 1 .. Len(p) : l <= Len(q) => p[l] = q[l]
    BY DEF Apart
<1>3. ASSUME NEW r \in Seq(Names), NEW s \in Seq(Names), Len(r) <= Len(s),
             \A l \in 1 .. Len(r) : r[l] = s[l]
      PROVE  IsPrefix(r, s)
    <2>1. Len(r) \in Nat /\ Len(s) \in Nat
        OBVIOUS
    <2>2. /\ SubSeq(r, 1, Len(r)) \in Seq(Names) /\ Len(SubSeq(r, 1, Len(r))) = Len(r)
          /\ \A l \in 1 .. Len(r) : SubSeq(r, 1, Len(r))[l] = r[l]
        BY <2>1
    <2>3. /\ SubSeq(s, 1, Len(r)) \in Seq(Names) /\ Len(SubSeq(s, 1, Len(r))) = Len(r)
          /\ \A l \in 1 .. Len(r) : SubSeq(s, 1, Len(r))[l] = s[l]
        BY <1>3, <2>1
    <2> DEFINE a == SubSeq(r, 1, Len(r))
               b == SubSeq(s, 1, Len(r))
    <2>4. a \in Seq(Names) /\ b \in Seq(Names) /\ Len(a) = Len(b) /\ \A l \in 1 .. Len(a) : a[l] = b[l]
        BY <1>3, <2>2, <2>3
    <2> HIDE DEF a, b
    <2>5. a = b
        BY <2>4, SeqEqual
    <2> QED BY <1>3, <2>5 DEF IsPrefix, a, b
<1>4. CASE Len(p) <= Len(q)
    <2>1. \A l \in 1 .. Len(p) : p[l] = q[l]
        BY <1>1, <1>2, <1>4
    <2> QED BY <1>3, <1>4, <2>1
<1>5. CASE Len(q) <= Len(p)
    <2>1. \A l \in 1 .. Len(q) : q[l] = p[l]
        BY <1>1, <1>2, <1>5
    <2> QED BY <1>3, <1>5, <2>1
<1> QED BY <1>1, <1>4, <1>5

LEMMA ApartDeeper ==
    ASSUME NEW p \in Seq(Names), NEW q \in Seq(Names), Apart(p, q)
    PROVE  /\ p # q
           /\ \A x \in Names : /\ Apart(Append(p, x), q) /\ Apart(p, Append(q, x))
                               /\ Apart(Append(p, x), Append(q, x))
                               /\ Append(p, x) # q /\ p # Append(q, x)
<1>1. Len(p) \in Nat /\ Len(q) \in Nat
    OBVIOUS
<1>2. PICK l \in 1 .. Len(p) : l <= Len(q) /\ p[l] # q[l]
    BY DEF Apart
<1>3. ASSUME NEW r \in Seq(Names), NEW x \in Names
      PROVE  Len(Append(r, x)) = Len(r) + 1 /\ Len(r) \in Nat /\ \A n \in 1 .. Len(r) : Append(r, x)[n] = r[n]
    OBVIOUS
<1>4. ASSUME NEW x \in Names
      PROVE  /\ Apart(Append(p, x), q) /\ Apart(p, Append(q, x)) /\ Apart(Append(p, x), Append(q, x))
             /\ Append(p, x) # q /\ p # Append(q, x)
    <2> DEFINE px == Append(p, x)
               qx == Append(q, x)
    <2>1. /\ Len(px) = Len(p) + 1 /\ px[l] = p[l]
          /\ Len(qx) = Len(q) + 1 /\ qx[l] = q[l]
        BY <1>1, <1>2, <1>3
    <2> HIDE DEF px, qx
    <2>2. Apart(px, q) /\ Apart(p, qx) /\ Apart(px, qx) /\ px # q /\ p # qx
        BY <1>1, <1>2, <2>1 DEF Apart
    <2> QED BY <2>2 DEF px, qx
<1> QED BY <1>2, <1>4

\* The steps of an operation: what each says of those around it.
Kinds == {"flush", "copy", "move", "remove", "mkdir", "moveAll", "rmdir"}
Steps == [do : Kinds, path : SomePaths, to : SomePaths, over : BOOLEAN]

\* The same about another kind of step.
Turned(s, do) == Step(do, s.path, s.to, s.over)

LEMMA TurnedIs ==
    ASSUME NEW s, NEW do
    PROVE  /\ Turned(s, do).do = do /\ Turned(s, do).path = s.path
           /\ Turned(s, do).to = s.to /\ Turned(s, do).over = s.over
BY DEF Turned, Step

LEMMA CopyAndMove ==
    ASSUME NEW a \in Steps, NEW b, a.do = "copy", b = Turned(a, "move")
    PROVE  b \in Steps /\ b.do = "move" /\ a = Turned(b, "copy")
<1> DEFINE p == a.path
           q == a.to
           o == a.over
<1>1. a = [do |-> "copy", path |-> p, to |-> q, over |-> o]
    BY DEF Steps
<1>2. p \in SomePaths /\ q \in SomePaths /\ o \in BOOLEAN
    BY DEF Steps
<1>3. b = [do |-> "move", path |-> p, to |-> q, over |-> o]
    BY DEF Turned, Step
<1> HIDE DEF p, q, o
<1>4. Turned(b, "copy") = [do |-> "copy", path |-> p, to |-> q, over |-> o]
    BY <1>3 DEF Turned, Step
<1>5. b \in Steps
    BY <1>2, <1>3 DEF Steps, Kinds
<1>6. b.do = "move"
    BY <1>3
<1> QED BY <1>1, <1>4, <1>5, <1>6

\* Files are handled at the front of the list, a copy between a flush and a move.
Places(l) ==
    /\ \A i \in DOMAIN l : l[i].do \in {"flush", "mkdir"} => i = 1
    /\ \A i \in DOMAIN l : l[i].do \in {"remove", "copy"} =>
            i = 1 \/ (i = 2 /\ l[1].do = "flush" /\ l[1].path = l[2].path)
    /\ \A i \in DOMAIN l : l[i].do = "copy" =>
            i + 1 \in DOMAIN l /\ l[i + 1] = Turned(l[i], "move")
    /\ \A i \in DOMAIN l : l[i].do = "move" =>
            i = 1 \/ l[i - 1] = Turned(l[i], "copy")

\* A step is about something inside the directory a later one moves.
Inside(a, b) ==
    b.do = "moveAll" =>
        /\ a.do \in {"moveAll", "rmdir"} => Len(b.path) < Len(a.path)
        /\ a.do = "moveAll" => Len(b.to) < Len(a.to)
        /\ a.do \in {"copy", "move"} =>
            \/ \E x \in Names : a.path = Append(b.path, x) /\ a.to = Append(b.to, x)
            \/ Len(b.to) + 1 < Len(a.to)

\* The sources and the destinations of a rename are apart.
Away(a, b) ==
    a.do \in {"flush", "copy", "move", "moveAll", "rmdir"} /\ b.do \in {"copy", "move", "moveAll"} =>
        Apart(a.path, b.to)

Shape(l) ==
    /\ l \in Seq(Steps)
    /\ Places(l)
    /\ \A i, j \in DOMAIN l : i < j => Inside(l[i], l[j])
    /\ \A i, j \in DOMAIN l : Away(l[i], l[j])

\* Heads and tails.
LEMMA ListFacts ==
    ASSUME NEW S, NEW l \in Seq(S)
    PROVE  /\ Len(l) \in Nat /\ DOMAIN l = 1 .. Len(l) /\ \A i \in DOMAIN l : l[i] \in S
           /\ l # <<>> => /\ 1 \in DOMAIN l /\ Head(l) = l[1] /\ Tail(l) \in Seq(S)
                          /\ Len(Tail(l)) = Len(l) - 1 /\ DOMAIN Tail(l) = 1 .. Len(l) - 1
                          /\ \A i \in 1 .. Len(l) - 1 : Tail(l)[i] = l[i + 1]
<1>1. Len(l) \in Nat /\ DOMAIN l = 1 .. Len(l) /\ \A i \in DOMAIN l : l[i] \in S
    BY LenProperties, ElementOfSeq
<1>2. ASSUME l # <<>>
      PROVE  /\ 1 \in DOMAIN l /\ Head(l) = l[1] /\ Tail(l) \in Seq(S)
             /\ Len(Tail(l)) = Len(l) - 1 /\ DOMAIN Tail(l) = 1 .. Len(l) - 1
             /\ \A i \in 1 .. Len(l) - 1 : Tail(l)[i] = l[i + 1]
    BY <1>1, <1>2, HeadTailProperties
<1> QED BY <1>1, <1>2

\* The list keeps its shape when its first step is done.
LEMMA ShapeOfTail ==
    ASSUME NEW l, Shape(l), l # <<>>
    PROVE  Shape(Tail(l))
<1> DEFINE k == Tail(l)
           N == Len(l) - 1
<1>1. /\ l \in Seq(Steps) /\ k \in Seq(Steps) /\ N \in Nat /\ DOMAIN l = 1 .. N + 1 /\ DOMAIN k = 1 .. N
      /\ \A i \in 1 .. N : k[i] = l[i + 1]
    <2>1. Len(l) \in Nat /\ DOMAIN l = 1 .. Len(l) /\ 1 \in DOMAIN l /\ l \in Seq(Steps)
        BY ListFacts DEF Shape
    <2>2. N \in Nat /\ Len(l) = N + 1
        BY <2>1
    <2> QED BY <2>1, <2>2, ListFacts
<1> HIDE DEF k, N
<1>0. Places(l)
    BY DEF Shape
<1>2. Places(k)
    <2>1. ASSUME NEW i \in DOMAIN k PROVE i + 1 \in DOMAIN l /\ i + 1 # 1 /\ k[i] = l[i + 1]
        BY <1>1
    <2>2. ASSUME NEW i \in DOMAIN k, k[i].do \in {"flush", "mkdir"} PROVE i = 1
        BY <2>1, <2>2 DEF Shape, Places
    <2>3. ASSUME NEW i \in DOMAIN k, k[i].do \in {"remove", "copy"} PROVE i = 1
        <3>1. i + 1 = 2
            BY <2>1, <2>3 DEF Shape, Places
        <3> QED BY <1>1, <3>1
    <2>4. ASSUME NEW i \in DOMAIN k, k[i].do = "copy"
          PROVE  i + 1 \in DOMAIN k /\ k[i + 1] = Turned(k[i], "move")
        <3>1. i + 1 + 1 \in DOMAIN l /\ l[i + 1 + 1] = Turned(l[i + 1], "move")
            BY <2>1, <2>4 DEF Shape, Places
        <3>2. i + 1 \in DOMAIN k
            BY <1>1, <3>1
        <3> QED BY <2>1, <3>1, <3>2
    <2>5. ASSUME NEW i \in DOMAIN k, k[i].do = "move", i # 1
          PROVE  k[i - 1] = Turned(k[i], "copy")
        <3>1. l[i + 1 - 1] = Turned(l[i + 1], "copy")
            <4> DEFINE j == i + 1
            <4>1. j \in DOMAIN l /\ j # 1 /\ l[j].do = "move"
                BY <2>1, <2>5
            <4> HIDE DEF j
            <4>2. l[j - 1] = Turned(l[j], "copy")
                BY <1>0, <4>1 DEF Places
            <4> QED BY <4>2 DEF j
        <3>2. i + 1 - 1 = i - 1 + 1 /\ i - 1 \in 1 .. N /\ i \in 1 .. N
            BY <1>1, <2>5
        <3> QED BY <1>1, <3>1, <3>2
    <2> QED BY <2>2, <2>3, <2>4, <2>5 DEF Places
<1>3. ASSUME NEW i \in DOMAIN k, NEW j \in DOMAIN k, i < j PROVE Inside(k[i], k[j])
    <2>1. i + 1 \in DOMAIN l /\ j + 1 \in DOMAIN l /\ i + 1 < j + 1
        BY <1>1, <1>3
    <2> QED BY <1>1, <2>1 DEF Shape
<1>4. ASSUME NEW i \in DOMAIN k, NEW j \in DOMAIN k PROVE Away(k[i], k[j])
    <2>1. i + 1 \in DOMAIN l /\ j + 1 \in DOMAIN l
        BY <1>1
    <2> QED BY <1>1, <2>1 DEF Shape
<1> QED BY <1>1, <1>2, <1>3, <1>4 DEF Shape, k

\* Behind anything but a flush and a copy there are only the loops.
LEMMA OnlyLoopsBehind ==
    ASSUME NEW l, Shape(l), l # <<>>, l[1].do \notin {"flush", "copy"},
           NEW i \in DOMAIN l, i # 1
    PROVE  l[i].do \in {"moveAll", "rmdir"}
<1>1. l \in Seq(Steps) /\ Places(l) /\ DOMAIN l = 1 .. Len(l) /\ Len(l) \in Nat /\ l[i] \in Steps
    BY ListFacts DEF Shape
<1>2. l[i].do \in Kinds
    BY <1>1 DEF Steps
<1>3. l[i].do \notin {"flush", "mkdir", "remove", "copy"}
    BY <1>1 DEF Places
<1>4. l[i].do # "move"
    <2> SUFFICES ASSUME l[i].do = "move" PROVE FALSE
        OBVIOUS
    <2>1. l[i - 1] = Turned(l[i], "copy") /\ i - 1 \in DOMAIN l
        BY <1>1 DEF Places
    <2>2. l[i - 1].do = "copy"
        BY <2>1, TurnedIs
    <2>3. i - 1 = 1 \/ l[1].do = "flush"
        BY <1>1, <2>1, <2>2 DEF Places
    <2> QED BY <2>2, <2>3
<1> QED BY <1>2, <1>3, <1>4 DEF Kinds

\* Three steps in front of a list that a loop heads.
InFrontOf(n, l) ==
    /\ n \in Seq(Steps) /\ Len(n) = Len(l) + 3
    /\ \A i \in 4 .. Len(n) : n[i] = l[i - 3]

\* A loop puts the steps for what it found in front of the list.
LEMMA ShapeOfLonger ==
    ASSUME NEW l, Shape(l), l # <<>>, l[1].do = "moveAll",
           NEW n, InFrontOf(n, l), NEW x \in Names,
           \A i \in 1 .. 3 : n[i].path = Append(l[1].path, x) \/ (n[i].do = "mkdir" /\ i = 1),
           \A i \in 1 .. 3 : n[i].do \in {"copy", "move", "moveAll"} => n[i].to = Append(l[1].to, x),
           n[1].do \in {"flush", "mkdir"},
           \/ n[1].do = "flush" /\ n[2].do = "copy" /\ n[3] = Turned(n[2], "move")
           \/ n[1].do = "mkdir" /\ n[2].do = "moveAll" /\ n[3].do = "rmdir"
    PROVE  Shape(n)
<1> DEFINE N == Len(l)
           s == l[1]
<1>1. /\ l \in Seq(Steps) /\ N \in Nat /\ DOMAIN l = 1 .. N /\ 1 \in DOMAIN l /\ s \in Steps
      /\ n \in Seq(Steps) /\ DOMAIN n = 1 .. N + 3
      /\ \A i \in 4 .. N + 3 : n[i] = l[i - 3]
      /\ s.path \in Seq(Names) /\ s.to \in Seq(Names)
    <2>1. l \in Seq(Steps) /\ n \in Seq(Steps)
        BY DEF Shape, InFrontOf
    <2>2. l[1] \in Steps
        BY <2>1, ListFacts
    <2> QED BY <2>1, <2>2, ListFacts DEF InFrontOf, Steps, SomePaths
<1>2. \A i \in DOMAIN n : i \in {1, 2, 3} \/ (i \in 4 .. N + 3 /\ i - 3 \in DOMAIN l /\ n[i] = l[i - 3])
    BY <1>1
<1>3. {1, 2, 3} \subseteq DOMAIN n
    BY <1>1
<1>4. \A i \in DOMAIN l : l[i].do \in {"moveAll", "rmdir"}
    BY OnlyLoopsBehind
<1> HIDE DEF N, s
<1>5. ASSUME NEW i \in 4 .. N + 3 PROVE n[i].do \in {"moveAll", "rmdir"} /\ i - 3 \in DOMAIN l /\ n[i] = l[i - 3]
    <2>1. i - 3 \in DOMAIN l /\ n[i] = l[i - 3]
        BY <1>1
    <2> QED BY <1>4, <2>1
<1>14. /\ n[1].do = "flush" => n[2].do = "copy" /\ n[3] = Turned(n[2], "move") /\ n[1].path = n[2].path
       /\ n[1].do = "mkdir" => n[2].do = "moveAll" /\ n[3].do = "rmdir"
       /\ n[1].do \in {"flush", "mkdir"}
    <2>1. 1 \in 1 .. 3 /\ 2 \in 1 .. 3
        OBVIOUS
    <2>2. n[1].do = "flush" => n[1].path = Append(l[1].path, x)
        BY <2>1
    <2>3. n[2].path = Append(l[1].path, x)
        BY <2>1
    <2>4. n[1].do = "flush" => n[2].do = "copy" /\ n[3] = Turned(n[2], "move")
        OBVIOUS
    <2>5. n[1].do = "mkdir" => n[2].do = "moveAll" /\ n[3].do = "rmdir"
        OBVIOUS
    <2> QED BY <2>2, <2>3, <2>4, <2>5
<1>6. Places(n)
    <2>1. CASE n[1].do = "flush"
        <3>1. n[2].do = "copy" /\ n[3] = Turned(n[2], "move") /\ n[1].path = n[2].path
            BY ONLY <1>14, <2>1
        <3>2. n[2] = Turned(n[3], "copy") /\ n[3].do = "move"
            <4>1. n[2] \in Steps /\ n[3] \in Steps
                BY <1>1, <1>3, ListFacts
            <4> DEFINE c == n[2]
                       m == n[3]
            <4>2. c \in Steps /\ c.do = "copy" /\ m = Turned(c, "move")
                BY <3>1, <4>1
            <4> HIDE DEF c, m
            <4>3. m.do = "move" /\ c = Turned(m, "copy")
                BY <4>2, CopyAndMove
            <4> QED BY <4>3 DEF c, m
        <3>3. \A i \in DOMAIN n : i = 1 \/ i = 2 \/ i = 3 \/ n[i].do \in {"moveAll", "rmdir"}
            BY <1>2, <1>5
        <3>4. \A i \in DOMAIN n : n[i].do \in {"flush", "mkdir"} => i = 1
            BY <2>1, <3>1, <3>2, <3>3
        <3>5. \A i \in DOMAIN n : n[i].do \in {"remove", "copy"} => i = 2
            BY <2>1, <3>1, <3>2, <3>3
        <3>6. \A i \in DOMAIN n : n[i].do = "move" => i = 3
            BY <2>1, <3>1, <3>2, <3>3
        <3>7. \A i \in DOMAIN n : n[i].do \in {"remove", "copy"} =>
                i = 1 \/ (i = 2 /\ n[1].do = "flush" /\ n[1].path = n[2].path)
            BY <2>1, <3>1, <3>5
        <3>8. \A i \in DOMAIN n : n[i].do = "copy" =>
                i + 1 \in DOMAIN n /\ n[i + 1] = Turned(n[i], "move")
            <4>1. 2 + 1 = 3
                OBVIOUS
            <4> QED BY <1>3, <3>1, <3>5, <4>1
        <3>9. \A i \in DOMAIN n : n[i].do = "move" =>
                i = 1 \/ n[i - 1] = Turned(n[i], "copy")
            <4>1. 3 - 1 = 2
                OBVIOUS
            <4> QED BY <3>2, <3>6, <4>1
        <3> QED BY <3>4, <3>7, <3>8, <3>9 DEF Places
    <2>2. CASE n[1].do = "mkdir"
        <3>1. n[2].do = "moveAll" /\ n[3].do = "rmdir"
            BY <1>14, <2>2
        <3>2. \A i \in DOMAIN n : i = 1 \/ n[i].do \in {"moveAll", "rmdir"}
            BY <1>2, <1>5, <3>1
        <3> QED BY <2>2, <3>2 DEF Places
    <2> QED BY <1>14, <2>1, <2>2
<1>7. ASSUME NEW i \in {1, 2, 3}
      PROVE  /\ n[i].do # "mkdir" => n[i].path = Append(s.path, x) /\ Len(n[i].path) = Len(s.path) + 1
             /\ n[i].do \in {"copy", "move", "moveAll"} => n[i].to = Append(s.to, x) /\ Len(n[i].to) = Len(s.to) + 1
    <2>1. Len(Append(s.path, x)) = Len(s.path) + 1 /\ Len(Append(s.to, x)) = Len(s.to) + 1
        BY <1>1
    <2>2. i \in 1 .. 3
        OBVIOUS
    <2> QED BY <2>1, <2>2 DEF s
<1>8. ASSUME NEW i \in {1, 2, 3}, NEW j \in 4 .. N + 3 PROVE Inside(n[i], n[j])
    <2> SUFFICES ASSUME n[j].do = "moveAll" PROVE Inside(n[i], n[j])
        BY DEF Inside
    <2>1. j - 3 \in DOMAIN l /\ n[j] = l[j - 3]
        BY <1>1
    <2>2. l[j - 3] \in Steps
        BY <1>1, <2>1, ListFacts
    <2>3. Len(n[j].path) \in Nat /\ Len(n[j].to) \in Nat /\ Len(s.path) \in Nat /\ Len(s.to) \in Nat
        <3>1. n[j].path \in Seq(Names) /\ n[j].to \in Seq(Names)
            BY <2>1, <2>2 DEF Steps, SomePaths
        <3>2. s.path \in Seq(Names) /\ s.to \in Seq(Names)
            BY <1>1
        <3> QED BY ONLY <3>1, <3>2, LenProperties
    <2>4. j = 4 => n[j] = s
        BY <2>1 DEF s
    <2>5. j # 4 => Len(n[j].path) < Len(s.path) /\ Len(n[j].to) < Len(s.to)
        <3> SUFFICES ASSUME j # 4 PROVE Len(n[j].path) < Len(s.path) /\ Len(n[j].to) < Len(s.to)
            OBVIOUS
        <3>1. 1 < j - 3
            BY <1>1
        <3>2. Inside(l[1], l[j - 3])
            BY <1>1, <2>1, <3>1 DEF Shape
        <3> QED BY <2>1, <3>2 DEF Inside, s
    <2>6. Len(n[j].path) < Len(s.path) + 1 /\ Len(n[j].to) < Len(s.to) + 1
        BY <2>3, <2>4, <2>5
    <2>7. n[i].do \in {"moveAll", "rmdir"} => Len(n[j].path) < Len(n[i].path)
        BY <1>7, <2>6
    <2>8. n[i].do = "moveAll" => Len(n[j].to) < Len(n[i].to)
        BY <1>7, <2>6
    <2>9. ASSUME n[i].do \in {"copy", "move"}
          PROVE  \/ \E y \in Names : n[i].path = Append(n[j].path, y) /\ n[i].to = Append(n[j].to, y)
                 \/ Len(n[j].to) + 1 < Len(n[i].to)
        <3>1. CASE j = 4
            BY <1>7, <2>4, <2>9, <3>1
        <3>2. CASE j # 4
            <4>1. Len(n[j].to) < Len(s.to) /\ Len(n[i].to) = Len(s.to) + 1
                BY <1>7, <2>5, <2>9, <3>2
            <4> QED BY <2>3, <4>1
        <3> QED BY <3>1, <3>2
    <2> QED BY <2>7, <2>8, <2>9 DEF Inside
<1>9. ASSUME NEW i \in {1, 2, 3}, NEW j \in {1, 2, 3}, i < j PROVE Inside(n[i], n[j])
    <2>1. n[j].do = "moveAll" => n[i].do = "mkdir"
        <3>1. (j = 2 /\ i = 1) \/ j = 3
            BY <1>9
        <3>2. n[3].do # "moveAll"
            <4>1. n[2] \in Steps
                BY <1>1, <1>3, ListFacts
            <4>2. n[1].do = "flush" => n[3].do = "move"
                BY <1>14, TurnedIs
            <4> QED BY <1>14, <4>2
        <3>3. n[2].do = "moveAll" => n[1].do = "mkdir"
            BY <1>14
        <3> QED BY <3>1, <3>2, <3>3
    <2> QED BY <2>1 DEF Inside
<1>10. ASSUME NEW i \in DOMAIN n, NEW j \in DOMAIN n, i < j PROVE Inside(n[i], n[j])
    <2>1. CASE i \in {1, 2, 3} /\ j \in {1, 2, 3}
        BY <1>9, <1>10, <2>1
    <2>2. CASE i \in {1, 2, 3} /\ j \in 4 .. N + 3
        BY <1>8, <2>2
    <2>3. CASE i \in 4 .. N + 3
        <3>0. j \in 4 .. N + 3 /\ i - 3 < j - 3
            BY <1>1, <1>10, <2>3
        <3>1. /\ i - 3 \in DOMAIN l /\ n[i] = l[i - 3] /\ i - 3 < j - 3
              /\ j - 3 \in DOMAIN l /\ n[j] = l[j - 3]
            BY <1>5, <2>3, <3>0
        <3> QED BY <3>1 DEF Shape
    <2> QED BY <1>2, <2>1, <2>2, <2>3
<1>11. \A i \in DOMAIN l : Away(l[i], s) /\ Away(s, l[i])
    BY <1>1 DEF Shape, s
<1>12. s.do = "moveAll" /\ Apart(s.path, s.to)
    BY <1>1, <1>11 DEF Away, s
<1>13. ASSUME NEW i \in DOMAIN n, NEW j \in DOMAIN n PROVE Away(n[i], n[j])
    <2> SUFFICES ASSUME n[i].do \in {"flush", "copy", "move", "moveAll", "rmdir"},
                        n[j].do \in {"copy", "move", "moveAll"}
                 PROVE  Apart(n[i].path, n[j].to)
        BY DEF Away
    <2>1. CASE i \in {1, 2, 3} /\ j \in {1, 2, 3}
        <3>1. n[i].path = Append(s.path, x) /\ n[j].to = Append(s.to, x)
            BY <1>7, <2>1
        <3> QED BY <1>1, <1>12, <3>1, ApartDeeper
    <2>2. CASE i \in {1, 2, 3} /\ j \notin {1, 2, 3}
        <3>1. n[i].path = Append(s.path, x)
            BY <1>7, <2>2
        <3>2. j - 3 \in DOMAIN l /\ n[j] = l[j - 3] /\ l[j - 3] \in Steps
            BY <1>1, <1>2, <2>2, ListFacts
        <3>3. Apart(s.path, n[j].to) /\ n[j].to \in Seq(Names)
            BY <1>11, <1>12, <3>2 DEF Away, Steps, SomePaths
        <3> QED BY <1>1, <3>1, <3>3, ApartDeeper
    <2>3. CASE i \notin {1, 2, 3} /\ j \in {1, 2, 3}
        <3>1. n[j].to = Append(s.to, x)
            BY <1>7, <2>3
        <3>2. i - 3 \in DOMAIN l /\ n[i] = l[i - 3] /\ l[i - 3] \in Steps
            BY <1>1, <1>2, <2>3, ListFacts
        <3>3. Apart(n[i].path, s.to) /\ n[i].path \in Seq(Names)
            BY <1>11, <1>12, <3>2 DEF Away, Steps, SomePaths
        <3> QED BY <1>1, <3>1, <3>3, ApartDeeper
    <2>4. CASE i \notin {1, 2, 3} /\ j \notin {1, 2, 3}
        <3>1. i - 3 \in DOMAIN l /\ n[i] = l[i - 3] /\ j - 3 \in DOMAIN l /\ n[j] = l[j - 3]
            BY <1>2, <2>4
        <3> QED BY <3>1 DEF Shape, Away
    <2> QED BY <2>1, <2>2, <2>3, <2>4
<1> QED BY <1>1, <1>6, <1>10, <1>13 DEF Shape

-----------------------------------------------------------------------------
\* What the steps find in the tree, each when its turn comes.
FilesApart(t, p, q) == \A x \in Names : Filed(t, Append(p, x)) = {} \/ Filed(t, Append(q, x)) = {}
FileReady(t, s) ==
    /\ s.do \in {"flush", "copy", "move", "remove"} => Filed(t, s.path) # {}
    /\ s.do \in {"copy", "move"} => HasDir(t, Front(s.to)) /\ (s.over <=> Filed(t, s.to) # {})
LoopReady(t, s) == HasDir(t, s.path) /\ HasDir(t, s.to) /\ FilesApart(t, s.path, s.to)
MadeFirst(l, t, i) == i = 2 /\ l[1].do = "mkdir" /\ l[1].path = l[2].to /\ HasDir(t, l[2].path)
Ready(l, t, i) ==
    /\ FileReady(t, l[i])
    /\ l[i].do = "moveAll" => MadeFirst(l, t, i) \/ LoopReady(t, l[i])
CleanAt(t, p) == \A f \in Filed(t, p) : ~Dirty(f)
HeadClean(l, t) == l # <<>> /\ l[1].do \in {"copy", "move"} => CleanAt(t, l[1].path)
TodoFor(l, t) == Shape(l) /\ HeadClean(l, t) /\ \A i \in DOMAIN l : Ready(l, t, i)

SameEmpty(t, u) == \A q \in SomePaths : Filed(u, q) = {} <=> Filed(t, q) = {}

LEMMA StepIs ==
    ASSUME NEW l, Shape(l), NEW i \in DOMAIN l
    PROVE  /\ l[i] \in Steps /\ l[i].do \in Kinds /\ l[i].over \in BOOLEAN
           /\ l[i].path \in SomePaths /\ l[i].to \in SomePaths
           /\ l[i].path \in Seq(Names) /\ l[i].to \in Seq(Names)
           /\ Front(l[i].path) \in Seq(Names) /\ Front(l[i].to) \in Seq(Names)
<1>1. l[i] \in Steps
    BY ListFacts DEF Shape
<1>2. l[i].do \in Kinds /\ l[i].over \in BOOLEAN /\ l[i].path \in SomePaths /\ l[i].to \in SomePaths
    BY <1>1 DEF Steps
<1>3. \A p \in SomePaths : p \in Seq(Names) /\ Front(p) \in Seq(Names)
    BY SplitPath DEF SomePaths
<1> QED BY <1>1, <1>2, <1>3

\* A step that finds what it needs finds it in a tree that shows the same.
LEMMA SameReady ==
    ASSUME NEW s \in Steps, NEW t, NEW u, SameDirs(t, u), SameEmpty(t, u)
    PROVE  /\ FileReady(t, s) => FileReady(u, s)
           /\ LoopReady(t, s) => LoopReady(u, s)
<1>1. s.path \in SomePaths /\ s.to \in SomePaths
    BY DEF Steps
<1>2. s.path \in Seq(Names) /\ s.to \in Seq(Names) /\ Front(s.to) \in Seq(Names)
    BY <1>1, SplitPath DEF SomePaths
<1>3. FileReady(t, s) => FileReady(u, s)
    <2>1. HasDir(t, Front(s.to)) <=> HasDir(u, Front(s.to))
        BY <1>2 DEF SameDirs
    <2>2. /\ Filed(u, s.path) = {} <=> Filed(t, s.path) = {}
          /\ Filed(u, s.to) = {} <=> Filed(t, s.to) = {}
        BY <1>1 DEF SameEmpty
    <2> QED BY <2>1, <2>2 DEF FileReady
<1>4. LoopReady(t, s) => LoopReady(u, s)
    <2>1. /\ HasDir(t, s.path) <=> HasDir(u, s.path)
          /\ HasDir(t, s.to) <=> HasDir(u, s.to)
        BY <1>2 DEF SameDirs
    <2>2. ASSUME NEW x \in Names
          PROVE  /\ Filed(u, Append(s.path, x)) = {} <=> Filed(t, Append(s.path, x)) = {}
                 /\ Filed(u, Append(s.to, x)) = {} <=> Filed(t, Append(s.to, x)) = {}
        <3>1. Append(s.path, x) \in SomePaths /\ Append(s.to, x) \in SomePaths
            BY <1>2, AppendPath DEF SomePaths
        <3> QED BY <3>1 DEF SameEmpty
    <2> QED BY <2>1, <2>2 DEF LoopReady, FilesApart
<1> QED BY <1>3, <1>4

\* The list goes on where no step behind the first finds anything changed.
LEMMA RestIsReady ==
    ASSUME NEW l, NEW t, NEW u, TodoFor(l, t), l # <<>>, l[1].do \in {"flush", "copy", "moveAll"},
           SameDirs(t, u), SameEmpty(t, u),
           l[1].do = "flush" => CleanAt(u, l[1].path),
           l[1].do = "copy" => Filed(u, l[1].path) = Filed(t, l[1].path)
    PROVE  TodoFor(Tail(l), u)
<1> DEFINE k == Tail(l)
<1>0. Shape(l)
    BY DEF TodoFor
<1>1. /\ Len(l) \in Nat /\ DOMAIN l = 1 .. Len(l) /\ 1 \in DOMAIN l /\ DOMAIN k = 1 .. Len(l) - 1
      /\ \A i \in 1 .. Len(l) - 1 : k[i] = l[i + 1]
    BY <1>0, ListFacts DEF Shape
<1>2. Shape(k)
    BY <1>0, ShapeOfTail
<1> HIDE DEF k
<1>3. ASSUME NEW i \in DOMAIN k PROVE i + 1 \in DOMAIN l /\ k[i] = l[i + 1] /\ i + 1 # 1
    BY <1>1
<1>4. ASSUME NEW i \in DOMAIN k PROVE Ready(k, u, i)
    <2>1. k[i] \in Steps
        BY <1>2, StepIs
    <2>2. FileReady(t, k[i]) /\ (k[i].do = "moveAll" => LoopReady(t, k[i]))
        <3>1. Ready(l, t, i + 1)
            BY <1>3 DEF TodoFor
        <3>2. ~MadeFirst(l, t, i + 1)
            BY DEF MadeFirst
        <3> QED BY <1>3, <3>1, <3>2 DEF Ready
    <2>3. FileReady(u, k[i]) /\ (k[i].do = "moveAll" => LoopReady(u, k[i]))
        BY <2>1, <2>2, SameReady
    <2> QED BY <2>3 DEF Ready
<1>5. HeadClean(k, u)
    <2> SUFFICES ASSUME k # <<>>, k[1].do \in {"copy", "move"} PROVE CleanAt(u, k[1].path)
        BY DEF HeadClean
    <2>1. 1 \in DOMAIN k
        BY <1>2, ListFacts DEF Shape
    <2>2. k[1] = l[2] /\ 2 \in DOMAIN l
        <3>1. 1 + 1 = 2
            OBVIOUS
        <3> QED BY <1>3, <2>1, <3>1
    <2>3. CASE l[2].do = "copy"
        <3>1. l[1].do = "flush" /\ l[1].path = l[2].path
            BY <1>0, <2>2, <2>3 DEF Shape, Places
        <3> QED BY <2>2, <3>1
    <2>4. CASE l[2].do = "move"
        <3>1. l[1] = Turned(l[2], "copy")
            <4>1. 2 - 1 = 1 /\ 2 # 1
                OBVIOUS
            <4>2. l[2 - 1] = Turned(l[2], "copy")
                BY <1>0, <2>2, <2>4, <4>1 DEF Shape, Places
            <4> QED BY <4>1, <4>2
        <3>2. l[1].do = "copy" /\ l[1].path = l[2].path
            BY <3>1, TurnedIs
        <3>3. CleanAt(t, l[1].path)
            BY <3>2 DEF TodoFor, HeadClean
        <3>4. Filed(u, l[1].path) = Filed(t, l[1].path)
            BY <3>2
        <3> QED BY <2>2, <3>2, <3>3, <3>4 DEF CleanAt
    <2> QED BY <2>2, <2>3, <2>4
<1>6. TodoFor(k, u)
    BY <1>2, <1>4, <1>5 DEF TodoFor
<1> QED BY <1>6 DEF k

\* Behind any other step there are the loops only.
LEMMA LoopsAreReady ==
    ASSUME NEW l, NEW t, NEW u, TodoFor(l, t), l # <<>>, l[1].do \notin {"flush", "copy"},
           \A i \in DOMAIN l : i # 1 /\ l[i].do = "moveAll" => LoopReady(u, l[i])
    PROVE  TodoFor(Tail(l), u)
<1> DEFINE k == Tail(l)
<1>0. Shape(l)
    BY DEF TodoFor
<1>1. /\ Len(l) \in Nat /\ DOMAIN l = 1 .. Len(l) /\ 1 \in DOMAIN l /\ DOMAIN k = 1 .. Len(l) - 1
      /\ \A i \in 1 .. Len(l) - 1 : k[i] = l[i + 1]
    BY <1>0, ListFacts DEF Shape
<1>2. Shape(k)
    BY <1>0, ShapeOfTail
<1> HIDE DEF k
<1>3. ASSUME NEW i \in DOMAIN k
      PROVE  i + 1 \in DOMAIN l /\ k[i] = l[i + 1] /\ i + 1 # 1 /\ k[i].do \in {"moveAll", "rmdir"}
    <2>1. i + 1 \in DOMAIN l /\ k[i] = l[i + 1] /\ i + 1 # 1
        BY <1>1
    <2>2. l[i + 1].do \in {"moveAll", "rmdir"}
        BY <1>0, <2>1, OnlyLoopsBehind
    <2> QED BY <2>1, <2>2
<1>4. ASSUME NEW i \in DOMAIN k PROVE Ready(k, u, i)
    <2>1. k[i].do = "moveAll" => LoopReady(u, k[i])
        BY <1>3
    <2>2. FileReady(u, k[i])
        BY <1>3 DEF FileReady
    <2> QED BY <2>1, <2>2 DEF Ready
<1>5. HeadClean(k, u)
    <2> SUFFICES ASSUME k # <<>> PROVE k[1].do \notin {"copy", "move"}
        BY DEF HeadClean
    <2>1. 1 \in DOMAIN k
        BY <1>2, ListFacts DEF Shape
    <2> QED BY <1>3, <2>1
<1>6. TodoFor(k, u)
    BY <1>2, <1>4, <1>5 DEF TodoFor
<1> QED BY <1>6 DEF k

\* The loops behind another step are ready as they are.
LEMMA LoopsBehind ==
    ASSUME NEW l, NEW t, TodoFor(l, t), NEW i \in DOMAIN l, i # 1, l[i].do = "moveAll",
           l[1].do # "mkdir"
    PROVE  LoopReady(t, l[i])
<1>1. Ready(l, t, i)
    BY DEF TodoFor
<1> QED BY <1>1 DEF Ready, MadeFirst

-----------------------------------------------------------------------------
\* The agreement at one path.
LEMMA FilesAgreeAt ==
    ASSUME NEW m, NEW t, FilesAgree(m, t), NEW p \in Seq(Names) \ {<<>>}
    PROVE  /\ Filed(m, p) # {} <=> \E f \in Filed(t, p) : ~f.create
           /\ \A f \in Filed(t, p) : ~Dirty(f) => Filed(m, p) = {f}
BY DEF FilesAgree

\* What a store of one action does to the agreement, at its path and elsewhere.
LEMMA AgreeElsewhere ==
    ASSUME NEW m, NEW t, NEW n, NEW u, FilesAgree(m, t), NEW p \in Seq(Names) \ {<<>>},
           \A q \in Seq(Names) \ {<<>>} : q # p => Filed(n, q) = Filed(m, q) /\ Filed(u, q) = Filed(t, q),
           Filed(n, p) # {} <=> \E f \in Filed(u, p) : ~f.create,
           \A f \in Filed(u, p) : ~Dirty(f) => Filed(n, p) = {f}
    PROVE  FilesAgree(n, u)
<1>1. ASSUME NEW q \in Seq(Names) \ {<<>>}
      PROVE  /\ Filed(n, q) # {} <=> \E f \in Filed(u, q) : ~f.create
             /\ \A f \in Filed(u, q) : ~Dirty(f) => Filed(n, q) = {f}
    <2>1. CASE q = p
        BY <2>1
    <2>2. CASE q # p
        <3>1. Filed(n, q) = Filed(m, q) /\ Filed(u, q) = Filed(t, q)
            BY <2>2
        <3>2. /\ Filed(m, q) # {} <=> \E f \in Filed(t, q) : ~f.create
              /\ \A f \in Filed(t, q) : ~Dirty(f) => Filed(m, q) = {f}
            BY FilesAgreeAt
        <3> QED BY <3>1, <3>2
    <2> QED BY <2>1, <2>2
<1> QED BY <1>1 DEF FilesAgree

LEMMA ActionIs ==
    ASSUME NEW time \in Nat, NEW type \in ActionTypes, NEW p \in Seq(Names) \ {<<>>}, NEW c \in ContentOf
    PROVE  LET x == [time |-> time, type |-> type, path |-> p, content |-> c]
           IN /\ x \in Actions /\ x.time = time /\ x.type = type /\ x.path = p /\ x.content = c
              /\ CleanOf(x) = CleanFile(Last(p), c)
BY DEF Actions, CleanOf

LEMMA CleanFileIs ==
    ASSUME NEW name, NEW c
    PROVE  /\ CleanFile(name, c).name = name /\ CleanFile(name, c).content = c
           /\ ~CleanFile(name, c).create /\ ~CleanFile(name, c).write /\ ~Dirty(CleanFile(name, c))
BY DEF CleanFile, Dirty

LEMMA FileFields ==
    ASSUME NEW f \in Files
    PROVE  /\ f.name \in Names /\ f.content \in ContentOf /\ f.create \in BOOLEAN /\ f.write \in BOOLEAN
           /\ ~Dirty(f) => f = CleanFile(f.name, f.content)
           /\ \A name \in Names, c \in ContentOf : CleanFile(name, c) \in Files
<1>1. f.name \in Names /\ f.content \in ContentOf /\ f.create \in BOOLEAN /\ f.write \in BOOLEAN
    BY DEF Files
<1>2. f = [name |-> f.name, content |-> f.content, create |-> f.create, write |-> f.write]
    BY DEF Files
<1>3. ~Dirty(f) => f = CleanFile(f.name, f.content)
    <2> SUFFICES ASSUME ~Dirty(f) PROVE f = CleanFile(f.name, f.content)
        OBVIOUS
    <2>1. f.create = FALSE /\ f.write = FALSE
        BY <1>1 DEF Dirty
    <2> QED BY <1>2, <2>1 DEF CleanFile
<1>4. \A name \in Names, c \in ContentOf : CleanFile(name, c) \in Files
    BY DEF CleanFile, Files
<1> QED BY <1>1, <1>3, <1>4

\* The action a flush stores.
LEMMA FlushAgrees ==
    ASSUME NEW m, NEW t, NEW n, NEW u, IsTree(m), IsTree(t), SameDirs(m, t), FilesAgree(m, t),
           NEW p \in Seq(Names) \ {<<>>}, FileExists(t, p),
           NEW x \in Actions, x.path = p, x.content = FileAt(t, p).content,
           x.type = IF FileAt(t, p).create THEN AddFile ELSE EditFile,
           ShowsAfter(m, x, n), FileUpdate(t, u, p, {CleanOf(x)})
    PROVE  FilesAgree(n, u)
<1> DEFINE f == FileAt(t, p)
           g == CleanOf(x)
<1>1. Filed(t, p) = {f} /\ HasDir(t, Front(p)) /\ Front(p) \in Seq(Names)
    BY FiledOfDir, SplitPath
<1>2. HasDir(m, Front(p))
    BY <1>1 DEF SameDirs
<1>3. ~g.create /\ ~Dirty(g)
    BY CleanFileIs DEF CleanOf
<1> HIDE DEF g
<1>4. Filed(u, p) = {g}
    BY DEF FileUpdate, g
<1>5. Filed(n, p) = {g}
    <2>1. Filed(n, p) = FiledAfter(m, x, p)
        BY DEF ShowsAfter
    <2>2. Filed(m, p) # {} <=> \E h \in Filed(t, p) : ~h.create
        BY FilesAgreeAt
    <2>3. CASE f.create
        <3>1. Filed(m, p) = {}
            BY <1>1, <2>2, <2>3
        <3> QED BY <1>2, <2>1, <2>3, <3>1 DEF FiledAfter, g
    <2>4. CASE ~f.create
        <3>1. Filed(m, p) # {}
            BY <1>1, <2>2, <2>4
        <3>2. x.type = EditFile /\ x.type # AddFile
            BY <2>4 DEF EditFile, AddFile
        <3> QED BY <2>1, <3>1, <3>2 DEF FiledAfter, g
    <2> QED BY <2>3, <2>4
<1>6. ASSUME NEW q \in Seq(Names) \ {<<>>}, q # p PROVE Filed(n, q) = Filed(m, q) /\ Filed(u, q) = Filed(t, q)
    <2>1. Filed(u, q) = Filed(t, q)
        BY <1>6 DEF FileUpdate
    <2>2. x.type \in {AddFile, EditFile} /\ x.type # RemoveFile /\ x.type # RemoveDirectory
        BY DEF AddFile, EditFile, RemoveFile, RemoveDirectory
    <2>3. Filed(n, q) = FiledAfter(m, x, q)
        BY DEF ShowsAfter
    <2> QED BY <1>6, <2>1, <2>2, <2>3 DEF FiledAfter
<1>7. /\ Filed(n, p) # {} <=> \E h \in Filed(u, p) : ~h.create
      /\ \A h \in Filed(u, p) : ~Dirty(h) => Filed(n, p) = {h}
    BY <1>3, <1>4, <1>5
<1>8. \A q \in Seq(Names) \ {<<>>} : q # p => Filed(n, q) = Filed(m, q) /\ Filed(u, q) = Filed(t, q)
    BY <1>6
<1> QED BY ONLY FilesAgree(m, t), <1>7, <1>8, AgreeElsewhere, p \in Seq(Names) \ {<<>>}

\* The removal of a file.
LEMMA RemovalAgrees ==
    ASSUME NEW m, NEW t, NEW n, NEW u, FilesAgree(m, t),
           NEW p \in Seq(Names) \ {<<>>},
           NEW x \in Actions, x.path = p, x.type = RemoveFile,
           ShowsAfter(m, x, n), FileUpdate(t, u, p, {})
    PROVE  FilesAgree(n, u)
<1>1. Filed(u, p) = {}
    BY DEF FileUpdate
<1>2. x.type # AddFile /\ x.type # EditFile /\ x.type # RemoveDirectory /\ x.type = RemoveFile
    BY DEF AddFile, EditFile, RemoveFile, RemoveDirectory
<1>3. \A q \in Seq(Names) \ {<<>>} : Filed(n, q) = IF q = p THEN {} ELSE Filed(m, q)
    BY <1>2 DEF ShowsAfter, FiledAfter
<1>4. \A q \in Seq(Names) \ {<<>>} : q # p => Filed(n, q) = Filed(m, q) /\ Filed(u, q) = Filed(t, q)
    BY <1>3 DEF FileUpdate
<1> QED BY <1>1, <1>3, <1>4, AgreeElsewhere

\* The actions for directories: no file is in the one that comes or goes.
LEMMA DirAgrees ==
    ASSUME NEW m, NEW t, NEW n, NEW u, FilesAgree(m, t),
           NEW p \in Seq(Names) \ {<<>>},
           NEW x \in Actions, x.path = p, x.type \in {AddDirectory, RemoveDirectory},
           \A q \in Seq(Names) \ {<<>>} : Front(q) = p => Filed(t, q) = {},
           ShowsAfter(m, x, n),
           \A q \in Seq(Names) \ {<<>>} : Filed(u, q) = Filed(t, q)
    PROVE  FilesAgree(n, u)
<1>1. x.type # AddFile /\ x.type # EditFile /\ x.type # RemoveFile
    BY DEF AddFile, EditFile, RemoveFile, RemoveDirectory, AddDirectory
<1>2. ASSUME NEW q \in Seq(Names) \ {<<>>}
      PROVE  Filed(n, q) = Filed(m, q)
    <2>1. Filed(n, q) = IF x.type = RemoveDirectory /\ Front(q) = p THEN {} ELSE Filed(m, q)
        BY <1>1 DEF ShowsAfter, FiledAfter
    <2>2. ASSUME Front(q) = p PROVE Filed(m, q) = {}
        BY <2>2, FilesAgreeAt
    <2> QED BY <2>1, <2>2
<1>3. ASSUME NEW q \in Seq(Names) \ {<<>>}
      PROVE  /\ Filed(n, q) # {} <=> \E f \in Filed(u, q) : ~f.create
             /\ \A f \in Filed(u, q) : ~Dirty(f) => Filed(n, q) = {f}
    <2>1. Filed(n, q) = Filed(m, q) /\ Filed(u, q) = Filed(t, q)
        BY <1>2
    <2> QED BY <2>1, FilesAgreeAt
<1> QED BY <1>3 DEF FilesAgree

\* The two actions of a moved file, and what a file it replaces keeps.
KeptOver(g, c) == [g EXCEPT !.content = c]

MoveStarts(m, t, p, q, c) ==
    /\ IsTree(m) /\ IsTree(t) /\ SameDirs(m, t) /\ FilesAgree(m, t)
    /\ p \in Seq(Names) \ {<<>>} /\ q \in Seq(Names) \ {<<>>} /\ p # q
    /\ FileExists(t, p) /\ ~Dirty(FileAt(t, p)) /\ HasDir(t, Front(q))
    /\ c \in Actions /\ c.path = q /\ c.content = FileAt(t, p).content
    /\ c.type = IF FileExists(t, q) THEN EditFile ELSE AddFile
MoveActs(m, w, n, p, c, x) ==
    /\ x.path = p /\ x.type = RemoveFile
    /\ ShowsAfter(m, c, w) /\ ShowsAfter(w, x, n)
MoveShows(t, u, p, q, c, g) ==
    /\ Filed(u, p) = {} /\ Filed(u, q) = {g}
    /\ \A r \in Seq(Names) \ {<<>>} : r # p /\ r # q => Filed(u, r) = Filed(t, r)
    /\ ~FileExists(t, q) => g = CleanOf(c)
    /\ FileExists(t, q) => /\ g.create <=> FileAt(t, q).create
                           /\ g.write <=> FileAt(t, q).write
                           /\ ~Dirty(g) => g = CleanOf(c)

\* After both actions the files agree again.
LEMMA MoveAgrees ==
    ASSUME NEW m, NEW t, NEW n, NEW w, NEW u, NEW p, NEW q, NEW c, NEW x, NEW g,
           MoveStarts(m, t, p, q, c), MoveActs(m, w, n, p, c, x), MoveShows(t, u, p, q, c, g)
    PROVE  FilesAgree(n, u)
<1> USE DEF MoveStarts, MoveActs, MoveShows
<1>1. Front(q) \in Seq(Names)
    BY SplitPath
<1>2. HasDir(m, Front(q))
    BY <1>1 DEF SameDirs
<1>3. /\ Filed(m, q) # {} <=> \E h \in Filed(t, q) : ~h.create
      /\ Filed(t, q) = IF FileExists(t, q) THEN {FileAt(t, q)} ELSE {}
    BY FilesAgreeAt DEF Filed
<1>4. ~CleanOf(c).create
    BY CleanFileIs DEF CleanOf
<1>5. c.type # RemoveFile /\ c.type # RemoveDirectory
    BY DEF AddFile, EditFile, RemoveFile, RemoveDirectory
<1>6. x.type # AddFile /\ x.type # EditFile /\ x.type # RemoveDirectory /\ x.type = RemoveFile
    BY DEF AddFile, EditFile, RemoveFile, RemoveDirectory
<1>7. \A r \in Seq(Names) \ {<<>>} : Filed(n, r) = IF r = p THEN {} ELSE Filed(w, r)
    BY <1>6 DEF ShowsAfter, FiledAfter
<1>8. \A r \in Seq(Names) \ {<<>>} : Filed(w, r) = FiledAfter(m, c, r)
    BY DEF ShowsAfter
<1>9. \A r \in Seq(Names) \ {<<>>} : r # q => Filed(w, r) = Filed(m, r)
    BY <1>5, <1>8 DEF FiledAfter
<1>10. Filed(w, q) = IF FileExists(t, q) THEN IF FileAt(t, q).create THEN {} ELSE {CleanOf(c)}
                     ELSE {CleanOf(c)}
    <2>1. CASE ~FileExists(t, q)
        <3>1. Filed(m, q) = {} /\ c.type = AddFile
            BY <1>3, <2>1
        <3> QED BY <1>2, <1>8, <2>1, <3>1 DEF FiledAfter
    <2>2. CASE FileExists(t, q) /\ FileAt(t, q).create
        <3>1. Filed(m, q) = {} /\ c.type = EditFile
            BY <1>3, <2>2
        <3> QED BY <1>5, <1>8, <2>2, <3>1 DEF FiledAfter, AddFile, EditFile
    <2>3. CASE FileExists(t, q) /\ ~FileAt(t, q).create
        <3>1. Filed(m, q) # {} /\ c.type = EditFile
            BY <1>3, <2>3
        <3> QED BY <1>5, <1>8, <2>3, <3>1 DEF FiledAfter, AddFile, EditFile
    <2> QED BY <2>1, <2>2, <2>3
<1>11. ASSUME NEW r \in Seq(Names) \ {<<>>}
      PROVE  /\ Filed(n, r) # {} <=> \E f \in Filed(u, r) : ~f.create
             /\ \A f \in Filed(u, r) : ~Dirty(f) => Filed(n, r) = {f}
    <2>1. CASE r = p
        BY <1>7, <2>1
    <2>2. CASE r = q
        <3>1. Filed(n, q) = Filed(w, q)
            BY <1>7
        <3>2. CASE ~FileExists(t, q)
            BY <1>4, <1>10, <2>2, <3>1, <3>2
        <3>3. CASE FileExists(t, q) /\ FileAt(t, q).create
            <4>1. g.create /\ Dirty(g)
                BY <3>3 DEF Dirty
            <4> QED BY <1>10, <2>2, <3>1, <3>3, <4>1
        <3>4. CASE FileExists(t, q) /\ ~FileAt(t, q).create
            BY <1>10, <2>2, <3>1, <3>4
        <3> QED BY <3>2, <3>3, <3>4
    <2>3. CASE r # p /\ r # q
        <3>1. Filed(n, r) = Filed(m, r) /\ Filed(u, r) = Filed(t, r)
            BY <1>7, <1>9, <2>3
        <3> QED BY <3>1, FilesAgreeAt
    <2> QED BY <2>1, <2>2, <2>3
<1> QED BY <1>11 DEF FilesAgree

-----------------------------------------------------------------------------
TimesOf(log) == \A n \in DOMAIN log : log[n].time <= n
MovesNext(l) == l # <<>> /\ l[1].do = "move"
CopyOf(s, t, time) ==
    [time |-> time, type |-> IF s.over THEN EditFile ELSE AddFile, path |-> s.to,
     content |-> FileAt(t, s.path).content]
BeforeCopy(k, log, t, s, half) ==
    /\ log = Append(k, CopyOf(s, t, Len(k) + 1)) /\ OrdersAgree(k, t)
    /\ ~half => FilesAgree(Replay(k), t)
Agreement(log, t, l, half) ==
    /\ OrdersAgree(log, t)
    /\ MovesNext(l) => \E k \in Seq(Actions) : BeforeCopy(k, log, t, l[1], half)
    /\ ~MovesNext(l) /\ ~half => FilesAgree(Replay(log), t)
Coherent(log, t, l, half) ==
    /\ IsTree(t) /\ log \in Seq(Actions) /\ TimesOf(log)
    /\ TodoFor(l, t) /\ Agreement(log, t, l, half)

\* A new action has a time no other has.
LEMMA NextTime ==
    ASSUME NEW log \in Seq(Actions), TimesOf(log), NEW x \in Actions, x.time = Len(log) + 1
    PROVE  /\ Append(log, x) \in Seq(Actions) /\ TimesOf(Append(log, x))
           /\ log # <<>> => log[Len(log)].time # x.time
<1>1. /\ Append(log, x) \in Seq(Actions) /\ Len(log) \in Nat /\ DOMAIN log = 1 .. Len(log)
      /\ DOMAIN Append(log, x) = 1 .. Len(log) + 1
      /\ \A n \in 1 .. Len(log) : Append(log, x)[n] = log[n]
      /\ Append(log, x)[Len(log) + 1] = x
    BY AppendIs
<1>2. ASSUME NEW n \in DOMAIN Append(log, x) PROVE Append(log, x)[n].time <= n
    <2>1. CASE n = Len(log) + 1
        BY <1>1, <2>1
    <2>2. CASE n # Len(log) + 1
        <3>1. n \in 1 .. Len(log)
            BY <1>1, <2>2
        <3> QED BY <1>1, <3>1 DEF TimesOf
    <2> QED BY <2>1, <2>2
<1>3. ASSUME log # <<>> PROVE log[Len(log)].time # x.time
    <2>1. Len(log) \in DOMAIN log
        BY <1>1, <1>3
    <2>2. log[Len(log)].time <= Len(log)
        BY <2>1 DEF TimesOf
    <2>3. log[Len(log)] \in Actions
        BY <2>1, ElementOfSeq
    <2>4. log[Len(log)].time \in Nat
        BY <2>3 DEF Actions
    <2> QED BY <1>1, <2>2, <2>4
<1> QED BY <1>1, <1>2, <1>3 DEF TimesOf

LEMMA StoreNow ==
    ASSUME NEW log \in Seq(Actions), TimesOf(log), NEW t, OrdersAgree(log, t),
           NEW x \in Actions, x.time = Len(log) + 1, Apt(t, x),
           NEW u, \A q \in Seq(Names) : HasDir(u, q) <=> HasDirAfter(t, x, q)
    PROVE  /\ Append(log, x) \in Seq(Actions) /\ TimesOf(Append(log, x))
           /\ OrdersAgree(Append(log, x), u)
           /\ IsTree(Replay(log)) /\ SameDirs(Replay(log), t)
           /\ ShowsAfter(Replay(log), x, Replay(Append(log, x)))
<1>1. /\ Append(log, x) \in Seq(Actions) /\ TimesOf(Append(log, x))
      /\ log # <<>> => log[Len(log)].time # x.time
    BY NextTime
<1>2. /\ OrdersAgree(Append(log, x), u)
      /\ IsTree(Replay(log)) /\ SameDirs(Replay(log), t)
      /\ ShowsAfter(Replay(log), x, Replay(Append(log, x)))
    BY <1>1, StoreOne
<1> QED BY <1>1, <1>2

\* Only a copy is followed by a move.
LEMMA NotMoving ==
    ASSUME NEW l, Shape(l), l # <<>>, l[1].do # "copy"
    PROVE  ~MovesNext(Tail(l))
<1> DEFINE k == Tail(l)
<1>1. /\ l \in Seq(Steps) /\ Len(l) \in Nat /\ DOMAIN l = 1 .. Len(l) /\ DOMAIN k = 1 .. Len(l) - 1
      /\ \A i \in 1 .. Len(l) - 1 : k[i] = l[i + 1]
      /\ k \in Seq(Steps)
    BY ListFacts DEF Shape
<1> HIDE DEF k
<1>2. SUFFICES ASSUME k # <<>>, k[1].do = "move" PROVE FALSE
    BY DEF MovesNext, k
<1>3. 1 \in DOMAIN k
    BY <1>1, <1>2, ListFacts
<1>4. k[1] = l[2] /\ 2 \in DOMAIN l
    <2>1. 1 \in 1 .. Len(l) - 1 /\ 1 + 1 = 2
        BY <1>1, <1>3
    <2> QED BY <1>1, <2>1
<1>5. l[1] = Turned(l[2], "copy")
    <2>1. 2 - 1 = 1 /\ 2 # 1
        OBVIOUS
    <2>2. l[2 - 1] = Turned(l[2], "copy")
        BY <1>2, <1>4, <2>1 DEF Shape, Places
    <2> QED BY <2>1, <2>2
<1> QED BY <1>5, TurnedIs

\* An operation that is refused, or a list that is given up.
LEMMA GivenUp ==
    ASSUME NEW log, NEW t, NEW l, NEW half, Coherent(log, t, l, half),
           NEW halfNow, ~halfNow => ~half /\ ~MovesNext(l)
    PROVE  Coherent(log, t, <<>>, halfNow)
<1>1. TodoFor(<<>>, t)
    <2>1. <<>> \in Seq(Steps) /\ DOMAIN <<>> = {}
        OBVIOUS
    <2>2. Shape(<<>>)
        BY <2>1 DEF Shape, Places
    <2> QED BY <2>1, <2>2 DEF TodoFor, HeadClean
<1>2. ~MovesNext(<<>>)
    BY DEF MovesNext
<1> QED BY <1>1, <1>2 DEF Coherent, Agreement

\* The file a step is about is there.
LEMMA HeadFile ==
    ASSUME NEW t, NEW l, IsTree(t), TodoFor(l, t), l # <<>>,
           l[1].do \in {"flush", "copy", "move", "remove"}
    PROVE  /\ l[1].path \in Seq(Names) \ {<<>>} /\ FileExists(t, l[1].path)
           /\ Filed(t, l[1].path) = {FileAt(t, l[1].path)} /\ FileAt(t, l[1].path) \in Files
           /\ FileAt(t, l[1].path).name = Last(l[1].path)
           /\ FileAt(t, l[1].path).content \in ContentOf
           /\ Last(l[1].path) \in Names
<1>1. 1 \in DOMAIN l /\ Shape(l)
    BY ListFacts DEF Shape, TodoFor
<1>2. l[1].path \in Seq(Names) \ {<<>>}
    BY <1>1, StepIs DEF SomePaths
<1>3. Ready(l, t, 1)
    BY <1>1 DEF TodoFor
<1>4. Filed(t, l[1].path) # {}
    BY <1>3 DEF Ready, FileReady
<1>5. FileExists(t, l[1].path)
    BY <1>4 DEF Filed
<1>6. /\ Filed(t, l[1].path) = {FileAt(t, l[1].path)} /\ FileAt(t, l[1].path) \in Files
      /\ FileAt(t, l[1].path).name = Last(l[1].path)
    BY <1>2, <1>5, FiledOfDir
<1>7. FileAt(t, l[1].path).content \in ContentOf
    BY <1>6, FileFields
<1>8. Last(l[1].path) \in Names
    BY <1>2, SplitPath
<1> QED BY <1>2, <1>5, <1>6, <1>7, <1>8

\* flushFile with nothing to do.
LEMMA NothingToFlush ==
    ASSUME NEW log, NEW t, NEW l, NEW half, Coherent(log, t, l, half), l # <<>>, l[1].do = "flush",
           ~Dirty(FileAt(t, l[1].path))
    PROVE  Coherent(log, t, Tail(l), half)
<1>1. IsTree(t) /\ TodoFor(l, t) /\ Shape(l)
    BY DEF Coherent, TodoFor
<1>2. CleanAt(t, l[1].path)
    BY <1>1, HeadFile DEF CleanAt
<1>3. TodoFor(Tail(l), t)
    BY <1>1, <1>2, RestIsReady DEF SameDirs, SameEmpty
<1>4. ~MovesNext(l) /\ ~MovesNext(Tail(l))
    BY <1>1, NotMoving DEF MovesNext
<1> QED BY <1>3, <1>4 DEF Coherent, Agreement

\* flushFile stores the file.
LEMMA FlushStores ==
    ASSUME NEW log, NEW t, NEW l, NEW half, Coherent(log, t, l, half), l # <<>>, l[1].do = "flush",
           NEW p, p = l[1].path, NEW x,
           x = [time |-> Len(log) + 1, type |-> IF FileAt(t, p).create THEN AddFile ELSE EditFile,
                path |-> p, content |-> FileAt(t, p).content]
    PROVE  Coherent(Append(log, x),
                    SetFile(t, FindContainingDir(t, p), Last(p), CleanFile(Last(p), FileAt(t, p).content)),
                    Tail(l), half)
<1> DEFINE f == FileAt(t, p)
           g == CleanFile(Last(p), f.content)
           u == SetFile(t, FindContainingDir(t, p), Last(p), g)
           n == Append(log, x)
<1>1. /\ IsTree(t) /\ TodoFor(l, t) /\ Shape(l) /\ log \in Seq(Actions) /\ TimesOf(log)
      /\ OrdersAgree(log, t) /\ Len(log) \in Nat
    BY DEF Coherent, TodoFor, Agreement
<1>2. /\ p \in Seq(Names) \ {<<>>} /\ FileExists(t, p) /\ Filed(t, p) = {f} /\ f \in Files
      /\ f.name = Last(p) /\ f.content \in ContentOf /\ Last(p) \in Names
    BY <1>1, HeadFile
<1>3. g \in Files /\ g.name = Last(p) /\ ~Dirty(g)
    BY <1>2, FileFields, CleanFileIs
<1>4. x \in Actions /\ x.time = Len(log) + 1 /\ x.path = p /\ x.content = f.content /\ CleanOf(x) = g
      /\ x.type = IF f.create THEN AddFile ELSE EditFile
    <2> DEFINE type == IF f.create THEN AddFile ELSE EditFile
    <2>1. type \in ActionTypes
        BY DEF ActionTypes
    <2>2. Len(log) + 1 \in Nat
        BY <1>1
    <2>3. x = [time |-> Len(log) + 1, type |-> type, path |-> p, content |-> f.content]
        OBVIOUS
    <2> HIDE DEF type, f
    <2>4. /\ x \in Actions /\ x.time = Len(log) + 1 /\ x.type = type /\ x.path = p
          /\ x.content = f.content /\ CleanOf(x) = CleanFile(Last(p), f.content)
        BY <1>2, <2>1, <2>2, <2>3, ActionIs
    <2> QED BY <2>4 DEF type, f
<1> HIDE DEF g
<1>5. FileUpdate(t, u, p, {g})
    BY <1>1, <1>2, <1>3, SetFileView
<1> HIDE DEF u, f
<1>6. x.type \in {AddFile, EditFile} /\ x.type # AddDirectory /\ x.type # RemoveDirectory
    BY <1>4 DEF AddFile, EditFile, AddDirectory, RemoveDirectory
<1>7. Apt(t, x) /\ \A q \in Seq(Names) : HasDirAfter(t, x, q) <=> HasDir(t, q)
    BY <1>6 DEF Apt, HasDirAfter
<1>8. SameDirs(t, u) /\ IsTree(u)
    BY <1>5 DEF FileUpdate, SameDirs, HasDir
<1>9. \A q \in Seq(Names) : HasDir(u, q) <=> HasDirAfter(t, x, q)
    BY <1>7, <1>8 DEF SameDirs
<1>10. /\ n \in Seq(Actions) /\ TimesOf(n) /\ OrdersAgree(n, u)
       /\ IsTree(Replay(log)) /\ SameDirs(Replay(log), t)
       /\ ShowsAfter(Replay(log), x, Replay(n))
    BY <1>1, <1>4, <1>7, <1>9, StoreNow
<1> HIDE DEF n
<1>11. SameEmpty(t, u) /\ CleanAt(u, p)
    <2>1. Filed(u, p) = {g}
        BY <1>2, <1>5 DEF FileUpdate
    <2>2. \A q \in SomePaths : q # p => Filed(u, q) = Filed(t, q)
        BY <1>5 DEF FileUpdate, SomePaths
    <2> QED BY <1>2, <1>3, <2>1, <2>2 DEF SameEmpty, CleanAt
<1>12. TodoFor(Tail(l), u)
    BY <1>1, <1>8, <1>11, RestIsReady
<1>13. ~MovesNext(l) /\ ~MovesNext(Tail(l))
    BY <1>1, NotMoving DEF MovesNext
<1>14. ASSUME ~half PROVE FilesAgree(Replay(n), u)
    <2>1. FilesAgree(Replay(log), t)
        BY <1>13, <1>14 DEF Coherent, Agreement
    <2> QED BY <1>1, <1>2, <1>4, <1>5, <1>10, <2>1, FlushAgrees DEF f
<1>15. Coherent(n, u, Tail(l), half)
    BY <1>8, <1>10, <1>12, <1>13, <1>14 DEF Coherent, Agreement
<1> QED BY <1>15 DEF n, u, g, f

-----------------------------------------------------------------------------
\* renameFile stores the action for the destination.
LEMMA CopyStores ==
    ASSUME NEW log, NEW t, NEW l, NEW half, Coherent(log, t, l, half), l # <<>>, l[1].do = "copy",
           NEW s, s = l[1], NEW x,
           x = [time |-> Len(log) + 1, type |-> IF s.over THEN EditFile ELSE AddFile,
                path |-> s.to, content |-> FileAt(t, s.path).content]
    PROVE  Coherent(Append(log, x), t, Tail(l), half)
<1> DEFINE n == Append(log, x)
           f == FileAt(t, s.path)
           k == Tail(l)
           type == IF s.over THEN EditFile ELSE AddFile
<1>1. /\ IsTree(t) /\ TodoFor(l, t) /\ Shape(l) /\ log \in Seq(Actions) /\ TimesOf(log)
      /\ OrdersAgree(log, t) /\ Len(log) \in Nat
    BY DEF Coherent, TodoFor, Agreement
<1>2. f.content \in ContentOf /\ s.to \in Seq(Names) \ {<<>>} /\ s \in Steps
    <2>1. f.content \in ContentOf
        BY <1>1, HeadFile
    <2>2. 1 \in DOMAIN l
        BY <1>1, ListFacts DEF Shape
    <2> QED BY <1>1, <2>1, <2>2, StepIs DEF SomePaths
<1>3. x \in Actions /\ x.time = Len(log) + 1 /\ x.type = type
    <2>1. type \in ActionTypes /\ Len(log) + 1 \in Nat
        BY <1>1 DEF ActionTypes
    <2> HIDE DEF type, f
    <2>2. x = [time |-> Len(log) + 1, type |-> type, path |-> s.to, content |-> f.content]
        BY DEF type, f
    <2> QED BY <1>2, <2>1, <2>2, ActionIs
<1>4. x.type # AddDirectory /\ x.type # RemoveDirectory
    BY <1>3 DEF AddFile, EditFile, AddDirectory, RemoveDirectory
<1>5. Apt(t, x) /\ \A q \in Seq(Names) : HasDirAfter(t, x, q) <=> HasDir(t, q)
    BY <1>4 DEF Apt, HasDirAfter
<1>6. n \in Seq(Actions) /\ TimesOf(n) /\ OrdersAgree(n, t)
    BY <1>1, <1>3, <1>5, StoreNow
<1>7. TodoFor(k, t)
    BY <1>1, RestIsReady DEF SameDirs, SameEmpty
<1>8. k # <<>> /\ k[1] = Turned(s, "move")
    <2>1. /\ DOMAIN l = 1 .. Len(l) /\ Len(l) \in Nat /\ 1 \in DOMAIN l /\ DOMAIN k = 1 .. Len(l) - 1
          /\ \A i \in 1 .. Len(l) - 1 : k[i] = l[i + 1]
        BY <1>1, ListFacts DEF Shape
    <2>2. 1 + 1 \in DOMAIN l /\ l[1 + 1] = Turned(s, "move")
        BY <1>1, <2>1 DEF Shape, Places
    <2>3. 1 \in 1 .. Len(l) - 1
        BY <2>1, <2>2
    <2>4. k[1] = l[1 + 1]
        BY <2>1, <2>3
    <2>5. k # <<>>
        <3> HIDE DEF k
        <3>1. DOMAIN <<>> = {}
            OBVIOUS
        <3>2. 1 \in DOMAIN k
            BY <2>1, <2>3
        <3> QED BY ONLY <3>1, <3>2
    <2> QED BY <2>2, <2>4, <2>5
<1>9. CopyOf(k[1], t, Len(log) + 1) = x
    <2>1. k[1].over = s.over /\ k[1].to = s.to /\ k[1].path = s.path
        BY <1>8, TurnedIs
    <2> QED BY <2>1 DEF CopyOf
<1>10. MovesNext(k)
    BY <1>8, TurnedIs DEF MovesNext
<1>11. ~half => FilesAgree(Replay(log), t)
    BY DEF Coherent, Agreement, MovesNext
<1>12. BeforeCopy(log, n, t, k[1], half)
    BY <1>1, <1>9, <1>11 DEF BeforeCopy
<1> HIDE DEF n, k
<1>13. Coherent(n, t, k, half)
    BY <1>1, <1>6, <1>7, <1>10, <1>12 DEF Coherent, Agreement
<1> QED BY <1>13 DEF n, k

\* The tree after a move.
MovedTree(t, p, q, over, c) ==
    LET without == RemoveFileFrom(t, FindContainingDir(t, p), Last(p))
    IN IF ~over THEN AddFileTo(without, FindContainingDir(t, q), [FileAt(t, p) EXCEPT !.name = Last(q)])
       ELSE SetFile(without, FindContainingDir(t, q), Last(q), [FileAt(without, q) EXCEPT !.content = c])

Moves2(t, u, p, q, g) ==
    /\ IsTree(u) /\ SameDirs(t, u) /\ Filed(u, p) = {} /\ Filed(u, q) = {g}
    /\ \A r \in Seq(Names) \ {<<>>} : r # p /\ r # q => Filed(u, r) = Filed(t, r)

LEMMA TwoUpdates ==
    ASSUME NEW t, NEW w, NEW u, NEW p \in Seq(Names) \ {<<>>}, NEW q \in Seq(Names) \ {<<>>}, p # q,
           NEW g, FileUpdate(t, w, p, {}), FileUpdate(w, u, q, {g})
    PROVE  Moves2(t, u, p, q, g)
BY DEF FileUpdate, Moves2, SameDirs, HasDir

LEMMA RenamedIs ==
    ASSUME NEW h \in Files, NEW name, ~Dirty(h)
    PROVE  [h EXCEPT !.name = name] = CleanFile(name, h.content)
<1>1. h = [name |-> h.name, content |-> h.content, create |-> h.create, write |-> h.write]
    BY DEF Files
<1>2. [h EXCEPT !.name = name] = [name |-> name, content |-> h.content, create |-> h.create, write |-> h.write]
    BY <1>1
<1>3. h.create = FALSE /\ h.write = FALSE
    BY FileFields DEF Dirty
<1> QED BY <1>2, <1>3 DEF CleanFile

\* Nothing was at the destination.
LEMMA MovedNew ==
    ASSUME NEW t, IsTree(t), NEW p \in Seq(Names) \ {<<>>}, NEW q \in Seq(Names) \ {<<>>}, p # q,
           FileExists(t, p), ~FileExists(t, q), HasDir(t, Front(q)), ~Dirty(FileAt(t, p)), NEW c
    PROVE  Moves2(t, MovedTree(t, p, q, FALSE, c), p, q, CleanFile(Last(q), FileAt(t, p).content))
<1> DEFINE f == FileAt(t, p)
           g == [f EXCEPT !.name = Last(q)]
           w == RemoveFileFrom(t, FindContainingDir(t, p), Last(p))
           u == AddFileTo(w, FindContainingDir(w, q), g)
<1>1. FileUpdate(t, w, p, {})
    BY RemoveFileView
<1>2. Front(q) \in Seq(Names) /\ Last(q) \in Names
    BY SplitPath
<1>3. f \in Files /\ f.content \in ContentOf /\ f = CleanFile(f.name, f.content)
    BY FiledOfDir, FileFields
<1>4. g = CleanFile(Last(q), f.content)
    BY <1>3, RenamedIs
<1>5. g \in Files /\ g.name = Last(q)
    BY <1>2, <1>3, <1>4, FileFields, CleanFileIs
<1> HIDE DEF g, w
<1>6. FindContainingDir(w, q) = FindContainingDir(t, q) /\ HasDir(w, Front(q)) /\ IsTree(w)
    BY <1>1, <1>2 DEF FindContainingDir, FileUpdate, HasDir
<1>7. Filed(w, q) = {}
    BY <1>1 DEF FileUpdate, Filed
<1>8. FileUpdate(w, u, q, {g})
    BY <1>5, <1>6, <1>7, AddFileView
<1>9. MovedTree(t, p, q, FALSE, c) = u
    BY <1>6 DEF MovedTree, w, g
<1> HIDE DEF u
<1>10. Moves2(t, u, p, q, g)
    BY <1>1, <1>8, TwoUpdates
<1> QED BY <1>4, <1>9, <1>10

LEMMA KeptOverIs ==
    ASSUME NEW h \in Files, NEW c \in ContentOf
    PROVE  /\ KeptOver(h, c) \in Files /\ KeptOver(h, c).name = h.name
           /\ KeptOver(h, c).create = h.create /\ KeptOver(h, c).write = h.write
           /\ KeptOver(h, c).content = c
<1>1. h = [name |-> h.name, content |-> h.content, create |-> h.create, write |-> h.write]
    BY DEF Files
<1>2. KeptOver(h, c) = [name |-> h.name, content |-> c, create |-> h.create, write |-> h.write]
    BY <1>1 DEF KeptOver
<1>3. h.name \in Names /\ h.create \in BOOLEAN /\ h.write \in BOOLEAN
    BY FileFields
<1> QED BY <1>2, <1>3 DEF Files

\* A file was at the destination.
LEMMA MovedOver ==
    ASSUME NEW t, IsTree(t), NEW p \in Seq(Names) \ {<<>>}, NEW q \in Seq(Names) \ {<<>>}, p # q,
           FileExists(t, p), FileExists(t, q), NEW c \in ContentOf
    PROVE  /\ Moves2(t, MovedTree(t, p, q, TRUE, c), p, q, KeptOver(FileAt(t, q), c))
           /\ FileAt(RemoveFileFrom(t, FindContainingDir(t, p), Last(p)), q) = FileAt(t, q)
<1> DEFINE w == RemoveFileFrom(t, FindContainingDir(t, p), Last(p))
           h == FileAt(t, q)
           g == KeptOver(h, c)
           u == SetFile(w, FindContainingDir(w, q), Last(q), g)
<1>1. FileUpdate(t, w, p, {})
    BY RemoveFileView
<1>2. Front(q) \in Seq(Names) /\ Last(q) \in Names
    BY SplitPath
<1>3. h \in Files /\ h.name = Last(q) /\ Filed(t, q) = {h}
    BY FiledOfDir
<1>4. g \in Files /\ g.name = Last(q)
    BY <1>3, KeptOverIs
<1> HIDE DEF g, w, h
<1>5. FindContainingDir(w, q) = FindContainingDir(t, q) /\ IsTree(w)
    BY <1>1, <1>2 DEF FindContainingDir, FileUpdate
<1>6. Filed(w, q) = {h}
    BY <1>1, <1>3 DEF FileUpdate
<1>7. FileExists(w, q) /\ FileAt(w, q) = h
    BY <1>6 DEF Filed
<1>8. FileUpdate(w, u, q, {g})
    BY <1>4, <1>5, <1>7, SetFileView
<1>9. MovedTree(t, p, q, TRUE, c) = u
    BY <1>5, <1>7 DEF MovedTree, w, g, KeptOver
<1> HIDE DEF u
<1>10. Moves2(t, u, p, q, g)
    BY <1>1, <1>8, TwoUpdates
<1> QED BY <1>7, <1>9, <1>10 DEF w, g, h

\* The loops behind a moved file.
LEMMA LoopsAfterMove ==
    ASSUME NEW l, NEW t, NEW u, TodoFor(l, t), l # <<>>, l[1].do = "move", NEW g,
           Moves2(t, u, l[1].path, l[1].to, g)
    PROVE  TodoFor(Tail(l), u)
<1>1. Shape(l) /\ 1 \in DOMAIN l /\ DOMAIN l = 1 .. Len(l) /\ Len(l) \in Nat
    BY ListFacts DEF Shape, TodoFor
<1> DEFINE p == l[1].path
           q == l[1].to
<1>2. ASSUME NEW i \in DOMAIN l, i # 1, l[i].do = "moveAll" PROVE LoopReady(u, l[i])
    <2> DEFINE d == l[i].path
               e == l[i].to
    <2>1. LoopReady(t, l[i])
        BY <1>2, LoopsBehind
    <2>2. d \in Seq(Names) /\ e \in Seq(Names) /\ p \in SomePaths /\ q \in SomePaths
        BY <1>1, StepIs
    <2>3. HasDir(u, d) /\ HasDir(u, e)
        BY <2>1, <2>2 DEF LoopReady, Moves2, SameDirs
    <2>4. Apart(d, q) /\ Apart(d, e)
        <3>1. Away(l[i], l[1]) /\ Away(l[i], l[i])
            BY <1>1 DEF Shape
        <3> QED BY <1>2, <3>1 DEF Away
    <2>5. \/ \E y \in Names : p = Append(d, y) /\ q = Append(e, y)
          \/ Len(e) + 1 < Len(q)
        <3>1. 1 < i
            BY <1>1, <1>2
        <3>2. Inside(l[1], l[i])
            BY <1>1, <3>1 DEF Shape
        <3> QED BY <1>2, <3>2 DEF Inside
    <2>6. ASSUME NEW x \in Names PROVE Filed(u, Append(d, x)) = {} \/ Filed(u, Append(e, x)) = {}
        <3> DEFINE dx == Append(d, x)
                   ex == Append(e, x)
        <3>1. dx \in SomePaths /\ ex \in SomePaths
            BY <2>2, AppendPath DEF SomePaths
        <3>2. Filed(t, dx) = {} \/ Filed(t, ex) = {}
            BY <2>1 DEF LoopReady, FilesApart
        <3>3. dx # q
            BY <2>2, <2>4, ApartDeeper DEF SomePaths
        <3>4. dx = p \/ Filed(u, dx) = Filed(t, dx)
            BY <3>1, <3>3 DEF Moves2, SomePaths
        <3>5. Filed(u, p) = {}
            BY DEF Moves2
        <3>6. ASSUME dx # p PROVE ex # q
            <4>1. CASE \E y \in Names : p = Append(d, y) /\ q = Append(e, y)
                <5>1. PICK y \in Names : p = Append(d, y) /\ q = Append(e, y)
                    BY <4>1
                <5>2. Last(ex) = x /\ Last(q) = y
                    BY <2>2, <5>1, AppendPath
                <5> QED BY <3>6, <5>1, <5>2
            <4>2. CASE Len(e) + 1 < Len(q)
                <5>1. Len(ex) = Len(e) + 1 /\ Len(e) \in Nat
                    BY <2>2
                <5> QED BY <4>2, <5>1
            <4> QED BY <2>5, <4>1, <4>2
        <3>7. ex = p \/ ex = q \/ Filed(u, ex) = Filed(t, ex)
            BY <3>1 DEF Moves2, SomePaths
        <3> QED BY <3>2, <3>4, <3>5, <3>6, <3>7
    <2> QED BY <2>3, <2>6 DEF LoopReady, FilesApart
<1> QED BY <1>1, <1>2, LoopsAreReady

-----------------------------------------------------------------------------
LEMMA LastOfAppend ==
    ASSUME NEW k \in Seq(Actions), NEW c \in Actions
    PROVE  Last(Append(k, c)) = c
<1>1. Len(Append(k, c)) = Len(k) + 1 /\ Append(k, c)[Len(k) + 1] = c
    BY AppendIs
<1> QED BY <1>1 DEF Last

\* The action before the removal is the one of the copy.
LEMMA CopyIsLast ==
    ASSUME NEW k \in Seq(Actions), NEW log \in Seq(Actions), TimesOf(log), NEW c \in Actions,
           log = Append(k, c), c.time = Len(k) + 1
    PROVE  /\ Last(log) = c /\ c.time = Len(log)
           /\ k # <<>> => k[Len(k)].time # c.time
<1>1. /\ Len(log) = Len(k) + 1 /\ Len(k) \in Nat /\ DOMAIN k = 1 .. Len(k)
      /\ DOMAIN log = 1 .. Len(k) + 1 /\ \A n \in 1 .. Len(k) : log[n] = k[n]
    BY AppendIs
<1>2. Last(log) = c
    BY LastOfAppend
<1>3. ASSUME k # <<>> PROVE k[Len(k)].time # c.time
    <2>1. Len(k) \in 1 .. Len(k)
        BY <1>1, <1>3
    <2>2. log[Len(k)].time <= Len(k) /\ log[Len(k)] = k[Len(k)]
        BY <1>1, <2>1 DEF TimesOf
    <2>3. k[Len(k)] \in Actions
        BY <1>1, <2>1, ElementOfSeq
    <2>4. k[Len(k)].time \in Nat
        BY <2>3 DEF Actions
    <2>5. k[Len(k)].time <= Len(k) /\ c.time = Len(k) + 1
        BY <2>2
    <2> QED BY ONLY <1>1, <2>4, <2>5
<1> QED BY <1>1, <1>2, <1>3

\* The removal has the time of the copy.
LEMMA TimesStay ==
    ASSUME NEW log \in Seq(Actions), TimesOf(log), NEW x \in Actions, x.time <= Len(log) + 1
    PROVE  Append(log, x) \in Seq(Actions) /\ TimesOf(Append(log, x))
<1>1. /\ Append(log, x) \in Seq(Actions) /\ Len(log) \in Nat /\ DOMAIN log = 1 .. Len(log)
      /\ DOMAIN Append(log, x) = 1 .. Len(log) + 1
      /\ \A n \in 1 .. Len(log) : Append(log, x)[n] = log[n]
      /\ Append(log, x)[Len(log) + 1] = x
    BY AppendIs
<1>2. ASSUME NEW n \in DOMAIN Append(log, x) PROVE Append(log, x)[n].time <= n
    <2>1. CASE n = Len(log) + 1
        BY <1>1, <2>1
    <2>2. CASE n # Len(log) + 1
        <3>1. n \in 1 .. Len(log)
            BY <1>1, <2>2
        <3> QED BY <1>1, <3>1 DEF TimesOf
    <2> QED BY <2>1, <2>2
<1> QED BY <1>1, <1>2 DEF TimesOf

\* renameFile stores the action for the source and moves the file.
LEMMA MoveStores ==
    ASSUME NEW log, NEW t, NEW l, NEW half, Coherent(log, t, l, half), l # <<>>, l[1].do = "move",
           NEW s, s = l[1], NEW x,
           x = [time |-> Last(log).time, type |-> RemoveFile, path |-> s.path, content |-> NoContent],
           NEW c \in ContentOf, s.over /\ ~FileAt(t, s.to).write => c = FileAt(t, s.path).content
    PROVE  Coherent(Append(log, x), MovedTree(t, s.path, s.to, s.over, c), Tail(l), half)
<1> DEFINE n == Append(log, x)
           p == s.path
           q == s.to
           f == FileAt(t, p)
           u == MovedTree(t, p, q, s.over, c)
<1>1. /\ IsTree(t) /\ TodoFor(l, t) /\ Shape(l) /\ log \in Seq(Actions) /\ TimesOf(log)
      /\ OrdersAgree(log, t)
    BY DEF Coherent, TodoFor, Agreement
<1>2. /\ p \in Seq(Names) \ {<<>>} /\ FileExists(t, p) /\ Filed(t, p) = {f} /\ f \in Files
      /\ f.content \in ContentOf
    BY <1>1, HeadFile
<1>3. 1 \in DOMAIN l /\ s \in Steps /\ q \in Seq(Names) \ {<<>>} /\ q \in Seq(Names) /\ s.over \in BOOLEAN
    <2>1. 1 \in DOMAIN l
        BY <1>1, ListFacts DEF Shape
    <2> QED BY <1>1, <2>1, StepIs DEF SomePaths
<1>4. ~Dirty(f)
    BY <1>1, <1>2 DEF TodoFor, HeadClean, CleanAt
<1>5. HasDir(t, Front(q)) /\ (s.over <=> Filed(t, q) # {})
    <2>1. Ready(l, t, 1)
        BY <1>1, <1>3 DEF TodoFor
    <2> QED BY <2>1 DEF Ready, FileReady
<1>6. s.over <=> FileExists(t, q)
    BY <1>1, <1>3, <1>5, FiledOfDir
<1>7. p # q
    <2>1. Away(l[1], l[1])
        BY <1>1, <1>3 DEF Shape
    <2>2. Apart(p, q)
        BY <2>1 DEF Away
    <2> QED BY <1>2, <1>3, <2>2, ApartDeeper
<1> DEFINE a == CopyOf(s, t, Last(log).time)
<1>8. PICK k \in Seq(Actions) : BeforeCopy(k, log, t, s, half)
    BY DEF Coherent, Agreement, MovesNext
<1>9. /\ log = Append(k, CopyOf(s, t, Len(k) + 1)) /\ OrdersAgree(k, t)
      /\ ~half => FilesAgree(Replay(k), t)
      /\ Len(k) \in Nat
    BY <1>8 DEF BeforeCopy
<1>10. ASSUME NEW time \in Nat
       PROVE  /\ CopyOf(s, t, time) \in Actions /\ CopyOf(s, t, time).time = time
              /\ CopyOf(s, t, time).type = (IF s.over THEN EditFile ELSE AddFile)
              /\ CopyOf(s, t, time).path = q /\ CopyOf(s, t, time).content = f.content
              /\ CleanOf(CopyOf(s, t, time)) = CleanFile(Last(q), f.content)
    <2> DEFINE type == IF s.over THEN EditFile ELSE AddFile
    <2>1. type \in ActionTypes
        BY DEF ActionTypes
    <2>2. CopyOf(s, t, time) = [time |-> time, type |-> type, path |-> q, content |-> f.content]
        BY DEF CopyOf
    <2> HIDE DEF type, f, q
    <2>3. /\ CopyOf(s, t, time) \in Actions /\ CopyOf(s, t, time).time = time
          /\ CopyOf(s, t, time).type = type
          /\ CopyOf(s, t, time).path = q /\ CopyOf(s, t, time).content = f.content
          /\ CleanOf(CopyOf(s, t, time)) = CleanFile(Last(q), f.content)
        BY <1>2, <1>3, <2>1, <2>2, ActionIs DEF q
    <2> QED BY <2>3 DEF type
<1> DEFINE b == CopyOf(s, t, Len(k) + 1)
<1>11. /\ b \in Actions /\ b.time = Len(k) + 1 /\ b.path = q /\ b.content = f.content
       /\ b.type = (IF s.over THEN EditFile ELSE AddFile) /\ CleanOf(b) = CleanFile(Last(q), f.content)
    <2>1. Len(k) + 1 \in Nat
        BY <1>9
    <2> QED BY <1>10, <2>1
<1>12. log = Append(k, b)
    BY <1>9
<1> HIDE DEF b, f, p, q, u, n
<1>13. /\ Last(log) = b /\ b.time = Len(log)
       /\ k # <<>> => k[Len(k)].time # b.time
    BY <1>1, <1>11, <1>12, CopyIsLast
<1>14. x \in Actions /\ x.time = b.time /\ x.path = p /\ x.type = RemoveFile
    <2>1. b.time \in Nat /\ NoContent \in ContentOf /\ RemoveFile \in ActionTypes
        BY <1>11 DEF ActionTypes, ContentOf, Actions
    <2>2. x = [time |-> b.time, type |-> RemoveFile, path |-> p, content |-> NoContent]
        BY <1>13 DEF p
    <2> QED BY <1>2, <2>1, <2>2, ActionIs
<1>15. n \in Seq(Actions) /\ TimesOf(n)
    <2>1. Len(log) \in Nat
        BY <1>1
    <2>2. x.time <= Len(log) + 1
        BY <1>13, <1>14, <2>1
    <2> QED BY <1>1, <1>14, <2>2, TimesStay DEF n
<1> DEFINE g == IF s.over THEN KeptOver(FileAt(t, q), c) ELSE CleanFile(Last(q), f.content)
<1>16. Moves2(t, u, p, q, g)
    <2>1. CASE s.over
        BY <1>1, <1>2, <1>3, <1>6, <1>7, <2>1, MovedOver DEF u, q, p
    <2>2. CASE ~s.over
        BY <1>1, <1>2, <1>3, <1>4, <1>5, <1>6, <1>7, <2>2, MovedNew DEF u, q, p, f
    <2> QED BY <2>1, <2>2
<1>17. FileExists(t, q) =>
            /\ g.create <=> FileAt(t, q).create
            /\ g.write <=> FileAt(t, q).write
            /\ ~Dirty(g) => g = CleanOf(b)
    <2> SUFFICES ASSUME FileExists(t, q)
                 PROVE  /\ g.create <=> FileAt(t, q).create
                        /\ g.write <=> FileAt(t, q).write
                        /\ ~Dirty(g) => g = CleanOf(b)
        OBVIOUS
    <2> DEFINE h == FileAt(t, q)
    <2>1. h \in Files /\ h.name = Last(q)
        BY <1>1, <1>3, FiledOfDir DEF q
    <2>2. g = KeptOver(h, c) /\ (~h.write => c = f.content)
        BY <1>6 DEF f, p, q
    <2> HIDE DEF h, g
    <2>3. g \in Files /\ g.name = Last(q) /\ g.create = h.create /\ g.write = h.write /\ g.content = c
        BY <2>1, <2>2, KeptOverIs
    <2>4. ~Dirty(g) => g = CleanFile(Last(q), c) /\ ~g.write
        BY <2>3, FileFields DEF Dirty
    <2>5. ~Dirty(g) => g = CleanOf(b)
        BY <1>11, <2>2, <2>3, <2>4
    <2> QED BY <2>3, <2>5 DEF h
<1>18. ~FileExists(t, q) => g = CleanOf(b)
    BY <1>6, <1>11
<1> HIDE DEF g
<1>19. IsTree(u) /\ SameDirs(t, u) /\ SameDirs(u, t)
    BY <1>16 DEF Moves2, SameDirs
<1>20. b.type \in {AddFile, EditFile}
    BY <1>11
<1>21. /\ OrdersAgree(n, u)
       /\ IsTree(Replay(k)) /\ SameDirs(Replay(k), t)
       /\ ShowsAfter(Replay(k), b, Replay(log)) /\ ShowsAfter(Replay(log), x, Replay(n))
    <2>1. b.path # x.path /\ b.time = x.time
        BY <1>7, <1>11, <1>14
    <2>2. /\ OrdersAgree(Append(Append(k, b), x), u)
          /\ IsTree(Replay(k)) /\ SameDirs(Replay(k), t)
          /\ ShowsAfter(Replay(k), b, Replay(Append(k, b)))
          /\ ShowsAfter(Replay(Append(k, b)), x, Replay(Append(Append(k, b), x)))
        BY ONLY k \in Seq(Actions), <1>9, <1>11, <1>13, <1>14, <1>19, <1>20, <2>1, StorePair
    <2> QED BY <1>12, <2>2 DEF n
<1>22. TodoFor(Tail(l), u)
    BY <1>1, <1>16, LoopsAfterMove DEF p, q
<1>23. ~MovesNext(Tail(l))
    BY <1>1, NotMoving
<1>24. ASSUME ~half PROVE FilesAgree(Replay(n), u)
    <2>1. FilesAgree(Replay(k), t)
        BY <1>9, <1>24
    <2>2. /\ Filed(u, p) = {} /\ Filed(u, q) = {g}
          /\ \A r \in Seq(Names) \ {<<>>} : r # p /\ r # q => Filed(u, r) = Filed(t, r)
        BY <1>16 DEF Moves2
    <2>3. b.type = IF FileExists(t, q) THEN EditFile ELSE AddFile
        BY <1>6, <1>11
    <2>4. q \in Seq(Names) \ {<<>>} /\ HasDir(t, Front(q)) /\ ~Dirty(FileAt(t, p))
          /\ b.content = FileAt(t, p).content
        BY <1>3, <1>4, <1>5, <1>11 DEF q, f
    <2>5. MoveStarts(Replay(k), t, p, q, b)
        BY ONLY <1>1, <1>2, <1>7, <1>11, <1>21, <2>1, <2>3, <2>4 DEF MoveStarts
    <2>6. MoveActs(Replay(k), Replay(log), Replay(n), p, b, x)
        BY ONLY <1>14, <1>21 DEF MoveActs
    <2>7. MoveShows(t, u, p, q, b, g)
        BY ONLY <1>17, <1>18, <2>2 DEF MoveShows
    <2> QED BY ONLY <2>5, <2>6, <2>7, MoveAgrees
<1>25. Coherent(n, u, Tail(l), half)
    BY <1>15, <1>19, <1>21, <1>22, <1>23, <1>24 DEF Coherent, Agreement
<1> QED BY <1>25 DEF n, u, p, q

-----------------------------------------------------------------------------
\* Where files only leave, the loops are as ready as before.
LEMMA LoopWithLess ==
    ASSUME NEW s \in Steps, NEW t, NEW u, LoopReady(t, s), HasDir(u, s.path), HasDir(u, s.to),
           \A r \in SomePaths : Filed(u, r) = {} \/ Filed(u, r) = Filed(t, r)
    PROVE  LoopReady(u, s)
<1>1. s.path \in Seq(Names) /\ s.to \in Seq(Names)
    BY DEF Steps, SomePaths
<1>2. ASSUME NEW y \in Names PROVE Filed(u, Append(s.path, y)) = {} \/ Filed(u, Append(s.to, y)) = {}
    <2>1. Append(s.path, y) \in SomePaths /\ Append(s.to, y) \in SomePaths
        BY <1>1, AppendPath DEF SomePaths
    <2>2. Filed(t, Append(s.path, y)) = {} \/ Filed(t, Append(s.to, y)) = {}
        BY DEF LoopReady, FilesApart
    <2> QED BY <2>1, <2>2
<1> QED BY <1>2 DEF LoopReady, FilesApart

LEMMA StoredAction ==
    ASSUME NEW log \in Seq(Actions), NEW type \in ActionTypes, NEW p \in Seq(Names) \ {<<>>},
           NEW x, x = [time |-> Len(log) + 1, type |-> type, path |-> p, content |-> NoContent]
    PROVE  x \in Actions /\ x.time = Len(log) + 1 /\ x.type = type /\ x.path = p
<1>1. Len(log) + 1 \in Nat /\ NoContent \in ContentOf
    BY LenProperties DEF ContentOf
<1> QED BY <1>1, ActionIs

\* bucse_unlink stores the removal.
LEMMA RemoveStores ==
    ASSUME NEW log, NEW t, NEW l, NEW half, Coherent(log, t, l, half), l # <<>>, l[1].do = "remove",
           NEW p, p = l[1].path, NEW x,
           x = [time |-> Len(log) + 1, type |-> RemoveFile, path |-> p, content |-> NoContent]
    PROVE  Coherent(Append(log, x), RemoveFileFrom(t, FindContainingDir(t, p), Last(p)), Tail(l), half)
<1> DEFINE n == Append(log, x)
           u == RemoveFileFrom(t, FindContainingDir(t, p), Last(p))
<1>1. /\ IsTree(t) /\ TodoFor(l, t) /\ Shape(l) /\ log \in Seq(Actions) /\ TimesOf(log)
      /\ OrdersAgree(log, t)
    BY DEF Coherent, TodoFor, Agreement
<1>2. p \in Seq(Names) \ {<<>>} /\ FileExists(t, p)
    BY <1>1, HeadFile
<1>3. x \in Actions /\ x.time = Len(log) + 1 /\ x.type = RemoveFile /\ x.path = p
    <2>1. RemoveFile \in ActionTypes
        BY DEF ActionTypes
    <2> QED BY <1>1, <1>2, <2>1, StoredAction
<1>4. FileUpdate(t, u, p, {})
    BY <1>1, <1>2, RemoveFileView
<1> HIDE DEF u
<1>5. x.type # AddDirectory /\ x.type # RemoveDirectory
    BY <1>3 DEF RemoveFile, AddDirectory, RemoveDirectory
<1>6. Apt(t, x) /\ \A q \in Seq(Names) : HasDirAfter(t, x, q) <=> HasDir(t, q)
    BY <1>5 DEF Apt, HasDirAfter
<1>7. SameDirs(t, u) /\ IsTree(u)
    BY <1>4 DEF FileUpdate, SameDirs, HasDir
<1>8. \A q \in Seq(Names) : HasDir(u, q) <=> HasDirAfter(t, x, q)
    BY <1>6, <1>7 DEF SameDirs
<1>9. /\ n \in Seq(Actions) /\ TimesOf(n) /\ OrdersAgree(n, u)
      /\ ShowsAfter(Replay(log), x, Replay(n))
    BY <1>1, <1>3, <1>6, <1>8, StoreNow
<1> HIDE DEF n
<1>10. ASSUME NEW i \in DOMAIN l, i # 1, l[i].do = "moveAll" PROVE LoopReady(u, l[i])
    <2>1. LoopReady(t, l[i]) /\ l[i] \in Steps /\ l[i].path \in Seq(Names) /\ l[i].to \in Seq(Names)
        BY <1>1, <1>10, LoopsBehind, StepIs
    <2>2. HasDir(u, l[i].path) /\ HasDir(u, l[i].to)
        BY <1>7, <2>1 DEF LoopReady, SameDirs
    <2>3. \A r \in SomePaths : Filed(u, r) = {} \/ Filed(u, r) = Filed(t, r)
        BY <1>4 DEF FileUpdate, SomePaths
    <2> QED BY <2>1, <2>2, <2>3, LoopWithLess
<1>11. TodoFor(Tail(l), u)
    BY <1>1, <1>10, LoopsAreReady
<1>12. ~MovesNext(l) /\ ~MovesNext(Tail(l))
    BY <1>1, NotMoving DEF MovesNext
<1>13. ASSUME ~half PROVE FilesAgree(Replay(n), u)
    <2>1. FilesAgree(Replay(log), t)
        BY <1>12, <1>13 DEF Coherent, Agreement
    <2> QED BY <1>2, <1>3, <1>4, <1>9, <2>1, RemovalAgrees
<1>14. Coherent(n, u, Tail(l), half)
    BY <1>7, <1>9, <1>11, <1>12, <1>13 DEF Coherent, Agreement
<1> QED BY <1>14 DEF n, u

\* What bucse_mkdir and bucse_rmdir look at.
LEMMA NoFilesOf ==
    ASSUME NEW t, IsTree(t), NEW p \in Seq(Names),
           HasDir(t, p) => t[FindDirByPath(t, p)].files = <<>>,
           NEW q \in Seq(Names) \ {<<>>}, Front(q) = p
    PROVE  Filed(t, q) = {}
<1>1. CASE ~HasDir(t, p)
    BY <1>1, FiledOfDir
<1>2. CASE HasDir(t, p)
    <2>1. FindContainingDir(t, q) = FindDirByPath(t, p)
        BY DEF FindContainingDir
    <2>2. FindFile(t[FindDirByPath(t, p)], Last(q)) = 0
        <3>1. t[FindDirByPath(t, p)].files \in Seq(Files) /\ DOMAIN t[FindDirByPath(t, p)].files = {}
            <4>1. <<>> \in Seq(Files) /\ DOMAIN <<>> = {}
                OBVIOUS
            <4>2. t[FindDirByPath(t, p)].files = <<>>
                BY <1>2
            <4> QED BY ONLY <4>1, <4>2
        <3> QED BY <3>1, FindFileAny
    <2>3. ~FileExists(t, q)
        BY <2>1, <2>2 DEF FileExists
    <2> QED BY <2>3 DEF Filed
<1> QED BY <1>1, <1>2

\* bucse_mkdir stores the directory.
LEMMA MakeDirStores ==
    ASSUME NEW log, NEW t, NEW l, NEW half, Coherent(log, t, l, half), l # <<>>, l[1].do = "mkdir",
           NEW p, p = l[1].path, FindContainingDir(t, p) \in DOMAIN t, ~DirExists(t, p), NEW x,
           x = [time |-> Len(log) + 1, type |-> AddDirectory, path |-> p, content |-> NoContent]
    PROVE  Coherent(Append(log, x), AddDirTo(t, FindContainingDir(t, p), Last(p)), Tail(l), half)
<1> DEFINE n == Append(log, x)
           u == AddDirTo(t, FindContainingDir(t, p), Last(p))
<1>1. /\ IsTree(t) /\ TodoFor(l, t) /\ Shape(l) /\ log \in Seq(Actions) /\ TimesOf(log)
      /\ OrdersAgree(log, t)
    BY DEF Coherent, TodoFor, Agreement
<1>2. p \in Seq(Names) \ {<<>>} /\ p \in Seq(Names) /\ 1 \in DOMAIN l
    <2>1. 1 \in DOMAIN l
        BY <1>1, ListFacts DEF Shape
    <2> QED BY <1>1, <2>1, StepIs DEF SomePaths
<1>3. x \in Actions /\ x.time = Len(log) + 1 /\ x.type = AddDirectory /\ x.path = p
    <2>1. AddDirectory \in ActionTypes
        BY DEF ActionTypes
    <2> QED BY <1>1, <1>2, <2>1, StoredAction
<1>4. ~HasDir(t, p) /\ HasDir(t, Front(p))
    <2>1. TreeOK(t)
        BY <1>1 DEF IsTree
    <2>2. FindDirByPath(t, p) \notin DOMAIN t
        BY <1>2, <2>1, DirExistsIs
    <2>3. HasDir(t, Front(p))
        BY <1>1, <1>2, FiledIs
    <2> QED BY <1>2, <2>1, <2>2, <2>3, DirIsNode DEF HasDir
<1>5. DirUpdate(t, u, p, TRUE)
    BY <1>1, <1>2, <1>4, AddDirView
<1> HIDE DEF u
<1>6. \A q \in Seq(Names) \ {<<>>} : Front(q) = p => Filed(t, q) = {}
    BY <1>1, <1>2, <1>4, NoFilesOf
<1>7. /\ IsTree(u) /\ \A q \in Seq(Names) : HasDir(u, q) <=> q = p \/ HasDir(t, q)
      /\ \A q \in Seq(Names) \ {<<>>} : Filed(u, q) = Filed(t, q)
    BY <1>5, <1>6 DEF DirUpdate
<1>8. x.type # RemoveDirectory
    BY <1>3 DEF AddDirectory, RemoveDirectory
<1>9. Apt(t, x) /\ \A q \in Seq(Names) : HasDirAfter(t, x, q) <=> q = p \/ HasDir(t, q)
    BY <1>3, <1>4, <1>8 DEF Apt, HasDirAfter
<1>10. \A q \in Seq(Names) : HasDir(u, q) <=> HasDirAfter(t, x, q)
    BY <1>7, <1>9
<1>11. /\ n \in Seq(Actions) /\ TimesOf(n) /\ OrdersAgree(n, u)
       /\ ShowsAfter(Replay(log), x, Replay(n))
    BY <1>1, <1>3, <1>9, <1>10, StoreNow
<1> HIDE DEF n
<1>12. ASSUME NEW i \in DOMAIN l, i # 1, l[i].do = "moveAll" PROVE LoopReady(u, l[i])
    <2>1. l[i] \in Steps /\ l[i].path \in Seq(Names) /\ l[i].to \in Seq(Names)
        BY <1>1, StepIs
    <2>2. Ready(l, t, i)
        BY <1>1 DEF TodoFor
    <2>3. CASE LoopReady(t, l[i])
        <3>1. HasDir(u, l[i].path) /\ HasDir(u, l[i].to)
            BY <1>7, <2>1, <2>3 DEF LoopReady
        <3>2. \A r \in SomePaths : Filed(u, r) = {} \/ Filed(u, r) = Filed(t, r)
            BY <1>7 DEF SomePaths
        <3> QED BY <2>1, <2>3, <3>1, <3>2, LoopWithLess
    <2>4. CASE MadeFirst(l, t, i)
        <3>1. l[i].to = p /\ HasDir(t, l[i].path)
            BY <2>4 DEF MadeFirst
        <3>2. HasDir(u, l[i].path) /\ HasDir(u, l[i].to)
            BY <1>7, <2>1, <3>1
        <3>3. ASSUME NEW y \in Names PROVE Filed(u, Append(l[i].to, y)) = {}
            <4>1. Append(p, y) \in Seq(Names) \ {<<>>} /\ Front(Append(p, y)) = p
                BY <1>2, AppendPath
            <4> QED BY <1>6, <1>7, <3>1, <4>1
        <3> QED BY <3>2, <3>3 DEF LoopReady, FilesApart
    <2> QED BY <1>12, <2>2, <2>3, <2>4 DEF Ready
<1>13. TodoFor(Tail(l), u)
    BY <1>1, <1>12, LoopsAreReady
<1>14. ~MovesNext(l) /\ ~MovesNext(Tail(l))
    BY <1>1, NotMoving DEF MovesNext
<1>15. ASSUME ~half PROVE FilesAgree(Replay(n), u)
    <2>1. FilesAgree(Replay(log), t)
        BY <1>14, <1>15 DEF Coherent, Agreement
    <2>2. x.type \in {AddDirectory, RemoveDirectory}
        BY <1>3
    <2> QED BY <1>2, <1>3, <1>6, <1>7, <1>11, <2>1, <2>2, DirAgrees
<1>16. Coherent(n, u, Tail(l), half)
    BY <1>7, <1>11, <1>13, <1>14, <1>15 DEF Coherent, Agreement
<1> QED BY <1>16 DEF n, u

\* bucse_rmdir stores the removal.
LEMMA RemoveDirStores ==
    ASSUME NEW log, NEW t, NEW l, NEW half, Coherent(log, t, l, half), l # <<>>, l[1].do = "rmdir",
           NEW p, p = l[1].path, DirExists(t, p), t[FindDirByPath(t, p)] = EmptyDir, NEW x,
           x = [time |-> Len(log) + 1, type |-> RemoveDirectory, path |-> p, content |-> NoContent]
    PROVE  Coherent(Append(log, x), RemoveDirFrom(t, FindContainingDir(t, p), Last(p)), Tail(l), half)
<1> DEFINE n == Append(log, x)
           u == RemoveDirFrom(t, FindContainingDir(t, p), Last(p))
<1>1. /\ IsTree(t) /\ TodoFor(l, t) /\ Shape(l) /\ log \in Seq(Actions) /\ TimesOf(log)
      /\ OrdersAgree(log, t)
    BY DEF Coherent, TodoFor, Agreement
<1>2. p \in Seq(Names) \ {<<>>} /\ p \in Seq(Names) /\ 1 \in DOMAIN l
    <2>1. 1 \in DOMAIN l
        BY <1>1, ListFacts DEF Shape
    <2> QED BY <1>1, <2>1, StepIs DEF SomePaths
<1>3. x \in Actions /\ x.time = Len(log) + 1 /\ x.type = RemoveDirectory /\ x.path = p
    <2>1. RemoveDirectory \in ActionTypes
        BY DEF ActionTypes
    <2> QED BY <1>1, <1>2, <2>1, StoredAction
<1>4. HasDir(t, p) /\ NoDirIn(t, p) /\ t[FindDirByPath(t, p)].files = <<>>
    <2>1. TreeOK(t)
        BY <1>1 DEF IsTree
    <2>2. FindDirByPath(t, p) \in DOMAIN t
        BY <1>2, <2>1, DirExistsIs
    <2>3. HasDir(t, p)
        BY <1>2, <2>1, <2>2, DirIsNode DEF HasDir
    <2>4. t[FindDirByPath(t, p)].dirs = <<>> /\ t[FindDirByPath(t, p)].files = <<>>
        BY DEF EmptyDir
    <2> QED BY <1>1, <1>2, <2>3, <2>4, NoDirInIs
<1>5. DirUpdate(t, u, p, FALSE)
    BY <1>1, <1>2, <1>4, RemoveDirView
<1> HIDE DEF u
<1>6. \A q \in Seq(Names) \ {<<>>} : Front(q) = p => Filed(t, q) = {}
    BY <1>1, <1>2, <1>4, NoFilesOf
<1>7. /\ IsTree(u) /\ \A q \in Seq(Names) : HasDir(u, q) <=> q # p /\ HasDir(t, q)
      /\ \A q \in Seq(Names) \ {<<>>} : Filed(u, q) = Filed(t, q)
    BY <1>5, <1>6 DEF DirUpdate
<1>8. x.type # AddDirectory
    BY <1>3 DEF AddDirectory, RemoveDirectory
<1>9. Apt(t, x) /\ \A q \in Seq(Names) : HasDirAfter(t, x, q) <=> q # p /\ HasDir(t, q)
    BY <1>3, <1>4, <1>8 DEF Apt, HasDirAfter
<1>10. \A q \in Seq(Names) : HasDir(u, q) <=> HasDirAfter(t, x, q)
    BY <1>7, <1>9
<1>11. /\ n \in Seq(Actions) /\ TimesOf(n) /\ OrdersAgree(n, u)
       /\ ShowsAfter(Replay(log), x, Replay(n))
    BY <1>1, <1>3, <1>9, <1>10, StoreNow
<1> HIDE DEF n
<1>12. ASSUME NEW i \in DOMAIN l, i # 1, l[i].do = "moveAll" PROVE LoopReady(u, l[i])
    <2>1. LoopReady(t, l[i]) /\ l[i] \in Steps /\ l[i].path \in Seq(Names) /\ l[i].to \in Seq(Names)
        BY <1>1, <1>12, LoopsBehind, StepIs
    <2>2. l[i].path # p
        <3>1. 1 < i
            BY <1>1, <1>12, ListFacts DEF Shape
        <3>2. Inside(l[1], l[i])
            BY <1>1, <1>2, <3>1 DEF Shape
        <3>3. Len(l[i].path) < Len(p)
            BY <1>12, <3>2 DEF Inside
        <3>4. Len(p) \in Nat
            BY <1>2
        <3> QED BY <3>3, <3>4
    <2>3. l[i].to # p
        <3>1. Away(l[1], l[i])
            BY <1>1, <1>2 DEF Shape
        <3>2. Apart(p, l[i].to)
            BY <1>12, <3>1 DEF Away
        <3> QED BY <1>2, <2>1, <3>2, ApartDeeper
    <2>4. HasDir(u, l[i].path) /\ HasDir(u, l[i].to)
        BY <1>7, <2>1, <2>2, <2>3 DEF LoopReady
    <2>5. \A r \in SomePaths : Filed(u, r) = {} \/ Filed(u, r) = Filed(t, r)
        BY <1>7 DEF SomePaths
    <2> QED BY <2>1, <2>4, <2>5, LoopWithLess
<1>13. TodoFor(Tail(l), u)
    BY <1>1, <1>12, LoopsAreReady
<1>14. ~MovesNext(l) /\ ~MovesNext(Tail(l))
    BY <1>1, NotMoving DEF MovesNext
<1>15. ASSUME ~half PROVE FilesAgree(Replay(n), u)
    <2>1. FilesAgree(Replay(log), t)
        BY <1>14, <1>15 DEF Coherent, Agreement
    <2>2. x.type \in {AddDirectory, RemoveDirectory}
        BY <1>3
    <2> QED BY <1>2, <1>3, <1>6, <1>7, <1>11, <2>1, <2>2, DirAgrees
<1>16. Coherent(n, u, Tail(l), half)
    BY <1>7, <1>11, <1>13, <1>14, <1>15 DEF Coherent, Agreement
<1> QED BY <1>16 DEF n, u

-----------------------------------------------------------------------------
\* The list with three steps in front.
LEMMA PutInFront ==
    ASSUME NEW l \in Seq(Steps), l # <<>>, NEW a \in Steps, NEW b \in Steps, NEW c \in Steps
    PROVE  LET n == (<<a, b, c>> \o <<l[1]>>) \o Tail(l)
           IN InFrontOf(n, l) /\ n # <<>> /\ n[1] = a /\ n[2] = b /\ n[3] = c
<1> DEFINE f == <<a, b, c>> \o <<l[1]>>
           k == Tail(l)
           n == f \o k
<1>1. /\ Len(l) \in Nat /\ DOMAIN l = 1 .. Len(l) /\ 1 \in DOMAIN l /\ l[1] \in Steps
      /\ k \in Seq(Steps) /\ Len(k) = Len(l) - 1 /\ \A i \in 1 .. Len(l) - 1 : k[i] = l[i + 1]
    BY ListFacts
<1>2. /\ f \in Seq(Steps) /\ Len(f) = 4 /\ f[1] = a /\ f[2] = b /\ f[3] = c /\ f[4] = l[1]
    BY <1>1
<1> HIDE DEF f, k
<1>3. /\ n \in Seq(Steps) /\ Len(n) = Len(l) + 3
      /\ \A i \in 1 .. 4 : n[i] = f[i]
      /\ \A i \in 5 .. Len(l) + 3 : n[i] = k[i - 4]
    <2>1. /\ n \in Seq(Steps) /\ Len(n) = Len(f) + Len(k)
          /\ \A i \in 1 .. Len(f) + Len(k) : n[i] = IF i <= Len(f) THEN f[i] ELSE k[i - Len(f)]
        BY <1>1, <1>2, ConcatProperties
    <2> HIDE DEF n
    <2>2. Len(f) + Len(k) = Len(l) + 3 /\ Len(f) = 4 /\ Len(l) \in Nat /\ Len(l) >= 1
        BY <1>1, <1>2
    <2> QED BY ONLY <2>1, <2>2
<1> HIDE DEF n
<1>4. ASSUME NEW i \in 4 .. Len(n) PROVE n[i] = l[i - 3]
    <2>1. CASE i = 4
        BY <1>2, <1>3, <2>1
    <2>2. CASE i # 4
        <3>1. i \in 5 .. Len(l) + 3
            BY <1>1, <1>3, <2>2
        <3>2. i - 4 \in 1 .. Len(l) - 1 /\ i - 4 + 1 = i - 3
            BY <1>1, <3>1
        <3> QED BY <1>1, <1>3, <3>1, <3>2
    <2> QED BY <2>1, <2>2
<1>5. n # <<>> /\ n[1] = a /\ n[2] = b /\ n[3] = c
    <2>1. Len(n) # 0
        BY <1>1, <1>3
    <2>2. n # <<>>
        BY <2>1
    <2> QED BY <1>2, <1>3, <2>2
<1>6. InFrontOf(n, l) /\ n # <<>> /\ n[1] = a /\ n[2] = b /\ n[3] = c
    BY <1>3, <1>4, <1>5 DEF InFrontOf
<1> QED BY <1>6 DEF n, f, k

LEMMA DeeperPath ==
    ASSUME NEW p \in Seq(Names), NEW x \in Names
    PROVE  p \o <<x>> = Append(p, x)
<1>1. /\ p \o <<x>> \in Seq(Names) /\ Len(p \o <<x>>) = Len(p) + 1 /\ Len(p) \in Nat
      /\ (p \o <<x>>)[Len(p) + 1] = x /\ \A i \in 1 .. Len(p) : (p \o <<x>>)[i] = p[i]
    OBVIOUS
<1>2. /\ Append(p, x) \in Seq(Names) /\ Len(Append(p, x)) = Len(p) + 1
      /\ Append(p, x)[Len(p) + 1] = x /\ \A i \in 1 .. Len(p) : Append(p, x)[i] = p[i]
    OBVIOUS
<1> DEFINE a == p \o <<x>>
           b == Append(p, x)
<1> HIDE DEF a, b
<1>3. /\ a \in Seq(Names) /\ b \in Seq(Names) /\ Len(a) = Len(b) /\ Len(b) = Len(p) + 1 /\ Len(p) \in Nat
      /\ \A i \in 1 .. Len(p) : a[i] = b[i] /\ a[Len(p) + 1] = b[Len(p) + 1]
      /\ a[Len(p) + 1] = b[Len(p) + 1]
    BY <1>1, <1>2 DEF a, b
<1>4. \A i \in 1 .. Len(a) : a[i] = b[i]
    BY <1>3
<1>5. a = b
    BY <1>3, <1>4, SeqEqual
<1> QED BY <1>5 DEF a, b

\* What every turn of the loops has before it.
LEMMA TurnFacts ==
    ASSUME NEW log, NEW t, NEW l, NEW half, Coherent(log, t, l, half), l # <<>>, l[1].do = "moveAll"
    PROVE  /\ IsTree(t) /\ TreeOK(t) /\ TodoFor(l, t) /\ Shape(l) /\ l \in Seq(Steps)
           /\ l[1].path \in Seq(Names) /\ l[1].to \in Seq(Names) /\ LoopReady(t, l[1])
           /\ FindDirByPath(t, l[1].path) \in DOMAIN t
           /\ t[FindDirByPath(t, l[1].path)] \in Dirs
           /\ ~MovesNext(l)
<1>1. IsTree(t) /\ TreeOK(t) /\ TodoFor(l, t) /\ Shape(l) /\ l \in Seq(Steps)
    BY DEF Coherent, TodoFor, Shape, IsTree
<1>2. 1 \in DOMAIN l
    BY <1>1, ListFacts
<1>3. l[1].path \in Seq(Names) /\ l[1].to \in Seq(Names)
    BY <1>1, <1>2, StepIs
<1>4. LoopReady(t, l[1])
    <2>1. Ready(l, t, 1)
        BY <1>1, <1>2 DEF TodoFor
    <2> QED BY <2>1 DEF Ready, MadeFirst
<1>5. FindDirByPath(t, l[1].path) \in DOMAIN t
    BY <1>1, <1>3, <1>4, DirIsNode DEF LoopReady, HasDir
<1>6. t[FindDirByPath(t, l[1].path)] \in Dirs
    BY <1>1, <1>5, ElementOfSeq DEF TreeOK
<1> QED BY <1>1, <1>3, <1>4, <1>5, <1>6 DEF MovesNext

\* Behind the steps put in front the list is as it was.
LEMMA ReadyBehind ==
    ASSUME NEW l, NEW t, TodoFor(l, t), l # <<>>, l[1].do = "moveAll",
           NEW n, InFrontOf(n, l), NEW i \in DOMAIN n, i \notin {1, 2, 3}
    PROVE  Ready(n, t, i)
<1>1. /\ Shape(l) /\ Len(l) \in Nat /\ DOMAIN l = 1 .. Len(l) /\ 1 \in DOMAIN l
    BY ListFacts DEF TodoFor, Shape
<1>2. DOMAIN n = 1 .. Len(l) + 3 /\ Len(n) = Len(l) + 3
    BY ListFacts DEF InFrontOf
<1>3. i \in 4 .. Len(n) /\ i - 3 \in DOMAIN l
    BY <1>1, <1>2
<1>4. n[i] = l[i - 3]
    BY <1>3 DEF InFrontOf
<1>5. l[i - 3].do = "moveAll" => LoopReady(t, l[i - 3])
    <2>1. Ready(l, t, i - 3)
        BY <1>3 DEF TodoFor
    <2> QED BY <2>1 DEF Ready, MadeFirst
<1>6. FileReady(t, l[i - 3])
    BY <1>3 DEF TodoFor, Ready
<1> QED BY <1>4, <1>5, <1>6 DEF Ready

LEMMA StepFields ==
    ASSUME NEW do \in Kinds, NEW p \in SomePaths, NEW q \in SomePaths, NEW over \in BOOLEAN
    PROVE  /\ Step(do, p, q, over) \in Steps
           /\ Step(do, p, q, over).do = do /\ Step(do, p, q, over).path = p
           /\ Step(do, p, q, over).to = q /\ Step(do, p, q, over).over = over
BY DEF Step, Steps

LEMMA StepNotOver ==
    ASSUME NEW do \in Kinds, NEW p \in SomePaths, NEW q \in SomePaths
    PROVE  /\ Step(do, p, q, FALSE) \in Steps
           /\ Step(do, p, q, FALSE).do = do /\ Step(do, p, q, FALSE).path = p
           /\ Step(do, p, q, FALSE).to = q /\ Step(do, p, q, FALSE).over = FALSE
BY DEF Step, Steps

-----------------------------------------------------------------------------
\* The steps for one file and for one directory.
LEMMA FileStepsAre ==
    ASSUME NEW p \in SomePaths, NEW q \in SomePaths, NEW over \in BOOLEAN
    PROVE  LET a == On("flush", p)
               b == Step("copy", p, q, over)
               c == Step("move", p, q, over)
           IN /\ a \in Steps /\ a.do = "flush" /\ a.path = p
              /\ b \in Steps /\ b.do = "copy" /\ b.path = p /\ b.to = q /\ b.over = over
              /\ c \in Steps /\ c.do = "move" /\ c.path = p /\ c.to = q /\ c.over = over
              /\ c = Turned(b, "move")
<1>1. "flush" \in Kinds /\ "copy" \in Kinds /\ "move" \in Kinds /\ FALSE \in BOOLEAN
    BY DEF Kinds
<1>2. Step("copy", p, q, over).path = p /\ Step("copy", p, q, over).to = q
      /\ Step("copy", p, q, over).over = over
    BY <1>1, StepFields
<1>3. /\ Step("flush", p, p, FALSE) \in Steps /\ Step("flush", p, p, FALSE).do = "flush"
      /\ Step("flush", p, p, FALSE).path = p
    BY <1>1, StepNotOver
<1>4. Step("copy", p, q, over) \in Steps /\ Step("copy", p, q, over).do = "copy"
    BY <1>1, StepFields
<1>5. /\ Step("move", p, q, over) \in Steps /\ Step("move", p, q, over).do = "move"
      /\ Step("move", p, q, over).path = p /\ Step("move", p, q, over).to = q
      /\ Step("move", p, q, over).over = over
    BY <1>1, StepFields
<1>6. Step("move", p, q, over) = Turned(Step("copy", p, q, over), "move")
    BY <1>2 DEF Turned
<1>7. On("flush", p) = Step("flush", p, p, FALSE)
    BY DEF On
<1> QED BY ONLY <1>2, <1>3, <1>4, <1>5, <1>6, <1>7

LEMMA DirStepsAre ==
    ASSUME NEW p \in SomePaths, NEW q \in SomePaths
    PROVE  LET a == On("mkdir", q)
               b == Step("moveAll", p, q, FALSE)
               c == On("rmdir", p)
           IN /\ a \in Steps /\ a.do = "mkdir" /\ a.path = q
              /\ b \in Steps /\ b.do = "moveAll" /\ b.path = p /\ b.to = q
              /\ c \in Steps /\ c.do = "rmdir" /\ c.path = p
<1>1. "mkdir" \in Kinds /\ "moveAll" \in Kinds /\ "rmdir" \in Kinds /\ FALSE \in BOOLEAN
    BY DEF Kinds
<1>2. /\ Step("mkdir", q, q, FALSE) \in Steps /\ Step("mkdir", q, q, FALSE).do = "mkdir"
      /\ Step("mkdir", q, q, FALSE).path = q
    BY <1>1, StepNotOver
<1>3. /\ Step("moveAll", p, q, FALSE) \in Steps /\ Step("moveAll", p, q, FALSE).do = "moveAll"
      /\ Step("moveAll", p, q, FALSE).path = p /\ Step("moveAll", p, q, FALSE).to = q
    BY <1>1, StepNotOver
<1>4. /\ Step("rmdir", p, p, FALSE) \in Steps /\ Step("rmdir", p, p, FALSE).do = "rmdir"
      /\ Step("rmdir", p, p, FALSE).path = p
    BY <1>1, StepNotOver
<1>5. On("mkdir", q) = Step("mkdir", q, q, FALSE) /\ On("rmdir", p) = Step("rmdir", p, p, FALSE)
    BY DEF On
<1> QED BY ONLY <1>2, <1>3, <1>4, <1>5

\* The first file of a directory is moved next.
LEMMA TurnOfFile ==
    ASSUME NEW log, NEW t, NEW l, NEW half, Coherent(log, t, l, half), l # <<>>, l[1].do = "moveAll",
           NEW s, s = l[1], NEW dir, dir = t[FindDirByPath(t, s.path)], dir.files # <<>>
    PROVE  /\ Coherent(log, t, MoveFirstFile(s, dir) \o Tail(l), half)
           /\ MoveFirstFile(s, dir) \o Tail(l) # <<>>
<1> DEFINE x == dir.files[1].name
           p == s.path
           q == s.to
           n == MoveFirstFile(s, dir) \o Tail(l)
           a == On("flush", Append(p, x))
           b == Step("copy", Append(p, x), Append(q, x), FALSE)
           c == Step("move", Append(p, x), Append(q, x), FALSE)
<1>1. /\ IsTree(t) /\ TreeOK(t) /\ TodoFor(l, t) /\ Shape(l) /\ l \in Seq(Steps)
      /\ p \in Seq(Names) /\ q \in Seq(Names) /\ LoopReady(t, s)
      /\ FindDirByPath(t, p) \in DOMAIN t /\ dir \in Dirs /\ ~MovesNext(l)
    BY TurnFacts
<1>2. dir.files \in Seq(Files) /\ 1 \in DOMAIN dir.files /\ dir.files[1] \in Files /\ x \in Names
    <2>1. dir.files \in Seq(Files)
        BY <1>1 DEF Dirs
    <2>2. 1 \in DOMAIN dir.files
        BY <2>1, ListFacts
    <2>3. dir.files[1] \in Files
        BY <2>1, <2>2, ElementOfSeq
    <2> QED BY <2>1, <2>2, <2>3, FileFields
<1>3. Filed(t, Append(p, x)) # {}
    <2>1. Append(p, x) \in Seq(Names) \ {<<>>} /\ Front(Append(p, x)) = p /\ Last(Append(p, x)) = x
        BY <1>1, <1>2, AppendPath
    <2>2. FindContainingDir(t, Append(p, x)) = FindDirByPath(t, p)
        BY <2>1 DEF FindContainingDir
    <2>3. Filed(t, Append(p, x)) = Named(dir.files, x)
        BY <1>1, <2>1, <2>2, FiledIs
    <2>4. dir.files[1] \in Named(dir.files, x)
        BY <1>2 DEF Named
    <2> QED BY <2>3, <2>4
<1>4. Filed(t, Append(q, x)) = {}
    BY <1>1, <1>2, <1>3 DEF LoopReady, FilesApart
<1> HIDE DEF x
<1>5. n = (<<a, b, c>> \o <<s>>) \o Tail(l)
    <2>1. p \o <<x>> = Append(p, x) /\ q \o <<x>> = Append(q, x)
        BY <1>1, <1>2, DeeperPath
    <2>2. n = (<<On("flush", p \o <<x>>), Step("copy", p \o <<x>>, q \o <<x>>, FALSE),
                 Step("move", p \o <<x>>, q \o <<x>>, FALSE)>> \o <<s>>) \o Tail(l)
        BY DEF MoveFirstFile, FileSteps, x
    <2> QED BY <2>1, <2>2
<1>6. Append(p, x) \in SomePaths /\ Append(q, x) \in SomePaths /\ Front(Append(q, x)) = q
    BY <1>1, <1>2, AppendPath DEF SomePaths
<1>7. /\ a \in Steps /\ a.do = "flush" /\ a.path = Append(p, x)
      /\ b \in Steps /\ b.do = "copy" /\ b.path = Append(p, x) /\ b.to = Append(q, x) /\ b.over = FALSE
      /\ c \in Steps /\ c.do = "move" /\ c.path = Append(p, x) /\ c.to = Append(q, x) /\ c.over = FALSE
      /\ c = Turned(b, "move")
    <2>1. FALSE \in BOOLEAN
        OBVIOUS
    <2> QED BY ONLY <1>6, <2>1, FileStepsAre DEF a, b, c
<1> HIDE DEF n, a, b, c
<1>8. InFrontOf(n, l) /\ n # <<>> /\ n[1] = a /\ n[2] = b /\ n[3] = c
    BY <1>1, <1>5, <1>7, PutInFront
<1>9. Shape(n)
    <2>1. \A i \in 1 .. 3 : n[i].path = Append(l[1].path, x) \/ (n[i].do = "mkdir" /\ i = 1)
        BY <1>7, <1>8
    <2>2. \A i \in 1 .. 3 : n[i].do \in {"copy", "move", "moveAll"} => n[i].to = Append(l[1].to, x)
        BY <1>7, <1>8
    <2>3. n[1].do = "flush" /\ n[2].do = "copy" /\ n[3] = Turned(n[2], "move")
        BY <1>7, <1>8
    <2> QED BY <1>1, <1>2, <1>8, <2>1, <2>2, <2>3, ShapeOfLonger
<1>10. HasDir(t, Front(Append(q, x)))
    BY <1>1, <1>6 DEF LoopReady
<1>11. FileReady(t, a) /\ FileReady(t, b) /\ FileReady(t, c)
    BY <1>3, <1>4, <1>7, <1>10 DEF FileReady
<1>12. ASSUME NEW i \in DOMAIN n PROVE Ready(n, t, i)
    <2>1. CASE i \in {1, 2, 3}
        <3>1. FileReady(t, n[i]) /\ n[i].do # "moveAll"
            BY <1>7, <1>8, <1>11, <2>1
        <3> QED BY <3>1 DEF Ready
    <2>2. CASE i \notin {1, 2, 3}
        BY <1>1, <1>8, <2>2, ReadyBehind
    <2> QED BY <2>1, <2>2
<1>13. TodoFor(n, t) /\ ~MovesNext(n)
    BY <1>7, <1>8, <1>9, <1>12 DEF TodoFor, HeadClean, MovesNext
<1>14. Coherent(log, t, n, half)
    BY <1>1, <1>13 DEF Coherent, Agreement
<1> QED BY <1>8, <1>14 DEF n

\* The first directory of a directory is renamed next.
LEMMA TurnOfDir ==
    ASSUME NEW log, NEW t, NEW l, NEW half, Coherent(log, t, l, half), l # <<>>, l[1].do = "moveAll",
           NEW s, s = l[1], NEW dir, dir = t[FindDirByPath(t, s.path)], dir.dirs # <<>>
    PROVE  /\ Coherent(log, t, MoveFirstDir(s, dir) \o Tail(l), half)
           /\ MoveFirstDir(s, dir) \o Tail(l) # <<>>
<1> DEFINE x == dir.dirs[1].name
           p == s.path
           q == s.to
           n == MoveFirstDir(s, dir) \o Tail(l)
           a == On("mkdir", Append(q, x))
           b == Step("moveAll", Append(p, x), Append(q, x), FALSE)
           c == On("rmdir", Append(p, x))
<1>1. /\ IsTree(t) /\ TreeOK(t) /\ TodoFor(l, t) /\ Shape(l) /\ l \in Seq(Steps)
      /\ p \in Seq(Names) /\ q \in Seq(Names) /\ LoopReady(t, s)
      /\ FindDirByPath(t, p) \in DOMAIN t /\ dir \in Dirs /\ ~MovesNext(l)
    BY TurnFacts
<1>2. dir.dirs \in Seq(Subdirs) /\ 1 \in DOMAIN dir.dirs /\ dir.dirs[1] \in Subdirs /\ x \in Names
    <2>1. dir.dirs \in Seq(Subdirs)
        BY <1>1 DEF Dirs
    <2>2. 1 \in DOMAIN dir.dirs
        BY <2>1, ListFacts
    <2>3. dir.dirs[1] \in Subdirs
        BY <2>1, <2>2, ElementOfSeq
    <2> QED BY <2>1, <2>2, <2>3 DEF Subdirs
<1>3. HasDir(t, Append(p, x))
    <2>1. Append(p, x) \in Seq(Names) \ {<<>>} /\ Front(Append(p, x)) = p /\ Last(Append(p, x)) = x
          /\ Append(p, x) \in Seq(Names)
        BY <1>1, <1>2, AppendPath
    <2>2. FindContainingDir(t, Append(p, x)) = FindDirByPath(t, p)
        BY <2>1 DEF FindContainingDir
    <2>3. FindDir(dir, x) # 0
        BY <1>2, FindDirResult
    <2>4. DirExists(t, Append(p, x))
        BY <1>1, <2>1, <2>2, <2>3 DEF DirExists
    <2>5. FindDirByPath(t, Append(p, x)) \in DOMAIN t
        BY <1>1, <2>1, <2>4, DirExistsIs
    <2> QED BY <1>1, <2>1, <2>5, DirIsNode DEF HasDir
<1> HIDE DEF x
<1>5. n = (<<a, b, c>> \o <<s>>) \o Tail(l)
    <2>1. p \o <<x>> = Append(p, x) /\ q \o <<x>> = Append(q, x)
        BY <1>1, <1>2, DeeperPath
    <2>2. n = (<<On("mkdir", q \o <<x>>), Step("moveAll", p \o <<x>>, q \o <<x>>, FALSE),
                 On("rmdir", p \o <<x>>)>> \o <<s>>) \o Tail(l)
        BY DEF MoveFirstDir, DirSteps, x
    <2> QED BY <2>1, <2>2
<1>6. Append(p, x) \in SomePaths /\ Append(q, x) \in SomePaths /\ Front(Append(q, x)) = q
    BY <1>1, <1>2, AppendPath DEF SomePaths
<1>7. /\ a \in Steps /\ a.do = "mkdir" /\ a.path = Append(q, x)
      /\ b \in Steps /\ b.do = "moveAll" /\ b.path = Append(p, x) /\ b.to = Append(q, x)
      /\ c \in Steps /\ c.do = "rmdir" /\ c.path = Append(p, x)
    BY ONLY <1>6, DirStepsAre DEF a, b, c
<1> HIDE DEF n, a, b, c
<1>8. InFrontOf(n, l) /\ n # <<>> /\ n[1] = a /\ n[2] = b /\ n[3] = c
    BY <1>1, <1>5, <1>7, PutInFront
<1>9. Shape(n)
    <2>1. \A i \in 1 .. 3 : n[i].path = Append(l[1].path, x) \/ (n[i].do = "mkdir" /\ i = 1)
        BY <1>7, <1>8
    <2>2. \A i \in 1 .. 3 : n[i].do \in {"copy", "move", "moveAll"} => n[i].to = Append(l[1].to, x)
        BY <1>7, <1>8
    <2>3. n[1].do = "mkdir" /\ n[2].do = "moveAll" /\ n[3].do = "rmdir"
        BY <1>7, <1>8
    <2> QED BY <1>1, <1>2, <1>8, <2>1, <2>2, <2>3, ShapeOfLonger
<1>11. FileReady(t, a) /\ FileReady(t, b) /\ FileReady(t, c)
    BY <1>7 DEF FileReady
<1>12. ASSUME NEW i \in DOMAIN n PROVE Ready(n, t, i)
    <2>1. CASE i \in {1, 2, 3}
        <3>1. FileReady(t, n[i])
            BY <1>8, <1>11, <2>1
        <3>2. n[i].do = "moveAll" => i = 2
            BY <1>7, <1>8, <2>1
        <3>3. MadeFirst(n, t, 2)
            BY <1>3, <1>7, <1>8 DEF MadeFirst
        <3> QED BY <3>1, <3>2, <3>3 DEF Ready
    <2>2. CASE i \notin {1, 2, 3}
        BY <1>1, <1>8, <2>2, ReadyBehind
    <2> QED BY <2>1, <2>2
<1>13. TodoFor(n, t) /\ ~MovesNext(n)
    BY <1>7, <1>8, <1>9, <1>12 DEF TodoFor, HeadClean, MovesNext
<1>14. Coherent(log, t, n, half)
    BY <1>1, <1>13 DEF Coherent, Agreement
<1> QED BY <1>8, <1>14 DEF n

\* The loops end.
LEMMA TurnsEnd ==
    ASSUME NEW log, NEW t, NEW l, NEW half, Coherent(log, t, l, half), l # <<>>, l[1].do = "moveAll"
    PROVE  Coherent(log, t, Tail(l), half)
<1>1. TodoFor(l, t) /\ Shape(l) /\ ~MovesNext(l)
    BY TurnFacts
<1>2. TodoFor(Tail(l), t) /\ ~MovesNext(Tail(l))
    BY <1>1, RestIsReady, NotMoving DEF SameDirs, SameEmpty
<1> QED BY <1>1, <1>2 DEF Coherent, Agreement

-----------------------------------------------------------------------------
\* The lists of bucse_release, bucse_unlink, bucse_mkdir and bucse_rmdir.
LEMMA ListOfOne ==
    ASSUME NEW a \in Steps, NEW t, a.do \in {"flush", "remove", "mkdir", "rmdir"},
           a.do \in {"flush", "remove"} => Filed(t, a.path) # {}
    PROVE  TodoFor(<<a>>, t) /\ ~MovesNext(<<a>>)
<1> DEFINE l == <<a>>
<1>1. l \in Seq(Steps) /\ DOMAIN l = {1} /\ l[1] = a
    OBVIOUS
<1> HIDE DEF l
<1>2. Shape(l)
    BY <1>1 DEF Shape, Places, Inside, Away
<1>3. Ready(l, t, 1)
    BY <1>1 DEF Ready, FileReady
<1>4. TodoFor(l, t) /\ ~MovesNext(l)
    BY <1>1, <1>2, <1>3 DEF TodoFor, HeadClean, MovesNext
<1> QED BY <1>4 DEF l

LEMMA ListOfTwo ==
    ASSUME NEW a \in Steps, NEW b \in Steps, NEW t, a.do = "flush", b.do = "remove", a.path = b.path,
           Filed(t, a.path) # {}
    PROVE  TodoFor(<<a, b>>, t) /\ ~MovesNext(<<a, b>>)
<1> DEFINE l == <<a, b>>
<1>1. l \in Seq(Steps) /\ DOMAIN l = {1, 2} /\ l[1] = a /\ l[2] = b
    OBVIOUS
<1> HIDE DEF l
<1>2. Shape(l)
    <2>1. Places(l)
        BY <1>1 DEF Places
    <2>2. \A i, j \in DOMAIN l : Inside(l[i], l[j]) /\ Away(l[i], l[j])
        BY <1>1 DEF Inside, Away
    <2> QED BY <1>1, <2>1, <2>2 DEF Shape
<1>3. \A i \in DOMAIN l : Ready(l, t, i)
    BY <1>1 DEF Ready, FileReady
<1>4. TodoFor(l, t) /\ ~MovesNext(l)
    BY <1>1, <1>2, <1>3 DEF TodoFor, HeadClean, MovesNext
<1> QED BY <1>4 DEF l

\* The list of bucse_rename for a file.
LEMMA ListForFile ==
    ASSUME NEW p \in SomePaths, NEW q \in SomePaths, NEW over \in BOOLEAN, NEW t, Apart(p, q),
           Filed(t, p) # {}, HasDir(t, Front(q)), over <=> Filed(t, q) # {}
    PROVE  TodoFor(FileSteps(p, q, over), t) /\ ~MovesNext(FileSteps(p, q, over))
           /\ FileSteps(p, q, over) # <<>>
<1> DEFINE a == On("flush", p)
           b == Step("copy", p, q, over)
           c == Step("move", p, q, over)
           l == <<a, b, c>>
<1>1. /\ a \in Steps /\ a.do = "flush" /\ a.path = p
      /\ b \in Steps /\ b.do = "copy" /\ b.path = p /\ b.to = q /\ b.over = over
      /\ c \in Steps /\ c.do = "move" /\ c.path = p /\ c.to = q /\ c.over = over
      /\ c = Turned(b, "move")
    BY ONLY p \in SomePaths, q \in SomePaths, over \in BOOLEAN, FileStepsAre
<1> HIDE DEF a, b, c
<1>2. l \in Seq(Steps) /\ DOMAIN l = {1, 2, 3} /\ l[1] = a /\ l[2] = b /\ l[3] = c /\ l # <<>>
    BY <1>1
<1>3. b = Turned(c, "copy")
    BY <1>1, CopyAndMove
<1> HIDE DEF l
<1>4. Shape(l)
    <2>1. Places(l)
        <3>1. \A i \in DOMAIN l : l[i].do \in {"flush", "mkdir"} => i = 1
            BY <1>1, <1>2
        <3>2. \A i \in DOMAIN l : l[i].do \in {"remove", "copy"} =>
                i = 1 \/ (i = 2 /\ l[1].do = "flush" /\ l[1].path = l[2].path)
            BY <1>1, <1>2
        <3>3. \A i \in DOMAIN l : l[i].do = "copy" => i + 1 \in DOMAIN l /\ l[i + 1] = Turned(l[i], "move")
            <4>1. \A i \in DOMAIN l : l[i].do = "copy" => i = 2
                BY <1>1, <1>2
            <4> QED BY <1>1, <1>2, <4>1
        <3>4. \A i \in DOMAIN l : l[i].do = "move" => i = 1 \/ l[i - 1] = Turned(l[i], "copy")
            <4>1. \A i \in DOMAIN l : l[i].do = "move" => i = 3
                BY <1>1, <1>2
            <4>2. l[3 - 1] = l[2]
                OBVIOUS
            <4> QED BY <1>2, <1>3, <4>1, <4>2
        <3> QED BY <3>1, <3>2, <3>3, <3>4 DEF Places
    <2>2. \A i, j \in DOMAIN l : Inside(l[i], l[j]) /\ Away(l[i], l[j])
        BY <1>1, <1>2 DEF Inside, Away
    <2> QED BY <1>2, <2>1, <2>2 DEF Shape
<1>5. \A i \in DOMAIN l : Ready(l, t, i)
    BY <1>1, <1>2 DEF Ready, FileReady
<1>6. TodoFor(l, t) /\ ~MovesNext(l)
    BY <1>1, <1>2, <1>4, <1>5 DEF TodoFor, HeadClean, MovesNext
<1> QED BY <1>2, <1>6 DEF l, a, b, c, FileSteps

\* The list of bucse_rename for a directory.
LEMMA ListForDir ==
    ASSUME NEW p \in SomePaths, NEW q \in SomePaths, NEW t, Apart(p, q), HasDir(t, p)
    PROVE  TodoFor(DirSteps(p, q), t) /\ ~MovesNext(DirSteps(p, q)) /\ DirSteps(p, q) # <<>>
<1> DEFINE a == On("mkdir", q)
           b == Step("moveAll", p, q, FALSE)
           c == On("rmdir", p)
           l == <<a, b, c>>
<1>1. /\ a \in Steps /\ a.do = "mkdir" /\ a.path = q
      /\ b \in Steps /\ b.do = "moveAll" /\ b.path = p /\ b.to = q
      /\ c \in Steps /\ c.do = "rmdir" /\ c.path = p
    BY ONLY p \in SomePaths, q \in SomePaths, DirStepsAre
<1> HIDE DEF a, b, c
<1>2. l \in Seq(Steps) /\ DOMAIN l = {1, 2, 3} /\ l[1] = a /\ l[2] = b /\ l[3] = c /\ l # <<>>
    BY <1>1
<1> HIDE DEF l
<1>4. Shape(l)
    <2>1. Places(l)
        BY <1>1, <1>2 DEF Places
    <2>2. \A i, j \in DOMAIN l : i < j => Inside(l[i], l[j])
        BY <1>1, <1>2 DEF Inside
    <2>3. \A i, j \in DOMAIN l : Away(l[i], l[j])
        BY <1>1, <1>2 DEF Away
    <2> QED BY <1>2, <2>1, <2>2, <2>3 DEF Shape
<1>5. \A i \in DOMAIN l : Ready(l, t, i)
    BY <1>1, <1>2 DEF Ready, FileReady, MadeFirst
<1>6. TodoFor(l, t) /\ ~MovesNext(l)
    BY <1>1, <1>2, <1>4, <1>5 DEF TodoFor, HeadClean, MovesNext
<1> QED BY <1>2, <1>6 DEF l, a, b, c, DirSteps

\* A request begins with its list.
LEMMA Begins ==
    ASSUME NEW log, NEW t, NEW half, Coherent(log, t, <<>>, half),
           NEW l, l = <<>> \/ (TodoFor(l, t) /\ ~MovesNext(l))
    PROVE  Coherent(log, t, l, half)
<1>1. ~MovesNext(<<>>)
    BY DEF MovesNext
<1> QED BY <1>1 DEF Coherent, Agreement

\* A file changes in memory only.
LEMMA InMemoryOnly ==
    ASSUME NEW log, NEW t, NEW half, Coherent(log, t, <<>>, half),
           NEW p \in Seq(Names) \ {<<>>}, NEW u, NEW g, FileUpdate(t, u, p, {g}), Dirty(g),
           g.create <=> \A f \in Filed(t, p) : f.create
    PROVE  Coherent(log, u, <<>>, half)
<1>1. IsTree(u) /\ SameDirs(t, u)
    BY DEF FileUpdate, SameDirs, HasDir
<1>2. log \in Seq(Actions) /\ TimesOf(log) /\ OrdersAgree(log, t) /\ TodoFor(<<>>, t) /\ ~MovesNext(<<>>)
    BY DEF Coherent, Agreement, MovesNext
<1>3. TodoFor(<<>>, u)
    <2>1. DOMAIN <<>> = {}
        OBVIOUS
    <2> QED BY <1>2, <2>1 DEF TodoFor, HeadClean
<1>4. OrdersAgree(log, u)
    BY <1>1, <1>2 DEF OrdersAgree, SameDirs
<1>5. ASSUME ~half, Filed(t, p) = {} \/ \E f : Filed(t, p) = {f}
      PROVE FilesAgree(Replay(log), u)
    <2> DEFINE m == Replay(log)
    <2>1. FilesAgree(m, t)
        BY <1>2, <1>5 DEF Coherent, Agreement
    <2> HIDE DEF m
    <2>2. Filed(u, p) = {g}
        BY DEF FileUpdate
    <2>3. \A q \in Seq(Names) \ {<<>>} : q # p => Filed(m, q) = Filed(m, q) /\ Filed(u, q) = Filed(t, q)
        BY DEF FileUpdate
    <2>4. Filed(m, p) # {} <=> \E f \in Filed(t, p) : ~f.create
        BY <2>1, FilesAgreeAt
    <2>5. Filed(m, p) # {} <=> \E f \in Filed(u, p) : ~f.create
        BY <2>2, <2>4
    <2>6. \A f \in Filed(u, p) : ~Dirty(f) => Filed(m, p) = {f}
        BY <2>2
    <2>7. FilesAgree(m, u)
        BY <2>1, <2>3, <2>5, <2>6, AgreeElsewhere
    <2> QED BY <2>7 DEF m
<1>6. Filed(t, p) = {} \/ \E f : Filed(t, p) = {f}
    BY DEF Filed
<1> QED BY <1>1, <1>2, <1>3, <1>4, <1>5, <1>6 DEF Coherent, Agreement

\* A mount: the tree is the replay of one of the orders.
LEMMA Mounts ==
    ASSUME NEW log, NEW t, NEW l, NEW half, Coherent(log, t, l, half), NEW k \in MountOrders(log)
    PROVE  Coherent(log, Replay(k), <<>>, FALSE)
<1> DEFINE u == Replay(k)
<1>1. log \in Seq(Actions) /\ TimesOf(log) /\ OrdersAgree(log, t)
    BY DEF Coherent, Agreement
<1>2. IsTree(u) /\ AllClean(u) /\ SameDirs(u, t) /\ SameView(Replay(log), u)
    BY <1>1 DEF OrdersAgree
<1> HIDE DEF u
<1>3. OrdersAgree(log, u)
    BY <1>1, <1>2 DEF OrdersAgree, SameDirs
<1>4. FilesAgree(Replay(log), u)
    <2> DEFINE m == Replay(log)
    <2>1. SameView(m, u)
        BY <1>2
    <2> HIDE DEF m
    <2>2. ASSUME NEW p \in Seq(Names) \ {<<>>}
          PROVE  /\ Filed(m, p) # {} <=> \E f \in Filed(u, p) : ~f.create
                 /\ \A f \in Filed(u, p) : ~Dirty(f) => Filed(m, p) = {f}
        <3>1. Filed(m, p) = Filed(u, p)
            BY <2>1 DEF SameView
        <3>2. \A f \in Filed(u, p) : ~Dirty(f)
            BY <1>2 DEF AllClean
        <3>3. \A f \in Filed(u, p) : ~f.create
            BY <3>2 DEF Dirty
        <3>4. Filed(u, p) = {} \/ \E f : Filed(u, p) = {f}
            BY DEF Filed
        <3> QED BY <3>1, <3>3, <3>4
    <2>3. FilesAgree(m, u)
        BY <2>2 DEF FilesAgree
    <2> QED BY <2>3 DEF m
<1>5. TodoFor(<<>>, u)
    <2>1. <<>> \in Seq(Steps) /\ DOMAIN <<>> = {}
        OBVIOUS
    <2>2. Shape(<<>>)
        BY <2>1 DEF Shape, Places
    <2> QED BY <2>1, <2>2 DEF TodoFor, HeadClean
<1>6. ~MovesNext(<<>>)
    BY DEF MovesNext
<1>7. Coherent(log, u, <<>>, FALSE)
    BY <1>1, <1>2, <1>3, <1>4, <1>5, <1>6 DEF Coherent, Agreement
<1> QED BY <1>7 DEF u

-----------------------------------------------------------------------------
\* Nothing of a replay waits for a flush.
CleanFiles(files) == \A k \in DOMAIN files : ~files[k].create /\ ~files[k].write
CleanTree(t) == \A n \in DOMAIN t : CleanFiles(t[n].files)

LEMMA SetFilesClean ==
    ASSUME NEW t, TreeOK(t), CleanTree(t), NEW d \in DOMAIN t, NEW files, CleanFiles(files)
    PROVE  CleanTree(SetFiles(t, d, files))
<1> DEFINE dir == [files |-> files, dirs |-> t[d].dirs]
           u == [t EXCEPT ![d] = dir]
<1>1. /\ DOMAIN u = DOMAIN t /\ u[d] = dir /\ \A n \in DOMAIN t : n # d => u[n] = t[n]
      /\ dir.files = files
    OBVIOUS
<1> HIDE DEF u, dir
<1>2. CleanTree(u)
    <2>1. ASSUME NEW n \in DOMAIN u PROVE CleanFiles(u[n].files)
        BY <1>1 DEF CleanTree
    <2> QED BY <2>1 DEF CleanTree
<1> QED BY <1>2 DEF SetFiles, u, dir

LEMMA SetDirsClean ==
    ASSUME NEW t, CleanTree(t), NEW d \in DOMAIN t, NEW dirs
    PROVE  CleanTree(SetDirs(t, d, dirs)) /\ DOMAIN SetDirs(t, d, dirs) = DOMAIN t
<1> DEFINE dir == [files |-> t[d].files, dirs |-> dirs]
           u == [t EXCEPT ![d] = dir]
<1>1. /\ DOMAIN u = DOMAIN t /\ u[d] = dir /\ \A n \in DOMAIN t : n # d => u[n] = t[n]
      /\ dir.files = t[d].files
    OBVIOUS
<1> HIDE DEF u, dir
<1>2. CleanTree(u) /\ DOMAIN u = DOMAIN t
    <2>1. ASSUME NEW n \in DOMAIN u PROVE CleanFiles(u[n].files)
        BY <1>1 DEF CleanTree
    <2> QED BY <1>1, <2>1 DEF CleanTree
<1> QED BY <1>2 DEF SetDirs, u, dir

\* The updates doAction makes.
LEMMA CleanUpdates ==
    ASSUME NEW t, TreeOK(t), CleanTree(t), NEW d \in DOMAIN t, NEW name, NEW c
    PROVE  /\ CleanTree(AddFileTo(t, d, CleanFile(name, c)))
           /\ CleanTree(SetFile(t, d, name, CleanFile(name, c)))
           /\ CleanTree(RemoveFileFrom(t, d, name))
           /\ CleanTree(AddDirTo(t, d, name))
           /\ CleanTree(RemoveDirFrom(t, d, name))
<1> DEFINE files == t[d].files
           k == FindFile(t[d], name)
           f == CleanFile(name, c)
<1>1. files \in Seq(Files) /\ CleanFiles(files) /\ ~f.create /\ ~f.write
    BY DirOK, CleanFileIs DEF CleanTree
<1> HIDE DEF files, k, f
<1>2. CleanTree(AddFileTo(t, d, f))
    <2> DEFINE more == Append(files, f)
    <2>1. DOMAIN more = 1 .. Len(files) + 1 /\ DOMAIN files = 1 .. Len(files) /\ Len(files) \in Nat
          /\ more[Len(files) + 1] = f /\ \A l \in 1 .. Len(files) : more[l] = files[l]
        BY <1>1
    <2> HIDE DEF more
    <2>2. CleanFiles(more)
        <3>1. ASSUME NEW l \in DOMAIN more PROVE ~more[l].create /\ ~more[l].write
            <4>1. l \in DOMAIN files \/ l = Len(files) + 1
                BY <2>1
            <4> QED BY <1>1, <2>1, <4>1 DEF CleanFiles
        <3> QED BY <3>1 DEF CleanFiles
    <2> QED BY <2>2, SetFilesClean DEF AddFileTo, more, files
<1>3. CleanTree(SetFile(t, d, name, f))
    <2> DEFINE now == [files EXCEPT ![k] = f]
    <2>1. DOMAIN now = DOMAIN files /\ \A l \in DOMAIN now : now[l] = f \/ now[l] = files[l]
        OBVIOUS
    <2> HIDE DEF now
    <2>2. CleanFiles(now)
        BY <1>1, <2>1 DEF CleanFiles
    <2> QED BY <2>2, SetFilesClean DEF SetFile, now, files, k
<1>4. CleanTree(RemoveFileFrom(t, d, name))
    <2> DEFINE less == RemoveUnordered(files, k)
    <2>1. \A m \in DOMAIN less : \E l \in DOMAIN files : less[m] = files[l]
        BY <1>1, RemoveUnorderedType
    <2> HIDE DEF less
    <2>2. CleanFiles(less)
        BY <1>1, <2>1 DEF CleanFiles
    <2> QED BY <2>2, SetFilesClean DEF RemoveFileFrom, less, files, k
<1>5. CleanTree(AddDirTo(t, d, name))
    <2> DEFINE bigger == Append(t, EmptyDir)
               dirs == Append(t[d].dirs, [name |-> name, node |-> Len(t) + 1])
    <2>1. t \in Seq(Dirs) /\ EmptyDir \in Dirs
        BY DEF TreeOK, EmptyDir, Dirs
    <2>2. DOMAIN bigger = 1 .. Len(t) + 1 /\ DOMAIN t = 1 .. Len(t) /\ Len(t) \in Nat
          /\ bigger[Len(t) + 1] = EmptyDir /\ \A n \in 1 .. Len(t) : bigger[n] = t[n]
        BY <2>1
    <2> HIDE DEF bigger, dirs
    <2>3. CleanFiles(EmptyDir.files)
        <3>1. EmptyDir.files = <<>> /\ DOMAIN <<>> = {}
            BY DEF EmptyDir
        <3> QED BY <3>1 DEF CleanFiles
    <2>4. CleanTree(bigger)
        <3>1. ASSUME NEW n \in DOMAIN bigger PROVE CleanFiles(bigger[n].files)
            <4>1. n \in DOMAIN t \/ n = Len(t) + 1
                BY <2>2
            <4> QED BY <2>2, <2>3, <4>1 DEF CleanTree
        <3> QED BY <3>1 DEF CleanTree
    <2>5. d \in DOMAIN bigger
        BY <2>2
    <2>6. CleanTree(SetDirs(bigger, d, dirs))
        BY <2>4, <2>5, SetDirsClean
    <2> QED BY <2>6 DEF AddDirTo, bigger, dirs
<1>6. CleanTree(RemoveDirFrom(t, d, name))
    <2> DEFINE l == FindDir(t[d], name)
               gone == t[d].dirs[l].node
               dirs == RemoveUnordered(t[d].dirs, l)
               smaller == SetDirs(t, d, dirs)
               u == [smaller EXCEPT ![gone] = EmptyDir]
    <2> HIDE DEF l, gone, dirs
    <2>1. CleanTree(smaller)
        BY SetDirsClean
    <2> HIDE DEF smaller
    <2>2. DOMAIN u = DOMAIN smaller /\ \A n \in DOMAIN u : u[n] = EmptyDir \/ u[n] = smaller[n]
        OBVIOUS
    <2> HIDE DEF u
    <2>3. CleanFiles(EmptyDir.files)
        <3>1. EmptyDir.files = <<>> /\ DOMAIN <<>> = {}
            BY DEF EmptyDir
        <3> QED BY <3>1 DEF CleanFiles
    <2>4. CleanTree(u)
        BY <2>1, <2>2, <2>3 DEF CleanTree
    <2> QED BY <2>4 DEF RemoveDirFrom, u, smaller, dirs, gone, l
<1> QED BY <1>2, <1>3, <1>4, <1>5, <1>6 DEF f

LEMMA DoActionClean ==
    ASSUME NEW t, TreeOK(t), CleanTree(t), NEW a, ActionShape(a)
    PROVE  TreeOK(DoAction(t, a)) /\ CleanTree(DoAction(t, a))
<1> DEFINE d == FindContainingDir(t, a.path)
           name == Last(a.path)
           c == a.content
<1>1. TreeOK(DoAction(t, a))
    BY DoActionOK DEF ActionShape
<1>2. CASE ~CanDo(t, a)
    BY <1>1, <1>2 DEF DoAction
<1>3. CASE CanDo(t, a)
    <2>1. d \in DOMAIN t
        BY <1>3 DEF CanDo
    <2>2. \/ DoAction(t, a) = AddFileTo(t, d, CleanFile(name, c))
          \/ DoAction(t, a) = SetFile(t, d, name, CleanFile(name, c))
          \/ DoAction(t, a) = RemoveFileFrom(t, d, name)
          \/ DoAction(t, a) = AddDirTo(t, d, name)
          \/ DoAction(t, a) = RemoveDirFrom(t, d, name)
        BY <1>3 DEF DoAction, ActionShape, ActionTypes, AddFile, EditFile, RemoveFile, AddDirectory, RemoveDirectory
    <2> HIDE DEF d, name, c
    <2> QED BY <1>1, <2>1, <2>2, CleanUpdates
<1> QED BY <1>2, <1>3

\* By the shortest log whose replay is not clean.
LEMMA ReplayClean ==
    ASSUME NEW log \in Seq(Actions)
    PROVE  TreeOK(Replay(log)) /\ CleanTree(Replay(log))
<1> DEFINE N == Len(log)
<1>1. N \in Nat /\ \A n \in 1 .. N : log[n] \in Actions
    BY ElementOfSeq
<1>2. PICK g : ReplaysUpTo(g, log, N) /\ Replay(log) = g[1 .. N]
    BY ReplayIs
<1> HIDE DEF N
<1> DEFINE Good(n) == TreeOK(g[1 .. n]) /\ CleanTree(g[1 .. n])
           Bad == {n \in Nat : n <= N /\ ~Good(n)}
<1>3. Bad = {}
    <2> SUFFICES ASSUME Bad # {} PROVE FALSE
        OBVIOUS
    <2>1. PICK n \in Bad : \A m \in Bad : n <= m
        BY LeastNatural
    <2>2. n \in Nat /\ n <= N /\ ~Good(n)
        BY <2>1
    <2>3. CASE n = 0
        <3>1. g[1 .. n] = EmptyTree
            <4>1. 1 .. n = {}
                BY <2>3
            <4>2. {} \in SUBSET (1 .. N)
                OBVIOUS
            <4> QED BY <1>2, <4>1, <4>2 DEF ReplaysUpTo
        <3>2. /\ EmptyTree \in Seq(Dirs) /\ DOMAIN EmptyTree = {1} /\ EmptyTree[1] = EmptyDir
              /\ EmptyDir.files = <<>> /\ EmptyDir.dirs = <<>> /\ DOMAIN <<>> = {}
            BY DEF EmptyTree, EmptyDir, Dirs
        <3>3. TreeOK(EmptyTree) /\ CleanTree(EmptyTree)
            BY <3>2 DEF TreeOK, CleanTree, CleanFiles, Root
        <3> QED BY <2>2, <3>1, <3>3
    <2>4. CASE n # 0
        <3> DEFINE m == n - 1
        <3>1. m \in Nat /\ m <= N /\ n = m + 1 /\ ~(n <= m) /\ n \in 1 .. N
            BY <1>1, <2>2, <2>4
        <3>2. m \notin Bad
            BY <2>1, <3>1
        <3>3. Good(m)
            BY <3>1, <3>2
        <3>4. g[1 .. n] = DoAction(g[1 .. m], log[n])
            <4>1. 1 .. n # {} /\ n \in 1 .. n /\ (1 .. n) \ {n} = 1 .. m /\ (1 .. n) \in SUBSET (1 .. N)
                BY <3>1, <1>1
            <4>2. Max(1 .. n) = n
                BY <2>2, <4>1, MaxIs
            <4>3. g[1 .. n] = IF 1 .. n = {} THEN EmptyTree
                              ELSE DoAction(g[(1 .. n) \ {Max(1 .. n)}], log[Max(1 .. n)])
                BY <1>2, <4>1 DEF ReplaysUpTo
            <4> QED BY <4>1, <4>2, <4>3
        <3>5. ActionShape(log[n])
            BY <1>1, <3>1, ActionsHaveShape
        <3> HIDE DEF m
        <3>6. Good(n)
            BY <3>3, <3>4, <3>5, DoActionClean
        <3> QED BY <2>2, <3>6
    <2> QED BY <2>3, <2>4
<1>4. N \notin Bad /\ N <= N
    BY <1>1, <1>3
<1>5. Good(N)
    BY <1>1, <1>4
<1> QED BY <1>2, <1>5 DEF N

LEMMA CleanTreeIs ==
    ASSUME NEW t, IsTree(t), CleanTree(t)
    PROVE  AllClean(t)
<1>1. ASSUME NEW p \in Seq(Names) \ {<<>>}, NEW f \in Filed(t, p) PROVE ~Dirty(f)
    <2> DEFINE d == FindContainingDir(t, p)
    <2>1. d \in DOMAIN t /\ f \in Named(t[d].files, Last(p))
        BY <1>1, FiledIs
    <2>2. PICK k \in DOMAIN t[d].files : f = t[d].files[k]
        BY <2>1 DEF Named
    <2>3. CleanFiles(t[d].files)
        BY <2>1 DEF CleanTree
    <2> QED BY <2>2, <2>3 DEF CleanFiles, Dirty
<1> QED BY <1>1 DEF AllClean

\* Where all times differ there is one order.
LEMMA OneOrder ==
    ASSUME NEW log \in Seq(Actions), PairsOf(log) = {}
    PROVE  MountOrders(log) = {log}
<1>1. SwappedAt(log, {}) = log
    <2>1. log = [n \in DOMAIN log |-> log[n]]
        OBVIOUS
    <2>2. SwappedAt(log, {}) = [n \in DOMAIN log |-> log[n]]
        BY DEF SwappedAt
    <2> QED BY <2>1, <2>2
<1>2. SUBSET PairsOf(log) = {{}}
    OBVIOUS
<1>3. MountOrders(log) = {SwappedAt(log, S) : S \in {{}}}
    BY <1>2, OrdersAre
<1> QED BY <1>1, <1>3

-----------------------------------------------------------------------------
Modes == {"r", "w"}
RequestOK ==
    /\ todo = <<>> <=> request = NoRequest
    /\ request.op = "rename" => request.path \in Seq(Names) /\ request.to \in Seq(Names)
IInv ==
    /\ Coherent(stored, tree, todo, halfMoved)
    /\ halfMoved \in BOOLEAN
    /\ open \subseteq Seq(Names) \X Modes
    /\ RequestOK

LEMMA TargetsArePaths ==
    ASSUME NEW p \in Targets
    PROVE  p \in Paths /\ p \in Seq(Names) \ {<<>>} /\ p \in Seq(Names) /\ p \in SomePaths
BY PathsAssumption DEF SomePaths

LEMMA EmptyTodo ==
    ASSUME NEW t
    PROVE  TodoFor(<<>>, t) /\ ~MovesNext(<<>>)
<1>1. <<>> \in Seq(Steps) /\ DOMAIN <<>> = {}
    OBVIOUS
<1>2. Shape(<<>>)
    BY <1>1 DEF Shape, Places
<1> QED BY <1>1, <1>2 DEF TodoFor, HeadClean, MovesNext

\* The first mount.
LEMMA StartIsCoherent == Init => IInv
<1> SUFFICES ASSUME Init PROVE IInv
    OBVIOUS
<1>1. /\ StartLog \in Seq(Actions) /\ TimesOf(StartLog) /\ PairsOf(StartLog) = {}
      /\ IsTree(Replay(StartLog))
    BY RepositoryAssumption, StartAssumption DEF TimesOf, PairsOf
<1>2. MountOrders(StartLog) = {StartLog}
    BY <1>1, OneOrder
<1>3. stored = StartLog /\ tree = Replay(StartLog)
    BY <1>2 DEF Init
<1>4. AllClean(tree) /\ IsTree(tree)
    BY <1>1, <1>3, ReplayClean, CleanTreeIs
<1>5. SameDirs(tree, tree) /\ SameView(tree, tree)
    BY DEF SameDirs, SameView
<1>6. OrdersAgree(stored, tree)
    BY <1>2, <1>3, <1>4, <1>5 DEF OrdersAgree
<1>7. TodoFor(<<>>, tree) /\ ~MovesNext(<<>>)
    BY EmptyTodo
<1>8. FilesAgree(Replay(stored), tree)
    <2>1. ASSUME NEW p \in Seq(Names) \ {<<>>}
          PROVE  /\ Filed(tree, p) # {} <=> \E f \in Filed(tree, p) : ~f.create
                 /\ \A f \in Filed(tree, p) : ~Dirty(f) => Filed(tree, p) = {f}
        <3>1. Filed(tree, p) = {} \/ \E f : Filed(tree, p) = {f}
            BY DEF Filed
        <3>2. \A f \in Filed(tree, p) : ~f.create
            BY <1>4 DEF AllClean, Dirty
        <3> QED BY <3>1, <3>2
    <2> QED BY <1>3, <2>1 DEF FilesAgree
<1>9. Coherent(stored, tree, <<>>, FALSE)
    BY <1>1, <1>3, <1>4, <1>6, <1>7, <1>8 DEF Coherent, Agreement
<1>10. open = {} /\ todo = <<>> /\ request = NoRequest /\ halfMoved = FALSE
    BY DEF Init
<1>11. RequestOK
    BY <1>10 DEF RequestOK, NoRequest
<1> QED BY <1>9, <1>10, <1>11 DEF IInv

\* What the parts of the actions keep.
LEMMA BeginKeeps ==
    ASSUME IInv, NEW op, op # "none", NEW p \in Seq(Names), NEW q \in Seq(Names), NEW l,
           Begin(op, p, q, l), l = <<>> \/ (TodoFor(l, tree) /\ ~MovesNext(l)),
           open' \subseteq open
    PROVE  IInv'
<1>1. /\ todo = <<>> /\ todo' = l /\ tree' = tree /\ stored' = stored /\ halfMoved' = halfMoved
      /\ request' = IF l = <<>> THEN NoRequest
                    ELSE [op |-> op, path |-> p, to |-> q, tree |-> tree, stored |-> Len(stored)]
    BY DEF Begin, Idle
<1>2. Coherent(stored', tree', todo', halfMoved')
    BY <1>1, Begins DEF IInv
<1>3. RequestOK'
    <2>1. CASE l = <<>>
        BY <1>1, <2>1 DEF RequestOK, NoRequest
    <2>2. CASE l # <<>>
        <3>1. request'.op = op /\ request'.path = p /\ request'.to = q
            BY <1>1, <2>2
        <3>2. NoRequest.op = "none"
            BY DEF NoRequest
        <3>3. request' # NoRequest
            BY <3>1, <3>2
        <3> QED BY <1>1, <2>2, <3>1, <3>3 DEF RequestOK
    <2> QED BY <2>1, <2>2
<1>4. halfMoved' \in BOOLEAN /\ open' \subseteq Seq(Names) \X Modes
    BY <1>1 DEF IInv
<1> QED BY <1>2, <1>3, <1>4 DEF IInv

\* The handles that follow a renamed file.
LEMMA FollowsType ==
    ASSUME NEW h \in Seq(Names) \X Modes, NEW p \in Seq(Names), NEW q \in Seq(Names)
    PROVE  Follows(h, p, q) \in Seq(Names) \X Modes
<1>1. h[1] \in Seq(Names) /\ h[2] \in Modes
    OBVIOUS
<1> DEFINE s == SubSeq(h[1], Len(p) + 1, Len(h[1]))
           r == h[1]
<1>2. s \in Seq(Names)
    <2>1. r \in Seq(Names) /\ Len(p) \in Nat
        BY <1>1
    <2> HIDE DEF r
    <2>2. Len(r) \in Nat /\ \A i \in 1 .. Len(r) : r[i] \in Names
        BY <2>1, ElementOfSeq
    <2>3. \A i \in Len(p) + 1 .. Len(r) : r[i] \in Names
        BY <2>1, <2>2
    <2>4. SubSeq(r, Len(p) + 1, Len(r)) \in Seq(Names)
        BY <2>1, <2>2, <2>3, SubSeqProperties
    <2> QED BY <2>4 DEF r
<1> HIDE DEF s
<1>3. q \o s \in Seq(Names)
    BY <1>2, ConcatProperties
<1>4. <<q \o s, h[2]>> \in Seq(Names) \X Modes
    BY <1>1, <1>3
<1> QED BY <1>4 DEF Follows, s

LEMMA ContinueKeeps ==
    ASSUME IInv, todo # <<>>, NEW steps, Continue(steps), halfMoved' = halfMoved,
           Coherent(stored', tree', steps \o Tail(todo), halfMoved)
    PROVE  IInv'
<1>1. /\ todo' = steps \o Tail(todo)
      /\ request' = IF todo' = <<>> THEN NoRequest ELSE request
      /\ open' = IF todo' = <<>> /\ request.op = "rename"
                 THEN {Follows(h, request.path, request.to) : h \in open} ELSE open
    BY DEF Continue
<1>2. Coherent(stored', tree', todo', halfMoved')
    BY <1>1
<1>3. RequestOK'
    <2>1. CASE todo' = <<>>
        BY <1>1, <2>1 DEF RequestOK, NoRequest
    <2>2. CASE todo' # <<>>
        BY <1>1, <2>2 DEF IInv, RequestOK
    <2> QED BY <2>1, <2>2
<1>4. open' \subseteq Seq(Names) \X Modes
    <2>1. CASE todo' = <<>> /\ request.op = "rename"
        <3>1. request.path \in Seq(Names) /\ request.to \in Seq(Names)
            BY <2>1 DEF IInv, RequestOK
        <3>2. ASSUME NEW h \in open PROVE Follows(h, request.path, request.to) \in Seq(Names) \X Modes
            <4>1. h \in Seq(Names) \X Modes
                BY DEF IInv
            <4> QED BY <3>1, <4>1, FollowsType
        <3> QED BY <1>1, <2>1, <3>2
    <2>2. CASE ~(todo' = <<>> /\ request.op = "rename")
        BY <1>1, <2>2 DEF IInv
    <2> QED BY <2>1, <2>2
<1>5. halfMoved' \in BOOLEAN
    BY DEF IInv
<1> QED BY <1>2, <1>3, <1>4, <1>5 DEF IInv

LEMMA NothingMore ==
    ASSUME NEW l \in Seq(Steps), l # <<>>
    PROVE  <<>> \o Tail(l) = Tail(l)
<1>1. Tail(l) \in Seq(Steps)
    BY ListFacts
<1> QED BY <1>1, ConcatEmptySeq

\* What the invariant says of the list.
LEMMA TodoIs ==
    ASSUME IInv
    PROVE  /\ todo \in Seq(Steps) /\ Shape(todo) /\ TodoFor(todo, tree) /\ IsTree(tree)
           /\ stored \in Seq(Actions) /\ Len(stored) \in Nat
           /\ todo # <<>> => Head(todo) = todo[1] /\ <<>> \o Tail(todo) = Tail(todo)
<1>1. /\ todo \in Seq(Steps) /\ Shape(todo) /\ TodoFor(todo, tree) /\ IsTree(tree)
      /\ stored \in Seq(Actions)
    BY DEF IInv, Coherent, TodoFor, Shape
<1>2. Len(stored) \in Nat
    BY <1>1, LenProperties
<1>3. todo # <<>> => Head(todo) = todo[1] /\ <<>> \o Tail(todo) = Tail(todo)
    BY <1>1, ListFacts, NothingMore
<1> QED BY <1>1, <1>2, <1>3

LEMMA StoreKeeps ==
    ASSUME IInv, todo # <<>>, NEW time, NEW type, NEW p, NEW c, NEW u,
           Store(time, type, p, c, u),
           Coherent(Append(stored, [time |-> time, type |-> type, path |-> p, content |-> c]),
                    u, Tail(todo), halfMoved)
    PROVE  IInv'
<1>1. /\ stored' = Append(stored, [time |-> time, type |-> type, path |-> p, content |-> c])
      /\ tree' = u /\ Continue(<<>>) /\ halfMoved' = halfMoved
    BY DEF Store
<1>2. <<>> \o Tail(todo) = Tail(todo)
    BY TodoIs
<1> QED BY <1>1, <1>2, ContinueKeeps

LEMMA AbortKeeps ==
    ASSUME IInv, NEW error, Abort(error), tree' = tree, stored' = stored,
           \/ halfMoved' = halfMoved /\ ~MovesNext(todo)
           \/ halfMoved' = TRUE
    PROVE  IInv'
<1>1. todo' = <<>> /\ request' = NoRequest /\ open' = open
    BY DEF Abort
<1>2. halfMoved' \in BOOLEAN /\ (~halfMoved' => ~halfMoved /\ ~MovesNext(todo))
    BY DEF IInv
<1>3. Coherent(stored, tree, <<>>, halfMoved')
    <2>1. Coherent(stored, tree, todo, halfMoved)
        BY DEF IInv
    <2> QED BY <1>2, <2>1, GivenUp
<1>4. RequestOK'
    BY <1>1 DEF RequestOK, NoRequest
<1> QED BY <1>1, <1>2, <1>3, <1>4 DEF IInv

LEMMA FailsKeeps ==
    ASSUME IInv, StoreFails,
           \/ halfMoved' = halfMoved /\ ~MovesNext(todo)
           \/ halfMoved' = TRUE
    PROVE  IInv'
<1>1. Abort("EIO") /\ tree' = tree /\ stored' = stored
    BY DEF StoreFails
<1> QED BY <1>1, AbortKeeps

-----------------------------------------------------------------------------
\* What a request finds.
LEMMA AtIdle ==
    ASSUME IInv, todo = <<>>
    PROVE  Coherent(stored, tree, <<>>, halfMoved) /\ IsTree(tree) /\ request = NoRequest
BY DEF IInv, Coherent, RequestOK

\* A file a request names.
LEMMA FileThere ==
    ASSUME NEW t, IsTree(t), NEW p \in SomePaths, FileExists(t, p)
    PROVE  /\ Filed(t, p) = {FileAt(t, p)} /\ FileAt(t, p) \in Files
           /\ FileAt(t, p).name = Last(p) /\ FileAt(t, p).content \in ContentOf
BY FiledOfDir DEF SomePaths, Files

\* The file bucse_create adds, and the one a write leaves.
LEMMA NewFileIs ==
    ASSUME NEW name \in Names, NEW c \in ContentOf
    PROVE  LET f == [CleanFile(name, c) EXCEPT !.create = TRUE]
           IN f \in Files /\ f.name = name /\ f.create /\ Dirty(f)
<1> DEFINE h == CleanFile(name, c)
<1>1. h \in Files /\ h.name = name
    BY DEF CleanFile, Files
<1> HIDE DEF h
<1>2. /\ [h EXCEPT !.create = TRUE] \in Files /\ [h EXCEPT !.create = TRUE].name = name
      /\ [h EXCEPT !.create = TRUE].create
    BY <1>1 DEF Files
<1> QED BY <1>2 DEF h, Dirty

LEMMA WrittenIs ==
    ASSUME NEW h \in Files, NEW c \in ContentOf
    PROVE  LET f == [h EXCEPT !.content = c, !.write = TRUE]
           IN f \in Files /\ f.name = h.name /\ f.create = h.create /\ Dirty(f)
<1>1. /\ [h EXCEPT !.content = c, !.write = TRUE] \in Files
      /\ [h EXCEPT !.content = c, !.write = TRUE].name = h.name
      /\ [h EXCEPT !.content = c, !.write = TRUE].create = h.create
      /\ [h EXCEPT !.content = c, !.write = TRUE].write
    BY DEF Files
<1> QED BY <1>1 DEF Dirty

LEMMA OnIs ==
    ASSUME NEW do \in Kinds, NEW p \in SomePaths
    PROVE  On(do, p) \in Steps /\ On(do, p).do = do /\ On(do, p).path = p
BY StepNotOver DEF On

LEMMA FlushOfIs ==
    ASSUME NEW p \in SomePaths
    PROVE  FlushOf(p) = <<>> \/ (FlushOf(p) = <<On("flush", p)>> /\ FileExists(tree, p))
BY DEF FlushOf

\* What bucse_release, bucse_getattr and bucse_unlink have to do.
LEMMA FlushList ==
    ASSUME IInv, NEW p \in SomePaths
    PROVE  FlushOf(p) = <<>> \/ (TodoFor(FlushOf(p), tree) /\ ~MovesNext(FlushOf(p)))
<1>1. CASE FlushOf(p) = <<>>
    BY <1>1
<1>2. CASE FlushOf(p) = <<On("flush", p)>> /\ FileExists(tree, p)
    <2> DEFINE a == On("flush", p)
    <2>1. a \in Steps /\ a.do = "flush" /\ a.path = p
        BY OnIs DEF Kinds
    <2>2. Filed(tree, p) # {}
        BY <1>2, TodoIs, FileThere
    <2> HIDE DEF a
    <2>3. TodoFor(<<a>>, tree) /\ ~MovesNext(<<a>>)
        BY <2>1, <2>2, ListOfOne
    <2> QED BY <1>2, <2>3 DEF a
<1> QED BY <1>1, <1>2, FlushOfIs

LEMMA UnlinkList ==
    ASSUME IInv, NEW p \in SomePaths, FileExists(tree, p)
    PROVE  LET l == FlushOf(p) \o <<On("remove", p)>> IN TodoFor(l, tree) /\ ~MovesNext(l)
<1> DEFINE a == On("flush", p)
           b == On("remove", p)
<1>1. /\ a \in Steps /\ a.do = "flush" /\ a.path = p
      /\ b \in Steps /\ b.do = "remove" /\ b.path = p
    BY OnIs DEF Kinds
<1>2. Filed(tree, p) # {}
    BY TodoIs, FileThere
<1>3. FlushOf(p) = <<>> \/ FlushOf(p) = <<a>>
    BY FlushOfIs
<1> HIDE DEF a, b
<1>4. <<>> \o <<b>> = <<b>>
    BY <1>1
<1>8. <<a>> \o <<b>> = <<a, b>>
    <2>1. <<a>> \in Seq(Steps) /\ <<b>> \in Seq(Steps) /\ Len(<<a>>) = 1 /\ Len(<<b>>) = 1
        BY <1>1
    <2>2. <<a>> \o <<b>> \in Seq(Steps) /\ Len(<<a>> \o <<b>>) = 2
        BY <2>1, ConcatProperties
    <2>3. (<<a>> \o <<b>>)[1] = a /\ (<<a>> \o <<b>>)[2] = b
        BY <2>1, ConcatProperties
    <2>4. <<a, b>> \in Seq(Steps) /\ Len(<<a, b>>) = 2
        BY <1>1
    <2>5. \A i \in 1 .. 2 : (<<a>> \o <<b>>)[i] = <<a, b>>[i]
        BY <2>3
    <2> HIDE DEF a, b
    <2> QED BY <2>2, <2>4, <2>5, SeqEqual
<1>5. TodoFor(<<b>>, tree) /\ ~MovesNext(<<b>>)
    BY <1>1, <1>2, ListOfOne
<1>6. TodoFor(<<a, b>>, tree) /\ ~MovesNext(<<a, b>>)
    BY <1>1, <1>2, ListOfTwo
<1>7. TodoFor(FlushOf(p) \o <<b>>, tree) /\ ~MovesNext(FlushOf(p) \o <<b>>)
    BY <1>3, <1>4, <1>5, <1>6, <1>8
<1> QED BY <1>7 DEF b

LEMMA DirList ==
    ASSUME IInv, NEW p \in SomePaths, NEW do \in {"mkdir", "rmdir"}
    PROVE  TodoFor(<<On(do, p)>>, tree) /\ ~MovesNext(<<On(do, p)>>)
<1> DEFINE a == On(do, p)
<1>1. a \in Steps /\ a.do = do /\ a.path = p
    BY OnIs DEF Kinds
<1> HIDE DEF a
<1>2. TodoFor(<<a>>, tree) /\ ~MovesNext(<<a>>)
    BY <1>1, ListOfOne
<1> QED BY <1>2 DEF a

\* The requests.
LEMMA InMemoryKeeps ==
    ASSUME IInv, NEW u, InMemory(u), Coherent(stored, u, <<>>, halfMoved),
           open' \subseteq Seq(Names) \X Modes
    PROVE  IInv'
<1>1. /\ todo = <<>> /\ tree' = u /\ stored' = stored /\ todo' = todo /\ request' = request
      /\ halfMoved' = halfMoved
    BY DEF InMemory, Idle
<1>2. Coherent(stored', tree', todo', halfMoved')
    BY <1>1
<1>3. RequestOK'
    BY <1>1 DEF IInv, RequestOK
<1>4. halfMoved' \in BOOLEAN
    BY <1>1 DEF IInv
<1> QED BY <1>2, <1>3, <1>4 DEF IInv

LEMMA HandleType ==
    ASSUME IInv, NEW p \in Seq(Names), NEW mode \in Modes
    PROVE  open \union {<<p, mode>>} \subseteq Seq(Names) \X Modes
BY DEF IInv

LEMMA CreateKeeps ==
    ASSUME IInv, NEW p \in Targets, NEW mode \in Modes, Create(p, mode)
    PROVE  IInv'
<1> DEFINE f == [CleanFile(Last(p), Empty) EXCEPT !.create = TRUE]
           u == AddFileTo(tree, FindContainingDir(tree, p), f)
<1>1. /\ FindContainingDir(tree, p) \in DOMAIN tree /\ ~FileExists(tree, p)
      /\ InMemory(u) /\ open' = open \union {<<p, mode>>} /\ todo = <<>>
    BY DEF Create, InMemory, Idle
<1>2. p \in Seq(Names) \ {<<>>} /\ p \in Seq(Names)
    BY TargetsArePaths
<1>3. Last(p) \in Names /\ Empty \in ContentOf
    BY <1>2, SplitPath, ContentsAssumption DEF ContentOf
<1>4. f \in Files /\ f.name = Last(p) /\ f.create /\ Dirty(f)
    BY <1>3, NewFileIs
<1> HIDE DEF f
<1>5. Coherent(stored, tree, <<>>, halfMoved) /\ IsTree(tree)
    BY <1>1, AtIdle
<1>6. HasDir(tree, Front(p)) /\ Filed(tree, p) = {}
    BY <1>1, <1>2, <1>5, FiledIs DEF Filed
<1>7. FileUpdate(tree, u, p, {f})
    BY <1>2, <1>4, <1>5, <1>6, AddFileView
<1> HIDE DEF u
<1>8. f.create <=> \A h \in Filed(tree, p) : h.create
    BY <1>4, <1>6
<1>9. Coherent(stored, u, <<>>, halfMoved)
    BY <1>2, <1>4, <1>5, <1>7, <1>8, InMemoryOnly
<1>10. open' \subseteq Seq(Names) \X Modes
    BY <1>1, <1>2, HandleType
<1> QED BY <1>1, <1>9, <1>10, InMemoryKeeps

LEMMA OpenKeeps ==
    ASSUME IInv, NEW p \in Targets, NEW mode \in Modes, Open(p, mode)
    PROVE  IInv'
<1>1. InMemory(tree) /\ open' = open \union {<<p, mode>>} /\ todo = <<>>
    BY DEF Open, InMemory, Idle
<1>2. p \in Seq(Names)
    BY TargetsArePaths
<1>3. open' \subseteq Seq(Names) \X Modes
    BY <1>1, <1>2, HandleType
<1>4. Coherent(stored, tree, <<>>, halfMoved)
    BY <1>1, AtIdle
<1> QED BY <1>1, <1>3, <1>4, InMemoryKeeps

LEMMA WriteKeeps ==
    ASSUME IInv, NEW p \in Targets, NEW c \in Contents, Write(p, c)
    PROVE  IInv'
<1> DEFINE h == FileAt(tree, p)
           f == [h EXCEPT !.content = c, !.write = TRUE]
           u == SetFile(tree, FindContainingDir(tree, p), Last(p), f)
<1>1. FileExists(tree, p) /\ InMemory(u) /\ open' = open /\ todo = <<>>
    BY DEF Write, InMemory, Idle
<1>2. p \in Seq(Names) \ {<<>>} /\ p \in SomePaths
    BY TargetsArePaths
<1>3. Coherent(stored, tree, <<>>, halfMoved) /\ IsTree(tree)
    BY <1>1, AtIdle
<1>4. Filed(tree, p) = {h} /\ h \in Files /\ h.name = Last(p)
    BY <1>1, <1>2, <1>3, FileThere
<1> HIDE DEF h
<1>5. c \in ContentOf
    BY DEF ContentOf
<1>6. f \in Files /\ f.name = Last(p) /\ f.create = h.create /\ Dirty(f)
    BY <1>4, <1>5, WrittenIs
<1> HIDE DEF f
<1>7. FileUpdate(tree, u, p, {f})
    BY <1>1, <1>2, <1>3, <1>6, SetFileView
<1> HIDE DEF u
<1>8. f.create <=> \A g \in Filed(tree, p) : g.create
    BY <1>4, <1>6
<1>9. Coherent(stored, u, <<>>, halfMoved)
    BY <1>2, <1>3, <1>6, <1>7, <1>8, InMemoryOnly
<1>10. open' \subseteq Seq(Names) \X Modes
    BY <1>1 DEF IInv
<1> QED BY <1>1, <1>9, <1>10, InMemoryKeeps

LEMMA ReleaseKeeps ==
    ASSUME IInv, NEW p \in Targets, NEW mode \in Modes, Release(p, mode)
    PROVE  IInv'
<1> DEFINE l == IF mode = "w" THEN FlushOf(p) ELSE <<>>
<1>1. Begin("release", p, p, l) /\ open' \subseteq open
    BY DEF Release
<1>2. p \in SomePaths /\ p \in Seq(Names)
    BY TargetsArePaths
<1>3. l = <<>> \/ (TodoFor(l, tree) /\ ~MovesNext(l))
    BY <1>2, FlushList
<1> HIDE DEF l
<1> QED BY <1>1, <1>2, <1>3, BeginKeeps

LEMMA GetAttrKeeps ==
    ASSUME IInv, NEW p \in Targets, GetAttr(p)
    PROVE  IInv'
<1> DEFINE l == IF FileAt(tree, p).write THEN FlushOf(p) ELSE <<>>
<1>1. Begin("getattr", p, p, l) /\ open' \subseteq open
    BY DEF GetAttr
<1>2. p \in SomePaths /\ p \in Seq(Names)
    BY TargetsArePaths
<1>3. l = <<>> \/ (TodoFor(l, tree) /\ ~MovesNext(l))
    BY <1>2, FlushList
<1> HIDE DEF l
<1> QED BY <1>1, <1>2, <1>3, BeginKeeps

LEMMA UnlinkKeeps ==
    ASSUME IInv, NEW p \in Targets, Unlink(p)
    PROVE  IInv'
<1> DEFINE l == FlushOf(p) \o <<On("remove", p)>>
<1>1. Begin("unlink", p, p, l) /\ open' \subseteq open /\ FileExists(tree, p)
    BY DEF Unlink
<1>2. p \in SomePaths /\ p \in Seq(Names)
    BY TargetsArePaths
<1>3. TodoFor(l, tree) /\ ~MovesNext(l)
    BY <1>1, <1>2, UnlinkList
<1> HIDE DEF l
<1> QED BY <1>1, <1>2, <1>3, BeginKeeps

LEMMA MkdirKeeps ==
    ASSUME IInv, NEW p \in Targets, Mkdir(p) \/ Rmdir(p)
    PROVE  IInv'
<1>1. p \in SomePaths /\ p \in Seq(Names)
    BY TargetsArePaths
<1>2. CASE Mkdir(p)
    <2> DEFINE l == <<On("mkdir", p)>>
    <2>1. Begin("mkdir", p, p, l) /\ open' \subseteq open
        BY <1>2 DEF Mkdir
    <2>2. TodoFor(l, tree) /\ ~MovesNext(l)
        BY <1>1, DirList
    <2> HIDE DEF l
    <2> QED BY <1>1, <2>1, <2>2, BeginKeeps
<1>3. CASE Rmdir(p)
    <2> DEFINE l == <<On("rmdir", p)>>
    <2>1. Begin("rmdir", p, p, l) /\ open' \subseteq open
        BY <1>3 DEF Rmdir
    <2>2. TodoFor(l, tree) /\ ~MovesNext(l)
        BY <1>1, DirList
    <2> HIDE DEF l
    <2> QED BY <1>1, <2>1, <2>2, BeginKeeps
<1> QED BY <1>2, <1>3

\* What is left to do once bucse_rename has checked its arguments.
LEMMA RenameList ==
    ASSUME IInv, NEW p \in SomePaths, NEW q \in SomePaths, ~IsPrefix(p, q), ~IsPrefix(q, p),
           NEW flag, RenameError(p, q, flag) = "none"
    PROVE  LET l == IF FileExists(tree, p) THEN FileSteps(p, q, FileExists(tree, q)) ELSE DirSteps(p, q)
           IN TodoFor(l, tree) /\ ~MovesNext(l)
<1>1. /\ FindContainingDir(tree, p) \in DOMAIN tree /\ FindContainingDir(tree, q) \in DOMAIN tree
      /\ FileExists(tree, p) \/ DirExists(tree, p)
    BY DEF RenameError
<1>2. Apart(p, q)
    BY NoPrefixApart DEF SomePaths
<1>3. IsTree(tree) /\ TreeOK(tree)
    BY TodoIs DEF IsTree
<1>4. HasDir(tree, Front(q))
    BY <1>1, <1>3, FiledIs DEF SomePaths
<1>5. CASE FileExists(tree, p)
    <2> DEFINE over == FileExists(tree, q)
    <2>1. Filed(tree, p) # {} /\ over \in BOOLEAN /\ (over <=> Filed(tree, q) # {})
        BY <1>5 DEF Filed, FileExists
    <2> HIDE DEF over
    <2>2. TodoFor(FileSteps(p, q, over), tree) /\ ~MovesNext(FileSteps(p, q, over))
        BY <1>2, <1>4, <2>1, ListForFile
    <2> QED BY <1>5, <2>2 DEF over
<1>6. CASE ~FileExists(tree, p)
    <2>1. HasDir(tree, p)
        <3>1. DirExists(tree, p)
            BY <1>1, <1>6
        <3>2. FindDirByPath(tree, p) \in DOMAIN tree
            BY <1>3, <3>1, DirExistsIs DEF SomePaths
        <3> QED BY <1>3, <3>2, NodesArePositive DEF HasDir
    <2>2. TodoFor(DirSteps(p, q), tree) /\ ~MovesNext(DirSteps(p, q))
        BY <1>2, <2>1, ListForDir
    <2> QED BY <1>6, <2>2
<1> QED BY <1>5, <1>6

\* A refused request changes nothing.
LEMMA RefuseKeeps ==
    ASSUME IInv, UNCHANGED <<tree, stored, open, todo, request, halfMoved>>
    PROVE  IInv'
BY DEF IInv, RequestOK

LEMMA RenameKeeps ==
    ASSUME IInv, NEW p \in Targets, NEW q \in Targets, NEW flag, Rename(p, q, flag)
    PROVE  IInv'
<1>1. CASE RenameError(p, q, flag) # "none"
    <2>1. UNCHANGED <<tree, stored, open, todo, request, halfMoved>>
        BY <1>1 DEF Rename, Refuse
    <2> QED BY <2>1, RefuseKeeps
<1>2. CASE RenameError(p, q, flag) = "none"
    <2> DEFINE l == IF FileExists(tree, p) THEN FileSteps(p, q, FileExists(tree, q)) ELSE DirSteps(p, q)
    <2>1. Begin("rename", p, q, l) /\ open' \subseteq open /\ ~IsPrefix(p, q) /\ ~IsPrefix(q, p)
        BY <1>2 DEF Rename
    <2>2. p \in SomePaths /\ q \in SomePaths /\ p \in Seq(Names) /\ q \in Seq(Names)
        BY TargetsArePaths
    <2>3. TodoFor(l, tree) /\ ~MovesNext(l)
        BY <1>2, <2>1, <2>2, RenameList
    <2> HIDE DEF l
    <2> QED BY <2>1, <2>2, <2>3, BeginKeeps
<1> QED BY <1>1, <1>2

-----------------------------------------------------------------------------
\* The steps of an operation.
LEMMA FlushKeeps == IInv /\ Flush => IInv'
<1> SUFFICES ASSUME IInv, Flush PROVE IInv'
    OBVIOUS
<1>1. /\ todo # <<>> /\ Head(todo) = todo[1] /\ todo[1].do = "flush"
      /\ <<>> \o Tail(todo) = Tail(todo) /\ ~MovesNext(todo)
      /\ Coherent(stored, tree, todo, halfMoved)
    BY TodoIs DEF Flush, Doing, MovesNext, IInv
<1> DEFINE p == todo[1].path
           f == FileAt(tree, p)
           type == IF f.create THEN AddFile ELSE EditFile
           u == SetFile(tree, FindContainingDir(tree, p), Last(p), CleanFile(Last(p), f.content))
           x == [time |-> Len(stored) + 1, type |-> type, path |-> p, content |-> f.content]
<1>2. \/ ~Dirty(f) /\ Continue(<<>>) /\ UNCHANGED <<tree, stored, halfMoved>>
      \/ Store(Len(stored) + 1, type, p, f.content, u)
      \/ StoreFails /\ UNCHANGED halfMoved
    BY <1>1 DEF Flush, Now
<1>3. CASE ~Dirty(f) /\ Continue(<<>>) /\ UNCHANGED <<tree, stored, halfMoved>>
    <2>1. Coherent(stored, tree, Tail(todo), halfMoved)
        BY <1>1, <1>3, NothingToFlush
    <2> QED BY <1>1, <1>3, <2>1, ContinueKeeps
<1>4. CASE Store(Len(stored) + 1, type, p, f.content, u)
    <2>1. Coherent(Append(stored, x), u, Tail(todo), halfMoved)
        BY <1>1, FlushStores
    <2> HIDE DEF type, u, f, p
    <2> QED BY <1>1, <1>4, <2>1, StoreKeeps
<1>5. CASE StoreFails /\ UNCHANGED halfMoved
    BY <1>1, <1>5, FailsKeeps
<1> QED BY <1>2, <1>3, <1>4, <1>5

LEMMA CopyKeeps == IInv /\ Copy => IInv'
<1> SUFFICES ASSUME IInv, Copy PROVE IInv'
    OBVIOUS
<1>1. /\ todo # <<>> /\ Head(todo) = todo[1] /\ todo[1].do = "copy" /\ ~MovesNext(todo)
      /\ Coherent(stored, tree, todo, halfMoved)
    BY TodoIs DEF Copy, Doing, MovesNext, IInv
<1> DEFINE s == todo[1]
           type == IF s.over THEN EditFile ELSE AddFile
           c == FileAt(tree, s.path).content
           x == [time |-> Len(stored) + 1, type |-> type, path |-> s.to, content |-> c]
<1>2. \/ Store(Len(stored) + 1, type, s.to, c, tree)
      \/ StoreFails /\ UNCHANGED halfMoved
    BY <1>1 DEF Copy, Now
<1>3. CASE Store(Len(stored) + 1, type, s.to, c, tree)
    <2>1. Coherent(Append(stored, x), tree, Tail(todo), halfMoved)
        BY <1>1, CopyStores
    <2> HIDE DEF type, c, s
    <2> QED BY <1>1, <1>3, <2>1, StoreKeeps
<1>4. CASE StoreFails /\ UNCHANGED halfMoved
    BY <1>1, <1>4, FailsKeeps
<1> QED BY <1>2, <1>3, <1>4

\* The trees a move may leave.
LEMMA MovedFileIs ==
    ASSUME NEW p, NEW q, NEW over, NEW u \in MovedFile(p, q, over),
           FileAt(tree, p).content \in ContentOf,
           over => FileAt(RemoveFileFrom(tree, FindContainingDir(tree, p), Last(p)), q) = FileAt(tree, q)
    PROVE  \E c \in ContentOf : /\ u = MovedTree(tree, p, q, over, c)
                                /\ over /\ ~FileAt(tree, q).write => c = FileAt(tree, p).content
<1>1. CASE ~over
    BY <1>1 DEF MovedFile, MovedTree
<1>2. CASE over
    <2> DEFINE w == RemoveFileFrom(tree, FindContainingDir(tree, p), Last(p))
    <2>1. PICK c \in IF FileAt(w, q).write THEN ContentOf \ {NoContent} ELSE {FileAt(tree, p).content} :
              u = SetFile(w, FindContainingDir(tree, q), Last(q), [FileAt(w, q) EXCEPT !.content = c])
        BY <1>2 DEF MovedFile
    <2>2. c \in ContentOf /\ (~FileAt(tree, q).write => c = FileAt(tree, p).content)
        BY <1>2, <2>1
    <2>3. u = MovedTree(tree, p, q, over, c)
        BY <1>2, <2>1 DEF MovedTree
    <2> QED BY <2>2, <2>3
<1> QED BY <1>1, <1>2

\* What MovedFile chooses from.
LEMMA MovedHere ==
    ASSUME IInv, todo # <<>>, todo[1].do = "move",
           NEW s, s = todo[1], NEW u \in MovedFile(s.path, s.to, s.over)
    PROVE  \E c \in ContentOf : /\ u = MovedTree(tree, s.path, s.to, s.over, c)
                                /\ s.over /\ ~FileAt(tree, s.to).write => c = FileAt(tree, s.path).content
<1>1. /\ Coherent(stored, tree, todo, halfMoved) /\ TodoFor(todo, tree) /\ Shape(todo) /\ IsTree(tree)
    BY TodoIs DEF IInv
<1>2. FileExists(tree, s.path) /\ FileAt(tree, s.path).content \in ContentOf
    BY <1>1, HeadFile
<1>3. s.over => FileAt(RemoveFileFrom(tree, FindContainingDir(tree, s.path), Last(s.path)), s.to)
                    = FileAt(tree, s.to)
    <2>1. CASE s.over
        <3>1. 1 \in DOMAIN todo
            BY <1>1, ListFacts DEF Shape
        <3>2. s.path \in Seq(Names) \ {<<>>} /\ s.to \in Seq(Names) \ {<<>>} /\ s.path \in Seq(Names)
              /\ s.to \in Seq(Names)
            BY <1>1, <3>1, StepIs DEF SomePaths
        <3>3. FileExists(tree, s.to)
            <4>1. Filed(tree, s.to) # {}
                BY <1>1, <2>1, <3>1 DEF TodoFor, Ready, FileReady
            <4> QED BY <4>1 DEF Filed
        <3>4. s.path # s.to
            <4>1. Away(todo[1], todo[1])
                BY <1>1, <3>1 DEF Shape
            <4>2. Apart(s.path, s.to)
                BY <1>1, <4>1 DEF Away
            <4> QED BY <3>2, <4>2, ApartDeeper
        <3>5. NoContent \in ContentOf
            BY DEF ContentOf
        <3> QED BY ONLY <1>1, <1>2, <3>2, <3>3, <3>4, <3>5, MovedOver
    <2> QED BY <2>1
<1> QED BY ONLY <1>2, <1>3, u \in MovedFile(s.path, s.to, s.over), MovedFileIs

LEMMA MoveKeeps == IInv /\ Move => IInv'
<1> SUFFICES ASSUME IInv, Move PROVE IInv'
    OBVIOUS
<1>1. /\ todo # <<>> /\ Head(todo) = todo[1] /\ todo[1].do = "move"
      /\ Coherent(stored, tree, todo, halfMoved) /\ TodoFor(todo, tree) /\ Shape(todo) /\ IsTree(tree)
    BY TodoIs DEF Move, Doing, IInv
<1> DEFINE s == todo[1]
           x == [time |-> Last(stored).time, type |-> RemoveFile, path |-> s.path, content |-> NoContent]
<1>2. \/ \E u \in MovedFile(s.path, s.to, s.over) :
            Store(Last(stored).time, RemoveFile, s.path, NoContent, u)
      \/ StoreFails /\ halfMoved' = TRUE
    BY <1>1 DEF Move
<1>3. ASSUME NEW u \in MovedFile(s.path, s.to, s.over),
             Store(Last(stored).time, RemoveFile, s.path, NoContent, u)
      PROVE  IInv'
    <2>1. PICK c \in ContentOf : /\ u = MovedTree(tree, s.path, s.to, s.over, c)
                                 /\ s.over /\ ~FileAt(tree, s.to).write => c = FileAt(tree, s.path).content
        BY <1>1, MovedHere
    <2>2. Coherent(Append(stored, x), u, Tail(todo), halfMoved)
        BY <1>1, <2>1, MoveStores
    <2> QED BY <1>1, <1>3, <2>2, StoreKeeps
<1>4. CASE StoreFails /\ halfMoved' = TRUE
    BY <1>4, FailsKeeps
<1> QED BY <1>2, <1>3, <1>4

LEMMA DeleteKeeps == IInv /\ Delete => IInv'
<1> SUFFICES ASSUME IInv, Delete PROVE IInv'
    OBVIOUS
<1>1. /\ todo # <<>> /\ Head(todo) = todo[1] /\ todo[1].do = "remove" /\ ~MovesNext(todo)
      /\ Coherent(stored, tree, todo, halfMoved)
    BY TodoIs DEF Delete, Doing, MovesNext, IInv
<1> DEFINE p == todo[1].path
           u == RemoveFileFrom(tree, FindContainingDir(tree, p), Last(p))
           x == [time |-> Len(stored) + 1, type |-> RemoveFile, path |-> p, content |-> NoContent]
<1>2. \/ Store(Len(stored) + 1, RemoveFile, p, NoContent, u)
      \/ StoreFails /\ UNCHANGED halfMoved
    BY <1>1 DEF Delete, Now
<1>3. CASE Store(Len(stored) + 1, RemoveFile, p, NoContent, u)
    <2>1. Coherent(Append(stored, x), u, Tail(todo), halfMoved)
        BY <1>1, RemoveStores
    <2> HIDE DEF u, p
    <2> QED BY <1>1, <1>3, <2>1, StoreKeeps
<1>4. CASE StoreFails /\ UNCHANGED halfMoved
    BY <1>1, <1>4, FailsKeeps
<1> QED BY <1>2, <1>3, <1>4

LEMMA MakeDirKeeps == IInv /\ MakeDir => IInv'
<1> SUFFICES ASSUME IInv, MakeDir PROVE IInv'
    OBVIOUS
<1>1. /\ todo # <<>> /\ Head(todo) = todo[1] /\ todo[1].do = "mkdir" /\ ~MovesNext(todo)
      /\ Coherent(stored, tree, todo, halfMoved)
    BY TodoIs DEF MakeDir, Doing, MovesNext, IInv
<1> DEFINE p == todo[1].path
           d == FindContainingDir(tree, p)
           u == AddDirTo(tree, d, Last(p))
           x == [time |-> Len(stored) + 1, type |-> AddDirectory, path |-> p, content |-> NoContent]
<1>2. \/ \E error : Abort(error) /\ UNCHANGED <<tree, stored, halfMoved>>
      \/ d \in DOMAIN tree /\ ~DirExists(tree, p) /\ Store(Len(stored) + 1, AddDirectory, p, NoContent, u)
      \/ StoreFails /\ UNCHANGED halfMoved
    BY <1>1 DEF MakeDir, Now
<1>3. CASE \E error : Abort(error) /\ UNCHANGED <<tree, stored, halfMoved>>
    BY <1>1, <1>3, AbortKeeps
<1>4. CASE d \in DOMAIN tree /\ ~DirExists(tree, p) /\ Store(Len(stored) + 1, AddDirectory, p, NoContent, u)
    <2>1. Coherent(Append(stored, x), u, Tail(todo), halfMoved)
        BY <1>1, <1>4, MakeDirStores
    <2> HIDE DEF u, p
    <2> QED BY <1>1, <1>4, <2>1, StoreKeeps
<1>5. CASE StoreFails /\ UNCHANGED halfMoved
    BY <1>1, <1>5, FailsKeeps
<1> QED BY <1>2, <1>3, <1>4, <1>5

LEMMA RemoveDirKeeps == IInv /\ RemoveDir => IInv'
<1> SUFFICES ASSUME IInv, RemoveDir PROVE IInv'
    OBVIOUS
<1>1. /\ todo # <<>> /\ Head(todo) = todo[1] /\ todo[1].do = "rmdir" /\ ~MovesNext(todo)
      /\ Coherent(stored, tree, todo, halfMoved)
    BY TodoIs DEF RemoveDir, Doing, MovesNext, IInv
<1> DEFINE p == todo[1].path
           u == RemoveDirFrom(tree, FindContainingDir(tree, p), Last(p))
           x == [time |-> Len(stored) + 1, type |-> RemoveDirectory, path |-> p, content |-> NoContent]
<1>2. \/ \E error : Abort(error) /\ UNCHANGED <<tree, stored, halfMoved>>
      \/ /\ DirExists(tree, p) /\ tree[FindDirByPath(tree, p)] = EmptyDir
         /\ Store(Len(stored) + 1, RemoveDirectory, p, NoContent, u)
      \/ StoreFails /\ UNCHANGED halfMoved
    BY <1>1 DEF RemoveDir, Now
<1>3. CASE \E error : Abort(error) /\ UNCHANGED <<tree, stored, halfMoved>>
    BY <1>1, <1>3, AbortKeeps
<1>4. CASE /\ DirExists(tree, p) /\ tree[FindDirByPath(tree, p)] = EmptyDir
           /\ Store(Len(stored) + 1, RemoveDirectory, p, NoContent, u)
    <2>1. Coherent(Append(stored, x), u, Tail(todo), halfMoved)
        BY <1>1, <1>4, RemoveDirStores
    <2> HIDE DEF u, p
    <2> QED BY <1>1, <1>4, <2>1, StoreKeeps
<1>5. CASE StoreFails /\ UNCHANGED halfMoved
    BY <1>1, <1>5, FailsKeeps
<1> QED BY <1>2, <1>3, <1>4, <1>5

LEMMA MoveAllKeeps == IInv /\ MoveAll => IInv'
<1> SUFFICES ASSUME IInv, MoveAll PROVE IInv'
    OBVIOUS
<1>1. /\ todo # <<>> /\ Head(todo) = todo[1] /\ todo[1].do = "moveAll"
      /\ <<>> \o Tail(todo) = Tail(todo)
      /\ Coherent(stored, tree, todo, halfMoved)
    BY TodoIs DEF MoveAll, Doing, IInv
<1> DEFINE s == todo[1]
           dir == tree[FindDirByPath(tree, s.path)]
           steps == MoveNext(s, dir)
<1>2. Continue(steps) /\ UNCHANGED <<tree, stored, halfMoved>>
    BY <1>1 DEF MoveAll
<1>3. Coherent(stored, tree, steps \o Tail(todo), halfMoved)
    <2>1. CASE dir.files # <<>>
        <3>1. Coherent(stored, tree, MoveFirstFile(s, dir) \o Tail(todo), halfMoved)
            BY <1>1, <2>1, TurnOfFile
        <3> QED BY <2>1, <3>1 DEF MoveNext
    <2>2. CASE dir.files = <<>> /\ dir.dirs # <<>>
        <3>1. Coherent(stored, tree, MoveFirstDir(s, dir) \o Tail(todo), halfMoved)
            BY <1>1, <2>2, TurnOfDir
        <3> QED BY <2>2, <3>1 DEF MoveNext
    <2>3. CASE dir.files = <<>> /\ dir.dirs = <<>>
        <3>1. Coherent(stored, tree, Tail(todo), halfMoved)
            BY <1>1, TurnsEnd
        <3> QED BY <1>1, <2>3, <3>1 DEF MoveNext
    <2> QED BY <2>1, <2>2, <2>3
<1> HIDE DEF steps
<1> QED BY <1>1, <1>2, <1>3, ContinueKeeps

LEMMA RemountKeeps == IInv /\ Remount => IInv'
<1> SUFFICES ASSUME IInv, Remount PROVE IInv'
    OBVIOUS
<1>1. PICK k \in MountOrders(stored) : tree' = Replay(k)
    BY DEF Remount
<1>2. /\ open' = {} /\ todo' = <<>> /\ request' = NoRequest /\ halfMoved' = FALSE /\ stored' = stored
    BY DEF Remount
<1>3. Coherent(stored, Replay(k), <<>>, FALSE)
    BY Mounts DEF IInv
<1>4. RequestOK'
    BY <1>2 DEF RequestOK, NoRequest
<1> QED BY <1>1, <1>2, <1>3, <1>4 DEF IInv

\* Every step keeps the invariant.
LEMMA StepKeeps == IInv /\ [Next]_vars => IInv'
<1> SUFFICES ASSUME IInv, [Next]_vars PROVE IInv'
    OBVIOUS
<1>1. CASE Request
    <2>1. ASSUME NEW p \in Targets,
                 \/ Unlink(p) \/ Mkdir(p) \/ Rmdir(p) \/ GetAttr(p)
                 \/ \E mode \in {"r", "w"} : Create(p, mode) \/ Open(p, mode) \/ Release(p, mode)
                 \/ \E c \in Contents : Write(p, c)
                 \/ \E q \in Targets, flag \in {"none", "noreplace", "exchange"} : Rename(p, q, flag)
          PROVE  IInv'
        <3>1. CASE Unlink(p) \/ Mkdir(p) \/ Rmdir(p) \/ GetAttr(p)
            BY <3>1, UnlinkKeeps, MkdirKeeps, GetAttrKeeps
        <3>2. ASSUME NEW mode \in Modes, Create(p, mode) \/ Open(p, mode) \/ Release(p, mode)
              PROVE  IInv'
            BY <3>2, CreateKeeps, OpenKeeps, ReleaseKeeps
        <3>3. ASSUME NEW c \in Contents, Write(p, c)
              PROVE  IInv'
            BY <3>3, WriteKeeps
        <3>4. ASSUME NEW q \in Targets, NEW flag, Rename(p, q, flag)
              PROVE  IInv'
            BY <3>4, RenameKeeps
        <3> QED BY <2>1, <3>1, <3>2, <3>3, <3>4 DEF Modes
    <2> QED BY <1>1, <2>1 DEF Request
<1>2. CASE RunStep
    BY <1>2, FlushKeeps, CopyKeeps, MoveKeeps, DeleteKeeps, MakeDirKeeps, MoveAllKeeps, RemoveDirKeeps
    DEF RunStep
<1>3. CASE Remount
    BY <1>3, RemountKeeps
<1>4. CASE UNCHANGED vars
    BY <1>4, RefuseKeeps DEF vars
<1> QED BY <1>1, <1>2, <1>3, <1>4 DEF Next

-----------------------------------------------------------------------------
\* The invariant holds in every state of every behaviour.
LEMMA Kept == Spec => []IInv
BY StartIsCoherent, StepKeeps, PTL DEF Spec

\* The invariant says the types of the variables.
LEMMA IInvTypes == IInv => TypeOK
<1> SUFFICES ASSUME IInv PROVE TypeOK
    OBVIOUS
<1> DEFINE All == [do : {"flush", "copy", "move", "remove", "mkdir", "moveAll", "rmdir"},
                   path : Seq(Names), to : Seq(Names), over : BOOLEAN]
<1>1. IsTree(tree) /\ stored \in Seq(Actions) /\ todo \in Seq(Steps)
    BY TodoIs
<1>2. Steps \subseteq All
    BY DEF Steps, Kinds, SomePaths
<1> HIDE DEF All
<1>4. todo \in Seq(All)
    BY <1>1, <1>2, SeqMonotonic
<1>5. open \subseteq Seq(Names) \X {"r", "w"} /\ halfMoved \in BOOLEAN /\ (todo = <<>> <=> request = NoRequest)
    BY DEF IInv, RequestOK, Modes
<1> QED BY <1>1, <1>4, <1>5, Zenon DEF TypeOK, All

\* Every variable keeps its type, and the tree in memory stays a tree in which no
\* directory holds two files or two directories of one name: whatever the
\* operations, the refused action files and the mounts of one client were.
THEOREM TypeCorrect == Spec => []TypeOK
BY Kept, IInvTypes, PTL

\* What MountShowsTree compares, in terms of Filed and HasDir.
LEMMA ContentIs ==
    ASSUME NEW t, NEW u, NEW p, Filed(t, p) = Filed(u, p)
    PROVE  ContentAt(t, p) = ContentAt(u, p)
<1>1. CASE FileExists(t, p)
    <2>1. Filed(t, p) = {FileAt(t, p)}
        BY <1>1 DEF Filed
    <2>2. FileExists(u, p)
        BY <2>1 DEF Filed
    <2>3. FileAt(t, p) = FileAt(u, p)
        BY <2>1, <2>2 DEF Filed
    <2> QED BY <1>1, <2>2, <2>3 DEF ContentAt
<1>2. CASE ~FileExists(t, p)
    <2>1. Filed(u, p) = {}
        BY <1>2 DEF Filed
    <2>2. ~FileExists(u, p)
        BY <2>1 DEF Filed
    <2> QED BY <1>2, <2>2 DEF ContentAt
<1> QED BY <1>1, <1>2

LEMMA DirShown ==
    ASSUME NEW t, IsTree(t), NEW p \in Seq(Names) \ {<<>>}
    PROVE  DirExists(t, p) <=> HasDir(t, p)
<1>1. TreeOK(t)
    BY DEF IsTree
<1> QED BY <1>1, DirExistsIs, DirIsNode DEF HasDir

\* The invariant says what a mount shows.
LEMMA IInvShows == IInv => MountShowsTree
<1> SUFFICES ASSUME IInv, Settled, ~halfMoved, NEW log \in MountOrders(stored)
             PROVE  FilesOf(Replay(log)) = FilesOf(tree) /\ DirsOf(Replay(log)) = DirsOf(tree)
    BY DEF MountShowsTree
<1> DEFINE m == Replay(log)
           n == Replay(stored)
<1>1. IsTree(tree) /\ todo = <<>> /\ ~MovesNext(todo) /\ OrdersAgree(stored, tree) /\ FilesAgree(n, tree)
    BY DEF IInv, Coherent, Agreement, Settled, MovesNext
<1>2. IsTree(m) /\ SameDirs(m, tree) /\ SameView(n, m)
    BY <1>1 DEF OrdersAgree
<1>3. AllClean(tree)
    <2>1. CleanTree(tree)
        BY DEF Settled, Dirty, CleanTree, CleanFiles
    <2> QED BY <1>1, <2>1, CleanTreeIs
<1> HIDE DEF m, n
<1>4. ASSUME NEW p \in Paths
      PROVE  /\ p \in Seq(Names) \ {<<>>} /\ p \in Seq(Names)
             /\ ContentAt(m, p) = ContentAt(tree, p)
             /\ DirExists(m, p) <=> DirExists(tree, p)
    <2>1. p \in Seq(Names) \ {<<>>} /\ p \in Seq(Names)
        BY PathsAssumption
    <2>2. Filed(n, p) = Filed(m, p)
        BY <1>2, <2>1 DEF SameView
    <2>3. Filed(n, p) = Filed(tree, p)
        <3>1. \A f \in Filed(tree, p) : ~Dirty(f) /\ ~f.create
            BY <1>3, <2>1 DEF AllClean, Dirty
        <3>2. /\ Filed(n, p) # {} <=> \E f \in Filed(tree, p) : ~f.create
              /\ \A f \in Filed(tree, p) : ~Dirty(f) => Filed(n, p) = {f}
            BY <1>1, <2>1, FilesAgreeAt
        <3>3. Filed(tree, p) = {} \/ \E f : Filed(tree, p) = {f}
            BY DEF Filed
        <3> QED BY <3>1, <3>2, <3>3
    <2>4. HasDir(m, p) <=> HasDir(tree, p)
        BY <1>2, <2>1 DEF SameDirs
    <2>5. ContentAt(m, p) = ContentAt(tree, p)
        <3>1. Filed(m, p) = Filed(tree, p)
            BY <2>2, <2>3
        <3> QED BY ONLY <3>1, ContentIs
    <2>6. DirExists(m, p) <=> HasDir(m, p)
        BY <1>2, <2>1, DirShown
    <2>7. DirExists(tree, p) <=> HasDir(tree, p)
        BY <1>1, <2>1, DirShown
    <2> QED BY <2>1, <2>4, <2>5, <2>6, <2>7
<1>5. FilesOf(m) = FilesOf(tree)
    BY <1>4 DEF FilesOf
<1>6. DirsOf(m) = DirsOf(tree)
    BY <1>4 DEF DirsOf
<1> QED BY <1>5, <1>6 DEF m

\* Once nothing waits for a flush, a mount of the repository shows the files and the
\* directories that memory shows, in whichever order it sorts the two actions of a
\* moved file and whatever the repository refused, unless it was the removal of a
\* file whose copy it had taken (rename.c:103).
THEOREM MountsAgree == Spec => []MountShowsTree
BY Kept, IInvShows, PTL

-----------------------------------------------------------------------------
\* Where a rename takes what is below its source.
Dest(p, q, r) == q \o SubSeq(r, Len(p) + 1, Len(r))

LEMMA PrefixIsUnder ==
    ASSUME NEW p \in Seq(Names), NEW r \in Seq(Names), IsPrefix(p, r)
    PROVE  Under(p, r)
<1>1. Len(p) \in Nat /\ Len(r) \in Nat /\ Len(p) <= Len(r)
      /\ \A i \in 1 .. Len(p) : p[i] \in Names /\ r[i] \in Names
    <2>1. Len(p) \in Nat /\ Len(r) \in Nat /\ Len(p) <= Len(r)
        BY DEF IsPrefix
    <2> QED BY <2>1, ElementOfSeq
<1>2. ASSUME NEW s \in Seq(Names), \A i \in 1 .. Len(p) : s[i] \in Names
      PROVE  \A i \in 1 .. Len(p) : SubSeq(s, 1, Len(p))[i] = s[i]
    <2> DEFINE n == Len(p)
    <2>1. n \in Int /\ 1 \in Int /\ \A i \in 1 .. n : s[i] \in Names
        BY <1>1, <1>2
    <2> HIDE DEF n
    <2>2. \A i \in 1 .. n - 1 + 1 : SubSeq(s, 1, n)[i] = s[1 + i - 1]
        BY ONLY <2>1, SubSeqProperties
    <2>3. \A i \in 1 .. n : i \in 1 .. n - 1 + 1 /\ 1 + i - 1 = i
        BY <2>1
    <2>4. \A i \in 1 .. n : SubSeq(s, 1, n)[i] = s[i]
        BY <2>2, <2>3
    <2> QED BY <2>4 DEF n
<1>3. SubSeq(p, 1, Len(p)) = SubSeq(r, 1, Len(p))
    BY DEF IsPrefix
<1>4. \A i \in 1 .. Len(p) : SubSeq(p, 1, Len(p))[i] = p[i] /\ SubSeq(r, 1, Len(p))[i] = r[i]
    BY <1>1, <1>2
<1> QED BY <1>1, <1>3, <1>4 DEF Under

LEMMA DestIs ==
    ASSUME NEW p \in Seq(Names), NEW q \in Seq(Names), NEW r \in Seq(Names), Under(p, r)
    PROVE  /\ Dest(p, q, r) \in Seq(Names)
           /\ Len(Dest(p, q, r)) = Len(q) + (Len(r) - Len(p))
           /\ Len(p) \in Nat /\ Len(q) \in Nat /\ Len(r) \in Nat /\ Len(p) <= Len(r)
           /\ \A i \in 1 .. Len(q) : Dest(p, q, r)[i] = q[i]
           /\ \A i \in Len(p) + 1 .. Len(r) : Dest(p, q, r)[Len(q) + (i - Len(p))] = r[i]
<1> DEFINE a == Len(p)
           n == Len(r)
           b == Len(q)
           s == SubSeq(r, a + 1, n)
           d == q \o s
<1>1. a \in Nat /\ n \in Nat /\ b \in Nat /\ a <= n /\ \A i \in a + 1 .. n : r[i] \in Names
    <2>1. a \in Nat /\ n \in Nat /\ b \in Nat /\ a <= n
        BY DEF Under
    <2>2. \A i \in 1 .. n : r[i] \in Names
        BY ElementOfSeq
    <2> HIDE DEF a, n
    <2> QED BY <2>1, <2>2
<1> HIDE DEF a, n, b
<1>2. /\ s \in Seq(Names)
      /\ Len(s) = IF a + 1 <= n THEN n - (a + 1) + 1 ELSE 0
      /\ \A i \in 1 .. n - (a + 1) + 1 : s[i] = r[a + 1 + i - 1]
    <2>1. a + 1 \in Int /\ n \in Int
        BY <1>1
    <2> QED BY <1>1, <2>1, SubSeqProperties
<1> HIDE DEF s
<1>3. /\ d \in Seq(Names) /\ Len(d) = b + Len(s)
      /\ \A i \in 1 .. b + Len(s) : d[i] = IF i <= b THEN q[i] ELSE s[i - b]
    BY <1>2, ConcatProperties DEF b
<1> HIDE DEF d
<1>4. Len(s) = n - a
    BY <1>1, <1>2
<1>5. \A i \in 1 .. b : d[i] = q[i]
    BY <1>1, <1>3, <1>4
<1>6. ASSUME NEW i \in a + 1 .. n PROVE d[b + (i - a)] = r[i]
    <2> DEFINE k == b + (i - a)
               j == i - a
    <2>1. k \in 1 .. b + (n - a) /\ ~(k <= b) /\ k - b = j
          /\ j \in 1 .. n - (a + 1) + 1 /\ a + 1 + j - 1 = i
        BY <1>1
    <2> HIDE DEF k, j
    <2>2. d[k] = s[j]
        BY <1>3, <1>4, <2>1
    <2>3. s[j] = r[i]
        BY <1>2, <2>1
    <2> QED BY <2>2, <2>3 DEF k, j
<1>7. d = Dest(p, q, r)
    BY DEF d, s, a, n, Dest
<1> QED BY <1>1, <1>3, <1>4, <1>5, <1>6, <1>7 DEF a, b, n

\* Different files go to different places.
LEMMA DestDiffers ==
    ASSUME NEW p \in Seq(Names), NEW q \in Seq(Names), NEW r \in Seq(Names), NEW s \in Seq(Names),
           Under(p, r), Under(p, s), Dest(p, q, r) = Dest(p, q, s)
    PROVE  r = s
<1> DEFINE d == Dest(p, q, r)
           a == Len(p)
           b == Len(q)
<1>1. /\ Len(d) = b + (Len(r) - a) /\ Len(d) = b + (Len(s) - a)
      /\ a \in Nat /\ b \in Nat /\ Len(r) \in Nat /\ Len(s) \in Nat /\ a <= Len(r)
      /\ \A i \in a + 1 .. Len(r) : d[b + (i - a)] = r[i]
      /\ \A i \in a + 1 .. Len(s) : d[b + (i - a)] = s[i]
    <2>1. \A x \in Seq(Names) : Under(p, x) =>
                /\ Len(Dest(p, q, x)) = b + (Len(x) - a)
                /\ a \in Nat /\ b \in Nat /\ Len(x) \in Nat /\ a <= Len(x)
                /\ \A i \in a + 1 .. Len(x) : Dest(p, q, x)[b + (i - a)] = x[i]
        BY DestIs
    <2> HIDE DEF a, b
    <2> QED BY <2>1
<1> HIDE DEF d
<1>2. \A i \in 1 .. a : r[i] = p[i] /\ s[i] = p[i]
    BY DEF Under
<1> HIDE DEF a, b
<1>3. Len(r) = Len(s)
    BY <1>1
<1>4. ASSUME NEW i \in 1 .. Len(r) PROVE r[i] = s[i]
    <2>1. CASE i \in 1 .. a
        BY <1>2, <2>1
    <2>2. CASE i \notin 1 .. a
        <3>1. i \in a + 1 .. Len(r)
            BY <1>1, <2>2
        <3> QED BY <1>1, <1>3, <3>1
    <2> QED BY <2>1, <2>2
<1> QED BY <1>3, <1>4, SeqEqual

\* What is below the source and what is below the destination are apart.
LEMMA DestApart ==
    ASSUME NEW p \in SomePaths, NEW q \in SomePaths, Apart(p, q), NEW r \in Seq(Names), Under(p, r)
    PROVE  /\ Dest(p, q, r) \in SomePaths
           /\ \A x \in Seq(Names) : Under(p, x) => x # Dest(p, q, r) /\ x # Front(Dest(p, q, r))
<1> DEFINE d == Dest(p, q, r)
<1>1. p \in Seq(Names) /\ q \in Seq(Names)
    BY DEF SomePaths
<1>2. /\ d \in Seq(Names) /\ Len(d) = Len(q) + (Len(r) - Len(p))
      /\ Len(p) \in Nat /\ Len(q) \in Nat /\ Len(r) \in Nat /\ Len(p) <= Len(r)
      /\ \A i \in 1 .. Len(q) : d[i] = q[i]
    BY <1>1, DestIs
<1> HIDE DEF d
<1>3. PICK l \in 1 .. Len(p) : l <= Len(q) /\ p[l] # q[l]
    BY DEF Apart
<1>4. d[l] = q[l] /\ Len(d) # 0
    BY <1>2, <1>3
<1>5. d \in Seq(Names) \ {<<>>}
    BY <1>2, <1>4
<1>6. ASSUME NEW x \in Seq(Names), Under(p, x) PROVE x # d /\ x # Front(d)
    <2>1. x[l] = p[l] /\ Len(p) <= Len(x)
        BY <1>6 DEF Under
    <2>2. x # d
        BY <1>3, <1>4, <2>1
    <2>3. ASSUME x = Front(d) PROVE FALSE
        <3>1. Len(x) = Len(d) - 1 /\ \A i \in 1 .. Len(d) - 1 : x[i] = d[i]
            BY <1>5, <2>3, SplitPath
        <3>2. l \in 1 .. Len(d) - 1
            BY <1>2, <2>1, <3>1
        <3> QED BY <1>3, <1>4, <2>1, <3>1, <3>2
    <2> QED BY <2>2, <2>3
<1> QED BY <1>5, <1>6 DEF d, SomePaths

\* One name more.
LEMMA DestDeeper ==
    ASSUME NEW p \in Seq(Names), NEW q \in Seq(Names), NEW r \in Seq(Names), Under(p, r), NEW x \in Names
    PROVE  Under(p, Append(r, x)) /\ Dest(p, q, Append(r, x)) = Append(Dest(p, q, r), x)
<1> DEFINE rx == Append(r, x)
           d == Dest(p, q, r)
           e == Dest(p, q, rx)
           dx == Append(d, x)
           a == Len(p)
           b == Len(q)
           n == Len(r)
<1>1. /\ rx \in Seq(Names) /\ Len(rx) = n + 1 /\ n \in Nat /\ rx[n + 1] = x
      /\ \A i \in 1 .. n : rx[i] = r[i]
    OBVIOUS
<1> HIDE DEF rx
<1>2. Under(p, rx)
    <2>1. a <= n /\ \A i \in 1 .. a : r[i] = p[i]
        BY DEF Under
    <2>2. a \in Nat
        OBVIOUS
    <2> HIDE DEF a, n
    <2>3. a <= n + 1 /\ \A i \in 1 .. a : i \in 1 .. n
        BY <1>1, <2>1, <2>2
    <2>4. a <= Len(rx) /\ \A i \in 1 .. a : rx[i] = p[i]
        BY <1>1, <2>1, <2>3
    <2> QED BY <2>4 DEF Under, a
<1>3. /\ d \in Seq(Names) /\ Len(d) = b + (n - a)
      /\ a \in Nat /\ b \in Nat /\ a <= n
      /\ \A i \in 1 .. b : d[i] = q[i]
      /\ \A i \in a + 1 .. n : d[b + (i - a)] = r[i]
    BY DestIs
<1>4. /\ e \in Seq(Names) /\ Len(e) = b + (Len(rx) - a)
      /\ \A i \in 1 .. b : e[i] = q[i]
      /\ \A i \in a + 1 .. Len(rx) : e[b + (i - a)] = rx[i]
    BY <1>1, <1>2, DestIs
<1> HIDE DEF d, e
<1>5. /\ dx \in Seq(Names) /\ Len(dx) = Len(d) + 1 /\ dx[Len(d) + 1] = x
      /\ \A i \in 1 .. Len(d) : dx[i] = d[i]
    BY <1>3
<1> HIDE DEF dx, a, b, n
<1>6. Len(dx) = Len(e)
    BY <1>1, <1>3, <1>4, <1>5
<1>7. ASSUME NEW i \in 1 .. Len(e) PROVE e[i] = dx[i]
    <2>1. CASE i \in 1 .. b
        <3>1. i \in 1 .. Len(d)
            BY <1>1, <1>3, <2>1
        <3>2. e[i] = q[i] /\ d[i] = q[i]
            BY <1>3, <1>4, <2>1
        <3> QED BY <1>5, <3>1, <3>2
    <2>2. CASE i \notin 1 .. b
        <3> DEFINE j == i - b + a
        <3>1. j \in a + 1 .. n + 1 /\ b + (j - a) = i
            BY <1>1, <1>3, <1>4, <2>2
        <3> HIDE DEF j
        <3>2. e[i] = rx[j]
            BY <1>1, <1>4, <3>1
        <3>3. CASE j = n + 1
            <4>1. i = Len(d) + 1
                BY <1>1, <1>3, <3>1, <3>3
            <4> QED BY <1>1, <1>5, <3>2, <3>3, <4>1
        <3>4. CASE j # n + 1
            <4>1. j \in a + 1 .. n /\ j \in 1 .. n /\ i \in 1 .. Len(d)
                BY <1>1, <1>3, <3>1, <3>4
            <4>2. d[i] = r[j]
                BY <1>3, <3>1, <4>1
            <4> QED BY <1>1, <1>5, <3>2, <4>1, <4>2
        <3> QED BY <3>3, <3>4
    <2> QED BY <2>1, <2>2
<1>8. e = dx
    BY <1>4, <1>5, <1>6, <1>7, SeqEqual
<1> QED BY <1>2, <1>8 DEF e, dx, rx, d

LEMMA DestOfSource ==
    ASSUME NEW p \in Seq(Names), NEW q \in Seq(Names)
    PROVE  Under(p, p) /\ Dest(p, q, p) = q
<1>1. Under(p, p)
    BY LenProperties DEF Under
<1> DEFINE d == Dest(p, q, p)
<1>2. /\ d \in Seq(Names) /\ Len(d) = Len(q) + (Len(p) - Len(p)) /\ Len(p) \in Nat /\ Len(q) \in Nat
      /\ \A i \in 1 .. Len(q) : d[i] = q[i]
    BY <1>1, DestIs
<1> HIDE DEF d
<1>3. Len(d) = Len(q)
    BY <1>2
<1>4. d = q
    BY <1>2, <1>3, SeqEqual
<1> QED BY <1>1, <1>4 DEF d

-----------------------------------------------------------------------------
\* The steps of a rename are about what is below its source, and what they are to
\* bring where it belongs.
Mapped(l, p, q) ==
    \A i \in DOMAIN l :
        /\ l[i].do # "remove"
        /\ l[i].do # "mkdir" => Under(p, l[i].path)
        /\ l[i].do \in {"copy", "move", "moveAll"} => l[i].to = Dest(p, q, l[i].path)

MovesIt(l, r) == MovesNext(l) /\ l[1].path = r

\* A file of the content c that a rename moves from r to s: it is at r, in memory and
\* in the repository, and also at s there if only its removal is left to be stored;
\* or it is at s.
KeptFile(m, t, l, r, s, c) ==
    \/ /\ \E f \in Filed(t, r) : f.content = c
       /\ ContentAt(m, r) = c
       /\ MovesIt(l, r) => ContentAt(m, s) = c
       /\ ~MovesIt(l, r) => (Filed(t, s) = {} <=> Filed(m, s) = {})
    \/ Filed(t, r) = {} /\ ContentAt(m, s) = c

\* The files of which CrashKeepsMoved speaks.
Followed(log, t, p, q) ==
    {r \in Paths : /\ Under(p, r) /\ FileExists(t, r)
                   /\ ContentAt(Replay(log), r) = ContentAt(t, r)
                   /\ FileExists(t, Dest(p, q, r)) <=> FileExists(Replay(log), Dest(p, q, r))}

Keeps(req, log, t, l) ==
    /\ req.path \in SomePaths /\ req.to \in SomePaths /\ Apart(req.path, req.to)
    /\ req.stored \in Nat /\ req.stored <= Len(log)
    /\ Mapped(l, req.path, req.to)
    /\ \A r \in Followed(SubSeq(log, 1, req.stored), req.tree, req.path, req.to) :
            KeptFile(Replay(log), t, l, r, Dest(req.path, req.to, r), ContentAt(req.tree, r))

LEMMA ContentOfFiled ==
    ASSUME NEW t, NEW p
    PROVE  /\ Filed(t, p) = {} => ContentAt(t, p) = NoContent
           /\ \A f : Filed(t, p) = {f} => ContentAt(t, p) = f.content
BY DEF Filed, ContentAt

LEMMA OneFile ==
    ASSUME NEW t, NEW p
    PROVE  Filed(t, p) = {} \/ \E f : Filed(t, p) = {f}
BY DEF Filed

\* Nothing happens at either place.
LEMMA SameKept ==
    ASSUME NEW m, NEW t, NEW l, NEW r, NEW s, NEW c, KeptFile(m, t, l, r, s, c),
           NEW n, NEW u, NEW k,
           Filed(n, r) = Filed(m, r), Filed(n, s) = Filed(m, s),
           Filed(u, r) = Filed(t, r), Filed(u, s) = Filed(t, s),
           ~MovesIt(l, r), ~MovesIt(k, r)
    PROVE  KeptFile(n, u, k, r, s, c)
<1>1. ContentAt(n, r) = ContentAt(m, r) /\ ContentAt(n, s) = ContentAt(m, s)
    BY ContentIs
<1> QED BY <1>1 DEF KeptFile

\* flushFile stores what memory has.
LEMMA FlushKept ==
    ASSUME NEW m, NEW t, NEW l, NEW r \in SomePaths, NEW s \in SomePaths, NEW c,
           KeptFile(m, t, l, r, s, c),
           NEW n, NEW u, NEW k, NEW p \in SomePaths, NEW x, NEW f, NEW g, s # p,
           x.path = p, x.type \in {AddFile, EditFile}, x.content = f.content,
           ShowsAfter(m, x, n), HasDir(m, Front(p)),
           Filed(t, p) = {f}, g.content = f.content, FileUpdate(t, u, p, {g}),
           ~MovesIt(l, r), ~MovesIt(k, r)
    PROVE  KeptFile(n, u, k, r, s, c)
<1>1. /\ \A q \in SomePaths : Filed(n, q) = FiledAfter(m, x, q)
      /\ \A q \in SomePaths : Filed(u, q) = IF q = p THEN {g} ELSE Filed(t, q)
    BY DEF ShowsAfter, FileUpdate, SomePaths
<1>2. x.type # RemoveFile /\ x.type # RemoveDirectory
    BY DEF AddFile, EditFile, RemoveFile, RemoveDirectory
<1>3. \A q \in SomePaths : q # p => Filed(n, q) = Filed(m, q)
    BY <1>1, <1>2 DEF FiledAfter
<1>4. CASE r # p
    <2>1. Filed(n, r) = Filed(m, r) /\ Filed(n, s) = Filed(m, s)
        BY <1>3, <1>4
    <2>2. Filed(u, r) = Filed(t, r) /\ Filed(u, s) = Filed(t, s)
        BY <1>1, <1>4
    <2> QED BY <2>1, <2>2, SameKept
<1>5. CASE r = p
    <2>1. f.content = c /\ ContentAt(m, r) = c /\ (Filed(t, s) = {} <=> Filed(m, s) = {})
        BY <1>5 DEF KeptFile
    <2>2. Filed(n, s) = Filed(m, s) /\ Filed(u, s) = Filed(t, s) /\ Filed(u, r) = {g}
        BY <1>1, <1>3, <1>5
    <2>3. Filed(n, r) = Filed(m, r) \/ Filed(n, r) = {CleanOf(x)}
        BY <1>1, <1>2, <1>5 DEF FiledAfter
    <2>4. CleanOf(x).content = c
        BY <2>1, CleanFileIs DEF CleanOf
    <2>5. ContentAt(n, r) = c
        BY <2>1, <2>3, <2>4, ContentIs, ContentOfFiled
    <2> QED BY <2>1, <2>2, <2>5 DEF KeptFile
<1> QED BY <1>4, <1>5

\* renameFile stores the copy: where there is no file in memory there is none in the
\* repository, and the action that adds it does; where there is one it is replaced.
LEMMA CopyKept ==
    ASSUME NEW m, NEW t, NEW l, NEW r \in SomePaths, NEW s \in SomePaths, NEW c,
           KeptFile(m, t, l, r, s, c),
           NEW n, NEW k, NEW p \in SomePaths, NEW d \in SomePaths, NEW x, NEW f, r # d,
           r = p => s = d, r # p => s # d,
           x.path = d, x.type = (IF Filed(t, d) # {} THEN EditFile ELSE AddFile), x.content = f.content,
           ShowsAfter(m, x, n), HasDir(m, Front(d)), Filed(t, p) = {f},
           ~MovesNext(l), MovesNext(k), k[1].path = p
    PROVE  KeptFile(n, t, k, r, s, c)
<1>1. \A q \in SomePaths : Filed(n, q) = FiledAfter(m, x, q)
    BY DEF ShowsAfter, SomePaths
<1>2. x.type # RemoveFile /\ x.type # RemoveDirectory
    BY DEF AddFile, EditFile, RemoveFile, RemoveDirectory
<1>3. \A q \in SomePaths : q # d => Filed(n, q) = Filed(m, q)
    BY <1>1, <1>2 DEF FiledAfter
<1>4. ~MovesIt(l, r) /\ (MovesIt(k, r) <=> r = p)
    BY DEF MovesIt
<1>5. CASE r # p
    BY <1>3, <1>4, <1>5, SameKept
<1>6. CASE r = p
    <2>1. /\ f.content = c /\ ContentAt(m, r) = c /\ (Filed(t, d) = {} <=> Filed(m, d) = {}) /\ s = d
        BY <1>4, <1>6 DEF KeptFile
    <2>2. Filed(n, d) = {CleanOf(x)}
        <3>1. CASE Filed(t, d) = {}
            BY <1>1, <2>1, <3>1 DEF FiledAfter
        <3>2. CASE Filed(t, d) # {}
            <4>1. x.type = EditFile /\ x.type # AddFile /\ Filed(m, d) # {}
                BY <2>1, <3>2 DEF AddFile, EditFile
            <4> QED BY <1>1, <4>1 DEF FiledAfter
        <3> QED BY <3>1, <3>2
    <2>3. CleanOf(x).content = c
        BY <2>1, CleanFileIs DEF CleanOf
    <2>4. ContentAt(n, s) = c
        BY <2>1, <2>2, <2>3, ContentOfFiled
    <2>5. ContentAt(n, r) = c
        BY <1>3, <2>1, ContentIs
    <2> QED BY <1>4, <1>6, <2>1, <2>4, <2>5 DEF KeptFile
<1> QED BY <1>5, <1>6

\* renameFile stores the removal.
LEMMA MoveKept ==
    ASSUME NEW m, NEW t, NEW l, NEW r \in SomePaths, NEW s \in SomePaths, NEW c,
           KeptFile(m, t, l, r, s, c),
           NEW n, NEW u, NEW k, NEW p \in SomePaths, NEW d \in SomePaths, NEW x, NEW g, r # d, s # p,
           r = p => s = d, r # p => s # d,
           x.path = p, x.type = RemoveFile, ShowsAfter(m, x, n), Moves2(t, u, p, d, g),
           MovesNext(l), l[1].path = p, ~MovesNext(k), Filed(t, p) # {}
    PROVE  KeptFile(n, u, k, r, s, c)
<1>1. /\ \A q \in SomePaths : Filed(n, q) = FiledAfter(m, x, q)
      /\ Filed(u, p) = {} /\ \A q \in SomePaths : q # p /\ q # d => Filed(u, q) = Filed(t, q)
    BY DEF ShowsAfter, Moves2, SomePaths
<1>2. \A q \in SomePaths : q # p => Filed(n, q) = Filed(m, q)
    BY <1>1 DEF FiledAfter, AddFile, EditFile, RemoveFile, RemoveDirectory
<1>3. ~MovesIt(k, r) /\ (MovesIt(l, r) <=> r = p)
    BY DEF MovesIt
<1>4. CASE r # p
    BY <1>1, <1>2, <1>3, <1>4, SameKept
<1>5. CASE r = p
    <2>1. ContentAt(m, s) = c
        BY <1>3, <1>5 DEF KeptFile
    <2>2. ContentAt(n, s) = c
        BY <1>2, <2>1, ContentIs
    <2> QED BY <1>1, <1>5, <2>2 DEF KeptFile
<1> QED BY <1>4, <1>5

\* A directory that is made or removed takes no file that is followed with it.
LEMMA DirKept ==
    ASSUME NEW m, NEW t, NEW l, NEW r \in SomePaths, NEW s \in SomePaths, NEW c,
           KeptFile(m, t, l, r, s, c),
           NEW n, NEW u, NEW k, NEW p \in SomePaths, NEW x,
           x.path = p, x.type \in {AddDirectory, RemoveDirectory}, ShowsAfter(m, x, n),
           \A q \in SomePaths : Filed(u, q) = Filed(t, q),
           x.type = RemoveDirectory =>
                Front(s) # p /\ \A q \in SomePaths : Front(q) = p => Filed(t, q) = {},
           ~MovesIt(l, r), ~MovesIt(k, r)
    PROVE  KeptFile(n, u, k, r, s, c)
<1>1. /\ \A q \in SomePaths : Filed(n, q) = FiledAfter(m, x, q)
      /\ x.type # AddFile /\ x.type # EditFile /\ x.type # RemoveFile
    BY DEF ShowsAfter, SomePaths, AddFile, EditFile, RemoveFile, AddDirectory, RemoveDirectory
<1>2. \A q \in SomePaths : Filed(n, q) = IF x.type = RemoveDirectory /\ Front(q) = p THEN {} ELSE Filed(m, q)
    BY <1>1 DEF FiledAfter
<1>3. Filed(n, s) = Filed(m, s)
    BY <1>2
<1>4. CASE x.type = RemoveDirectory /\ Front(r) = p
    <2>1. Filed(t, r) = {} /\ ContentAt(m, s) = c
        BY <1>4 DEF KeptFile
    <2>2. ContentAt(n, s) = c
        BY <1>3, <2>1, ContentIs
    <2> QED BY <2>1, <2>2 DEF KeptFile
<1>5. CASE ~(x.type = RemoveDirectory /\ Front(r) = p)
    BY <1>2, <1>3, <1>5, SameKept
<1> QED BY <1>4, <1>5

-----------------------------------------------------------------------------
\* What was stored before the rename stays.
LEMMA BeforeStays ==
    ASSUME NEW log \in Seq(Actions), NEW x \in Actions, NEW j \in Nat, j <= Len(log)
    PROVE  SubSeq(Append(log, x), 1, j) = SubSeq(log, 1, j) /\ j <= Len(Append(log, x))
<1> DEFINE n == Append(log, x)
<1>1. /\ Len(log) \in Nat /\ Len(n) = Len(log) + 1 /\ n \in Seq(Actions)
      /\ \A i \in 1 .. Len(log) : n[i] = log[i] /\ log[i] \in Actions
    BY AppendIs, ElementOfSeq
<1> HIDE DEF n
<1>2. \A i \in 1 .. j : n[i] = log[i] /\ log[i] \in Actions
    BY <1>1
<1> DEFINE a == SubSeq(n, 1, j)
           b == SubSeq(log, 1, j)
<1>3. 1 \in Int /\ j \in Int
    OBVIOUS
<1>4. /\ a \in Seq(Actions) /\ Len(a) = (IF 1 <= j THEN j - 1 + 1 ELSE 0)
      /\ \A i \in 1 .. j - 1 + 1 : a[i] = n[1 + i - 1]
    BY <1>2, <1>3, SubSeqProperties
<1>5. /\ b \in Seq(Actions) /\ Len(b) = (IF 1 <= j THEN j - 1 + 1 ELSE 0)
      /\ \A i \in 1 .. j - 1 + 1 : b[i] = log[1 + i - 1]
    BY <1>2, <1>3, SubSeqProperties
<1> HIDE DEF a, b
<1>6. \A i \in 1 .. Len(a) : i \in 1 .. j - 1 + 1 /\ 1 + i - 1 = i /\ i \in 1 .. j
    BY <1>4
<1>7. \A i \in 1 .. Len(a) : a[i] = b[i]
    BY <1>2, <1>4, <1>5, <1>6
<1>8. a = b
    BY <1>4, <1>5, <1>7, SeqEqual
<1> QED BY <1>1, <1>8 DEF a, b, n

\* A step that keeps every followed file keeps what is said of them all.
LEMMA KeepsOn ==
    ASSUME NEW req, NEW log \in Seq(Actions), NEW t, NEW l, Keeps(req, log, t, l),
           NEW n, n = log \/ \E x \in Actions : n = Append(log, x), NEW u, NEW k,
           Mapped(k, req.path, req.to),
           \A r, s \in SomePaths : \A c :
                /\ Under(req.path, r) /\ s = Dest(req.path, req.to, r)
                /\ KeptFile(Replay(log), t, l, r, s, c)
                => KeptFile(Replay(n), u, k, r, s, c)
    PROVE  Keeps(req, n, u, k)
<1> DEFINE p == req.path
           q == req.to
           j == req.stored
<1>1. /\ p \in SomePaths /\ q \in SomePaths /\ Apart(p, q) /\ j \in Nat /\ j <= Len(log)
      /\ \A r \in Followed(SubSeq(log, 1, j), req.tree, p, q) :
            KeptFile(Replay(log), t, l, r, Dest(p, q, r), ContentAt(req.tree, r))
    BY DEF Keeps
<1> HIDE DEF j
<1>2. SubSeq(n, 1, j) = SubSeq(log, 1, j) /\ j <= Len(n)
    BY <1>1, BeforeStays
<1>3. ASSUME NEW r \in Followed(SubSeq(log, 1, j), req.tree, p, q)
      PROVE  KeptFile(Replay(n), u, k, r, Dest(p, q, r), ContentAt(req.tree, r))
    <2>1. r \in SomePaths /\ r \in Seq(Names) /\ Under(p, r)
        BY PathsAssumption DEF Followed, SomePaths
    <2>2. Dest(p, q, r) \in SomePaths
        BY <1>1, <2>1, DestApart
    <2>3. KeptFile(Replay(log), t, l, r, Dest(p, q, r), ContentAt(req.tree, r))
        BY <1>1
    <2> QED BY <2>1, <2>2, <2>3
<1> QED BY <1>1, <1>2, <1>3 DEF Keeps, j

LEMMA MappedTail ==
    ASSUME NEW l \in Seq(Steps), l # <<>>, NEW p, NEW q, Mapped(l, p, q)
    PROVE  Mapped(Tail(l), p, q)
<1> DEFINE k == Tail(l)
<1>1. /\ Len(l) \in Nat /\ DOMAIN l = 1 .. Len(l) /\ DOMAIN k = 1 .. Len(l) - 1
      /\ \A i \in 1 .. Len(l) - 1 : k[i] = l[i + 1]
    BY ListFacts
<1> HIDE DEF k
<1>2. ASSUME NEW i \in DOMAIN k PROVE i + 1 \in DOMAIN l /\ k[i] = l[i + 1]
    BY <1>1
<1>3. Mapped(k, p, q)
    BY <1>2 DEF Mapped
<1> QED BY <1>3 DEF k

\* What an action shows to those that mount.
LEMMA ActionShows ==
    ASSUME NEW log \in Seq(Actions), NEW t, OrdersAgree(log, t), NEW x \in Actions, Apt(t, x)
    PROVE  /\ SameDirs(Replay(log), t)
           /\ ShowsAfter(Replay(log), x, Replay(Append(log, x)))
<1>1. log \in MountOrders(log)
    BY LogIsAnOrder
<1>2. IsTree(Replay(log)) /\ SameDirs(Replay(log), t) /\ SameDirs(t, Replay(log))
    BY <1>1 DEF OrdersAgree, SameDirs
<1>3. ActionShape(x)
    BY ActionsHaveShape
<1>4. Apt(Replay(log), x)
    BY <1>2, <1>3, AptWithSameDirs
<1>5. Replay(Append(log, x)) = DoAction(Replay(log), x)
    BY ReplayAppend
<1> QED BY <1>2, <1>3, <1>4, <1>5, DoActionIs

\* What is known before a step of a rename.
LEMMA StepFacts ==
    ASSUME NEW req, NEW log, NEW t, NEW l, NEW half, Coherent(log, t, l, half), l # <<>>,
           Keeps(req, log, t, l)
    PROVE  /\ IsTree(t) /\ TodoFor(l, t) /\ Shape(l) /\ l \in Seq(Steps) /\ log \in Seq(Actions)
           /\ OrdersAgree(log, t) /\ Len(log) \in Nat /\ 1 \in DOMAIN l
           /\ l[1] \in Steps /\ l[1].path \in SomePaths /\ l[1].to \in SomePaths
           /\ l[1].path \in Seq(Names) /\ Ready(l, t, 1)
           /\ req.path \in SomePaths /\ req.to \in SomePaths /\ Apart(req.path, req.to)
           /\ Mapped(l, req.path, req.to) /\ Mapped(Tail(l), req.path, req.to)
           /\ \A r \in SomePaths : Under(req.path, r) =>
                /\ Dest(req.path, req.to, r) \in SomePaths
                /\ \A y \in SomePaths : Under(req.path, y) =>
                        y # Dest(req.path, req.to, r) /\ y # Front(Dest(req.path, req.to, r))
<1>1. /\ IsTree(t) /\ TodoFor(l, t) /\ Shape(l) /\ l \in Seq(Steps) /\ log \in Seq(Actions)
      /\ OrdersAgree(log, t)
    BY DEF Coherent, TodoFor, Shape, Agreement
<1>2. Len(log) \in Nat /\ 1 \in DOMAIN l
    BY <1>1, ListFacts
<1>3. l[1] \in Steps /\ l[1].path \in SomePaths /\ l[1].to \in SomePaths /\ l[1].path \in Seq(Names)
    BY <1>1, <1>2, StepIs
<1>4. Ready(l, t, 1)
    BY <1>1, <1>2 DEF TodoFor
<1>5. /\ req.path \in SomePaths /\ req.to \in SomePaths /\ Apart(req.path, req.to)
      /\ Mapped(l, req.path, req.to)
    BY DEF Keeps
<1>6. Mapped(Tail(l), req.path, req.to)
    BY <1>1, <1>5, MappedTail
<1>7. ASSUME NEW r \in SomePaths, Under(req.path, r)
      PROVE  /\ Dest(req.path, req.to, r) \in SomePaths
             /\ \A y \in SomePaths : Under(req.path, y) =>
                    y # Dest(req.path, req.to, r) /\ y # Front(Dest(req.path, req.to, r))
    <2>1. r \in Seq(Names) /\ \A y \in SomePaths : y \in Seq(Names)
        BY DEF SomePaths
    <2> QED BY <1>5, <1>7, <2>1, DestApart
<1> QED BY <1>1, <1>2, <1>3, <1>4, <1>5, <1>6, <1>7

\* flushFile with nothing to do, and the end of a loop.
LEMMA NothingKeeps ==
    ASSUME NEW req, NEW log, NEW t, NEW l, NEW half, Coherent(log, t, l, half), l # <<>>,
           l[1].do \in {"flush", "moveAll"}, Keeps(req, log, t, l)
    PROVE  Keeps(req, log, t, Tail(l))
<1>1. Shape(l) /\ log \in Seq(Actions) /\ Mapped(Tail(l), req.path, req.to)
    BY StepFacts
<1>2. ~MovesNext(l) /\ ~MovesNext(Tail(l))
    BY <1>1, NotMoving DEF MovesNext
<1>3. ASSUME NEW r \in SomePaths, NEW s \in SomePaths, NEW c, KeptFile(Replay(log), t, l, r, s, c)
      PROVE  KeptFile(Replay(log), t, Tail(l), r, s, c)
    BY <1>2, <1>3, SameKept DEF MovesIt
<1> QED BY <1>1, <1>3, KeepsOn

LEMMA FlushInRename ==
    ASSUME NEW req, NEW log, NEW t, NEW l, NEW half, Coherent(log, t, l, half), l # <<>>,
           l[1].do = "flush", Keeps(req, log, t, l),
           NEW p, p = l[1].path, NEW x,
           x = [time |-> Len(log) + 1, type |-> IF FileAt(t, p).create THEN AddFile ELSE EditFile,
                path |-> p, content |-> FileAt(t, p).content]
    PROVE  Keeps(req, Append(log, x),
                 SetFile(t, FindContainingDir(t, p), Last(p), CleanFile(Last(p), FileAt(t, p).content)),
                 Tail(l))
<1> DEFINE f == FileAt(t, p)
           g == CleanFile(Last(p), f.content)
           u == SetFile(t, FindContainingDir(t, p), Last(p), g)
           n == Append(log, x)
           type == IF f.create THEN AddFile ELSE EditFile
<1>1. /\ IsTree(t) /\ TodoFor(l, t) /\ Shape(l) /\ log \in Seq(Actions) /\ OrdersAgree(log, t)
      /\ Len(log) \in Nat /\ 1 \in DOMAIN l /\ p \in SomePaths
      /\ Mapped(l, req.path, req.to) /\ Mapped(Tail(l), req.path, req.to)
    BY StepFacts
<1>2. /\ p \in Seq(Names) \ {<<>>} /\ FileExists(t, p) /\ Filed(t, p) = {f} /\ f \in Files
      /\ f.content \in ContentOf /\ Last(p) \in Names
    BY <1>1, HeadFile
<1>3. g \in Files /\ g.name = Last(p) /\ g.content = f.content
    BY <1>2, CleanFileIs DEF CleanFile, Files
<1>4. x \in Actions /\ x.path = p /\ x.type = type /\ x.content = f.content
    <2>1. type \in ActionTypes /\ Len(log) + 1 \in Nat
        BY <1>1 DEF ActionTypes
    <2> HIDE DEF type, f
    <2>2. x = [time |-> Len(log) + 1, type |-> type, path |-> p, content |-> f.content]
        BY DEF type, f
    <2> QED BY <1>2, <2>1, <2>2, ActionIs
<1>5. x.type \in {AddFile, EditFile}
    BY <1>4
<1>6. FileUpdate(t, u, p, {g})
    BY <1>1, <1>2, <1>3, SetFileView
<1> HIDE DEF f, g, u, n, type
<1>7. Apt(t, x)
    BY <1>5 DEF Apt, AddFile, EditFile, AddDirectory, RemoveDirectory
<1>8. SameDirs(Replay(log), t) /\ ShowsAfter(Replay(log), x, Replay(n))
    BY <1>1, <1>4, <1>7, ActionShows DEF n
<1>9. HasDir(Replay(log), Front(p))
    <2>1. HasDir(t, Front(p))
        BY <1>1, <1>2, FiledOfDir
    <2>2. Front(p) \in Seq(Names)
        BY <1>2, SplitPath
    <2> QED BY <1>8, <2>1, <2>2 DEF SameDirs
<1>10. ~MovesNext(l) /\ ~MovesNext(Tail(l))
    BY <1>1, NotMoving DEF MovesNext
<1>11. ASSUME NEW r \in SomePaths, NEW s \in SomePaths, NEW c,
              Under(req.path, r), s = Dest(req.path, req.to, r), KeptFile(Replay(log), t, l, r, s, c)
       PROVE  KeptFile(Replay(n), u, Tail(l), r, s, c)
    <2>1. Under(req.path, p)
        BY <1>1 DEF Mapped
    <2>2. s # p
        BY <1>1, <1>11, <2>1, StepFacts
    <2>3. ~MovesIt(l, r) /\ ~MovesIt(Tail(l), r)
        BY <1>10 DEF MovesIt
    <2> QED BY <1>1, <1>2, <1>3, <1>4, <1>5, <1>6, <1>8, <1>9, <1>11, <2>2, <2>3, FlushKept
<1>12. Keeps(req, n, u, Tail(l))
    <2>1. \E y \in Actions : n = Append(log, y)
        BY <1>4 DEF n
    <2> QED BY <1>1, <1>11, <2>1, KeepsOn
<1> QED BY <1>12 DEF n, u, g, f

LEMMA CopyInRename ==
    ASSUME NEW req, NEW log, NEW t, NEW l, NEW half, Coherent(log, t, l, half), l # <<>>,
           l[1].do = "copy", Keeps(req, log, t, l),
           NEW s, s = l[1], NEW x,
           x = [time |-> Len(log) + 1, type |-> IF s.over THEN EditFile ELSE AddFile,
                path |-> s.to, content |-> FileAt(t, s.path).content]
    PROVE  Keeps(req, Append(log, x), t, Tail(l))
<1> DEFINE p == s.path
           d == s.to
           f == FileAt(t, p)
           n == Append(log, x)
           k == Tail(l)
           type == IF s.over THEN EditFile ELSE AddFile
<1>1. /\ IsTree(t) /\ TodoFor(l, t) /\ Shape(l) /\ log \in Seq(Actions) /\ OrdersAgree(log, t)
      /\ Len(log) \in Nat /\ 1 \in DOMAIN l /\ p \in SomePaths /\ d \in SomePaths
      /\ Mapped(l, req.path, req.to) /\ Mapped(k, req.path, req.to) /\ Ready(l, t, 1)
      /\ l \in Seq(Steps)
    BY StepFacts
<1>2. Filed(t, p) = {f} /\ f.content \in ContentOf
    BY <1>1, HeadFile
<1>3. HasDir(t, Front(d)) /\ (s.over <=> Filed(t, d) # {})
    BY <1>1 DEF Ready, FileReady
<1>4. x \in Actions /\ x.path = d /\ x.type = type /\ x.content = f.content
    <2>1. type \in ActionTypes /\ Len(log) + 1 \in Nat /\ d \in Seq(Names) \ {<<>>}
        BY <1>1 DEF ActionTypes, SomePaths
    <2> HIDE DEF type, f, d
    <2>2. x = [time |-> Len(log) + 1, type |-> type, path |-> d, content |-> f.content]
        BY DEF type, f, d
    <2> QED BY <1>2, <2>1, <2>2, ActionIs
<1>5. x.type = IF Filed(t, d) # {} THEN EditFile ELSE AddFile
    BY <1>3, <1>4
<1>6. Apt(t, x)
    BY <1>5 DEF Apt, AddFile, EditFile, AddDirectory, RemoveDirectory
<1> HIDE DEF f, n, type
<1>7. SameDirs(Replay(log), t) /\ ShowsAfter(Replay(log), x, Replay(n))
    BY <1>1, <1>4, <1>6, ActionShows DEF n
<1>8. HasDir(Replay(log), Front(d))
    <2>1. Front(d) \in Seq(Names)
        BY <1>1, SplitPath DEF SomePaths
    <2> QED BY <1>3, <1>7, <2>1 DEF SameDirs
<1>9. Under(req.path, p) /\ d = Dest(req.path, req.to, p)
    BY <1>1 DEF Mapped
<1>10. ~MovesNext(l) /\ MovesNext(k) /\ k[1].path = p
    <2>1. /\ DOMAIN l = 1 .. Len(l) /\ Len(l) \in Nat /\ DOMAIN k = 1 .. Len(l) - 1
          /\ \A i \in 1 .. Len(l) - 1 : k[i] = l[i + 1]
        BY <1>1, ListFacts
    <2> HIDE DEF k
    <2>2. 1 + 1 \in DOMAIN l /\ l[1 + 1] = Turned(s, "move")
        BY <1>1 DEF Shape, Places
    <2>3. 1 \in 1 .. Len(l) - 1
        BY <2>1, <2>2
    <2>4. k[1] = Turned(s, "move")
        BY <2>1, <2>2, <2>3
    <2>5. k # <<>>
        <3>1. DOMAIN <<>> = {}
            OBVIOUS
        <3>2. 1 \in DOMAIN k
            BY <2>1, <2>3
        <3> QED BY ONLY <3>1, <3>2
    <2> QED BY <2>4, <2>5, TurnedIs DEF MovesNext
<1> HIDE DEF k, p, d
<1>11. ASSUME NEW r \in SomePaths, NEW e \in SomePaths, NEW c,
              Under(req.path, r), e = Dest(req.path, req.to, r), KeptFile(Replay(log), t, l, r, e, c)
       PROVE  KeptFile(Replay(n), t, k, r, e, c)
    <2>1. r # d
        BY <1>1, <1>9, <1>11, StepFacts
    <2>2. r = p => e = d
        BY <1>9, <1>11
    <2>3. r # p => e # d
        <3>1. /\ req.path \in Seq(Names) /\ req.to \in Seq(Names) /\ r \in Seq(Names) /\ p \in Seq(Names)
            BY <1>1, StepFacts DEF SomePaths
        <3> QED BY <1>9, <1>11, <3>1, DestDiffers
    <2> QED BY <1>1, <1>2, <1>4, <1>5, <1>7, <1>8, <1>10, <1>11, <2>1, <2>2, <2>3, CopyKept
<1>12. Keeps(req, n, t, k)
    <2>1. \E y \in Actions : n = Append(log, y)
        BY <1>4 DEF n
    <2> QED BY <1>1, <1>11, <2>1, KeepsOn
<1> QED BY <1>12 DEF n, k

\* The file is at its new place in memory after the move.
LEMMA MoveInMemory ==
    ASSUME NEW t, NEW l, IsTree(t), TodoFor(l, t), l # <<>>, l[1].do = "move",
           NEW s, s = l[1], NEW c \in ContentOf
    PROVE  \E g : Moves2(t, MovedTree(t, s.path, s.to, s.over, c), s.path, s.to, g)
<1> DEFINE p == s.path
           q == s.to
<1>1. /\ p \in Seq(Names) \ {<<>>} /\ FileExists(t, p) /\ Filed(t, p) = {FileAt(t, p)}
    BY HeadFile
<1>2. 1 \in DOMAIN l /\ Shape(l) /\ q \in Seq(Names) \ {<<>>} /\ q \in Seq(Names) /\ s.over \in BOOLEAN
    <2>1. 1 \in DOMAIN l /\ Shape(l)
        BY ListFacts DEF Shape, TodoFor
    <2> QED BY <2>1, StepIs DEF SomePaths
<1>3. ~Dirty(FileAt(t, p))
    BY <1>1 DEF TodoFor, HeadClean, CleanAt
<1>4. HasDir(t, Front(q)) /\ (s.over <=> Filed(t, q) # {})
    BY <1>2 DEF TodoFor, Ready, FileReady
<1>5. s.over <=> FileExists(t, q)
    BY <1>2, <1>4, FiledOfDir
<1>6. p # q
    <2>1. Away(l[1], l[1])
        BY <1>2 DEF Shape
    <2>2. Apart(p, q)
        BY <2>1 DEF Away
    <2> QED BY <1>1, <1>2, <2>2, ApartDeeper
<1>7. CASE s.over
    BY <1>1, <1>2, <1>5, <1>6, <1>7, MovedOver
<1>8. CASE ~s.over
    BY <1>1, <1>2, <1>3, <1>4, <1>5, <1>6, <1>8, MovedNew
<1> QED BY <1>7, <1>8

LEMMA MoveInRename ==
    ASSUME NEW req, NEW log, NEW t, NEW l, NEW half, Coherent(log, t, l, half), l # <<>>,
           l[1].do = "move", Keeps(req, log, t, l),
           NEW s, s = l[1], NEW x,
           x = [time |-> Last(log).time, type |-> RemoveFile, path |-> s.path, content |-> NoContent],
           NEW c \in ContentOf
    PROVE  Keeps(req, Append(log, x), MovedTree(t, s.path, s.to, s.over, c), Tail(l))
<1> DEFINE p == s.path
           d == s.to
           u == MovedTree(t, p, d, s.over, c)
           n == Append(log, x)
           k == Tail(l)
<1>1. /\ IsTree(t) /\ TodoFor(l, t) /\ Shape(l) /\ log \in Seq(Actions) /\ OrdersAgree(log, t)
      /\ 1 \in DOMAIN l /\ p \in SomePaths /\ d \in SomePaths
      /\ Mapped(l, req.path, req.to) /\ Mapped(k, req.path, req.to)
    BY StepFacts
<1>2. Filed(t, p) # {}
    BY <1>1, HeadFile
<1>3. PICK g : Moves2(t, u, p, d, g)
    BY <1>1, MoveInMemory
<1>4. x \in Actions /\ x.path = p /\ x.type = RemoveFile
    <2>1. Last(log).time \in Nat
        <3>1. PICK j \in Seq(Actions) : BeforeCopy(j, log, t, s, half)
            BY DEF Coherent, Agreement, MovesNext
        <3>2. log = Append(j, CopyOf(s, t, Len(j) + 1))
            BY <3>1 DEF BeforeCopy
        <3>3. Len(log) \in DOMAIN log /\ Last(log) = log[Len(log)]
            <4>1. /\ Len(log) \in Nat /\ DOMAIN log = 1 .. Len(log)
                BY <1>1, LenProperties
            <4>2. log # <<>>
                BY <3>2
            <4>3. Len(log) # 0
                BY <1>1, <4>2, EmptySeq
            <4> QED BY <4>1, <4>3 DEF Last
        <3>4. log[Len(log)] \in Actions
            BY <1>1, <3>3, ElementOfSeq
        <3> QED BY <3>3, <3>4 DEF Actions
    <2>2. NoContent \in ContentOf /\ RemoveFile \in ActionTypes /\ p \in Seq(Names) \ {<<>>}
        BY <1>1 DEF ActionTypes, ContentOf, SomePaths
    <2> QED BY <2>1, <2>2, ActionIs
<1>5. Apt(t, x)
    BY <1>4 DEF Apt, RemoveFile, AddDirectory, RemoveDirectory
<1> HIDE DEF u, n
<1>6. ShowsAfter(Replay(log), x, Replay(n))
    BY <1>1, <1>4, <1>5, ActionShows DEF n
<1>7. Under(req.path, p) /\ d = Dest(req.path, req.to, p)
    BY <1>1 DEF Mapped
<1>8. MovesNext(l) /\ l[1].path = p /\ ~MovesNext(k)
    BY <1>1, NotMoving DEF MovesNext
<1> HIDE DEF k, p, d
<1>9. ASSUME NEW r \in SomePaths, NEW e \in SomePaths, NEW y,
             Under(req.path, r), e = Dest(req.path, req.to, r), KeptFile(Replay(log), t, l, r, e, y)
      PROVE  KeptFile(Replay(n), u, k, r, e, y)
    <2>1. r # d /\ e # p
        BY <1>1, <1>7, <1>9, StepFacts
    <2>2. r = p => e = d
        BY <1>7, <1>9
    <2>3. r # p => e # d
        <3>1. /\ req.path \in Seq(Names) /\ req.to \in Seq(Names) /\ r \in Seq(Names) /\ p \in Seq(Names)
            BY <1>1, StepFacts DEF SomePaths
        <3> QED BY <1>7, <1>9, <3>1, DestDiffers
    <2> QED BY <1>1, <1>2, <1>3, <1>4, <1>6, <1>8, <1>9, <2>1, <2>2, <2>3, MoveKept
<1>10. Keeps(req, n, u, k)
    <2>1. \E y \in Actions : n = Append(log, y)
        BY <1>4 DEF n
    <2> QED BY <1>1, <1>9, <2>1, KeepsOn
<1> QED BY <1>10 DEF n, u, k, p, d

LEMMA MakeDirInRename ==
    ASSUME NEW req, NEW log, NEW t, NEW l, NEW half, Coherent(log, t, l, half), l # <<>>,
           l[1].do = "mkdir", Keeps(req, log, t, l),
           NEW p, p = l[1].path, FindContainingDir(t, p) \in DOMAIN t, ~DirExists(t, p), NEW x,
           x = [time |-> Len(log) + 1, type |-> AddDirectory, path |-> p, content |-> NoContent]
    PROVE  Keeps(req, Append(log, x), AddDirTo(t, FindContainingDir(t, p), Last(p)), Tail(l))
<1> DEFINE u == AddDirTo(t, FindContainingDir(t, p), Last(p))
           n == Append(log, x)
           k == Tail(l)
<1>1. /\ IsTree(t) /\ TreeOK(t) /\ Shape(l) /\ log \in Seq(Actions) /\ OrdersAgree(log, t)
      /\ p \in SomePaths /\ p \in Seq(Names) \ {<<>>} /\ p \in Seq(Names)
      /\ Mapped(k, req.path, req.to)
    BY StepFacts DEF IsTree, SomePaths
<1>2. x \in Actions /\ x.path = p /\ x.type = AddDirectory
    <2>1. AddDirectory \in ActionTypes
        BY DEF ActionTypes
    <2> QED BY <1>1, <2>1, StoredAction
<1>3. ~HasDir(t, p) /\ HasDir(t, Front(p))
    <2>1. FindDirByPath(t, p) \notin DOMAIN t
        BY <1>1, DirExistsIs
    <2>2. HasDir(t, Front(p))
        BY <1>1, FiledIs
    <2> QED BY <1>1, <2>1, <2>2, DirIsNode DEF HasDir
<1>4. DirUpdate(t, u, p, TRUE)
    BY <1>1, <1>3, AddDirView
<1> HIDE DEF u, n, k
<1>5. \A q \in SomePaths : Filed(u, q) = Filed(t, q)
    <2>1. \A q \in SomePaths : Front(q) = p => Filed(t, q) = {}
        BY <1>1, <1>3, NoFilesOf DEF SomePaths
    <2> QED BY <1>4, <2>1 DEF DirUpdate, SomePaths
<1>6. x.type # RemoveDirectory
    BY <1>2 DEF AddDirectory, RemoveDirectory
<1>7. Apt(t, x)
    BY <1>2, <1>3, <1>6 DEF Apt
<1>8. ShowsAfter(Replay(log), x, Replay(n))
    BY <1>1, <1>2, <1>7, ActionShows DEF n
<1>9. ~MovesNext(l) /\ ~MovesNext(k)
    BY <1>1, NotMoving DEF MovesNext, k
<1>10. ASSUME NEW r \in SomePaths, NEW s \in SomePaths, NEW c, KeptFile(Replay(log), t, l, r, s, c)
       PROVE  KeptFile(Replay(n), u, k, r, s, c)
    <2>1. ~MovesIt(l, r) /\ ~MovesIt(k, r)
        BY <1>9 DEF MovesIt
    <2> QED BY <1>1, <1>2, <1>5, <1>6, <1>8, <1>10, <2>1, DirKept
<1>11. Keeps(req, n, u, k)
    <2>1. \E y \in Actions : n = Append(log, y)
        BY <1>2 DEF n
    <2> QED BY <1>1, <1>10, <2>1, KeepsOn
<1> QED BY <1>11 DEF n, u, k

LEMMA RemoveDirInRename ==
    ASSUME NEW req, NEW log, NEW t, NEW l, NEW half, Coherent(log, t, l, half), l # <<>>,
           l[1].do = "rmdir", Keeps(req, log, t, l),
           NEW p, p = l[1].path, DirExists(t, p), t[FindDirByPath(t, p)] = EmptyDir, NEW x,
           x = [time |-> Len(log) + 1, type |-> RemoveDirectory, path |-> p, content |-> NoContent]
    PROVE  Keeps(req, Append(log, x), RemoveDirFrom(t, FindContainingDir(t, p), Last(p)), Tail(l))
<1> DEFINE u == RemoveDirFrom(t, FindContainingDir(t, p), Last(p))
           n == Append(log, x)
           k == Tail(l)
<1>1. /\ IsTree(t) /\ TreeOK(t) /\ Shape(l) /\ log \in Seq(Actions) /\ OrdersAgree(log, t)
      /\ p \in SomePaths /\ p \in Seq(Names) \ {<<>>} /\ p \in Seq(Names)
      /\ Mapped(l, req.path, req.to) /\ Mapped(k, req.path, req.to) /\ 1 \in DOMAIN l
    BY StepFacts DEF IsTree, SomePaths
<1>2. x \in Actions /\ x.path = p /\ x.type = RemoveDirectory
    <2>1. RemoveDirectory \in ActionTypes
        BY DEF ActionTypes
    <2> QED BY <1>1, <2>1, StoredAction
<1>3. HasDir(t, p) /\ NoDirIn(t, p) /\ t[FindDirByPath(t, p)].files = <<>>
    <2>1. FindDirByPath(t, p) \in DOMAIN t
        BY <1>1, DirExistsIs
    <2>2. HasDir(t, p)
        BY <1>1, <2>1, DirIsNode DEF HasDir
    <2>3. t[FindDirByPath(t, p)].dirs = <<>> /\ t[FindDirByPath(t, p)].files = <<>>
        BY DEF EmptyDir
    <2> QED BY <1>1, <2>2, <2>3, NoDirInIs
<1>4. DirUpdate(t, u, p, FALSE)
    BY <1>1, <1>3, RemoveDirView
<1> HIDE DEF u, n, k
<1>5. \A q \in SomePaths : Front(q) = p => Filed(t, q) = {}
    BY <1>1, <1>3, NoFilesOf DEF SomePaths
<1>6. \A q \in SomePaths : Filed(u, q) = Filed(t, q)
    BY <1>4, <1>5 DEF DirUpdate, SomePaths
<1>7. Apt(t, x)
    BY <1>2, <1>3 DEF Apt, AddDirectory, RemoveDirectory
<1>8. ShowsAfter(Replay(log), x, Replay(n))
    BY <1>1, <1>2, <1>7, ActionShows DEF n
<1>9. ~MovesNext(l) /\ ~MovesNext(k)
    BY <1>1, NotMoving DEF MovesNext, k
<1>10. ASSUME NEW r \in SomePaths, NEW s \in SomePaths, NEW c,
              Under(req.path, r), s = Dest(req.path, req.to, r), KeptFile(Replay(log), t, l, r, s, c)
       PROVE  KeptFile(Replay(n), u, k, r, s, c)
    <2>1. ~MovesIt(l, r) /\ ~MovesIt(k, r)
        BY <1>9 DEF MovesIt
    <2>2. Under(req.path, p)
        BY <1>1 DEF Mapped
    <2>3. Front(s) # p
        BY <1>1, <1>10, <2>2, StepFacts
    <2> QED BY <1>1, <1>2, <1>5, <1>6, <1>8, <1>10, <2>1, <2>3, DirKept
<1>11. Keeps(req, n, u, k)
    <2>1. \E y \in Actions : n = Append(log, y)
        BY <1>2 DEF n
    <2> QED BY <1>1, <1>10, <2>1, KeepsOn
<1> QED BY <1>11 DEF n, u, k

-----------------------------------------------------------------------------
\* The list after a turn.
FileTurn(p, q) == FileSteps(p, q, FALSE)
OneTurn(l, steps) == (steps \o <<l[1]>>) \o Tail(l)

LEMMA ListWithFile ==
    ASSUME NEW l \in Seq(Steps), l # <<>>, NEW p \in SomePaths, NEW q \in SomePaths,
           NEW n, n = OneTurn(l, FileTurn(p, q))
    PROVE  /\ InFrontOf(n, l) /\ n # <<>>
           /\ n[1].do = "flush" /\ n[1].path = p
           /\ n[2].do = "copy" /\ n[2].path = p /\ n[2].to = q
           /\ n[3].do = "move" /\ n[3].path = p /\ n[3].to = q
<1> DEFINE a == On("flush", p)
           b == Step("copy", p, q, FALSE)
           c == Step("move", p, q, FALSE)
<1>1. n = (<<a, b, c>> \o <<l[1]>>) \o Tail(l)
    BY DEF FileSteps, FileTurn, OneTurn
<1>2. /\ a \in Steps /\ a.do = "flush" /\ a.path = p
      /\ b \in Steps /\ b.do = "copy" /\ b.path = p /\ b.to = q /\ b.over = FALSE
      /\ c \in Steps /\ c.do = "move" /\ c.path = p /\ c.to = q /\ c.over = FALSE
      /\ c = Turned(b, "move")
    <2>1. FALSE \in BOOLEAN
        OBVIOUS
    <2> QED BY ONLY p \in SomePaths, q \in SomePaths, <2>1, FileStepsAre DEF a, b, c
<1> HIDE DEF a, b, c
<1>3. InFrontOf(n, l) /\ n # <<>> /\ n[1] = a /\ n[2] = b /\ n[3] = c
    BY ONLY l \in Seq(Steps), l # <<>>, <1>1, <1>2, PutInFront
<1> QED BY <1>2, <1>3

LEMMA ListWithDir ==
    ASSUME NEW l \in Seq(Steps), l # <<>>, NEW p \in SomePaths, NEW q \in SomePaths,
           NEW n, n = OneTurn(l, DirSteps(p, q))
    PROVE  /\ InFrontOf(n, l) /\ n # <<>>
           /\ n[1].do = "mkdir" /\ n[1].path = q
           /\ n[2].do = "moveAll" /\ n[2].path = p /\ n[2].to = q
           /\ n[3].do = "rmdir" /\ n[3].path = p
<1> DEFINE a == On("mkdir", q)
           b == Step("moveAll", p, q, FALSE)
           c == On("rmdir", p)
<1>1. n = (<<a, b, c>> \o <<l[1]>>) \o Tail(l)
    BY DEF DirSteps, OneTurn
<1>2. /\ a \in Steps /\ a.do = "mkdir" /\ a.path = q
      /\ b \in Steps /\ b.do = "moveAll" /\ b.path = p /\ b.to = q
      /\ c \in Steps /\ c.do = "rmdir" /\ c.path = p
    BY ONLY p \in SomePaths, q \in SomePaths, DirStepsAre DEF a, b, c
<1> HIDE DEF a, b, c
<1>3. InFrontOf(n, l) /\ n # <<>> /\ n[1] = a /\ n[2] = b /\ n[3] = c
    BY ONLY l \in Seq(Steps), l # <<>>, <1>1, <1>2, PutInFront
<1> QED BY <1>2, <1>3

\* A turn of a loop looks no further than below its directory.
LEMMA MappedLonger ==
    ASSUME NEW l \in Seq(Steps), l # <<>>, l[1].do = "moveAll",
           NEW p \in Seq(Names), NEW q \in Seq(Names), Mapped(l, p, q),
           NEW n, InFrontOf(n, l), NEW x \in Names,
           \A i \in 1 .. 3 : n[i].do # "remove" /\ (n[i].do # "mkdir" => n[i].path = Append(l[1].path, x)),
           \A i \in 1 .. 3 : n[i].do \in {"copy", "move", "moveAll"} => n[i].to = Append(l[1].to, x)
    PROVE  Mapped(n, p, q)
<1>1. /\ 1 \in DOMAIN l /\ DOMAIN l = 1 .. Len(l) /\ Len(l) \in Nat /\ l[1].path \in Seq(Names)
    <2>1. 1 \in DOMAIN l /\ DOMAIN l = 1 .. Len(l) /\ Len(l) \in Nat /\ l[1] \in Steps
        BY ListFacts
    <2> QED BY <2>1 DEF Steps, SomePaths
<1>2. Under(p, l[1].path) /\ l[1].to = Dest(p, q, l[1].path)
    BY <1>1 DEF Mapped
<1>3. /\ Under(p, Append(l[1].path, x))
      /\ Dest(p, q, Append(l[1].path, x)) = Append(l[1].to, x)
    BY <1>1, <1>2, DestDeeper
<1>4. DOMAIN n = 1 .. Len(l) + 3 /\ \A i \in 4 .. Len(l) + 3 : n[i] = l[i - 3]
    BY <1>1, LenProperties DEF InFrontOf
<1>5. ASSUME NEW i \in DOMAIN n
      PROVE  /\ n[i].do # "remove"
             /\ n[i].do # "mkdir" => Under(p, n[i].path)
             /\ n[i].do \in {"copy", "move", "moveAll"} => n[i].to = Dest(p, q, n[i].path)
    <2>1. CASE i \in 1 .. 3
        <3>1. n[i].do \in {"copy", "move", "moveAll"} => n[i].do # "mkdir"
            OBVIOUS
        <3> QED BY <1>3, <2>1, <3>1
    <2>2. CASE i \notin 1 .. 3
        <3>1. i \in 4 .. Len(l) + 3 /\ i - 3 \in DOMAIN l
            BY <1>1, <1>4, <2>2
        <3>2. n[i] = l[i - 3]
            BY <1>4, <3>1
        <3> QED BY <3>1, <3>2 DEF Mapped
    <2> QED BY <2>1, <2>2
<1> QED BY <1>5 DEF Mapped

\* A longer list that does not go on with a move.
LEMMA LongerKeeps ==
    ASSUME NEW req, NEW log \in Seq(Actions), NEW t, NEW l, Keeps(req, log, t, l), ~MovesNext(l),
           NEW n, Mapped(n, req.path, req.to), ~MovesNext(n)
    PROVE  Keeps(req, log, t, n)
<1>1. ASSUME NEW r \in SomePaths, NEW s \in SomePaths, NEW c, KeptFile(Replay(log), t, l, r, s, c)
      PROVE  KeptFile(Replay(log), t, n, r, s, c)
    BY <1>1, SameKept DEF MovesIt
<1> QED BY <1>1, KeepsOn

\* The loops of renameDir.
LEMMA TurnInRename ==
    ASSUME NEW req, NEW log, NEW t, NEW l, NEW half, Coherent(log, t, l, half), l # <<>>,
           l[1].do = "moveAll", Keeps(req, log, t, l),
           NEW s, s = l[1], NEW dir, dir = t[FindDirByPath(t, s.path)]
    PROVE  Keeps(req, log, t, MoveNext(s, dir) \o Tail(l))
<1>1. /\ l \in Seq(Steps) /\ log \in Seq(Actions) /\ dir \in Dirs /\ ~MovesNext(l)
      /\ Mapped(l, req.path, req.to)
      /\ req.path \in Seq(Names) /\ req.to \in Seq(Names)
    BY TurnFacts, StepFacts DEF SomePaths
<1>2. s.path \in Seq(Names) /\ s.to \in Seq(Names)
    <2>1. l[1] \in Steps
        BY <1>1, ListFacts
    <2> QED BY <2>1 DEF Steps, SomePaths
<1>3. CASE dir.files # <<>>
    <2> DEFINE x == dir.files[1].name
               p == Append(s.path, x)
               q == Append(s.to, x)
               n == MoveNext(s, dir) \o Tail(l)
    <2>1. x \in Names
        <3>1. dir.files \in Seq(Files)
            BY <1>1 DEF Dirs
        <3>2. dir.files[1] \in Files
            BY <1>3, <3>1, ListFacts
        <3> QED BY <3>2, FileFields
    <2>2. n = (FileSteps(s.path \o <<x>>, s.to \o <<x>>, FALSE) \o <<s>>) \o Tail(l)
        BY <1>3 DEF MoveNext, MoveFirstFile
    <2> HIDE DEF n, x
    <2>3. s.path \o <<x>> = p /\ s.to \o <<x>> = q
        BY <1>2, <2>1, DeeperPath
    <2>4. p \in SomePaths /\ q \in SomePaths
        BY <1>2, <2>1, AppendPath DEF SomePaths
    <2>5. l[1].path = s.path /\ l[1].to = s.to /\ p = Append(l[1].path, x) /\ q = Append(l[1].to, x)
        OBVIOUS
    <2> HIDE DEF p, q
    <2>6. n = OneTurn(l, FileTurn(p, q))
        BY <2>2, <2>3 DEF OneTurn, FileTurn
    <2>7. /\ InFrontOf(n, l) /\ n # <<>>
          /\ n[1].do = "flush" /\ n[1].path = p
          /\ n[2].do = "copy" /\ n[2].path = p /\ n[2].to = q
          /\ n[3].do = "move" /\ n[3].path = p /\ n[3].to = q
        BY ONLY l # <<>>, <1>1, <2>4, <2>6, ListWithFile
    <2>8. /\ \A i \in 1 .. 3 : n[i].do # "remove" /\ (n[i].do # "mkdir" => n[i].path = p)
          /\ \A i \in 1 .. 3 : n[i].do \in {"copy", "move", "moveAll"} => n[i].to = q
        BY ONLY <2>7
    <2>9. Mapped(n, req.path, req.to) /\ ~MovesNext(n)
        <3>1. ~MovesNext(n)
            BY <2>7 DEF MovesNext
        <3>2. Mapped(n, req.path, req.to)
            BY <1>1, <2>1, <2>5, <2>7, <2>8, MappedLonger
        <3> QED BY <3>1, <3>2
    <2>10. Keeps(req, log, t, n)
        BY <1>1, <2>9, LongerKeeps
    <2> QED BY <2>10 DEF n
<1>4. CASE dir.files = <<>> /\ dir.dirs # <<>>
    <2> DEFINE x == dir.dirs[1].name
               p == Append(s.path, x)
               q == Append(s.to, x)
               n == MoveNext(s, dir) \o Tail(l)
    <2>1. x \in Names
        <3>1. dir.dirs \in Seq(Subdirs)
            BY <1>1 DEF Dirs
        <3>2. dir.dirs[1] \in Subdirs
            BY <1>4, <3>1, ListFacts
        <3> QED BY <3>2 DEF Subdirs
    <2>2. n = (DirSteps(s.path \o <<x>>, s.to \o <<x>>) \o <<s>>) \o Tail(l)
        BY <1>4 DEF MoveNext, MoveFirstDir
    <2> HIDE DEF n, x
    <2>3. s.path \o <<x>> = p /\ s.to \o <<x>> = q
        BY <1>2, <2>1, DeeperPath
    <2>4. p \in SomePaths /\ q \in SomePaths
        BY <1>2, <2>1, AppendPath DEF SomePaths
    <2>5. l[1].path = s.path /\ l[1].to = s.to /\ p = Append(l[1].path, x) /\ q = Append(l[1].to, x)
        OBVIOUS
    <2> HIDE DEF p, q
    <2>6. n = OneTurn(l, DirSteps(p, q))
        BY <2>2, <2>3 DEF OneTurn
    <2>7. /\ InFrontOf(n, l) /\ n # <<>>
          /\ n[1].do = "mkdir"
          /\ n[2].do = "moveAll" /\ n[2].path = p /\ n[2].to = q
          /\ n[3].do = "rmdir" /\ n[3].path = p
        BY ONLY l # <<>>, <1>1, <2>4, <2>6, ListWithDir
    <2>8. /\ \A i \in 1 .. 3 : n[i].do # "remove" /\ (n[i].do # "mkdir" => n[i].path = p)
          /\ \A i \in 1 .. 3 : n[i].do \in {"copy", "move", "moveAll"} => n[i].to = q
        BY ONLY <2>7
    <2>9. Mapped(n, req.path, req.to) /\ ~MovesNext(n)
        <3>1. ~MovesNext(n)
            BY <2>7 DEF MovesNext
        <3>2. Mapped(n, req.path, req.to)
            BY <1>1, <2>1, <2>5, <2>7, <2>8, MappedLonger
        <3> QED BY <3>1, <3>2
    <2>10. Keeps(req, log, t, n)
        BY <1>1, <2>9, LongerKeeps
    <2> QED BY <2>10 DEF n
<1>5. CASE dir.files = <<>> /\ dir.dirs = <<>>
    <2>1. MoveNext(s, dir) \o Tail(l) = Tail(l)
        BY <1>1, <1>5, NothingMore DEF MoveNext
    <2> QED BY <2>1, NothingKeeps
<1> QED BY <1>3, <1>4, <1>5

\* A rename begins.
LEMMA RenameStarts ==
    ASSUME NEW log, NEW t, NEW half, Coherent(log, t, <<>>, half),
           NEW p \in SomePaths, NEW q \in SomePaths, Apart(p, q), NEW over \in BOOLEAN,
           NEW l, l = FileSteps(p, q, over) \/ l = DirSteps(p, q), ~MovesNext(l),
           NEW req, req.path = p, req.to = q, req.tree = t, req.stored = Len(log)
    PROVE  Keeps(req, log, t, l)
<1>1. IsTree(t) /\ log \in Seq(Actions) /\ Len(log) \in Nat /\ OrdersAgree(log, t)
      /\ p \in Seq(Names) /\ q \in Seq(Names)
    BY LenProperties DEF Coherent, Agreement, SomePaths
<1>2. SubSeq(log, 1, Len(log)) = log
    BY <1>1, SubSeqFull
<1>3. Under(p, p) /\ Dest(p, q, p) = q
    BY <1>1, DestOfSource
<1>4. Mapped(l, p, q)
    <2>1. CASE l = FileSteps(p, q, over)
        <3> DEFINE a == On("flush", p)
                   b == Step("copy", p, q, over)
                   c == Step("move", p, q, over)
                   k == <<a, b, c>>
        <3>1. /\ a.do = "flush" /\ a.path = p
              /\ b.do = "copy" /\ b.path = p /\ b.to = q
              /\ c.do = "move" /\ c.path = p /\ c.to = q
            BY ONLY p \in SomePaths, q \in SomePaths, over \in BOOLEAN, FileStepsAre
        <3>2. l = k
            BY <2>1 DEF FileSteps
        <3> HIDE DEF a, b, c
        <3>3. DOMAIN k = {1, 2, 3} /\ k[1] = a /\ k[2] = b /\ k[3] = c
            OBVIOUS
        <3> HIDE DEF k
        <3>4. Mapped(k, p, q)
            BY <1>3, <3>1, <3>3 DEF Mapped
        <3> QED BY <3>2, <3>4
    <2>2. CASE l = DirSteps(p, q)
        <3> DEFINE a == On("mkdir", q)
                   b == Step("moveAll", p, q, FALSE)
                   c == On("rmdir", p)
                   k == <<a, b, c>>
        <3>1. /\ a \in Steps /\ a.do = "mkdir" /\ a.path = q
              /\ b \in Steps /\ b.do = "moveAll" /\ b.path = p /\ b.to = q
              /\ c \in Steps /\ c.do = "rmdir" /\ c.path = p
            BY ONLY p \in SomePaths, q \in SomePaths, DirStepsAre
        <3>2. l = k
            BY <2>2 DEF DirSteps
        <3> HIDE DEF a, b, c
        <3>3. DOMAIN k = {1, 2, 3} /\ k[1] = a /\ k[2] = b /\ k[3] = c
            OBVIOUS
        <3> HIDE DEF k
        <3>4. Mapped(k, p, q)
            BY <1>3, <3>1, <3>3 DEF Mapped
        <3> QED BY <3>2, <3>4
    <2> QED BY <2>1, <2>2
<1>5. IsTree(Replay(log))
    BY <1>1, LogIsAnOrder DEF OrdersAgree
<1>6. ASSUME NEW r \in Followed(log, t, p, q)
      PROVE  KeptFile(Replay(log), t, l, r, Dest(p, q, r), ContentAt(t, r))
    <2> DEFINE s == Dest(p, q, r)
    <2>1. /\ r \in Seq(Names) \ {<<>>} /\ r \in Seq(Names) /\ Under(p, r) /\ FileExists(t, r)
          /\ ContentAt(Replay(log), r) = ContentAt(t, r)
          /\ FileExists(t, s) <=> FileExists(Replay(log), s)
        BY PathsAssumption DEF Followed
    <2>2. s \in Seq(Names) \ {<<>>}
        BY <2>1, DestApart DEF SomePaths
    <2> HIDE DEF s
    <2>3. Filed(t, r) = {FileAt(t, r)} /\ FileAt(t, r).content = ContentAt(t, r)
        BY <2>1 DEF Filed, ContentAt
    <2>4. Filed(t, s) = {} <=> Filed(Replay(log), s) = {}
        BY <1>1, <1>5, <2>1, <2>2, FiledOfDir
    <2>5. ~MovesIt(l, r)
        BY DEF MovesIt
    <2>6. KeptFile(Replay(log), t, l, r, s, ContentAt(t, r))
        BY <2>1, <2>3, <2>4, <2>5 DEF KeptFile
    <2> QED BY <2>6 DEF s
<1>7. req.stored = Len(log) /\ req.stored \in Nat /\ req.stored <= Len(log)
    BY <1>1
<1>8. SubSeq(log, 1, req.stored) = log
    BY <1>2, <1>7
<1>9. \A r \in Followed(SubSeq(log, 1, req.stored), req.tree, req.path, req.to) :
            KeptFile(Replay(log), t, l, r, Dest(req.path, req.to, r), ContentAt(req.tree, r))
    BY <1>6, <1>8
<1>10. Mapped(l, req.path, req.to) /\ req.path \in SomePaths /\ req.to \in SomePaths /\ Apart(req.path, req.to)
    BY <1>4
<1> QED BY <1>7, <1>9, <1>10 DEF Keeps

-----------------------------------------------------------------------------
\* A rename that runs keeps the files it moves.
RenameInv == request.op = "rename" => Keeps(request, stored, tree, todo)

\* A step of a rename goes on with the rest of the list, or gives up.
GoesOn ==
    /\ Keeps(request, stored', tree', todo')
    /\ request' = request \/ request' = NoRequest
    /\ stored' = stored \/ \E x : stored' = Append(stored, x)
GivesUp == request' = NoRequest /\ stored' = stored

LEMMA ContinueGoesOn ==
    ASSUME NEW steps, Continue(steps), UNCHANGED <<tree, stored, halfMoved>>,
           Keeps(request, stored, tree, steps \o Tail(todo))
    PROVE  GoesOn
<1>1. /\ todo' = steps \o Tail(todo)
      /\ request' = IF todo' = <<>> THEN NoRequest ELSE request
    BY DEF Continue
<1>2. tree' = tree /\ stored' = stored
    OBVIOUS
<1>3. Keeps(request, stored', tree', todo')
    BY ONLY <1>1, <1>2, Keeps(request, stored, tree, steps \o Tail(todo))
<1> QED BY ONLY <1>1, <1>2, <1>3 DEF GoesOn

LEMMA StoreGoesOn ==
    ASSUME IInv, todo # <<>>, NEW time, NEW type, NEW p, NEW c, NEW u,
           Store(time, type, p, c, u),
           NEW x, x = [time |-> time, type |-> type, path |-> p, content |-> c],
           Keeps(request, Append(stored, x), u, Tail(todo))
    PROVE  GoesOn
<1>1. /\ stored' = Append(stored, x) /\ tree' = u
      /\ todo' = <<>> \o Tail(todo)
      /\ request' = IF todo' = <<>> THEN NoRequest ELSE request
    BY DEF Store, Continue
<1>2. <<>> \o Tail(todo) = Tail(todo)
    BY TodoIs
<1>3. todo' = Tail(todo)
    BY <1>1, <1>2
<1>4. Keeps(request, stored', tree', todo')
    BY ONLY <1>1, <1>3, Keeps(request, Append(stored, x), u, Tail(todo))
<1>5. \E y : stored' = Append(stored, y)
    BY ONLY <1>1
<1>6. request' = request \/ request' = NoRequest
    BY ONLY <1>1
<1> QED BY ONLY <1>4, <1>5, <1>6 DEF GoesOn

LEMMA FailsGivesUp ==
    ASSUME StoreFails
    PROVE  GivesUp
BY DEF StoreFails, Abort, GivesUp

LEMMA AbortGivesUp ==
    ASSUME NEW error, Abort(error), stored' = stored
    PROVE  GivesUp
BY DEF Abort, GivesUp

\* The step at the head of the list of a rename.
LEMMA InRename ==
    ASSUME IInv, RenameInv, request.op = "rename", NEW do, Doing(do)
    PROVE  /\ todo # <<>> /\ todo[1].do = do /\ Head(todo) = todo[1] /\ do # "remove"
           /\ <<>> \o Tail(todo) = Tail(todo)
           /\ Coherent(stored, tree, todo, halfMoved) /\ Keeps(request, stored, tree, todo)
<1>1. todo # <<>> /\ todo[1].do = do /\ Head(todo) = todo[1] /\ <<>> \o Tail(todo) = Tail(todo)
    BY TodoIs DEF Doing
<1>2. Coherent(stored, tree, todo, halfMoved) /\ Keeps(request, stored, tree, todo)
    BY DEF IInv, RenameInv
<1>3. 1 \in DOMAIN todo
    BY <1>1, TodoIs, ListFacts
<1>4. todo[1].do # "remove"
    BY <1>2, <1>3 DEF Keeps, Mapped
<1> QED BY <1>1, <1>2, <1>4

LEMMA FlushGoesOn ==
    ASSUME IInv, RenameInv, request.op = "rename", Flush
    PROVE  GoesOn \/ GivesUp
<1>1. /\ todo # <<>> /\ todo[1].do = "flush" /\ Head(todo) = todo[1]
      /\ <<>> \o Tail(todo) = Tail(todo)
      /\ Coherent(stored, tree, todo, halfMoved) /\ Keeps(request, stored, tree, todo)
    BY InRename DEF Flush
<1> DEFINE p == todo[1].path
           f == FileAt(tree, p)
           type == IF f.create THEN AddFile ELSE EditFile
           u == SetFile(tree, FindContainingDir(tree, p), Last(p), CleanFile(Last(p), f.content))
           x == [time |-> Len(stored) + 1, type |-> type, path |-> p, content |-> f.content]
<1>2. \/ ~Dirty(f) /\ Continue(<<>>) /\ UNCHANGED <<tree, stored, halfMoved>>
      \/ Store(Len(stored) + 1, type, p, f.content, u)
      \/ StoreFails /\ UNCHANGED halfMoved
    BY <1>1 DEF Flush, Now
<1>3. CASE Continue(<<>>) /\ UNCHANGED <<tree, stored, halfMoved>>
    <2>1. Keeps(request, stored, tree, Tail(todo))
        BY <1>1, NothingKeeps
    <2>2. Keeps(request, stored, tree, <<>> \o Tail(todo))
        BY ONLY <1>1, <2>1
    <2> QED BY ONLY <1>3, <2>2, ContinueGoesOn
<1>4. CASE Store(Len(stored) + 1, type, p, f.content, u)
    <2>1. Keeps(request, Append(stored, x), u, Tail(todo))
        BY <1>1, FlushInRename
    <2> HIDE DEF type, u, f, p
    <2>2. GoesOn
        BY <1>1, <1>4, <2>1, StoreGoesOn
    <2> QED BY <2>2
<1>5. CASE StoreFails
    BY <1>5, FailsGivesUp
<1> QED BY <1>2, <1>3, <1>4, <1>5

LEMMA CopyGoesOn ==
    ASSUME IInv, RenameInv, request.op = "rename", Copy
    PROVE  GoesOn \/ GivesUp
<1>1. /\ todo # <<>> /\ todo[1].do = "copy" /\ Head(todo) = todo[1]
      /\ Coherent(stored, tree, todo, halfMoved) /\ Keeps(request, stored, tree, todo)
    BY InRename DEF Copy
<1> DEFINE s == todo[1]
           type == IF s.over THEN EditFile ELSE AddFile
           c == FileAt(tree, s.path).content
           x == [time |-> Len(stored) + 1, type |-> type, path |-> s.to, content |-> c]
<1>2. \/ Store(Len(stored) + 1, type, s.to, c, tree)
      \/ StoreFails /\ UNCHANGED halfMoved
    BY <1>1 DEF Copy, Now
<1>3. CASE Store(Len(stored) + 1, type, s.to, c, tree)
    <2>1. Keeps(request, Append(stored, x), tree, Tail(todo))
        BY <1>1, CopyInRename
    <2> HIDE DEF type, c, s
    <2>2. GoesOn
        BY <1>1, <1>3, <2>1, StoreGoesOn
    <2> QED BY <2>2
<1>4. CASE StoreFails
    BY <1>4, FailsGivesUp
<1> QED BY <1>2, <1>3, <1>4

LEMMA MoveGoesOn ==
    ASSUME IInv, RenameInv, request.op = "rename", Move
    PROVE  GoesOn \/ GivesUp
<1>1. /\ todo # <<>> /\ todo[1].do = "move" /\ Head(todo) = todo[1]
      /\ Coherent(stored, tree, todo, halfMoved) /\ Keeps(request, stored, tree, todo)
    BY InRename DEF Move
<1> DEFINE s == todo[1]
           x == [time |-> Last(stored).time, type |-> RemoveFile, path |-> s.path, content |-> NoContent]
<1>2. \/ \E u \in MovedFile(s.path, s.to, s.over) :
            Store(Last(stored).time, RemoveFile, s.path, NoContent, u)
      \/ StoreFails
    BY <1>1 DEF Move
<1>3. ASSUME NEW u \in MovedFile(s.path, s.to, s.over),
             Store(Last(stored).time, RemoveFile, s.path, NoContent, u)
      PROVE  GoesOn
    <2>1. PICK c \in ContentOf : u = MovedTree(tree, s.path, s.to, s.over, c)
        BY <1>1, MovedHere
    <2>2. Keeps(request, Append(stored, x), u, Tail(todo))
        BY <1>1, <2>1, MoveInRename
    <2> QED BY <1>1, <1>3, <2>2, StoreGoesOn
<1>4. CASE StoreFails
    BY <1>4, FailsGivesUp
<1> QED BY <1>2, <1>3, <1>4

LEMMA MakeDirGoesOn ==
    ASSUME IInv, RenameInv, request.op = "rename", MakeDir
    PROVE  GoesOn \/ GivesUp
<1>1. /\ todo # <<>> /\ todo[1].do = "mkdir" /\ Head(todo) = todo[1]
      /\ Coherent(stored, tree, todo, halfMoved) /\ Keeps(request, stored, tree, todo)
    BY InRename DEF MakeDir
<1> DEFINE p == todo[1].path
           d == FindContainingDir(tree, p)
           u == AddDirTo(tree, d, Last(p))
           x == [time |-> Len(stored) + 1, type |-> AddDirectory, path |-> p, content |-> NoContent]
<1>2. \/ \E error : Abort(error) /\ UNCHANGED <<tree, stored, halfMoved>>
      \/ d \in DOMAIN tree /\ ~DirExists(tree, p) /\ Store(Len(stored) + 1, AddDirectory, p, NoContent, u)
      \/ StoreFails /\ UNCHANGED halfMoved
    BY <1>1 DEF MakeDir, Now
<1>3. CASE \E error : Abort(error) /\ UNCHANGED <<tree, stored, halfMoved>>
    BY <1>3, AbortGivesUp
<1>4. CASE d \in DOMAIN tree /\ ~DirExists(tree, p) /\ Store(Len(stored) + 1, AddDirectory, p, NoContent, u)
    <2>1. Keeps(request, Append(stored, x), u, Tail(todo))
        BY <1>1, <1>4, MakeDirInRename
    <2> HIDE DEF u, p
    <2>2. GoesOn
        BY <1>1, <1>4, <2>1, StoreGoesOn
    <2> QED BY <2>2
<1>5. CASE StoreFails
    BY <1>5, FailsGivesUp
<1> QED BY <1>2, <1>3, <1>4, <1>5

LEMMA RemoveDirGoesOn ==
    ASSUME IInv, RenameInv, request.op = "rename", RemoveDir
    PROVE  GoesOn \/ GivesUp
<1>1. /\ todo # <<>> /\ todo[1].do = "rmdir" /\ Head(todo) = todo[1]
      /\ Coherent(stored, tree, todo, halfMoved) /\ Keeps(request, stored, tree, todo)
    BY InRename DEF RemoveDir
<1> DEFINE p == todo[1].path
           u == RemoveDirFrom(tree, FindContainingDir(tree, p), Last(p))
           x == [time |-> Len(stored) + 1, type |-> RemoveDirectory, path |-> p, content |-> NoContent]
<1>2. \/ \E error : Abort(error) /\ UNCHANGED <<tree, stored, halfMoved>>
      \/ /\ DirExists(tree, p) /\ tree[FindDirByPath(tree, p)] = EmptyDir
         /\ Store(Len(stored) + 1, RemoveDirectory, p, NoContent, u)
      \/ StoreFails /\ UNCHANGED halfMoved
    BY <1>1 DEF RemoveDir, Now
<1>3. CASE \E error : Abort(error) /\ UNCHANGED <<tree, stored, halfMoved>>
    BY <1>3, AbortGivesUp
<1>4. CASE /\ DirExists(tree, p) /\ tree[FindDirByPath(tree, p)] = EmptyDir
           /\ Store(Len(stored) + 1, RemoveDirectory, p, NoContent, u)
    <2>1. Keeps(request, Append(stored, x), u, Tail(todo))
        BY <1>1, <1>4, RemoveDirInRename
    <2> HIDE DEF u, p
    <2>2. GoesOn
        BY <1>1, <1>4, <2>1, StoreGoesOn
    <2> QED BY <2>2
<1>5. CASE StoreFails
    BY <1>5, FailsGivesUp
<1> QED BY <1>2, <1>3, <1>4, <1>5

LEMMA MoveAllGoesOn ==
    ASSUME IInv, RenameInv, request.op = "rename", MoveAll
    PROVE  GoesOn \/ GivesUp
<1>1. /\ todo # <<>> /\ todo[1].do = "moveAll" /\ Head(todo) = todo[1]
      /\ Coherent(stored, tree, todo, halfMoved) /\ Keeps(request, stored, tree, todo)
    BY InRename DEF MoveAll
<1> DEFINE s == todo[1]
           dir == tree[FindDirByPath(tree, s.path)]
           steps == MoveNext(s, dir)
<1>2. Continue(steps) /\ UNCHANGED <<tree, stored, halfMoved>>
    BY <1>1 DEF MoveAll
<1>3. Keeps(request, stored, tree, steps \o Tail(todo))
    BY <1>1, TurnInRename
<1> HIDE DEF steps
<1> QED BY ONLY <1>2, <1>3, ContinueGoesOn

LEMMA RunStepGoesOn ==
    ASSUME IInv, RenameInv, request.op = "rename", RunStep
    PROVE  GoesOn \/ GivesUp
<1>1. CASE Delete
    BY <1>1, InRename DEF Delete
<1> QED BY <1>1, FlushGoesOn, CopyGoesOn, MoveGoesOn, MakeDirGoesOn, RemoveDirGoesOn, MoveAllGoesOn
    DEF RunStep

-----------------------------------------------------------------------------
\* A request finds no rename running, and only bucse_rename begins one.
LEMMA RenameBegins ==
    ASSUME IInv, NEW p \in Targets, NEW q \in Targets, NEW flag, Rename(p, q, flag)
    PROVE  RenameInv'
<1>1. CASE RenameError(p, q, flag) # "none"
    <2>1. todo = <<>> /\ request' = request
        BY <1>1 DEF Rename, Refuse, Idle
    <2>2. request = NoRequest
        BY <2>1, AtIdle
    <2> QED BY <2>1, <2>2 DEF RenameInv, NoRequest
<1>2. CASE RenameError(p, q, flag) = "none"
    <2> DEFINE over == FileExists(tree, q)
               l == IF FileExists(tree, p) THEN FileSteps(p, q, over) ELSE DirSteps(p, q)
               r == [op |-> "rename", path |-> p, to |-> q, tree |-> tree, stored |-> Len(stored)]
    <2>1. /\ Begin("rename", p, q, l) /\ ~IsPrefix(p, q) /\ ~IsPrefix(q, p)
        BY <1>2 DEF Rename
    <2>2. p \in SomePaths /\ q \in SomePaths /\ p \in Seq(Names) /\ q \in Seq(Names)
        BY TargetsArePaths
    <2>3. TodoFor(l, tree) /\ ~MovesNext(l)
        BY <1>2, <2>1, <2>2, RenameList
    <2>4. l = FileSteps(p, q, over) \/ l = DirSteps(p, q)
        OBVIOUS
    <2>5. over \in BOOLEAN
        BY DEF FileExists
    <2> HIDE DEF l, over
    <2>6. /\ todo = <<>> /\ todo' = l /\ tree' = tree /\ stored' = stored
          /\ request' = IF l = <<>> THEN NoRequest ELSE r
        BY <2>1 DEF Begin, Idle
    <2>7. r.op = "rename" /\ r.path = p /\ r.to = q /\ r.tree = tree /\ r.stored = Len(stored)
        OBVIOUS
    <2> HIDE DEF r
    <2>8. Apart(p, q)
        BY <2>1, <2>2, NoPrefixApart
    <2>9. Coherent(stored, tree, <<>>, halfMoved)
        BY <2>6, AtIdle
    <2>10. Keeps(r, stored, tree, l)
        BY <2>2, <2>3, <2>4, <2>5, <2>7, <2>8, <2>9, RenameStarts
    <2>11. CASE l = <<>>
        <3>1. request'.op = "none"
            BY <2>6, <2>11 DEF NoRequest
        <3> QED BY ONLY <3>1 DEF RenameInv
    <2>12. CASE l # <<>>
        <3>1. request' = r
            BY <2>6, <2>12
        <3>2. Keeps(request', stored', tree', todo')
            BY ONLY <2>6, <2>10, <3>1
        <3> QED BY ONLY <3>2 DEF RenameInv
    <2> QED BY <2>11, <2>12
<1> QED BY <1>1, <1>2

LEMMA OthersBegin ==
    ASSUME IInv, NEW op, op # "rename", NEW p, NEW q, NEW l, Begin(op, p, q, l)
    PROVE  RenameInv'
<1>1. request'.op \in {"none", op}
    BY DEF Begin, NoRequest
<1> QED BY <1>1 DEF RenameInv

LEMMA SameRequest ==
    ASSUME IInv, Idle, request' = request
    PROVE  RenameInv'
<1>1. request.op = "none"
    BY AtIdle DEF Idle, NoRequest
<1> QED BY <1>1 DEF RenameInv

LEMMA RequestInRename == IInv /\ Request => RenameInv' /\ request.op # "rename"
<1> SUFFICES ASSUME IInv, Request PROVE RenameInv' /\ request.op # "rename"
    OBVIOUS
<1>1. PICK p \in Targets :
        \/ Unlink(p) \/ Mkdir(p) \/ Rmdir(p) \/ GetAttr(p)
        \/ \E mode \in {"r", "w"} : Create(p, mode) \/ Open(p, mode) \/ Release(p, mode)
        \/ \E c \in Contents : Write(p, c)
        \/ \E q \in Targets, flag \in {"none", "noreplace", "exchange"} : Rename(p, q, flag)
    BY DEF Request
<1>2. ASSUME Unlink(p) PROVE RenameInv'
    BY <1>2, OthersBegin DEF Unlink
<1>3. ASSUME Mkdir(p) PROVE RenameInv'
    BY <1>3, OthersBegin DEF Mkdir
<1>4. ASSUME Rmdir(p) PROVE RenameInv'
    BY <1>4, OthersBegin DEF Rmdir
<1>5. ASSUME GetAttr(p) PROVE RenameInv'
    BY <1>5, OthersBegin DEF GetAttr
<1>6. ASSUME NEW mode, Create(p, mode) \/ Open(p, mode) PROVE RenameInv'
    BY <1>6, SameRequest DEF Create, Open, InMemory
<1>7. ASSUME NEW mode, Release(p, mode) PROVE RenameInv'
    BY <1>7, OthersBegin DEF Release
<1>8. ASSUME NEW c \in Contents, Write(p, c) PROVE RenameInv'
    BY <1>8, SameRequest DEF Write, InMemory
<1>9. ASSUME NEW q \in Targets, NEW flag, Rename(p, q, flag) PROVE RenameInv'
    BY <1>9, RenameBegins
<1>10. RenameInv'
    BY <1>1, <1>2, <1>3, <1>4, <1>5, <1>6, <1>7, <1>8, <1>9
<1>11. Idle
    BY <1>1 DEF Unlink, Mkdir, Rmdir, GetAttr, Create, Open, Release, Write, Rename, InMemory, Begin, Refuse
<1>12. request.op = "none"
    BY <1>11, AtIdle DEF Idle, NoRequest
<1> QED BY <1>10, <1>12

\* A step in a rename: it goes on, or the rename ends without storing anything.
LEMMA StepInRename ==
    ASSUME IInv, RenameInv, request.op = "rename", [Next]_vars
    PROVE  GoesOn \/ GivesUp
<1>1. CASE Request
    BY <1>1, RequestInRename
<1>2. CASE RunStep
    BY <1>2, RunStepGoesOn
<1>3. CASE Remount
    BY <1>3 DEF Remount, GivesUp
<1>4. CASE UNCHANGED vars
    BY <1>4 DEF vars, GoesOn, RenameInv
<1> QED BY <1>1, <1>2, <1>3, <1>4 DEF Next

LEMMA StepKeepsRename == IInv /\ RenameInv /\ [Next]_vars => RenameInv'
<1> SUFFICES ASSUME IInv, RenameInv, [Next]_vars PROVE RenameInv'
    OBVIOUS
<1>1. NoRequest.op = "none"
    BY DEF NoRequest
<1>2. CASE request.op = "rename"
    <2>1. CASE GoesOn
        <3>1. CASE request' = request
            BY <2>1, <3>1 DEF GoesOn, RenameInv
        <3>2. CASE request' = NoRequest
            BY <1>1, <3>2 DEF RenameInv
        <3> QED BY <2>1, <3>1, <3>2 DEF GoesOn
    <2>2. CASE GivesUp
        BY <1>1, <2>2 DEF GivesUp, RenameInv
    <2> QED BY <1>2, <2>1, <2>2, StepInRename
<1>3. CASE request.op # "rename"
    <2>1. CASE Request
        BY <2>1, RequestInRename
    <2>2. CASE RunStep
        <3>1. request' = request \/ request' = NoRequest
            BY <2>2 DEF RunStep, Flush, Copy, Move, Delete, MakeDir, MoveAll, RemoveDir, Store, StoreFails,
                        Continue, Abort
        <3>2. request'.op # "rename"
            BY <1>1, <1>3, <3>1
        <3> QED BY ONLY <3>2 DEF RenameInv
    <2>3. CASE Remount
        BY <1>1, <2>3 DEF Remount, RenameInv
    <2>4. CASE UNCHANGED vars
        BY <1>3, <2>4 DEF vars, RenameInv
    <2> QED BY <2>1, <2>2, <2>3, <2>4 DEF Next
<1> QED BY <1>2, <1>3

LEMMA NoRenameAtFirst == Init => RenameInv
BY DEF Init, RenameInv, NoRequest

-----------------------------------------------------------------------------
\* A kept file is held.
LEMMA KeptIsHeld ==
    ASSUME NEW m, NEW t, NEW l, NEW r, NEW s, NEW c, KeptFile(m, t, l, r, s, c)
    PROVE  c \in {ContentAt(m, r), ContentAt(m, s)}
BY DEF KeptFile

\* What Keeps says of the files of Moves.
LEMMA MovesAreHeld ==
    ASSUME NEW log, NEW t, NEW l, Keeps(request, log, t, l),
           SubSeq(log, 1, request.stored) = SubSeq(stored, 1, request.stored),
           NEW m \in Moves, TargetKnown(m)
    PROVE  IsHeld(m, log)
<1> DEFINE p == request.path
           q == request.to
           b == SubSeq(stored, 1, request.stored)
           v == request.tree
<1>1. p \in SomePaths /\ q \in SomePaths /\ p \in Seq(Names) /\ q \in Seq(Names)
    BY DEF Keeps, SomePaths
<1>2. PICK r \in Paths :
        /\ IsPrefix(p, r) /\ FileExists(v, r) /\ ContentAt(Replay(b), r) = ContentAt(v, r)
        /\ m = [from |-> r, to |-> Dest(p, q, r), content |-> ContentAt(v, r)]
    BY DEF Moves, Durable, Dest
<1>3. m.from = r /\ m.to = Dest(p, q, r) /\ m.content = ContentAt(v, r)
    BY <1>2
<1>4. Under(p, r)
    <2>1. r \in Seq(Names)
        BY PathsAssumption
    <2> QED BY <1>1, <1>2, <2>1, PrefixIsUnder
<1>5. FileExists(v, Dest(p, q, r)) = FileExists(Replay(b), Dest(p, q, r))
    BY <1>3 DEF TargetKnown, Durable
<1>6. r \in Followed(b, v, p, q)
    BY <1>2, <1>4, <1>5 DEF Followed
<1>7. KeptFile(Replay(log), t, l, r, Dest(p, q, r), ContentAt(v, r))
    BY <1>6 DEF Keeps
<1>8. ContentAt(v, r) \in {ContentAt(Replay(log), r), ContentAt(Replay(log), Dest(p, q, r))}
    BY ONLY <1>7, KeptIsHeld
<1> QED BY <1>3, <1>8 DEF IsHeld, Durable

\* What was stored before a step stays before it.
LEMMA EarlierStays ==
    ASSUME stored \in Seq(Actions), stored' \in Seq(Actions), NEW x, stored' = Append(stored, x),
           NEW j \in Nat, j <= Len(stored)
    PROVE  SubSeq(stored', 1, j) = SubSeq(stored, 1, j)
<1>1. Len(stored) \in Nat /\ Len(stored') = Len(stored) + 1 /\ stored'[Len(stored) + 1] = x
    BY AppendProperties
<1>2. x \in Actions
    BY <1>1, ElementOfSeq
<1> QED BY <1>2, BeforeStays

LEMMA StepHolds ==
    ASSUME IInv, IInv', RenameInv, [Next]_vars, request.op = "rename",
           NEW m \in Moves, TargetKnown(m)
    PROVE  IsHeld(m, stored')
<1>1. /\ Keeps(request, stored, tree, todo)
      /\ stored \in Seq(Actions) /\ request.stored \in Nat /\ request.stored <= Len(stored)
    BY TodoIs DEF RenameInv, Keeps
<1>2. stored' \in Seq(Actions)
    BY DEF IInv, Coherent
<1>3. CASE GoesOn
    <2>1. SubSeq(stored', 1, request.stored) = SubSeq(stored, 1, request.stored)
        BY <1>1, <1>2, <1>3, EarlierStays DEF GoesOn
    <2> QED BY <1>3, <2>1, MovesAreHeld DEF GoesOn
<1>4. CASE GivesUp
    <2>1. IsHeld(m, stored)
        BY <1>1, MovesAreHeld
    <2> QED BY <1>4, <2>1 DEF GivesUp
<1> QED BY <1>3, <1>4, StepInRename

\* Whenever the client dies in a rename, a mount finds every file it moves at its old
\* path or at its new one, whatever the repository refused, to any depth of the
\* directories moved (rename.c:93-111: the destination is stored before the source
\* is removed).
THEOREM CrashKeepsFiles == Spec => CrashKeepsMoved
<1>1. IInv /\ IInv' /\ RenameInv /\ [Next]_vars =>
        (request.op = "rename" => \A m \in Moves : TargetKnown(m) => IsHeld(m, stored'))
    BY StepHolds
<1>2. Init => IInv /\ RenameInv
    BY StartIsCoherent, NoRenameAtFirst
<1> QED BY <1>1, <1>2, Kept, StepKeepsRename, PTL DEF Spec, CrashKeepsMoved

-----------------------------------------------------------------------------
\* A path is where a path is below another if that is its beginning.
LEMMA UnderIsPrefix ==
    ASSUME NEW p \in Seq(Names), NEW r \in Seq(Names), Under(p, r)
    PROVE  IsPrefix(p, r)
<1> SUFFICES ASSUME ~IsPrefix(p, r) PROVE FALSE
    OBVIOUS
<1>1. /\ Len(p) \in Nat /\ Len(r) \in Nat /\ Len(p) <= Len(r)
      /\ \A i \in 1 .. Len(p) : r[i] = p[i] /\ p[i] \in Names
    BY LenProperties, ElementOfSeq DEF Under
<1> DEFINE a == SubSeq(p, 1, Len(p))
           b == SubSeq(r, 1, Len(p))
<1>2. a = p
    BY SubSeqFull
<1>3. b = p
    <2>1. 1 \in Int /\ Len(p) \in Int /\ \A i \in 1 .. Len(p) : r[i] \in Names
        BY <1>1
    <2>2. /\ b \in Seq(Names) /\ Len(b) = (IF 1 <= Len(p) THEN Len(p) - 1 + 1 ELSE 0)
          /\ \A i \in 1 .. Len(p) - 1 + 1 : b[i] = r[1 + i - 1]
        BY <2>1, SubSeqProperties
    <2> HIDE DEF b
    <2>3. Len(b) = Len(p)
        BY <1>1, <2>2
    <2>4. \A i \in 1 .. Len(b) : b[i] = p[i]
        <3>1. ASSUME NEW i \in 1 .. Len(b) PROVE b[i] = p[i]
            <4>1. i \in 1 .. Len(p) /\ i \in 1 .. Len(p) - 1 + 1 /\ 1 + i - 1 = i
                BY <1>1, <2>3
            <4> QED BY <1>1, <2>2, <4>1
        <3> QED BY <3>1
    <2> QED BY <2>2, <2>3, <2>4, SeqEqual
<1> HIDE DEF a, b
<1>4. a = b
    BY <1>2, <1>3
<1> QED BY <1>1, <1>4 DEF IsPrefix, a, b

\* What is moved is below the destination, and where it comes from is found from it.
LEMMA DestUnder ==
    ASSUME NEW p \in Seq(Names), NEW q \in Seq(Names), NEW r \in Seq(Names), Under(p, r)
    PROVE  Under(q, Dest(p, q, r)) /\ Dest(q, p, Dest(p, q, r)) = r
<1> DEFINE d == Dest(p, q, r)
           e == Dest(q, p, d)
           a == Len(p)
           b == Len(q)
           n == Len(r)
<1>1. /\ d \in Seq(Names) /\ Len(d) = b + (n - a) /\ a \in Nat /\ b \in Nat /\ n \in Nat /\ a <= n
      /\ \A i \in 1 .. b : d[i] = q[i]
      /\ \A i \in a + 1 .. n : d[b + (i - a)] = r[i]
    BY DestIs
<1>2. \A i \in 1 .. a : r[i] = p[i]
    BY DEF Under
<1> HIDE DEF d
<1>3. Under(q, d)
    BY <1>1 DEF Under
<1>4. /\ e \in Seq(Names) /\ Len(e) = a + (Len(d) - b)
      /\ \A i \in 1 .. a : e[i] = p[i]
      /\ \A i \in b + 1 .. Len(d) : e[a + (i - b)] = d[i]
    BY <1>1, <1>3, DestIs
<1> HIDE DEF e, a, b, n
<1>5. Len(e) = n
    BY <1>1, <1>4
<1>6. ASSUME NEW i \in 1 .. n PROVE e[i] = r[i]
    <2>1. CASE i \in 1 .. a
        BY <1>2, <1>4, <2>1
    <2>2. CASE i \notin 1 .. a
        <3> DEFINE j == b + (i - a)
        <3>1. i \in a + 1 .. n /\ j \in b + 1 .. Len(d) /\ a + (j - b) = i
            BY <1>1, <2>2
        <3>2. d[j] = r[i]
            BY <1>1, <3>1
        <3> HIDE DEF j
        <3> QED BY <1>4, <3>1, <3>2
    <2> QED BY <2>1, <2>2
<1>7. e = r
    <2>1. Len(e) = Len(r) /\ \A i \in 1 .. Len(e) : e[i] = r[i]
        BY <1>5, <1>6 DEF n
    <2> QED BY <1>4, <2>1, SeqEqual
<1> QED BY <1>3, <1>7 DEF d, e

\* Nothing is below a directory that is not there.
LEMMA NothingBelow ==
    ASSUME NEW t, IsTree(t), NEW p \in SomePaths, ~HasDir(t, p)
    PROVE  \A r \in SomePaths : Under(p, r) => ~HasDir(t, r) /\ (r # p => Filed(t, r) = {})
<1>1. ASSUME NEW r \in Seq(Names), Under(p, r) PROVE ~HasDir(t, r)
    BY <1>1, DirsAbove DEF IsTree
<1>2. ASSUME NEW r \in SomePaths, Under(p, r), r # p PROVE Filed(t, r) = {}
    <2>1. Under(p, Front(r)) /\ Front(r) \in Seq(Names)
        BY <1>2, UnderFront, SplitPath DEF SomePaths
    <2> QED BY <1>1, <2>1, FiledOfDir DEF SomePaths
<1> QED BY <1>1, <1>2 DEF SomePaths

-----------------------------------------------------------------------------
\* What a rename of p to q leaves behind can be removed, and what it makes can be
\* made: what is still below the source has no namesake at its destination, but for
\* the directories made already and not yet removed.
StillLeft(l, r) == \E j \in DOMAIN l : l[j].do = "rmdir" /\ l[j].path = r /\ (l[1].do = "mkdir" => j > 3)
NoClash(t, l, p, q, r) ==
    /\ Filed(t, r) = {} \/ ~HasDir(t, r)
    /\ Filed(t, r) = {} \/ ~HasDir(t, Dest(p, q, r))
    /\ Filed(t, Dest(p, q, r)) = {} \/ ~HasDir(t, r)
    /\ HasDir(t, r) /\ HasDir(t, Dest(p, q, r)) => StillLeft(l, r)
NoClashes(t, l, p, q) == \A r \in SomePaths : Under(p, r) => NoClash(t, l, p, q, r)

\* What is removed was emptied just before; what is made can be made.
EmptiedFirst(l) == \A j \in DOMAIN l : l[j].do = "rmdir" /\ j # 1 =>
    j - 1 \in DOMAIN l /\ l[j - 1].do = "moveAll" /\ l[j - 1].path = l[j].path
CanRemove(t, a) == a.do = "rmdir" =>
    HasDir(t, a.path) /\ t[FindDirByPath(t, a.path)] = EmptyDir
MakesFor(l) == l[1].do = "mkdir" =>
    /\ 2 \in DOMAIN l /\ 3 \in DOMAIN l
    /\ l[2].do = "moveAll" /\ l[2].to = l[1].path
    /\ l[3].do = "rmdir" /\ l[3].path = l[2].path
CanMake(t, l) == l[1].do = "mkdir" =>
    /\ HasDir(t, l[2].path)
    /\ HasDir(t, Front(l[1].path)) /\ ~HasDir(t, l[1].path) /\ Filed(t, l[1].path) = {}
Moving(t, l, p, q) ==
    /\ NoClashes(t, l, p, q) /\ EmptiedFirst(l) /\ CanRemove(t, l[1]) /\ MakesFor(l) /\ CanMake(t, l)

\* The rest of the list.
LEMMA RestOfList ==
    ASSUME NEW l, Shape(l), Tail(l) # <<>>, l # <<>>, EmptiedFirst(l)
    PROVE  /\ EmptiedFirst(Tail(l)) /\ Tail(l)[1] = l[2] /\ 2 \in DOMAIN l /\ Tail(l)[1].do # "mkdir"
           /\ \A r : StillLeft(l, r) /\ ~(l[1].do = "rmdir" /\ l[1].path = r) => StillLeft(Tail(l), r)
           /\ l[1].do = "mkdir" /\ MakesFor(l) => StillLeft(Tail(l), l[2].path)
<1> DEFINE k == Tail(l)
<1>1. /\ l \in Seq(Steps) /\ k \in Seq(Steps) /\ Len(l) \in Nat /\ DOMAIN l = 1 .. Len(l)
      /\ DOMAIN k = 1 .. Len(l) - 1 /\ \A i \in 1 .. Len(l) - 1 : k[i] = l[i + 1]
      /\ 1 \in DOMAIN k /\ Places(l)
    BY ListFacts DEF Shape
<1> HIDE DEF k
<1>2. 2 \in DOMAIN l /\ k[1] = l[2] /\ l[2].do # "mkdir"
    <2>1. 2 \in DOMAIN l /\ k[1] = l[2]
        BY <1>1
    <2> QED BY <1>1, <2>1 DEF Places
<1>3. EmptiedFirst(k)
    <2>1. ASSUME NEW j \in DOMAIN k, k[j].do = "rmdir", j # 1
          PROVE  j - 1 \in DOMAIN k /\ k[j - 1].do = "moveAll" /\ k[j - 1].path = k[j].path
        <3> DEFINE m == j + 1
        <3>1. m \in DOMAIN l /\ m # 1 /\ k[j] = l[m] /\ m - 1 = j /\ j - 1 \in DOMAIN k /\ k[j - 1] = l[j]
            BY <1>1, <2>1
        <3> HIDE DEF m
        <3>2. l[m - 1].do = "moveAll" /\ l[m - 1].path = l[m].path
            BY <2>1, <3>1 DEF EmptiedFirst
        <3> QED BY <3>1, <3>2
    <2> QED BY <2>1 DEF EmptiedFirst
<1>4. ASSUME NEW j \in DOMAIN l, j # 1, l[j].do = "rmdir" PROVE StillLeft(k, l[j].path)
    <2>1. j - 1 \in DOMAIN k /\ k[j - 1] = l[j]
        BY <1>1, <1>4
    <2> QED BY <1>2, <1>4, <2>1 DEF StillLeft
<1>5. ASSUME NEW r, StillLeft(l, r), ~(l[1].do = "rmdir" /\ l[1].path = r) PROVE StillLeft(k, r)
    <2>1. PICK j \in DOMAIN l : l[j].do = "rmdir" /\ l[j].path = r
        BY <1>5 DEF StillLeft
    <2> QED BY <1>4, <1>5, <2>1
<1>6. ASSUME l[1].do = "mkdir", MakesFor(l) PROVE StillLeft(k, l[2].path)
    BY <1>4, <1>6 DEF MakesFor
<1> QED BY <1>2, <1>3, <1>5, <1>6 DEF k

\* Three steps in front.
LEMMA LongerList ==
    ASSUME NEW l \in Seq(Steps), l # <<>>, l[1].do = "moveAll", EmptiedFirst(l), NEW n, InFrontOf(n, l),
           \/ n[1].do # "mkdir" /\ \A i \in 1 .. 3 : n[i].do # "rmdir"
           \/ /\ n[1].do = "mkdir" /\ n[2].do = "moveAll" /\ n[2].to = n[1].path
              /\ n[3].do = "rmdir" /\ n[3].path = n[2].path
    PROVE  EmptiedFirst(n) /\ n # <<>> /\ MakesFor(n) /\ \A r : StillLeft(l, r) => StillLeft(n, r)
<1>1. /\ Len(l) \in Nat /\ DOMAIN l = 1 .. Len(l) /\ 1 \in DOMAIN l
      /\ Len(n) = Len(l) + 3 /\ DOMAIN n = 1 .. Len(l) + 3 /\ n # <<>>
      /\ \A i \in 4 .. Len(l) + 3 : n[i] = l[i - 3]
    <2>1. Len(l) \in Nat /\ DOMAIN l = 1 .. Len(l) /\ 1 \in DOMAIN l
        BY ListFacts
    <2>2. n \in Seq(Steps) /\ Len(n) = Len(l) + 3 /\ \A i \in 4 .. Len(n) : n[i] = l[i - 3]
        BY DEF InFrontOf
    <2>3. DOMAIN n = 1 .. Len(n)
        BY <2>2, LenProperties
    <2>4. n # <<>>
        BY <2>1, <2>2, EmptySeq
    <2> QED BY <2>1, <2>2, <2>3, <2>4
<1>2. {2, 3} \subseteq DOMAIN n
    BY <1>1
<1>3. ASSUME NEW j \in DOMAIN n, n[j].do = "rmdir", j # 1
      PROVE  j - 1 \in DOMAIN n /\ n[j - 1].do = "moveAll" /\ n[j - 1].path = n[j].path
    <2>1. CASE j \in {2, 3}
        <3>1. j \in 1 .. 3
            BY <2>1
        <3>2. n[1].do = "mkdir"
            BY <1>3, <3>1
        <3>3. j = 3
            BY <1>3, <2>1, <3>2
        <3> QED BY <1>2, <3>2, <3>3
    <2>2. CASE j \notin {2, 3}
        <3> DEFINE m == j - 3
        <3>1. j \in 4 .. Len(l) + 3
            BY <1>1, <1>3, <2>2
        <3>2. n[j] = l[m] /\ m \in DOMAIN l
            BY <1>1, <3>1
        <3>3. m # 1
            BY <1>3, <3>2
        <3>4. j - 1 \in 4 .. Len(l) + 3 /\ (j - 1) - 3 = m - 1
            BY <1>1, <3>1, <3>3
        <3> HIDE DEF m
        <3>5. n[j - 1] = l[m - 1] /\ j - 1 \in DOMAIN n
            BY <1>1, <3>4
        <3> QED BY <1>3, <3>2, <3>3, <3>5 DEF EmptiedFirst
    <2> QED BY <2>1, <2>2
<1>4. ASSUME NEW r, StillLeft(l, r) PROVE StillLeft(n, r)
    <2>1. PICK j \in DOMAIN l : l[j].do = "rmdir" /\ l[j].path = r
        BY <1>4 DEF StillLeft
    <2> DEFINE m == j + 3
    <2>2. m \in 4 .. Len(l) + 3 /\ m - 3 = j /\ m > 3 /\ m \in DOMAIN n
        BY <1>1
    <2> HIDE DEF m
    <2>3. n[m] = l[j]
        BY <1>1, <2>2
    <2> QED BY <2>1, <2>2, <2>3 DEF StillLeft
<1>5. MakesFor(n)
    BY <1>2 DEF MakesFor
<1> QED BY <1>1, <1>3, <1>4, <1>5 DEF EmptiedFirst

\* A directory found in a loop is not one that is left behind.
LEMMA FoundIsNotLeft ==
    ASSUME NEW l, Shape(l), l # <<>>, l[1].do = "moveAll", EmptiedFirst(l), NEW x \in Names
    PROVE  ~StillLeft(l, Append(l[1].path, x))
<1> DEFINE r == Append(l[1].path, x)
<1>1. /\ l \in Seq(Steps) /\ Len(l) \in Nat /\ DOMAIN l = 1 .. Len(l) /\ 1 \in DOMAIN l
      /\ \A i \in DOMAIN l : l[i] \in Steps
    BY ListFacts DEF Shape
<1>2. l[1].path \in Seq(Names)
    BY <1>1, StepIs
<1>3. Len(r) = Len(l[1].path) + 1 /\ Len(l[1].path) \in Nat
    BY <1>2, LenProperties, AppendProperties
<1> HIDE DEF r
<1> SUFFICES ASSUME StillLeft(l, r) PROVE FALSE
    BY DEF r
<1>4. PICK j \in DOMAIN l : l[j].do = "rmdir" /\ l[j].path = r
    BY DEF StillLeft
<1>5. j # 1
    BY <1>4
<1>6. j - 1 \in DOMAIN l /\ l[j - 1].do = "moveAll" /\ l[j - 1].path = r
    BY <1>4, <1>5 DEF EmptiedFirst
<1>7. CASE j - 1 = 1
    BY <1>3, <1>6, <1>7
<1>8. CASE j - 1 # 1
    <2> DEFINE m == j - 1
    <2>1. m \in DOMAIN l /\ 1 < m
        BY <1>1, <1>6, <1>8
    <2> HIDE DEF m
    <2>2. Inside(l[1], l[m])
        BY <1>1, <2>1 DEF Shape
    <2>3. Len(l[m].path) < Len(l[1].path)
        BY <1>6, <2>2 DEF Inside, m
    <2> QED BY <1>3, <1>6, <2>3 DEF m
<1> QED BY <1>7, <1>8

-----------------------------------------------------------------------------
\* A path with no more than before has no clash either.
LEMMA NoClashOn ==
    ASSUME NEW t, NEW l, NEW p, NEW q, NEW r, NoClash(t, l, p, q, r), NEW u, NEW k,
           NEW s, s = Dest(p, q, r),
           HasDir(u, r) => HasDir(t, r), HasDir(u, s) => HasDir(t, s),
           Filed(t, r) = {} => Filed(u, r) = {}, Filed(t, s) = {} => Filed(u, s) = {},
           HasDir(u, r) /\ StillLeft(l, r) => StillLeft(k, r)
    PROVE  NoClash(u, k, p, q, r)
BY DEF NoClash

\* The step done was no loop: the rest can go on, if nothing clashes.
LEMMA RestMoves ==
    ASSUME NEW l, Shape(l), l # <<>>, Tail(l) # <<>>, NEW t, NEW p, NEW q, Moving(t, l, p, q),
           l[1].do # "moveAll", NEW u, NoClashes(u, Tail(l), p, q)
    PROVE  Moving(u, Tail(l), p, q)
<1> DEFINE k == Tail(l)
<1>1. EmptiedFirst(l)
    BY DEF Moving
<1>2. EmptiedFirst(k) /\ k[1] = l[2] /\ 2 \in DOMAIN l /\ k[1].do # "mkdir"
    BY <1>1, RestOfList
<1> HIDE DEF k
<1>3. l[2].do # "rmdir"
    <2> DEFINE j == 2
    <2>1. j # 1 /\ j - 1 = 1
        OBVIOUS
    <2> HIDE DEF j
    <2>2. j \in DOMAIN l
        BY <1>2 DEF j
    <2>3. l[j].do = "rmdir" => l[j - 1].do = "moveAll"
        BY <1>1, <2>1, <2>2 DEF EmptiedFirst
    <2>4. l[j].do # "rmdir"
        BY <2>1, <2>3
    <2> QED BY <2>4 DEF j
<1>4. NoClashes(u, k, p, q)
    BY DEF k
<1>5. Moving(u, k, p, q)
    BY <1>2, <1>3, <1>4 DEF Moving, CanRemove, MakesFor, CanMake
<1> QED BY <1>5 DEF k

\* flushFile, and the action for the destination of a file.
LEMMA SameMoves ==
    ASSUME NEW l, Shape(l), l # <<>>, Tail(l) # <<>>, NEW t, NEW p \in SomePaths, NEW q \in SomePaths,
           Apart(p, q), Moving(t, l, p, q), l[1].do \in {"flush", "copy"},
           NEW u, SameDirs(t, u), SameEmpty(t, u)
    PROVE  Moving(u, Tail(l), p, q)
<1>1. l[1].do # "moveAll" /\ EmptiedFirst(l) /\ l[1].do # "rmdir"
    BY DEF Moving
<1>2. ASSUME NEW r \in SomePaths, Under(p, r) PROVE NoClash(u, Tail(l), p, q, r)
    <2> DEFINE s == Dest(p, q, r)
    <2>1. s \in SomePaths
        BY <1>2, DestApart DEF SomePaths
    <2>2. r \in Seq(Names) /\ s \in Seq(Names)
        BY <2>1 DEF SomePaths
    <2>3. NoClash(t, l, p, q, r)
        BY <1>2 DEF Moving, NoClashes
    <2>4. StillLeft(l, r) => StillLeft(Tail(l), r)
        BY <1>1, RestOfList
    <2> HIDE DEF s
    <2>5. /\ HasDir(u, r) => HasDir(t, r)
          /\ HasDir(u, s) => HasDir(t, s)
          /\ Filed(t, r) = {} => Filed(u, r) = {}
          /\ Filed(t, s) = {} => Filed(u, s) = {}
        BY <2>1, <2>2 DEF SameDirs, SameEmpty
    <2>6. s = Dest(p, q, r)
        BY DEF s
    <2> QED BY <2>3, <2>4, <2>5, <2>6, NoClashOn
<1>3. NoClashes(u, Tail(l), p, q)
    BY <1>2 DEF NoClashes
<1> QED BY <1>1, <1>3, RestMoves

\* The source of a file leaves its directory.
LEMMA FileMoves ==
    ASSUME NEW l, Shape(l), l # <<>>, Tail(l) # <<>>, NEW t, NEW p \in SomePaths, NEW q \in SomePaths,
           Apart(p, q), Moving(t, l, p, q), l[1].do = "move", NEW a, a = l[1].path, a \in SomePaths,
           Under(p, a), Filed(t, a) # {}, NEW u, NEW g, Moves2(t, u, a, Dest(p, q, a), g)
    PROVE  Moving(u, Tail(l), p, q)
<1>1. l[1].do # "moveAll" /\ EmptiedFirst(l) /\ l[1].do # "rmdir"
    BY DEF Moving
<1> DEFINE d == Dest(p, q, a)
<1>2. /\ SameDirs(t, u) /\ Filed(u, a) = {}
      /\ \A r \in SomePaths : r # a /\ r # d => Filed(u, r) = Filed(t, r)
    BY DEF Moves2, SomePaths
<1>3. ASSUME NEW r \in SomePaths, Under(p, r) PROVE NoClash(u, Tail(l), p, q, r)
    <2> DEFINE s == Dest(p, q, r)
    <2>1. s \in SomePaths /\ s # a
        BY <1>3, DestApart DEF SomePaths
    <2>2. r \in Seq(Names) /\ s \in Seq(Names) /\ a \in Seq(Names) /\ p \in Seq(Names) /\ q \in Seq(Names)
        BY <2>1 DEF SomePaths
    <2>3. NoClash(t, l, p, q, r)
        BY <1>3 DEF Moving, NoClashes
    <2>4. StillLeft(l, r) => StillLeft(Tail(l), r)
        BY <1>1, RestOfList
    <2>5. r # d
        BY <1>3, <2>2, DestApart
    <2>6. s = d => r = a
        BY <1>3, <2>2, DestDiffers
    <2> HIDE DEF s, d
    <2>7. (HasDir(u, r) <=> HasDir(t, r)) /\ (HasDir(u, s) <=> HasDir(t, s))
        BY <1>2, <2>2 DEF SameDirs
    <2>8. s = Dest(p, q, r)
        BY DEF s
    <2>9. CASE r # a
        <3>1. Filed(u, r) = Filed(t, r) /\ Filed(u, s) = Filed(t, s)
            BY <1>2, <2>1, <2>5, <2>6, <2>9
        <3> QED BY <2>3, <2>4, <2>7, <2>8, <3>1, NoClashOn
    <2>10. CASE r = a
        <3>1. ~HasDir(t, r) /\ Filed(u, r) = {}
            BY <1>2, <2>3, <2>10 DEF NoClash
        <3> QED BY <2>7, <2>8, <3>1 DEF NoClash
    <2> QED BY <2>9, <2>10
<1>4. NoClashes(u, Tail(l), p, q)
    BY <1>3 DEF NoClashes
<1> QED BY <1>1, <1>4, RestMoves

\* A directory is made at the destination.
LEMMA MadeMoves ==
    ASSUME NEW l, Shape(l), l # <<>>, Tail(l) # <<>>, NEW t, NEW p \in SomePaths, NEW q \in SomePaths,
           Apart(p, q), Moving(t, l, p, q), l[1].do = "mkdir", NEW a, a = l[2].path, a \in SomePaths,
           Under(p, a), l[1].path = Dest(p, q, a),
           NEW u, \A r \in Seq(Names) : HasDir(u, r) <=> r = l[1].path \/ HasDir(t, r),
           \A r \in SomePaths : Filed(u, r) = Filed(t, r)
    PROVE  Moving(u, Tail(l), p, q)
<1>1. l[1].do # "moveAll" /\ EmptiedFirst(l) /\ l[1].do # "rmdir" /\ MakesFor(l) /\ HasDir(t, a)
    BY DEF Moving, CanMake
<1> DEFINE d == Dest(p, q, a)
<1>3. ASSUME NEW r \in SomePaths, Under(p, r) PROVE NoClash(u, Tail(l), p, q, r)
    <2> DEFINE s == Dest(p, q, r)
    <2>1. s \in SomePaths
        BY <1>3, DestApart DEF SomePaths
    <2>2. r \in Seq(Names) /\ s \in Seq(Names) /\ a \in Seq(Names) /\ p \in Seq(Names) /\ q \in Seq(Names)
        BY <2>1 DEF SomePaths
    <2>3. NoClash(t, l, p, q, r)
        BY <1>3 DEF Moving, NoClashes
    <2>4. StillLeft(l, r) => StillLeft(Tail(l), r)
        BY <1>1, RestOfList
    <2>5. StillLeft(Tail(l), a)
        BY <1>1, RestOfList
    <2>6. r # d
        BY <1>3, <2>2, DestApart
    <2>7. s = d => r = a
        BY <1>3, <2>2, DestDiffers
    <2> HIDE DEF s, d
    <2>8. l[1].path = d
        BY DEF d
    <2>9. (HasDir(u, r) <=> HasDir(t, r)) /\ (s # d => (HasDir(u, s) <=> HasDir(t, s)))
        BY <2>2, <2>6, <2>8
    <2>10. Filed(u, r) = Filed(t, r) /\ Filed(u, s) = Filed(t, s)
        BY <2>1
    <2>11. s = Dest(p, q, r)
        BY DEF s
    <2>12. CASE s # d
        BY <2>3, <2>4, <2>9, <2>10, <2>11, <2>12, NoClashOn
    <2>13. CASE s = d
        <3>1. Filed(t, r) = {} /\ StillLeft(Tail(l), r) /\ HasDir(t, r)
            BY <1>1, <2>3, <2>5, <2>7, <2>13 DEF NoClash
        <3>2. Filed(t, s) = {}
            BY <2>3, <2>11, <3>1 DEF NoClash
        <3> QED BY <2>10, <2>11, <3>1, <3>2 DEF NoClash
    <2> QED BY <2>12, <2>13
<1>4. NoClashes(u, Tail(l), p, q)
    BY <1>3 DEF NoClashes
<1> QED BY <1>1, <1>4, RestMoves

\* An emptied directory is removed.
LEMMA RemovedMoves ==
    ASSUME NEW l, Shape(l), l # <<>>, Tail(l) # <<>>, NEW t, NEW p \in SomePaths, NEW q \in SomePaths,
           Apart(p, q), Moving(t, l, p, q), l[1].do = "rmdir",
           NEW u, \A r \in Seq(Names) : HasDir(u, r) <=> r # l[1].path /\ HasDir(t, r),
           \A r \in SomePaths : Filed(u, r) = Filed(t, r)
    PROVE  Moving(u, Tail(l), p, q)
<1>1. l[1].do # "moveAll" /\ EmptiedFirst(l)
    BY DEF Moving
<1>2. ASSUME NEW r \in SomePaths, Under(p, r) PROVE NoClash(u, Tail(l), p, q, r)
    <2> DEFINE s == Dest(p, q, r)
    <2>1. s \in SomePaths
        BY <1>2, DestApart DEF SomePaths
    <2>2. r \in Seq(Names) /\ s \in Seq(Names)
        BY <2>1 DEF SomePaths
    <2>3. NoClash(t, l, p, q, r)
        BY <1>2 DEF Moving, NoClashes
    <2>4. l[1].path # r /\ StillLeft(l, r) => StillLeft(Tail(l), r)
        BY <1>1, RestOfList
    <2> HIDE DEF s
    <2>5. HasDir(u, r) => HasDir(t, r) /\ r # l[1].path
        BY <2>2
    <2>6. HasDir(u, s) => HasDir(t, s)
        BY <2>2
    <2>7. Filed(u, r) = Filed(t, r) /\ Filed(u, s) = Filed(t, s)
        BY <2>1
    <2>8. s = Dest(p, q, r)
        BY DEF s
    <2> QED BY <2>3, <2>4, <2>5, <2>6, <2>7, <2>8, NoClashOn
<1>3. NoClashes(u, Tail(l), p, q)
    BY <1>2 DEF NoClashes
<1> QED BY <1>1, <1>3, RestMoves

\* One turn of the loops, or their end.
LEMMA FileTurnMoves ==
    ASSUME NEW l \in Seq(Steps), l # <<>>, l[1].do = "moveAll", NEW t, NEW p, NEW q, Moving(t, l, p, q),
           NEW n, InFrontOf(n, l), n[1].do = "flush", n[2].do = "copy", n[3].do = "move"
    PROVE  Moving(t, n, p, q)
<1>1. EmptiedFirst(l)
    BY DEF Moving
<1>2. n[1].do # "mkdir" /\ \A i \in 1 .. 3 : n[i].do # "rmdir"
    OBVIOUS
<1>3. EmptiedFirst(n) /\ MakesFor(n) /\ \A r : StillLeft(l, r) => StillLeft(n, r)
    BY <1>1, <1>2, LongerList
<1>4. NoClashes(t, n, p, q)
    BY <1>3 DEF Moving, NoClashes, NoClash
<1> QED BY <1>3, <1>4 DEF Moving, CanRemove, CanMake

LEMMA DirTurnMoves ==
    ASSUME NEW l, Shape(l), l # <<>>, l[1].do = "moveAll", NEW t,
           NEW p \in SomePaths, NEW q \in SomePaths, Apart(p, q), Moving(t, l, p, q),
           NEW n, InFrontOf(n, l), NEW x \in Names, NEW a, a = Append(l[1].path, x),
           NEW b, b = Append(l[1].to, x), a \in SomePaths,
           Under(p, l[1].path), l[1].to = Dest(p, q, l[1].path), l[1].path \in Seq(Names),
           n[1].do = "mkdir", n[1].path = b, n[2].do = "moveAll", n[2].path = a, n[2].to = b,
           n[3].do = "rmdir", n[3].path = a, HasDir(t, a), HasDir(t, l[1].to)
    PROVE  Moving(t, n, p, q)
<1>1. EmptiedFirst(l) /\ l \in Seq(Steps)
    BY DEF Moving, Shape
<1>2. /\ n[1].do = "mkdir" /\ n[2].do = "moveAll" /\ n[2].to = n[1].path
      /\ n[3].do = "rmdir" /\ n[3].path = n[2].path
    OBVIOUS
<1>3. EmptiedFirst(n) /\ MakesFor(n) /\ \A r : StillLeft(l, r) => StillLeft(n, r)
    BY ONLY <1>1, <1>2, l # <<>>, l[1].do = "moveAll", InFrontOf(n, l), LongerList
<1>4. NoClashes(t, n, p, q)
    BY <1>3 DEF Moving, NoClashes, NoClash
<1>5. p \in Seq(Names) /\ q \in Seq(Names)
    BY DEF SomePaths
<1>6. Under(p, a) /\ b = Dest(p, q, a)
    BY <1>5, DestDeeper
<1>7. NoClash(t, l, p, q, a)
    BY <1>6 DEF Moving, NoClashes
<1>8. ~StillLeft(l, a)
    BY <1>1, FoundIsNotLeft
<1>9. Filed(t, b) = {} /\ ~HasDir(t, b)
    BY <1>6, <1>7, <1>8 DEF NoClash
<1>10. Front(b) = l[1].to
    <2>1. l[1].to \in Seq(Names)
        BY <1>5, DestIs
    <2> QED BY <2>1, AppendPath
<1>11. CanMake(t, n)
    BY <1>9, <1>10 DEF CanMake
<1>12. CanRemove(t, n[1])
    BY DEF CanRemove
<1> QED BY <1>3, <1>4, <1>11, <1>12 DEF Moving

LEMMA EndMoves ==
    ASSUME NEW l, Shape(l), l # <<>>, Tail(l) # <<>>, l[1].do = "moveAll", NEW t,
           NEW p \in SomePaths, NEW q \in SomePaths, Moving(t, l, p, q),
           HasDir(t, l[1].path), t[FindDirByPath(t, l[1].path)] = EmptyDir
    PROVE  Moving(t, Tail(l), p, q)
<1> DEFINE k == Tail(l)
<1>1. EmptiedFirst(l)
    BY DEF Moving
<1>2. /\ EmptiedFirst(k) /\ k[1] = l[2] /\ 2 \in DOMAIN l /\ k[1].do # "mkdir"
      /\ \A r : StillLeft(l, r) => StillLeft(k, r)
    BY <1>1, RestOfList
<1> HIDE DEF k
<1>3. l[2].do = "rmdir" => l[2].path = l[1].path
    <2> DEFINE j == 2
    <2>1. j # 1 /\ j - 1 = 1
        OBVIOUS
    <2> HIDE DEF j
    <2>2. j \in DOMAIN l
        BY <1>2 DEF j
    <2>3. l[j].do = "rmdir" => l[j - 1].path = l[j].path
        BY <1>1, <2>1, <2>2 DEF EmptiedFirst
    <2>4. l[j].do = "rmdir" => l[j].path = l[1].path
        BY <2>1, <2>3
    <2> QED BY <2>4 DEF j
<1>4. NoClashes(t, k, p, q)
    BY <1>2 DEF Moving, NoClashes, NoClash
<1>5. CanRemove(t, k[1])
    BY <1>2, <1>3 DEF CanRemove
<1>6. MakesFor(k) /\ CanMake(t, k)
    BY <1>2 DEF MakesFor, CanMake
<1>7. Moving(t, k, p, q)
    BY <1>2, <1>4, <1>5, <1>6 DEF Moving
<1> QED BY <1>7 DEF k

LEMMA TurnMoves ==
    ASSUME NEW req, NEW log, NEW t, NEW l, NEW half, Coherent(log, t, l, half), l # <<>>,
           l[1].do = "moveAll", Keeps(req, log, t, l), Moving(t, l, req.path, req.to),
           NEW s, s = l[1], NEW dir, dir = t[FindDirByPath(t, s.path)],
           MoveNext(s, dir) \o Tail(l) # <<>>
    PROVE  Moving(t, MoveNext(s, dir) \o Tail(l), req.path, req.to)
<1>1. /\ l \in Seq(Steps) /\ Shape(l) /\ dir \in Dirs /\ 1 \in DOMAIN l
      /\ Mapped(l, req.path, req.to) /\ HasDir(t, s.path) /\ HasDir(t, s.to)
      /\ req.path \in SomePaths /\ req.to \in SomePaths /\ Apart(req.path, req.to)
    BY TurnFacts, StepFacts DEF LoopReady
<1>2. s.path \in Seq(Names) /\ s.to \in Seq(Names)
    <2>1. l[1] \in Steps
        BY <1>1, ListFacts
    <2> QED BY <2>1 DEF Steps, SomePaths
<1>3. Under(req.path, s.path) /\ s.to = Dest(req.path, req.to, s.path)
    BY <1>1 DEF Mapped
<1>4. CASE dir.files # <<>>
    <2> DEFINE x == dir.files[1].name
               p == Append(s.path, x)
               q == Append(s.to, x)
               n == MoveNext(s, dir) \o Tail(l)
    <2>1. x \in Names
        <3>1. dir.files \in Seq(Files)
            BY <1>1 DEF Dirs
        <3>2. dir.files[1] \in Files
            BY <1>4, <3>1, ListFacts
        <3> QED BY <3>2, FileFields
    <2>2. n = (FileSteps(s.path \o <<x>>, s.to \o <<x>>, FALSE) \o <<s>>) \o Tail(l)
        BY <1>4 DEF MoveNext, MoveFirstFile
    <2> HIDE DEF n, x
    <2>3. s.path \o <<x>> = p /\ s.to \o <<x>> = q
        BY <1>2, <2>1, DeeperPath
    <2>4. p \in SomePaths /\ q \in SomePaths
        BY <1>2, <2>1, AppendPath DEF SomePaths
    <2> HIDE DEF p, q
    <2>5. n = OneTurn(l, FileTurn(p, q))
        BY <2>2, <2>3 DEF OneTurn, FileTurn
    <2>6. InFrontOf(n, l) /\ n[1].do = "flush" /\ n[2].do = "copy" /\ n[3].do = "move"
        BY ONLY l # <<>>, <1>1, <2>4, <2>5, ListWithFile
    <2>7. Moving(t, n, req.path, req.to)
        BY <1>1, <2>6, FileTurnMoves
    <2> QED BY <2>7 DEF n
<1>5. CASE dir.files = <<>> /\ dir.dirs # <<>>
    <2> DEFINE x == dir.dirs[1].name
               p == Append(s.path, x)
               q == Append(s.to, x)
               n == MoveNext(s, dir) \o Tail(l)
    <2>1. x \in Names
        <3>1. dir.dirs \in Seq(Subdirs)
            BY <1>1 DEF Dirs
        <3>2. dir.dirs[1] \in Subdirs
            BY <1>5, <3>1, ListFacts
        <3> QED BY <3>2 DEF Subdirs
    <2>0. Coherent(log, t, n, half)
        <3>1. n = MoveFirstDir(s, dir) \o Tail(l)
            BY <1>5 DEF MoveNext
        <3> QED BY <1>5, <3>1, TurnOfDir
    <2>2. n = (DirSteps(s.path \o <<x>>, s.to \o <<x>>) \o <<s>>) \o Tail(l)
        BY <1>5 DEF MoveNext, MoveFirstDir
    <2> HIDE DEF n, x
    <2>3. s.path \o <<x>> = p /\ s.to \o <<x>> = q
        BY <1>2, <2>1, DeeperPath
    <2>4. p \in SomePaths /\ q \in SomePaths
        BY <1>2, <2>1, AppendPath DEF SomePaths
    <2>5. p = Append(l[1].path, x) /\ q = Append(l[1].to, x) /\ l[1].path \in Seq(Names)
          /\ Under(req.path, l[1].path) /\ l[1].to = Dest(req.path, req.to, l[1].path) /\ HasDir(t, l[1].to)
        BY <1>1, <1>2, <1>3
    <2> HIDE DEF p, q
    <2>6. n = OneTurn(l, DirSteps(p, q))
        BY <2>2, <2>3 DEF OneTurn
    <2>7. /\ InFrontOf(n, l) /\ n # <<>>
          /\ n[1].do = "mkdir" /\ n[1].path = q
          /\ n[2].do = "moveAll" /\ n[2].path = p /\ n[2].to = q
          /\ n[3].do = "rmdir" /\ n[3].path = p
        BY ONLY l # <<>>, <1>1, <2>4, <2>6, ListWithDir
    <2>8. HasDir(t, p)
        <3>1. TodoFor(n, t)
            BY <2>0 DEF Coherent
        <3>2. Len(l) \in Nat /\ l # <<>> /\ Len(n) = Len(l) + 3 /\ n \in Seq(Steps)
            BY <1>1, <2>7, LenProperties DEF InFrontOf
        <3>3. DOMAIN n = 1 .. Len(n)
            BY <3>2, LenProperties
        <3>4. 2 \in DOMAIN n
            BY <3>2, <3>3
        <3>5. Ready(n, t, 2)
            BY <3>1, <3>4 DEF TodoFor
        <3> QED BY <2>7, <3>5 DEF Ready, MadeFirst, LoopReady
    <2>9. Moving(t, n, req.path, req.to)
        BY <1>1, <2>1, <2>4, <2>5, <2>7, <2>8, DirTurnMoves
    <2> QED BY <2>9 DEF n
<1>6. CASE dir.files = <<>> /\ dir.dirs = <<>>
    <2>1. MoveNext(s, dir) \o Tail(l) = Tail(l)
        BY <1>1, <1>6, NothingMore DEF MoveNext
    <2>2. dir = EmptyDir
        BY <1>1, <1>6 DEF Dirs, EmptyDir
    <2>3. Moving(t, Tail(l), req.path, req.to)
        <3>1. Tail(l) # <<>>
            BY <2>1
        <3> QED BY <1>1, <2>2, <3>1, EndMoves
    <2> QED BY <2>1, <2>3
<1> QED BY <1>4, <1>5, <1>6

-----------------------------------------------------------------------------
\* A directory rename before its first step.
OneKindOf(t, p) == \A r \in SomePaths : Under(p, r) => Filed(t, r) = {} \/ ~HasDir(t, r)

LEMMA ThreeSteps ==
    ASSUME NEW p \in SomePaths, NEW q \in SomePaths, NEW l, l = DirSteps(p, q)
    PROVE  /\ DOMAIN l = {1, 2, 3} /\ l # <<>>
           /\ l[1].do = "mkdir" /\ l[1].path = q
           /\ l[2].do = "moveAll" /\ l[2].path = p /\ l[2].to = q
           /\ l[3].do = "rmdir" /\ l[3].path = p
<1> DEFINE a == On("mkdir", q)
           b == Step("moveAll", p, q, FALSE)
           c == On("rmdir", p)
<1>1. /\ a \in Steps /\ a.do = "mkdir" /\ a.path = q
      /\ b \in Steps /\ b.do = "moveAll" /\ b.path = p /\ b.to = q
      /\ c \in Steps /\ c.do = "rmdir" /\ c.path = p
    BY ONLY p \in SomePaths, q \in SomePaths, DirStepsAre
<1>2. l = <<a, b, c>>
    BY DEF DirSteps
<1> HIDE DEF a, b, c
<1>3. DOMAIN l = {1, 2, 3} /\ l # <<>> /\ l[1] = a /\ l[2] = b /\ l[3] = c
    BY ONLY <1>2
<1> QED BY ONLY <1>1, <1>3

LEMMA StartMoves ==
    ASSUME NEW t, IsTree(t), NEW p \in SomePaths, NEW q \in SomePaths, Apart(p, q),
           HasDir(t, p), OneKindOf(t, p), NEW l, l = DirSteps(p, q),
           HasDir(t, Front(q)), ~HasDir(t, q), Filed(t, q) = {}
    PROVE  Moving(t, l, p, q)
<1>1. /\ DOMAIN l = {1, 2, 3} /\ l # <<>>
      /\ l[1].do = "mkdir" /\ l[1].path = q
      /\ l[2].do = "moveAll" /\ l[2].path = p /\ l[2].to = q
      /\ l[3].do = "rmdir" /\ l[3].path = p
    BY ThreeSteps
<1>2. p \in Seq(Names) /\ q \in Seq(Names)
    BY DEF SomePaths
<1>3. ASSUME NEW r \in SomePaths, Under(p, r) PROVE NoClash(t, l, p, q, r)
    <2> DEFINE s == Dest(p, q, r)
    <2>1. r \in Seq(Names) /\ s \in SomePaths /\ Under(q, s)
        BY <1>2, <1>3, DestApart, DestUnder DEF SomePaths
    <2>2. Filed(t, r) = {} \/ ~HasDir(t, r)
        BY <1>3 DEF OneKindOf
    <2> HIDE DEF s
    <2>3. ~HasDir(t, s) /\ Filed(t, s) = {}
        BY <2>1, NothingBelow
    <2> QED BY <2>2, <2>3 DEF NoClash, s
<1>4. EmptiedFirst(l)
    <2>1. \A j \in {1, 2, 3} : l[j].do = "rmdir" => j = 3
        BY <1>1
    <2>2. 3 - 1 = 2
        OBVIOUS
    <2> QED BY <1>1, <2>1, <2>2 DEF EmptiedFirst
<1>5. CanRemove(t, l[1]) /\ MakesFor(l) /\ CanMake(t, l)
    BY <1>1 DEF CanRemove, MakesFor, CanMake
<1> QED BY <1>3, <1>4, <1>5 DEF Moving, NoClashes

-----------------------------------------------------------------------------
\* How far the move of everything below p to q has come since the tree was t0: each
\* file is at its old path or at its new one, each directory at one of the two.
OnItsWay(t0, t, r, s) ==
    /\ \/ /\ Filed(t, r) = {} <=> Filed(t0, r) = {}
          /\ ContentAt(t, r) = ContentAt(t0, r) /\ Filed(t, s) = {}
       \/ Filed(t, r) = {} /\ ContentAt(t, s) = ContentAt(t0, r)
    /\ HasDir(t0, r) <=> HasDir(t, r) \/ HasDir(t, s)
SameAt(t0, t, r) == ContentAt(t, r) = ContentAt(t0, r) /\ (HasDir(t, r) <=> HasDir(t0, r))
Halfway(t0, t, p, q) == \A r \in SomePaths :
    /\ Under(p, r) => OnItsWay(t0, t, r, Dest(p, q, r))
    /\ ~Under(p, r) /\ ~Under(q, r) => SameAt(t0, t, r)

\* The source goes last, and what goes has been made at the destination.
EndsWith(l, do, p) == l # <<>> => l[Len(l)].do = do /\ l[Len(l)].path = p
GoesWhenMade(t, l, p, q) == l # <<>> /\ l[1].do = "rmdir" => HasDir(t, Dest(p, q, l[1].path))
Half(t0, t, l, p, q) ==
    /\ IsTree(t0) /\ HasDir(t0, p) /\ Filed(t0, p) = {} /\ ~HasDir(t0, q)
    /\ Halfway(t0, t, p, q) /\ EndsWith(l, "rmdir", p) /\ GoesWhenMade(t, l, p, q)

LEMMA EndOfTail ==
    ASSUME NEW l \in Seq(Steps), l # <<>>, NEW do, NEW p, EndsWith(l, do, p)
    PROVE  EndsWith(Tail(l), do, p) /\ (Tail(l) = <<>> => l[1].do = do /\ l[1].path = p)
<1> DEFINE k == Tail(l)
<1>1. /\ Len(l) \in Nat /\ k \in Seq(Steps) /\ Len(k) = Len(l) - 1 /\ DOMAIN l = 1 .. Len(l)
      /\ 1 \in DOMAIN l /\ \A i \in 1 .. Len(l) - 1 : k[i] = l[i + 1]
    BY ListFacts
<1> HIDE DEF k
<1>2. l[Len(l)].do = do /\ l[Len(l)].path = p
    BY DEF EndsWith
<1>3. ASSUME k # <<>> PROVE k[Len(k)] = l[Len(l)]
    <2>1. Len(k) # 0
        BY <1>1, <1>3, EmptySeq
    <2>2. Len(k) \in 1 .. Len(l) - 1 /\ Len(k) + 1 = Len(l)
        BY <1>1, <2>1
    <2>3. k[Len(k)] = l[Len(k) + 1]
        BY <1>1, <2>2
    <2> QED BY <2>2, <2>3
<1>4. ASSUME k = <<>> PROVE Len(l) = 1
    BY <1>1, <1>4, EmptySeq
<1>5. EndsWith(k, do, p)
    BY <1>2, <1>3 DEF EndsWith
<1>6. k = <<>> => l[1].do = do /\ l[1].path = p
    BY <1>2, <1>4
<1> QED BY <1>5, <1>6 DEF k

LEMMA EndOfLonger ==
    ASSUME NEW l \in Seq(Steps), l # <<>>, NEW n, InFrontOf(n, l), NEW do, NEW p, EndsWith(l, do, p)
    PROVE  EndsWith(n, do, p)
<1>1. Len(l) \in Nat /\ 1 \in DOMAIN l /\ DOMAIN l = 1 .. Len(l)
    BY ListFacts
<1>2. Len(n) = Len(l) + 3 /\ \A i \in 4 .. Len(n) : n[i] = l[i - 3]
    BY DEF InFrontOf
<1>3. Len(n) \in 4 .. Len(n) /\ Len(n) - 3 = Len(l)
    BY <1>1, <1>2
<1>4. n[Len(n)] = l[Len(l)]
    <2> DEFINE m == Len(n)
    <2>1. n[m] = l[m - 3]
        BY <1>2, <1>3
    <2> QED BY <1>3, <2>1
<1> QED BY <1>4 DEF EndsWith

\* No directory is removed next, unless a loop ended.
LEMMA NotRemovedNext ==
    ASSUME NEW l, Shape(l), l # <<>>, Tail(l) # <<>>, EmptiedFirst(l), l[1].do # "moveAll"
    PROVE  Tail(l)[1].do # "rmdir"
<1>1. Tail(l)[1] = l[2] /\ 2 \in DOMAIN l
    BY RestOfList
<1>2. l[2].do # "rmdir"
    <2> DEFINE j == 2
    <2>1. j # 1 /\ j - 1 = 1
        OBVIOUS
    <2> HIDE DEF j
    <2>2. j \in DOMAIN l
        BY <1>1 DEF j
    <2>3. l[j].do = "rmdir" => l[j - 1].do = "moveAll"
        BY <2>1, <2>2 DEF EmptiedFirst
    <2>4. l[j].do # "rmdir"
        BY <2>1, <2>3
    <2> QED BY <2>4 DEF j
<1> QED BY <1>1, <1>2

\* What a loop leaves is removed.
LEMMA RemovedNext ==
    ASSUME NEW l, Shape(l), l # <<>>, Tail(l) # <<>>, EmptiedFirst(l), Tail(l)[1].do = "rmdir"
    PROVE  Tail(l)[1].path = l[1].path
<1>1. Tail(l)[1] = l[2] /\ 2 \in DOMAIN l
    BY RestOfList
<1>2. l[2].path = l[1].path
    <2> DEFINE j == 2
    <2>1. j # 1 /\ j - 1 = 1
        OBVIOUS
    <2>0. l[2].do = "rmdir"
        BY <1>1
    <2> HIDE DEF j
    <2>2. j \in DOMAIN l /\ l[j].do = "rmdir"
        BY <1>1, <2>0 DEF j
    <2>3. l[j - 1].path = l[j].path
        BY <2>1, <2>2 DEF EmptiedFirst
    <2>4. l[j].path = l[1].path
        BY <2>1, <2>3
    <2> QED BY <2>4 DEF j
<1> QED BY <1>1, <1>2

LEMMA HalfRest ==
    ASSUME NEW l, Shape(l), l # <<>>, EmptiedFirst(l), l[1].do # "moveAll",
           NEW t0, NEW t, NEW p, NEW q, Half(t0, t, l, p, q), NEW u, Halfway(t0, u, p, q)
    PROVE  Half(t0, u, Tail(l), p, q)
<1>1. l \in Seq(Steps)
    BY DEF Shape
<1>2. EndsWith(Tail(l), "rmdir", p)
    BY <1>1, EndOfTail DEF Half
<1>3. GoesWhenMade(u, Tail(l), p, q)
    BY NotRemovedNext DEF GoesWhenMade
<1> QED BY <1>2, <1>3 DEF Half

\* What the paths below p and q are to each other.
LEMMA Pairs ==
    ASSUME NEW p \in SomePaths, NEW q \in SomePaths, Apart(p, q), NEW a \in SomePaths, Under(p, a)
    PROVE  /\ Dest(p, q, a) \in SomePaths /\ Under(q, Dest(p, q, a)) /\ a # Dest(p, q, a)
           /\ \A r \in SomePaths : Under(p, r) =>
                /\ Dest(p, q, r) \in SomePaths /\ Dest(p, q, r) # a /\ r # Dest(p, q, a)
                /\ Dest(p, q, r) = Dest(p, q, a) => r = a
<1>1. p \in Seq(Names) /\ q \in Seq(Names) /\ a \in Seq(Names)
    BY DEF SomePaths
<1>2. Dest(p, q, a) \in SomePaths /\ Under(q, Dest(p, q, a)) /\ a # Dest(p, q, a)
    BY <1>1, DestApart, DestUnder
<1>3. ASSUME NEW r \in SomePaths, Under(p, r)
      PROVE  /\ Dest(p, q, r) \in SomePaths /\ Dest(p, q, r) # a /\ r # Dest(p, q, a)
             /\ Dest(p, q, r) = Dest(p, q, a) => r = a
    <2>1. r \in Seq(Names)
        BY DEF SomePaths
    <2>2. Dest(p, q, r) \in SomePaths /\ Dest(p, q, r) # a
        BY <1>1, <1>3, <2>1, DestApart
    <2>3. r # Dest(p, q, a)
        BY <1>1, <1>3, <2>1, DestApart
    <2>4. Dest(p, q, r) = Dest(p, q, a) => r = a
        BY <1>1, <1>3, <2>1, DestDiffers
    <2> QED BY <2>2, <2>3, <2>4
<1> QED BY <1>2, <1>3

\* The tree looks the same.
LEMMA SameHalf ==
    ASSUME NEW t0, NEW t, NEW p \in SomePaths, NEW q \in SomePaths, Apart(p, q), Halfway(t0, t, p, q),
           NEW u, SameDirs(t, u), SameEmpty(t, u), \A r \in SomePaths : ContentAt(u, r) = ContentAt(t, r)
    PROVE  Halfway(t0, u, p, q)
<1>1. ASSUME NEW r \in SomePaths PROVE SameAt(t, u, r) /\ (Filed(u, r) = {} <=> Filed(t, r) = {})
    <2>1. r \in Seq(Names)
        BY DEF SomePaths
    <2> QED BY <2>1 DEF SameAt, SameDirs, SameEmpty
<1>2. ASSUME NEW r \in SomePaths, Under(p, r) PROVE OnItsWay(t0, u, r, Dest(p, q, r))
    <2> DEFINE s == Dest(p, q, r)
    <2>1. s \in SomePaths
        BY <1>2, Pairs
    <2>2. OnItsWay(t0, t, r, s)
        BY <1>2 DEF Halfway
    <2> HIDE DEF s
    <2>3. OnItsWay(t0, u, r, s)
        BY <1>1, <2>1, <2>2 DEF OnItsWay, SameAt
    <2> QED BY <2>3 DEF s
<1>3. ASSUME NEW r \in SomePaths, ~Under(p, r), ~Under(q, r) PROVE SameAt(t0, u, r)
    BY <1>1, <1>3 DEF Halfway, SameAt
<1> QED BY <1>2, <1>3 DEF Halfway

\* A file is moved.
LEMMA MovedHalf ==
    ASSUME NEW t0, NEW t, NEW p \in SomePaths, NEW q \in SomePaths, Apart(p, q), Halfway(t0, t, p, q),
           NEW a \in SomePaths, Under(p, a), Filed(t, a) # {}, NEW d, d = Dest(p, q, a),
           NEW u, NEW g, Moves2(t, u, a, d, g), g.content = ContentAt(t, a)
    PROVE  Halfway(t0, u, p, q)
<1>1. /\ SameDirs(t, u) /\ Filed(u, a) = {} /\ Filed(u, d) = {g}
      /\ \A r \in SomePaths : r # a /\ r # d => Filed(u, r) = Filed(t, r)
    BY DEF Moves2, SomePaths
<1>2. ASSUME NEW r \in SomePaths PROVE HasDir(u, r) <=> HasDir(t, r)
    BY <1>1 DEF SameDirs, SomePaths
<1>3. ASSUME NEW r \in SomePaths, r # a, r # d
      PROVE  ContentAt(u, r) = ContentAt(t, r) /\ Filed(u, r) = Filed(t, r)
    BY <1>1, <1>3, ContentIs
<1>4. d \in SomePaths /\ Under(q, d) /\ ContentAt(u, d) = ContentAt(t, a)
    BY <1>1, Pairs, ContentOfFiled
<1>5. ASSUME NEW r \in SomePaths, Under(p, r) PROVE OnItsWay(t0, u, r, Dest(p, q, r))
    <2> DEFINE s == Dest(p, q, r)
    <2>1. s \in SomePaths /\ s # a /\ r # d /\ (s = d => r = a) /\ (r = a => s = d)
        BY <1>5, Pairs
    <2>2. OnItsWay(t0, t, r, s)
        BY <1>5 DEF Halfway
    <2> HIDE DEF s
    <2>3. HasDir(t0, r) <=> HasDir(u, r) \/ HasDir(u, s)
        BY <1>2, <2>1, <2>2 DEF OnItsWay
    <2>4. CASE r = a
        <3>1. ContentAt(t, r) = ContentAt(t0, r)
            BY <2>2, <2>4 DEF OnItsWay
        <3>2. Filed(u, r) = {} /\ ContentAt(u, s) = ContentAt(t0, r)
            BY <1>1, <1>4, <2>1, <2>4, <3>1
        <3> QED BY <2>3, <3>2 DEF OnItsWay, s
    <2>5. CASE r # a
        <3>1. /\ Filed(u, r) = Filed(t, r) /\ Filed(u, s) = Filed(t, s)
              /\ ContentAt(u, r) = ContentAt(t, r) /\ ContentAt(u, s) = ContentAt(t, s)
            BY <1>3, <2>1, <2>5
        <3>2. OnItsWay(t0, u, r, s)
            BY <2>2, <2>3, <3>1 DEF OnItsWay
        <3> QED BY <3>2 DEF s
    <2> QED BY <2>4, <2>5
<1>6. ASSUME NEW r \in SomePaths, ~Under(p, r), ~Under(q, r) PROVE SameAt(t0, u, r)
    <2>1. r # a /\ r # d
        BY <1>4, <1>6
    <2> QED BY <1>2, <1>3, <1>6, <2>1 DEF Halfway, SameAt
<1> QED BY <1>5, <1>6 DEF Halfway

\* A directory is made.
LEMMA MadeHalf ==
    ASSUME NEW t0, NEW t, NEW p \in SomePaths, NEW q \in SomePaths, Apart(p, q), Halfway(t0, t, p, q),
           NEW a \in SomePaths, Under(p, a), HasDir(t, a), NEW d, d = Dest(p, q, a),
           NEW u, \A r \in Seq(Names) : HasDir(u, r) <=> r = d \/ HasDir(t, r),
           \A r \in SomePaths : Filed(u, r) = Filed(t, r)
    PROVE  Halfway(t0, u, p, q)
<1>1. ASSUME NEW r \in SomePaths
      PROVE  /\ ContentAt(u, r) = ContentAt(t, r) /\ Filed(u, r) = Filed(t, r)
             /\ HasDir(u, r) <=> r = d \/ HasDir(t, r)
    <2>1. r \in Seq(Names)
        BY DEF SomePaths
    <2> QED BY <2>1, ContentIs
<1>2. d \in SomePaths /\ Under(q, d)
    BY Pairs
<1>3. ASSUME NEW r \in SomePaths, Under(p, r) PROVE OnItsWay(t0, u, r, Dest(p, q, r))
    <2> DEFINE s == Dest(p, q, r)
    <2>1. s \in SomePaths /\ r # d /\ (s = d => r = a)
        BY <1>3, Pairs
    <2>2. OnItsWay(t0, t, r, s)
        BY <1>3 DEF Halfway
    <2> HIDE DEF s
    <2>3. HasDir(t0, r) <=> HasDir(u, r) \/ HasDir(u, s)
        BY <1>1, <2>1, <2>2 DEF OnItsWay
    <2>4. OnItsWay(t0, u, r, s)
        BY <1>1, <2>1, <2>2, <2>3 DEF OnItsWay
    <2> QED BY <2>4 DEF s
<1>4. ASSUME NEW r \in SomePaths, ~Under(p, r), ~Under(q, r) PROVE SameAt(t0, u, r)
    BY <1>1, <1>2, <1>4 DEF Halfway, SameAt
<1> QED BY <1>3, <1>4 DEF Halfway

\* A directory is removed.
LEMMA RemovedHalf ==
    ASSUME NEW t0, NEW t, NEW p \in SomePaths, NEW q \in SomePaths, Apart(p, q), Halfway(t0, t, p, q),
           NEW a \in SomePaths, Under(p, a), HasDir(t, Dest(p, q, a)),
           NEW u, \A r \in Seq(Names) : HasDir(u, r) <=> r # a /\ HasDir(t, r),
           \A r \in SomePaths : Filed(u, r) = Filed(t, r)
    PROVE  Halfway(t0, u, p, q)
<1>1. ASSUME NEW r \in SomePaths
      PROVE  /\ ContentAt(u, r) = ContentAt(t, r) /\ Filed(u, r) = Filed(t, r)
             /\ HasDir(u, r) <=> r # a /\ HasDir(t, r)
    <2>1. r \in Seq(Names)
        BY DEF SomePaths
    <2> QED BY <2>1, ContentIs
<1>3. ASSUME NEW r \in SomePaths, Under(p, r) PROVE OnItsWay(t0, u, r, Dest(p, q, r))
    <2> DEFINE s == Dest(p, q, r)
    <2>1. s \in SomePaths /\ s # a
        BY <1>3, Pairs
    <2>2. OnItsWay(t0, t, r, s)
        BY <1>3 DEF Halfway
    <2>0. r = a => HasDir(t, s)
        OBVIOUS
    <2> HIDE DEF s
    <2>3. HasDir(t0, r) <=> HasDir(u, r) \/ HasDir(u, s)
        BY <1>1, <2>0, <2>1, <2>2 DEF OnItsWay
    <2>4. OnItsWay(t0, u, r, s)
        BY <1>1, <2>1, <2>2, <2>3 DEF OnItsWay
    <2> QED BY <2>4 DEF s
<1>4. ASSUME NEW r \in SomePaths, ~Under(p, r), ~Under(q, r) PROVE SameAt(t0, u, r)
    BY <1>1, <1>4 DEF Halfway, SameAt
<1> QED BY <1>3, <1>4 DEF Halfway

\* Nothing is moved yet.
LEMMA StartHalf ==
    ASSUME NEW t, IsTree(t), NEW p \in SomePaths, NEW q \in SomePaths, Apart(p, q),
           HasDir(t, p), OneKindOf(t, p), NEW l, l = DirSteps(p, q), ~HasDir(t, q), Filed(t, q) = {}
    PROVE  Half(t, t, l, p, q)
<1>1. /\ DOMAIN l = {1, 2, 3} /\ l # <<>> /\ l[1].do = "mkdir"
      /\ l[3].do = "rmdir" /\ l[3].path = p /\ Len(l) = 3
    <2>1. Len(DirSteps(p, q)) = 3
        BY DEF DirSteps
    <2> QED BY <2>1, ThreeSteps
<1>2. p \in Seq(Names) /\ q \in Seq(Names)
    BY DEF SomePaths
<1>3. ASSUME NEW r \in SomePaths, Under(p, r) PROVE OnItsWay(t, t, r, Dest(p, q, r))
    <2> DEFINE s == Dest(p, q, r)
    <2>1. s \in SomePaths /\ Under(q, s)
        BY <1>3, Pairs
    <2> HIDE DEF s
    <2>2. ~HasDir(t, s) /\ Filed(t, s) = {}
        BY <1>2, <2>1, NothingBelow
    <2> QED BY <2>2 DEF OnItsWay, s
<1>4. Halfway(t, t, p, q)
    BY <1>3 DEF Halfway, SameAt
<1>5. Filed(t, p) = {}
    <2>1. Under(p, p)
        BY <1>2, DestOfSource
    <2> QED BY <2>1 DEF OneKindOf
<1>6. EndsWith(l, "rmdir", p) /\ GoesWhenMade(t, l, p, q)
    BY <1>1 DEF EndsWith, GoesWhenMade
<1> QED BY <1>4, <1>5, <1>6 DEF Half

-----------------------------------------------------------------------------
\* How far the rename of a file is: everything looks as it did, and the target is
\* what it was.
FileHalf(t0, t, l, p, q) ==
    /\ IsTree(t0) /\ ~HasDir(t0, p) /\ ~HasDir(t0, q) /\ SameDirs(t0, t)
    /\ \A r \in SomePaths : ContentAt(t, r) = ContentAt(t0, r)
    /\ Filed(t, q) = Filed(t0, q)
    /\ \A j \in DOMAIN l : l[j].path = p
    /\ EndsWith(l, "move", p)
LooksTheSame(t, u) ==
    SameDirs(t, u) /\ SameEmpty(t, u) /\ \A r \in SomePaths : ContentAt(u, r) = ContentAt(t, r)

LEMMA FileHalfRest ==
    ASSUME NEW l \in Seq(Steps), l # <<>>, NEW t0, NEW t, NEW p, NEW q, FileHalf(t0, t, l, p, q),
           NEW u, LooksTheSame(t, u), Filed(u, q) = Filed(t, q)
    PROVE  FileHalf(t0, u, Tail(l), p, q)
<1> DEFINE k == Tail(l)
<1>1. /\ DOMAIN l = 1 .. Len(l) /\ Len(l) \in Nat /\ DOMAIN k = 1 .. Len(l) - 1
      /\ \A i \in 1 .. Len(l) - 1 : k[i] = l[i + 1]
    BY ListFacts
<1>2. EndsWith(k, "move", p)
    BY EndOfTail DEF FileHalf
<1> HIDE DEF k
<1>3. ASSUME NEW i \in DOMAIN k PROVE k[i].path = p
    <2>1. i + 1 \in DOMAIN l /\ k[i] = l[i + 1]
        BY <1>1
    <2> QED BY <2>1 DEF FileHalf
<1>4. SameDirs(t0, u)
    BY DEF FileHalf, LooksTheSame, SameDirs
<1>5. \A r \in SomePaths : ContentAt(u, r) = ContentAt(t0, r)
    BY DEF FileHalf, LooksTheSame
<1>6. FileHalf(t0, u, k, p, q)
    BY <1>2, <1>3, <1>4, <1>5 DEF FileHalf
<1> QED BY <1>6 DEF k

\* How far an operation is that may still be refused: it changes files only, or it
\* has changed nothing yet, or it is the rename of a directory that goes on.
FilesOnly(l) == \A j \in DOMAIN l : l[j].do \in {"flush", "copy", "move", "remove"}
StaysPut(l) == \A j \in DOMAIN l : l[j].do \in {"flush", "remove"}
AsFound(req, log, t) == req.tree = t /\ req.stored = Len(log)
OneStep(l) == l[1].do \in {"mkdir", "rmdir"} /\ Tail(l) = <<>>
StartsDir(req, t, l) ==
    /\ req.op = "rename" /\ l = DirSteps(req.path, req.to)
    /\ HasDir(t, req.path) /\ OneKindOf(t, req.path)
HowFar(req, log, t, l) ==
    \/ FilesOnly(l) /\ req.op = "rename" /\ FileHalf(req.tree, t, l, req.path, req.to)
    \/ StaysPut(l) /\ req.op # "rename"
    \/ AsFound(req, log, t) /\ OneStep(l) /\ req.op # "rename"
    \/ AsFound(req, log, t) /\ StartsDir(req, t, l)
    \/ /\ req.op = "rename" /\ Moving(t, l, req.path, req.to)
       /\ Half(req.tree, t, l, req.path, req.to)
Progress == todo # <<>> => HowFar(request, stored, tree, todo)

LEMMA FilesOnlyTail ==
    ASSUME NEW l \in Seq(Steps), l # <<>>, FilesOnly(l)
    PROVE  FilesOnly(Tail(l)) /\ (StaysPut(l) => StaysPut(Tail(l)))
<1> DEFINE k == Tail(l)
<1>1. /\ Len(l) \in Nat /\ DOMAIN l = 1 .. Len(l) /\ DOMAIN k = 1 .. Len(l) - 1
      /\ \A i \in 1 .. Len(l) - 1 : k[i] = l[i + 1]
    BY ListFacts
<1> HIDE DEF k
<1>2. ASSUME NEW i \in DOMAIN k PROVE i + 1 \in DOMAIN l /\ k[i] = l[i + 1]
    BY <1>1
<1>3. FilesOnly(k)
    BY <1>2 DEF FilesOnly
<1>4. StaysPut(l) => StaysPut(k)
    BY <1>2 DEF StaysPut
<1> QED BY <1>3, <1>4 DEF k

LEMMA PutIsFiles ==
    ASSUME NEW l, StaysPut(l)
    PROVE  FilesOnly(l)
BY DEF StaysPut, FilesOnly

LEMMA EndsInFiles ==
    ASSUME NEW l \in Seq(Steps), l # <<>>, FilesOnly(l), NEW do, NEW p, EndsWith(l, do, p)
    PROVE  do \in {"flush", "copy", "move", "remove"}
<1>1. Len(l) \in Nat /\ DOMAIN l = 1 .. Len(l) /\ Len(l) # 0
    BY ListFacts, EmptySeq
<1>2. Len(l) \in DOMAIN l
    BY <1>1
<1>3. l[Len(l)].do = do
    BY DEF EndsWith
<1> QED BY <1>2, <1>3 DEF FilesOnly

\* The head of a list that goes on with a rename.
LEMMA RenameGoing ==
    ASSUME IInv, RenameInv, Progress, todo # <<>>, request.op = "rename"
    PROVE  /\ Head(todo) = todo[1] /\ 1 \in DOMAIN todo /\ todo \in Seq(Steps)
           /\ Coherent(stored, tree, todo, halfMoved) /\ IsTree(tree) /\ Shape(todo)
           /\ TodoFor(todo, tree)
           /\ Keeps(request, stored, tree, todo)
           /\ request.path \in SomePaths /\ request.to \in SomePaths /\ Apart(request.path, request.to)
           /\ Mapped(todo, request.path, request.to)
           /\ FilesOnly(todo) => FileHalf(request.tree, tree, todo, request.path, request.to)
           /\ ~FilesOnly(todo) =>
                \/ /\ Moving(tree, todo, request.path, request.to)
                   /\ Half(request.tree, tree, todo, request.path, request.to)
                \/ /\ todo[1].do = "mkdir" /\ request.tree = tree
                   /\ StartsDir(request, tree, todo)
<1>1. /\ Head(todo) = todo[1] /\ 1 \in DOMAIN todo
      /\ Coherent(stored, tree, todo, halfMoved) /\ IsTree(tree) /\ Shape(todo)
      /\ TodoFor(todo, tree) /\ todo \in Seq(Steps)
    BY TodoIs, ListFacts DEF IInv
<1>2. Keeps(request, stored, tree, todo)
    BY DEF RenameInv
<1>3. /\ request.path \in SomePaths /\ request.to \in SomePaths /\ Apart(request.path, request.to)
      /\ Mapped(todo, request.path, request.to)
    BY <1>2 DEF Keeps
<1>4. \/ FilesOnly(todo) /\ FileHalf(request.tree, tree, todo, request.path, request.to)
      \/ request.tree = tree /\ StartsDir(request, tree, todo)
      \/ /\ Moving(tree, todo, request.path, request.to)
         /\ Half(request.tree, tree, todo, request.path, request.to)
    <2>1. HowFar(request, stored, tree, todo)
        BY DEF Progress
    <2> QED BY <2>1 DEF HowFar, AsFound
<1>5. StartsDir(request, tree, todo) => todo[1].do = "mkdir"
    BY <1>3, ThreeSteps DEF StartsDir
<1>6. StartsDir(request, tree, todo) => ~FilesOnly(todo)
    BY <1>1, <1>5 DEF FilesOnly
<1>7. Half(request.tree, tree, todo, request.path, request.to) => ~FilesOnly(todo)
    BY <1>1, EndsInFiles DEF Half
<1> QED BY <1>1, <1>2, <1>3, <1>4, <1>5, <1>6, <1>7

\* What is not about files only, and has more than one step, is a rename.
LEMMA GoingOn ==
    ASSUME IInv, RenameInv, Progress, todo # <<>>, Tail(todo) # <<>>, ~FilesOnly(todo)
    PROVE  request.op = "rename"
<1>1. HowFar(request, stored, tree, todo)
    BY DEF Progress
<1> QED BY <1>1, PutIsFiles DEF HowFar, OneStep, StartsDir

\* The step goes on with the rest of the list.
LEMMA GoesToRest ==
    ASSUME IInv, todo # <<>>, todo' # <<>>, Continue(<<>>)
    PROVE  todo' = Tail(todo) /\ request' = request /\ Tail(todo) # <<>>
<1>1. todo' = <<>> \o Tail(todo) /\ request' = IF todo' = <<>> THEN NoRequest ELSE request
    BY DEF Continue
<1>2. <<>> \o Tail(todo) = Tail(todo)
    BY TodoIs
<1> QED BY <1>1, <1>2

LEMMA MovingIsFar ==
    ASSUME NEW u, NEW l, Moving(u, l, request.path, request.to), request.op = "rename",
           Half(request.tree, u, l, request.path, request.to),
           request' = request, tree' = u, todo' = l
    PROVE  HowFar(request', stored', tree', todo')
<1>1. /\ Moving(tree', todo', request'.path, request'.to) /\ request'.op = "rename"
      /\ Half(request'.tree, tree', todo', request'.path, request'.to)
    BY ONLY Moving(u, l, request.path, request.to), request.op = "rename",
            Half(request.tree, u, l, request.path, request.to),
            request' = request, tree' = u, todo' = l
<1> QED BY ONLY <1>1 DEF HowFar

LEMMA FilesAreFar ==
    ASSUME IInv, Progress, todo # <<>>, FilesOnly(todo), todo' = Tail(todo), request' = request,
           request.op = "rename" => FileHalf(request.tree, tree', Tail(todo), request.path, request.to)
    PROVE  HowFar(request', stored', tree', todo')
<1>1. FilesOnly(Tail(todo))
    BY TodoIs, FilesOnlyTail
<1>2. FilesOnly(todo')
    BY ONLY <1>1, todo' = Tail(todo)
<1>3. request'.op = "rename" => FileHalf(request'.tree, tree', todo', request'.path, request'.to)
    BY ONLY todo' = Tail(todo), request' = request,
            request.op = "rename" => FileHalf(request.tree, tree', Tail(todo), request.path, request.to)
<1>4. request.op # "rename" => StaysPut(Tail(todo))
    <2>1. ASSUME request.op # "rename" PROVE StaysPut(todo)
        <3>1. HowFar(request, stored, tree, todo)
            BY DEF Progress
        <3>2. 1 \in DOMAIN todo
            BY TodoIs, ListFacts
        <3>3. ~OneStep(todo)
            BY <3>2 DEF FilesOnly, OneStep
        <3> QED BY <2>1, <3>1, <3>3 DEF HowFar, StartsDir
    <2> QED BY <2>1, TodoIs, FilesOnlyTail
<1>5. request'.op # "rename" => StaysPut(todo')
    BY ONLY <1>4, todo' = Tail(todo), request' = request
<1> QED BY ONLY <1>2, <1>3, <1>5 DEF HowFar

\* A flush changes a file's flags only.
LEMMA FlushShows ==
    ASSUME IInv, Flush
    PROVE  /\ todo # <<>> /\ todo[1].do = "flush" /\ LooksTheSame(tree, tree')
           /\ \A r \in SomePaths : r # todo[1].path => Filed(tree', r) = Filed(tree, r)
           /\ todo' # <<>> => Continue(<<>>)
<1>1. todo # <<>> /\ Doing("flush") /\ Head(todo) = todo[1] /\ todo[1].do = "flush"
    BY TodoIs DEF Flush, Doing
<1> DEFINE p == todo[1].path
           f == FileAt(tree, p)
           g == CleanFile(Last(p), f.content)
           u == SetFile(tree, FindContainingDir(tree, p), Last(p), g)
<1>2. tree' = tree \/ tree' = u
    BY <1>1 DEF Flush, Store, StoreFails
<1>3. todo' # <<>> => Continue(<<>>)
    BY <1>1 DEF Flush, Store, StoreFails, Abort
<1>4. IsTree(tree) /\ TodoFor(todo, tree)
    BY TodoIs
<1>5. /\ p \in SomePaths /\ p \in Seq(Names) \ {<<>>} /\ FileExists(tree, p) /\ Filed(tree, p) = {f} /\ f \in Files
      /\ f.content \in ContentOf /\ Last(p) \in Names
    BY <1>1, <1>4, HeadFile DEF SomePaths
<1>6. g \in Files /\ g.name = Last(p) /\ g.content = f.content
    BY <1>5, CleanFileIs DEF CleanFile, Files
<1>7. FileUpdate(tree, u, p, {g})
    BY <1>4, <1>5, <1>6, SetFileView
<1> HIDE DEF f, g, u
<1>8. /\ SameDirs(tree, u) /\ SameEmpty(tree, u)
      /\ Filed(u, p) = {g} /\ \A r \in SomePaths : r # p => Filed(u, r) = Filed(tree, r)
    BY <1>5, <1>7 DEF FileUpdate, SameDirs, SameEmpty, HasDir, SomePaths
<1>9. ContentAt(u, p) = ContentAt(tree, p)
    BY <1>5, <1>6, <1>8, ContentOfFiled
<1>10. \A r \in SomePaths : ContentAt(u, r) = ContentAt(tree, r)
    BY <1>8, <1>9, ContentIs
<1>11. LooksTheSame(tree, u)
    BY <1>8, <1>10 DEF LooksTheSame
<1>12. LooksTheSame(tree, tree)
    BY DEF LooksTheSame, SameDirs, SameEmpty
<1> QED BY <1>1, <1>2, <1>3, <1>8, <1>11, <1>12

LEMMA FlushFar ==
    ASSUME IInv, RenameInv, Progress, Flush, todo' # <<>>
    PROVE  HowFar(request', stored', tree', todo')
<1> DEFINE u == tree'
           p == request.path
           q == request.to
<1>1. /\ todo # <<>> /\ todo[1].do = "flush" /\ LooksTheSame(tree, u)
      /\ \A r \in SomePaths : r # todo[1].path => Filed(u, r) = Filed(tree, r)
      /\ todo' = Tail(todo) /\ request' = request /\ Tail(todo) # <<>>
    BY FlushShows, GoesToRest
<1> HIDE DEF u
<1>2. CASE FilesOnly(todo)
    <2>1. ASSUME request.op = "rename" PROVE FileHalf(request.tree, u, Tail(todo), p, q)
        <3>1. /\ 1 \in DOMAIN todo /\ todo \in Seq(Steps) /\ p \in SomePaths /\ q \in SomePaths /\ Apart(p, q)
              /\ FileHalf(request.tree, tree, todo, p, q)
            BY <1>1, <1>2, <2>1, RenameGoing
        <3>2. todo[1].path = p /\ p # q
            BY <3>1, ApartDeeper DEF FileHalf, SomePaths
        <3>3. Filed(u, q) = Filed(tree, q)
            BY <1>1, <3>1, <3>2
        <3> QED BY <1>1, <3>1, <3>3, FileHalfRest
    <2> QED BY <1>1, <1>2, <2>1, FilesAreFar DEF u
<1>3. CASE ~FilesOnly(todo)
    <2>1. /\ Shape(todo) /\ request.op = "rename" /\ p \in SomePaths /\ q \in SomePaths /\ Apart(p, q)
          /\ Moving(tree, todo, p, q) /\ Half(request.tree, tree, todo, p, q)
        BY <1>1, <1>3, GoingOn, RenameGoing
    <2>2. Moving(u, Tail(todo), p, q)
        BY <1>1, <2>1, SameMoves DEF LooksTheSame
    <2>3. Halfway(request.tree, u, p, q)
        BY <1>1, <2>1, SameHalf DEF Half, LooksTheSame
    <2>4. Half(request.tree, u, Tail(todo), p, q)
        BY <1>1, <2>1, <2>3, HalfRest DEF Moving
    <2> QED BY <1>1, <2>1, <2>2, <2>4, MovingIsFar DEF u
<1> QED BY <1>2, <1>3

LEMMA CopyFar ==
    ASSUME IInv, RenameInv, Progress, Copy, todo' # <<>>
    PROVE  HowFar(request', stored', tree', todo')
<1> DEFINE p == request.path
           q == request.to
<1>1. todo # <<>> /\ Doing("copy") /\ Head(todo) = todo[1] /\ todo[1].do = "copy"
    BY TodoIs DEF Copy, Doing
<1>2. Continue(<<>>) /\ tree' = tree
    BY <1>1 DEF Copy, Store, StoreFails, Abort
<1>3. todo' = Tail(todo) /\ request' = request /\ Tail(todo) # <<>>
    BY <1>1, <1>2, GoesToRest
<1>4. LooksTheSame(tree, tree)
    BY DEF LooksTheSame, SameDirs, SameEmpty
<1>5. CASE FilesOnly(todo)
    <2>1. ASSUME request.op = "rename" PROVE FileHalf(request.tree, tree, Tail(todo), p, q)
        <3>1. todo \in Seq(Steps) /\ FileHalf(request.tree, tree, todo, p, q)
            BY <1>1, <1>5, <2>1, RenameGoing
        <3> QED BY <1>1, <1>4, <3>1, FileHalfRest
    <2> QED BY <1>1, <1>2, <1>3, <1>5, <2>1, FilesAreFar
<1>6. CASE ~FilesOnly(todo)
    <2>1. /\ Shape(todo) /\ request.op = "rename" /\ p \in SomePaths /\ q \in SomePaths /\ Apart(p, q)
          /\ Moving(tree, todo, p, q) /\ Half(request.tree, tree, todo, p, q)
        BY <1>1, <1>3, <1>6, GoingOn, RenameGoing
    <2>2. Moving(tree, Tail(todo), p, q)
        BY <1>1, <1>3, <1>4, <2>1, SameMoves DEF LooksTheSame
    <2>3. Half(request.tree, tree, Tail(todo), p, q)
        BY <1>1, <2>1, HalfRest DEF Half, Moving
    <2> QED BY <1>2, <1>3, <2>1, <2>2, <2>3, MovingIsFar
<1> QED BY <1>5, <1>6

\* What a move makes of the tree.
LEMMA MovedIs ==
    ASSUME IInv, Move, ~StoreFails
    PROVE  /\ todo # <<>> /\ todo[1].do = "move" /\ 1 \in DOMAIN todo /\ Continue(<<>>)
           /\ todo[1].path \in SomePaths /\ Filed(tree, todo[1].path) # {}
           /\ \E g : /\ Moves2(tree, tree', todo[1].path, todo[1].to, g)
                     /\ \/ FileExists(tree, todo[1].to) /\ FileAt(tree, todo[1].to).write
                        \/ g.content = ContentAt(tree, todo[1].path)
<1>1. todo # <<>> /\ Head(todo) = todo[1] /\ todo[1].do = "move" /\ 1 \in DOMAIN todo
    BY TodoIs, ListFacts DEF Move, Doing
<1> DEFINE s == todo[1]
           a == s.path
           d == s.to
<1>2. PICK u \in MovedFile(a, d, s.over) : Continue(<<>>) /\ tree' = u
    BY <1>1 DEF Move, Store
<1>3. PICK c \in ContentOf : /\ u = MovedTree(tree, a, d, s.over, c)
                             /\ s.over /\ ~FileAt(tree, d).write => c = FileAt(tree, a).content
    BY <1>1, <1>2, MovedHere
<1>4. /\ IsTree(tree) /\ TodoFor(todo, tree) /\ Shape(todo) /\ s \in Steps /\ s.over \in BOOLEAN
      /\ a \in Seq(Names) \ {<<>>} /\ d \in Seq(Names) \ {<<>>} /\ a \in Seq(Names) /\ d \in Seq(Names)
    BY <1>1, TodoIs, StepIs DEF SomePaths
<1>5. FileExists(tree, a) /\ Filed(tree, a) = {FileAt(tree, a)} /\ FileAt(tree, a) \in Files
    BY <1>1, <1>4, HeadFile
<1>6. ~Dirty(FileAt(tree, a))
    BY <1>1, <1>4, <1>5 DEF TodoFor, HeadClean, CleanAt
<1>7. HasDir(tree, Front(d)) /\ (s.over <=> Filed(tree, d) # {})
    BY <1>1, <1>4 DEF TodoFor, Ready, FileReady
<1>8. s.over <=> FileExists(tree, d)
    BY <1>7 DEF Filed
<1>9. a # d
    <2>1. Away(s, s)
        BY <1>1, <1>4 DEF Shape
    <2>2. Apart(a, d)
        BY <1>1, <2>1 DEF Away
    <2> QED BY <1>4, <2>2, ApartDeeper
<1>10. FileAt(tree, a).content = ContentAt(tree, a)
    BY <1>5 DEF ContentAt
<1>11. \E g : /\ Moves2(tree, tree', a, d, g)
              /\ (FileExists(tree, d) /\ FileAt(tree, d).write) \/ g.content = ContentAt(tree, a)
    <2>1. CASE s.over
        <3> DEFINE h == FileAt(tree, d)
                   g == KeptOver(h, c)
        <3>1. Moves2(tree, tree', a, d, g)
            BY <1>2, <1>3, <1>4, <1>5, <1>8, <1>9, <2>1, MovedOver
        <3>2. h \in Files /\ FileExists(tree, d)
            BY <1>4, <1>8, <2>1, FiledOfDir
        <3> HIDE DEF h
        <3>3. g.content = c
            BY <3>2, KeptOverIs
        <3>4. h.write \/ c = ContentAt(tree, a)
            BY <1>3, <1>10, <2>1 DEF h
        <3> HIDE DEF g
        <3> QED BY <3>1, <3>2, <3>3, <3>4 DEF h
    <2>2. CASE ~s.over
        <3> DEFINE g == CleanFile(Last(d), FileAt(tree, a).content)
        <3>1. s.over = FALSE
            BY <1>4, <2>2
        <3>2. Moves2(tree, MovedTree(tree, a, d, FALSE, c), a, d, g)
            BY <1>4, <1>5, <1>6, <1>7, <1>8, <1>9, <2>2, MovedNew
        <3>3. g.content = ContentAt(tree, a)
            BY <1>10 DEF CleanFile
        <3> HIDE DEF g
        <3>4. Moves2(tree, tree', a, d, g)
            BY <1>2, <1>3, <3>1, <3>2
        <3> QED BY <3>3, <3>4
    <2> QED BY <2>1, <2>2
<1> QED BY <1>1, <1>2, <1>4, <1>5, <1>11 DEF SomePaths

\* A directory that is moved holds no file that is there already at its destination.
LEMMA NewPlace ==
    ASSUME NEW t0, NEW t, NEW p, NEW q, Halfway(t0, t, p, q), NEW a \in SomePaths, Under(p, a),
           Filed(t, a) # {}
    PROVE  ~FileExists(t, Dest(p, q, a))
<1> DEFINE d == Dest(p, q, a)
<1>1. OnItsWay(t0, t, a, d)
    BY DEF Halfway
<1> HIDE DEF d
<1>2. Filed(t, d) = {}
    BY <1>1 DEF OnItsWay
<1>3. ~FileExists(t, d)
    BY <1>2 DEF Filed
<1> QED BY <1>3 DEF d

LEMMA MoveFar ==
    ASSUME IInv, RenameInv, Progress, Move, todo' # <<>>
    PROVE  HowFar(request', stored', tree', todo')
<1> DEFINE p == request.path
           q == request.to
           a == todo[1].path
           u == tree'
<1>1. /\ todo # <<>> /\ todo[1].do = "move" /\ 1 \in DOMAIN todo /\ Continue(<<>>)
      /\ a \in SomePaths /\ Filed(tree, a) # {}
      /\ \E g : /\ Moves2(tree, u, a, todo[1].to, g)
                /\ \/ FileExists(tree, todo[1].to) /\ FileAt(tree, todo[1].to).write
                   \/ g.content = ContentAt(tree, a)
    <2>1. ~StoreFails
        BY DEF StoreFails, Abort
    <2> QED BY <2>1, MovedIs
<1> HIDE DEF u
<1>2. todo' = Tail(todo) /\ request' = request /\ Tail(todo) # <<>>
    BY <1>1, GoesToRest
<1>3. ~FilesOnly(todo)
    <2>1. Shape(todo) /\ DOMAIN todo = 1 .. Len(todo) /\ Len(Tail(todo)) = Len(todo) - 1 /\ Len(todo) \in Nat
          /\ Tail(todo) \in Seq(Steps)
        BY <1>1, TodoIs, ListFacts
    <2>2. Len(Tail(todo)) # 0
        BY <1>2, <2>1, EmptySeq
    <2>3. 2 \in DOMAIN todo
        BY <2>1, <2>2
    <2>4. todo[2].do \in {"moveAll", "rmdir"}
        BY <1>1, <2>1, <2>3, OnlyLoopsBehind
    <2> QED BY <2>3, <2>4 DEF FilesOnly
<1>4. /\ Shape(todo) /\ request.op = "rename" /\ p \in SomePaths /\ q \in SomePaths /\ Apart(p, q)
      /\ Mapped(todo, p, q)
      /\ Moving(tree, todo, p, q) /\ Half(request.tree, tree, todo, p, q)
    BY <1>1, <1>2, <1>3, GoingOn, RenameGoing
<1>5. Under(p, a) /\ todo[1].to = Dest(p, q, a)
    BY <1>1, <1>4 DEF Mapped
<1>6. PICK g : Moves2(tree, u, a, Dest(p, q, a), g) /\ g.content = ContentAt(tree, a)
    <2>1. ~FileExists(tree, Dest(p, q, a))
        BY <1>1, <1>4, <1>5, NewPlace DEF Half
    <2> QED BY <1>1, <1>5, <2>1
<1> HIDE DEF a
<1>7. Moving(u, Tail(todo), p, q)
    BY <1>1, <1>2, <1>4, <1>5, <1>6, FileMoves DEF a
<1>8. Halfway(request.tree, u, p, q)
    BY <1>1, <1>4, <1>5, <1>6, MovedHalf DEF Half
<1>9. Half(request.tree, u, Tail(todo), p, q)
    BY <1>1, <1>4, <1>8, HalfRest DEF Moving
<1> QED BY <1>2, <1>4, <1>7, <1>9, MovingIsFar DEF u

LEMMA DeleteFar ==
    ASSUME IInv, RenameInv, Progress, Delete, todo' # <<>>
    PROVE  HowFar(request', stored', tree', todo')
<1>1. todo # <<>> /\ Doing("remove") /\ Head(todo) = todo[1] /\ todo[1].do = "remove"
    BY TodoIs DEF Delete, Doing
<1>2. Continue(<<>>)
    BY <1>1 DEF Delete, Store, StoreFails, Abort
<1>3. todo' = Tail(todo) /\ request' = request /\ Tail(todo) # <<>>
    BY <1>1, <1>2, GoesToRest
<1>4. request.op # "rename"
    BY <1>1, InRename
<1>5. FilesOnly(todo)
    BY <1>1, <1>3, <1>4, GoingOn
<1> QED BY <1>1, <1>3, <1>4, <1>5, FilesAreFar

\* bucse_mkdir in a rename: its checks, and what it makes.
LEMMA MkdirChecked ==
    ASSUME NEW t, IsTree(t), NEW p \in SomePaths, FindContainingDir(t, p) \in DOMAIN t, ~DirExists(t, p),
           NEW u, u = AddDirTo(t, FindContainingDir(t, p), Last(p))
    PROVE  /\ HasDir(t, Front(p)) /\ ~HasDir(t, p)
           /\ \A r \in Seq(Names) : HasDir(u, r) <=> r = p \/ HasDir(t, r)
           /\ \A r \in SomePaths : Filed(u, r) = Filed(t, r)
<1>1. TreeOK(t) /\ p \in Seq(Names) \ {<<>>} /\ p \in Seq(Names)
    BY DEF IsTree, SomePaths
<1>2. ~HasDir(t, p) /\ HasDir(t, Front(p))
    <2>1. FindDirByPath(t, p) \notin DOMAIN t
        BY <1>1, DirExistsIs
    <2>2. HasDir(t, Front(p))
        BY <1>1, FiledIs
    <2> QED BY <1>1, <2>1, <2>2, DirIsNode DEF HasDir
<1>3. DirUpdate(t, u, p, TRUE)
    BY <1>1, <1>2, AddDirView
<1>4. \A q \in SomePaths : Front(q) = p => Filed(t, q) = {}
    BY <1>1, <1>2, NoFilesOf DEF SomePaths
<1> QED BY <1>2, <1>3, <1>4 DEF DirUpdate, SomePaths

LEMMA MadeIs ==
    ASSUME IInv, MakeDir, result' \in {"ok", "running"}
    PROVE  /\ todo # <<>> /\ todo[1].do = "mkdir" /\ Continue(<<>>) /\ todo[1].path \in SomePaths
           /\ HasDir(tree, Front(todo[1].path)) /\ ~HasDir(tree, todo[1].path)
           /\ Filed(tree, todo[1].path) = {}
           /\ \A r \in Seq(Names) : HasDir(tree', r) <=> r = todo[1].path \/ HasDir(tree, r)
           /\ \A r \in SomePaths : Filed(tree', r) = Filed(tree, r)
<1>1. todo # <<>> /\ Head(todo) = todo[1] /\ todo[1].do = "mkdir" /\ 1 \in DOMAIN todo
    BY TodoIs, ListFacts DEF MakeDir, Doing
<1> DEFINE p == todo[1].path
           d == FindContainingDir(tree, p)
           u == AddDirTo(tree, d, Last(p))
<1>2. /\ d \in DOMAIN tree /\ ~DirExists(tree, p) /\ ~FileExists(tree, p)
      /\ Continue(<<>>) /\ tree' = u
    BY <1>1 DEF MakeDir, Store, StoreFails, Abort
<1>3. IsTree(tree) /\ p \in SomePaths
    BY <1>1, TodoIs, StepIs
<1>4. Filed(tree, p) = {}
    BY <1>2 DEF Filed
<1>5. /\ HasDir(tree, Front(p)) /\ ~HasDir(tree, p)
      /\ \A r \in Seq(Names) : HasDir(u, r) <=> r = p \/ HasDir(tree, r)
      /\ \A r \in SomePaths : Filed(u, r) = Filed(tree, r)
    BY <1>2, <1>3, MkdirChecked
<1> HIDE DEF u, d
<1> QED BY <1>1, <1>2, <1>3, <1>4, <1>5

LEMMA MakeDirFar ==
    ASSUME IInv, RenameInv, Progress, MakeDir, todo' # <<>>
    PROVE  HowFar(request', stored', tree', todo')
<1> DEFINE p == todo[1].path
           from == request.path
           to == request.to
           u == tree'
<1>1. /\ todo # <<>> /\ todo[1].do = "mkdir" /\ Continue(<<>>) /\ p \in SomePaths
      /\ HasDir(tree, Front(p)) /\ ~HasDir(tree, p) /\ Filed(tree, p) = {}
      /\ \A r \in Seq(Names) : HasDir(u, r) <=> r = p \/ HasDir(tree, r)
      /\ \A r \in SomePaths : Filed(u, r) = Filed(tree, r)
    <2>1. Continue(<<>>)
        BY DEF MakeDir, Store, StoreFails, Abort
    <2>2. result' \in {"ok", "running"}
        BY <2>1 DEF Continue
    <2> QED BY <2>2, MadeIs
<1> HIDE DEF u
<1>2. todo' = Tail(todo) /\ request' = request /\ Tail(todo) # <<>>
    BY <1>1, GoesToRest
<1>3. ~FilesOnly(todo)
    BY <1>1, TodoIs, ListFacts DEF FilesOnly
<1>4. /\ Shape(todo) /\ IsTree(tree) /\ request.op = "rename"
      /\ from \in SomePaths /\ to \in SomePaths /\ Apart(from, to) /\ Mapped(todo, from, to)
      /\ \/ Moving(tree, todo, from, to) /\ Half(request.tree, tree, todo, from, to)
         \/ request.tree = tree /\ StartsDir(request, tree, todo)
    BY <1>1, <1>2, <1>3, GoingOn, RenameGoing
<1>5. Moving(tree, todo, from, to) /\ Half(request.tree, tree, todo, from, to)
    <2>1. ASSUME request.tree = tree, StartsDir(request, tree, todo)
          PROVE  Moving(tree, todo, from, to) /\ Half(request.tree, tree, todo, from, to)
        <3>1. /\ todo = DirSteps(from, to) /\ HasDir(tree, from) /\ OneKindOf(tree, from)
            BY <2>1 DEF StartsDir
        <3>2. p = to
            BY <1>4, <3>1, ThreeSteps
        <3>3. Moving(tree, todo, from, to)
            BY <1>1, <1>4, <3>1, <3>2, StartMoves
        <3>4. Half(tree, tree, todo, from, to)
            BY <1>1, <1>4, <3>1, <3>2, StartHalf
        <3> QED BY <2>1, <3>3, <3>4
    <2> QED BY <1>4, <2>1
<1>6. todo[2].do = "moveAll" /\ todo[2].to = p /\ 2 \in DOMAIN todo /\ HasDir(tree, todo[2].path)
    BY <1>1, <1>5 DEF Moving, MakesFor, CanMake
<1>7. todo[2].path \in SomePaths /\ Under(from, todo[2].path)
      /\ p = Dest(from, to, todo[2].path)
    BY <1>4, <1>6, StepIs DEF Mapped
<1>8. Moving(u, Tail(todo), from, to)
    BY <1>1, <1>2, <1>4, <1>5, <1>7, MadeMoves
<1>9. Halfway(request.tree, u, from, to)
    BY <1>1, <1>4, <1>5, <1>6, <1>7, MadeHalf DEF Half
<1>10. Half(request.tree, u, Tail(todo), from, to)
    BY <1>1, <1>4, <1>5, <1>9, HalfRest DEF Moving
<1> QED BY <1>2, <1>4, <1>8, <1>10, MovingIsFar DEF u

LEMMA RemovedIs ==
    ASSUME IInv, RemoveDir, result' \in {"ok", "running"}
    PROVE  /\ todo # <<>> /\ todo[1].do = "rmdir" /\ Continue(<<>>) /\ todo[1].path \in SomePaths
           /\ IsTree(tree')
           /\ \A r \in Seq(Names) : HasDir(tree', r) <=> r # todo[1].path /\ HasDir(tree, r)
           /\ \A r \in SomePaths : Filed(tree', r) = Filed(tree, r)
<1>1. todo # <<>> /\ Head(todo) = todo[1] /\ todo[1].do = "rmdir" /\ 1 \in DOMAIN todo
    BY TodoIs, ListFacts DEF RemoveDir, Doing
<1> DEFINE p == todo[1].path
           u == RemoveDirFrom(tree, FindContainingDir(tree, p), Last(p))
<1>2. /\ DirExists(tree, p) /\ tree[FindDirByPath(tree, p)] = EmptyDir
      /\ Continue(<<>>) /\ tree' = u
    BY <1>1 DEF RemoveDir, Store, StoreFails, Abort
<1>3. IsTree(tree) /\ p \in SomePaths /\ p \in Seq(Names) \ {<<>>} /\ p \in Seq(Names) /\ TreeOK(tree)
    BY <1>1, TodoIs, StepIs DEF SomePaths, IsTree
<1>4. HasDir(tree, p) /\ NoDirIn(tree, p) /\ tree[FindDirByPath(tree, p)].files = <<>>
    <2>1. FindDirByPath(tree, p) \in DOMAIN tree
        BY <1>2, <1>3, DirExistsIs
    <2>2. HasDir(tree, p)
        BY <1>3, <2>1, DirIsNode DEF HasDir
    <2>3. tree[FindDirByPath(tree, p)].dirs = <<>> /\ tree[FindDirByPath(tree, p)].files = <<>>
        BY <1>2 DEF EmptyDir
    <2> QED BY <1>3, <2>2, <2>3, NoDirInIs
<1>5. DirUpdate(tree, u, p, FALSE)
    BY <1>3, <1>4, RemoveDirView
<1>6. \A q \in SomePaths : Front(q) = p => Filed(tree, q) = {}
    BY <1>3, <1>4, NoFilesOf DEF SomePaths
<1> HIDE DEF u
<1>7. /\ IsTree(u)
      /\ \A r \in Seq(Names) : HasDir(u, r) <=> r # p /\ HasDir(tree, r)
      /\ \A r \in SomePaths : Filed(u, r) = Filed(tree, r)
    BY <1>5, <1>6 DEF DirUpdate, SomePaths
<1> QED BY <1>1, <1>2, <1>3, <1>7

\* A directory that is removed has been made at its destination.
LEMMA RemovedFar ==
    ASSUME IInv, RenameInv, Progress, RemoveDir, result' \in {"ok", "running"}, request.op = "rename",
           NEW p, p = request.path, NEW q, q = request.to
    PROVE  /\ Moving(tree, todo, p, q) /\ Half(request.tree, tree, todo, p, q)
           /\ Halfway(request.tree, tree', p, q)
<1> DEFINE a == todo[1].path
           u == tree'
<1>1. /\ todo # <<>> /\ todo[1].do = "rmdir" /\ a \in SomePaths
      /\ \A r \in Seq(Names) : HasDir(u, r) <=> r # a /\ HasDir(tree, r)
      /\ \A r \in SomePaths : Filed(u, r) = Filed(tree, r)
    BY RemovedIs
<1> HIDE DEF u
<1>2. ~FilesOnly(todo) /\ 1 \in DOMAIN todo
    BY <1>1, TodoIs, ListFacts DEF FilesOnly
<1>3. /\ p \in SomePaths /\ q \in SomePaths /\ Apart(p, q) /\ Mapped(todo, p, q)
      /\ Moving(tree, todo, p, q) /\ Half(request.tree, tree, todo, p, q)
    BY <1>1, <1>2, RenameGoing
<1>4. Under(p, a)
    BY <1>1, <1>2, <1>3 DEF Mapped
<1>5. HasDir(tree, Dest(p, q, a))
    BY <1>1, <1>3 DEF Half, GoesWhenMade
<1>6. Halfway(request.tree, u, p, q)
    BY <1>1, <1>3, <1>4, <1>5, RemovedHalf DEF Half
<1> QED BY <1>3, <1>6 DEF u

LEMMA RemoveDirFar ==
    ASSUME IInv, RenameInv, Progress, RemoveDir, todo' # <<>>
    PROVE  HowFar(request', stored', tree', todo')
<1> DEFINE p == request.path
           q == request.to
           u == tree'
<1>0. result' \in {"ok", "running"}
    <2>1. Continue(<<>>)
        BY DEF RemoveDir, Store, StoreFails, Abort
    <2> QED BY <2>1 DEF Continue
<1>1. /\ todo # <<>> /\ todo[1].do = "rmdir" /\ Continue(<<>>)
      /\ \A r \in Seq(Names) : HasDir(u, r) <=> r # todo[1].path /\ HasDir(tree, r)
      /\ \A r \in SomePaths : Filed(u, r) = Filed(tree, r)
    BY <1>0, RemovedIs
<1>2. todo' = Tail(todo) /\ request' = request /\ Tail(todo) # <<>>
    BY <1>1, GoesToRest
<1>3. request.op = "rename"
    <2>1. ~FilesOnly(todo)
        BY <1>1, TodoIs, ListFacts DEF FilesOnly
    <2> QED BY <1>1, <1>2, <2>1, GoingOn
<1>4. /\ Moving(tree, todo, p, q) /\ Half(request.tree, tree, todo, p, q)
      /\ Halfway(request.tree, u, p, q)
    BY <1>0, <1>3, RemovedFar
<1> HIDE DEF u
<1>5. Shape(todo) /\ p \in SomePaths /\ q \in SomePaths /\ Apart(p, q)
    BY <1>1, <1>3, RenameGoing
<1>6. Moving(u, Tail(todo), p, q)
    BY <1>1, <1>2, <1>4, <1>5, RemovedMoves
<1>7. Half(request.tree, u, Tail(todo), p, q)
    BY <1>1, <1>4, <1>5, HalfRest DEF Moving
<1> QED BY <1>2, <1>3, <1>6, <1>7, MovingIsFar DEF u

\* One turn of the loops of a rename, or their end.
LEMMA TurnIsHalf ==
    ASSUME NEW req, NEW log, NEW t, NEW l, NEW half, Coherent(log, t, l, half), l # <<>>,
           l[1].do = "moveAll", Keeps(req, log, t, l), NEW t0, Half(t0, t, l, req.path, req.to),
           Moving(t, l, req.path, req.to),
           NEW s, s = l[1], NEW dir, dir = t[FindDirByPath(t, s.path)]
    PROVE  Half(t0, t, MoveNext(s, dir) \o Tail(l), req.path, req.to) /\ MoveNext(s, dir) \o Tail(l) # <<>>
<1>1. /\ l \in Seq(Steps) /\ Shape(l) /\ dir \in Dirs /\ 1 \in DOMAIN l
      /\ Mapped(l, req.path, req.to) /\ HasDir(t, s.path) /\ HasDir(t, s.to)
      /\ req.path \in SomePaths /\ req.to \in SomePaths /\ Apart(req.path, req.to)
    BY TurnFacts, StepFacts DEF LoopReady
<1>2. s.path \in Seq(Names) /\ s.to \in Seq(Names)
    <2>1. l[1] \in Steps
        BY <1>1, ListFacts
    <2> QED BY <2>1 DEF Steps, SomePaths
<1>3. Under(req.path, s.path) /\ s.to = Dest(req.path, req.to, s.path)
    BY <1>1 DEF Mapped
<1>0. EndsWith(l, "rmdir", req.path)
    BY DEF Half
<1>4. CASE dir.files # <<>>
    <2> DEFINE x == dir.files[1].name
               p == Append(s.path, x)
               q == Append(s.to, x)
               n == MoveNext(s, dir) \o Tail(l)
    <2>1. x \in Names
        <3>1. dir.files \in Seq(Files)
            BY <1>1 DEF Dirs
        <3>2. dir.files[1] \in Files
            BY <1>4, <3>1, ListFacts
        <3> QED BY <3>2, FileFields
    <2>2. n = (FileSteps(s.path \o <<x>>, s.to \o <<x>>, FALSE) \o <<s>>) \o Tail(l)
        BY <1>4 DEF MoveNext, MoveFirstFile
    <2> HIDE DEF n, x
    <2>3. s.path \o <<x>> = p /\ s.to \o <<x>> = q
        BY <1>2, <2>1, DeeperPath
    <2>4. p \in SomePaths /\ q \in SomePaths
        BY <1>2, <2>1, AppendPath DEF SomePaths
    <2> HIDE DEF p, q
    <2>5. n = OneTurn(l, FileTurn(p, q))
        BY <2>2, <2>3 DEF OneTurn, FileTurn
    <2>6. InFrontOf(n, l) /\ n[1].do = "flush" /\ n # <<>>
        BY ONLY l # <<>>, <1>1, <2>4, <2>5, ListWithFile
    <2>7. EndsWith(n, "rmdir", req.path) /\ GoesWhenMade(t, n, req.path, req.to)
        BY <1>0, <1>1, <2>6, EndOfLonger DEF GoesWhenMade
    <2>8. Half(t0, t, n, req.path, req.to)
        BY <2>7 DEF Half
    <2> QED BY <2>6, <2>8 DEF n
<1>5. CASE dir.files = <<>> /\ dir.dirs # <<>>
    <2> DEFINE x == dir.dirs[1].name
               p == Append(s.path, x)
               q == Append(s.to, x)
               n == MoveNext(s, dir) \o Tail(l)
    <2>1. x \in Names
        <3>1. dir.dirs \in Seq(Subdirs)
            BY <1>1 DEF Dirs
        <3>2. dir.dirs[1] \in Subdirs
            BY <1>5, <3>1, ListFacts
        <3> QED BY <3>2 DEF Subdirs
    <2>2. n = (DirSteps(s.path \o <<x>>, s.to \o <<x>>) \o <<s>>) \o Tail(l)
        BY <1>5 DEF MoveNext, MoveFirstDir
    <2> HIDE DEF n, x
    <2>3. s.path \o <<x>> = p /\ s.to \o <<x>> = q
        BY <1>2, <2>1, DeeperPath
    <2>4. p \in SomePaths /\ q \in SomePaths
        BY <1>2, <2>1, AppendPath DEF SomePaths
    <2> HIDE DEF p, q
    <2>5. n = OneTurn(l, DirSteps(p, q))
        BY <2>2, <2>3 DEF OneTurn
    <2>6. InFrontOf(n, l) /\ n[1].do = "mkdir" /\ n # <<>>
        BY ONLY l # <<>>, <1>1, <2>4, <2>5, ListWithDir
    <2>7. EndsWith(n, "rmdir", req.path) /\ GoesWhenMade(t, n, req.path, req.to)
        BY <1>0, <1>1, <2>6, EndOfLonger DEF GoesWhenMade
    <2>8. Half(t0, t, n, req.path, req.to)
        BY <2>7 DEF Half
    <2> QED BY <2>6, <2>8 DEF n
<1>6. CASE dir.files = <<>> /\ dir.dirs = <<>>
    <2> DEFINE k == Tail(l)
    <2>1. MoveNext(s, dir) \o Tail(l) = k
        BY <1>1, <1>6, NothingMore DEF MoveNext
    <2>2. EndsWith(k, "rmdir", req.path)
        BY <1>0, <1>1, EndOfTail
    <2>3. k # <<>>
        BY <1>0, <1>1, EndOfTail
    <2>4. Shape(l) /\ l # <<>> /\ k # <<>> /\ EmptiedFirst(l)
        BY <1>1, <2>3 DEF Moving
    <2>5. k[1].do = "rmdir" => k[1].path = s.path
        BY <2>4, RemovedNext
    <2> HIDE DEF k
    <2>6. GoesWhenMade(t, k, req.path, req.to)
        BY <1>1, <1>3, <2>5 DEF GoesWhenMade
    <2>7. Half(t0, t, k, req.path, req.to)
        BY <2>2, <2>6 DEF Half
    <2> QED BY <2>1, <2>3, <2>7 DEF k
<1> QED BY <1>4, <1>5, <1>6

LEMMA MoveAllFar ==
    ASSUME IInv, RenameInv, Progress, MoveAll
    PROVE  todo' # <<>> /\ HowFar(request', stored', tree', todo')
<1>1. todo # <<>> /\ Doing("moveAll") /\ Head(todo) = todo[1] /\ todo[1].do = "moveAll" /\ 1 \in DOMAIN todo
    BY TodoIs, ListFacts DEF MoveAll, Doing
<1> DEFINE p == request.path
           q == request.to
           s == todo[1]
           dir == tree[FindDirByPath(tree, s.path)]
           n == MoveNext(s, dir) \o Tail(todo)
<1>2. /\ todo' = n /\ tree' = tree
      /\ request' = IF todo' = <<>> THEN NoRequest ELSE request
    BY <1>1 DEF MoveAll, Continue
<1>3. ~FilesOnly(todo)
    BY <1>1 DEF FilesOnly
<1>4. request.op = "rename"
    <2>1. HowFar(request, stored, tree, todo)
        BY <1>1 DEF Progress
    <2>2. ~StaysPut(todo)
        BY <1>3, PutIsFiles
    <2> QED BY <1>1, <1>3, <2>1, <2>2 DEF HowFar, OneStep, StartsDir
<1>5. /\ Coherent(stored, tree, todo, halfMoved) /\ Keeps(request, stored, tree, todo)
      /\ Moving(tree, todo, p, q) /\ Half(request.tree, tree, todo, p, q)
    BY <1>1, <1>3, <1>4, RenameGoing
<1>6. Half(request.tree, tree, n, p, q) /\ n # <<>>
    BY <1>1, <1>5, TurnIsHalf
<1>8. Moving(tree, n, p, q)
    BY <1>1, <1>5, <1>6, TurnMoves
<1> HIDE DEF n
<1>9. todo' # <<>> /\ request' = request
    BY <1>2, <1>6
<1> QED BY <1>2, <1>4, <1>6, <1>8, <1>9, MovingIsFar

-----------------------------------------------------------------------------
\* No directory holds a file and a directory of one name, between operations.
NoNamesakes == todo = <<>> => \A p \in SomePaths : ~(FileExists(tree, p) /\ DirExists(tree, p))

LEMMA OneFileStep ==
    ASSUME NEW p \in SomePaths, NEW do \in {"flush", "remove"}
    PROVE  <<On(do, p)>> \in Seq(Steps) /\ StaysPut(<<On(do, p)>>)
<1> DEFINE a == On(do, p)
<1>1. a \in Steps /\ a.do = do
    BY OnIs DEF Kinds
<1> HIDE DEF a
<1>2. <<a>> \in Seq(Steps) /\ DOMAIN <<a>> = {1} /\ <<a>>[1] = a
    BY <1>1
<1>3. StaysPut(<<a>>)
    BY <1>1, <1>2 DEF StaysPut
<1> QED BY <1>2, <1>3 DEF a

LEMMA BothStayPut ==
    ASSUME NEW k \in Seq(Steps), NEW m \in Seq(Steps), StaysPut(k), StaysPut(m)
    PROVE  StaysPut(k \o m)
<1> DEFINE n == k \o m
<1>1. /\ n \in Seq(Steps) /\ Len(n) = Len(k) + Len(m)
      /\ \A i \in 1 .. Len(k) : n[i] = k[i]
      /\ \A i \in Len(k) + 1 .. Len(k) + Len(m) : n[i] = m[i - Len(k)]
    BY ConcatProperties
<1>2. /\ Len(k) \in Nat /\ Len(m) \in Nat /\ DOMAIN k = 1 .. Len(k) /\ DOMAIN m = 1 .. Len(m)
      /\ DOMAIN n = 1 .. Len(n)
    BY <1>1, LenProperties
<1> HIDE DEF n
<1>3. ASSUME NEW i \in DOMAIN n PROVE n[i].do \in {"flush", "remove"}
    <2>1. CASE i \in 1 .. Len(k)
        BY <1>1, <1>2, <2>1 DEF StaysPut
    <2>2. CASE i \notin 1 .. Len(k)
        <3> DEFINE j == i - Len(k)
        <3>1. i \in Len(k) + 1 .. Len(k) + Len(m) /\ j \in DOMAIN m
            BY <1>1, <1>2, <2>2
        <3>2. n[i] = m[j]
            BY <1>1, <3>1
        <3> HIDE DEF j
        <3> QED BY <3>1, <3>2 DEF StaysPut
    <2> QED BY <2>1, <2>2
<1>4. StaysPut(n)
    BY <1>3 DEF StaysPut
<1> QED BY <1>4 DEF n

LEMMA FlushStaysPut ==
    ASSUME NEW p \in SomePaths
    PROVE  FlushOf(p) \in Seq(Steps) /\ StaysPut(FlushOf(p))
<1>1. CASE FlushOf(p) = <<>>
    <2>1. <<>> \in Seq(Steps) /\ DOMAIN <<>> = {}
        OBVIOUS
    <2>2. StaysPut(<<>>)
        BY <2>1 DEF StaysPut
    <2> QED BY <1>1, <2>1, <2>2
<1>2. CASE FlushOf(p) = <<On("flush", p)>>
    BY <1>2, OneFileStep
<1> QED BY <1>1, <1>2, FlushOfIs

LEMMA UnlinkStaysPut ==
    ASSUME NEW p \in SomePaths
    PROVE  StaysPut(FlushOf(p) \o <<On("remove", p)>>)
<1> DEFINE k == FlushOf(p)
           m == <<On("remove", p)>>
<1>1. k \in Seq(Steps) /\ StaysPut(k)
    BY FlushStaysPut
<1>2. m \in Seq(Steps) /\ StaysPut(m)
    BY OneFileStep
<1> HIDE DEF k, m
<1>3. StaysPut(k \o m)
    BY <1>1, <1>2, BothStayPut
<1> QED BY <1>3 DEF k, m

LEMMA FileStepsOnly ==
    ASSUME NEW p \in SomePaths, NEW q \in SomePaths, NEW over \in BOOLEAN
    PROVE  FilesOnly(FileSteps(p, q, over))
<1> DEFINE a == On("flush", p)
           b == Step("copy", p, q, over)
           c == Step("move", p, q, over)
           k == <<a, b, c>>
<1>1. a.do = "flush" /\ b.do = "copy" /\ c.do = "move"
    BY ONLY p \in SomePaths, q \in SomePaths, over \in BOOLEAN, FileStepsAre
<1>2. FileSteps(p, q, over) = k
    BY DEF FileSteps
<1> HIDE DEF a, b, c
<1>3. DOMAIN k = {1, 2, 3} /\ k[1] = a /\ k[2] = b /\ k[3] = c
    OBVIOUS
<1> HIDE DEF k
<1>4. FilesOnly(k)
    BY <1>1, <1>3 DEF FilesOnly
<1> QED BY <1>2, <1>4

LEMMA FileStepsHalf ==
    ASSUME NEW t, IsTree(t), NEW p \in SomePaths, NEW q \in SomePaths, NEW over \in BOOLEAN,
           ~HasDir(t, p), ~HasDir(t, q)
    PROVE  FileHalf(t, t, FileSteps(p, q, over), p, q)
<1> DEFINE a == On("flush", p)
           b == Step("copy", p, q, over)
           c == Step("move", p, q, over)
           k == <<a, b, c>>
<1>1. a.path = p /\ b.path = p /\ c.path = p /\ c.do = "move"
    BY ONLY p \in SomePaths, q \in SomePaths, over \in BOOLEAN, FileStepsAre
<1>2. FileSteps(p, q, over) = k
    BY DEF FileSteps
<1> HIDE DEF a, b, c
<1>3. DOMAIN k = {1, 2, 3} /\ k[1] = a /\ k[2] = b /\ k[3] = c /\ Len(k) = 3
    OBVIOUS
<1> HIDE DEF k
<1>4. FileHalf(t, t, k, p, q)
    BY <1>1, <1>3 DEF FileHalf, EndsWith, SameDirs
<1> QED BY <1>2, <1>4

LEMMA MkdirOnly ==
    ASSUME NEW p \in SomePaths, NEW do \in {"mkdir", "rmdir"}
    PROVE  OneStep(<<On(do, p)>>)
<1> DEFINE a == On(do, p)
<1>1. a \in Steps /\ a.do = do
    BY OnIs DEF Kinds
<1> HIDE DEF a
<1>2. <<a>>[1] = a /\ Tail(<<a>>) = <<>>
    BY <1>1
<1>3. OneStep(<<a>>)
    BY <1>1, <1>2 DEF OneStep
<1> QED BY <1>3 DEF a

\* An operation begins.
LEMMA BeginsFar ==
    ASSUME NEW op, NEW p, NEW q, NEW l, Begin(op, p, q, l),
           NEW r, r = [op |-> op, path |-> p, to |-> q, tree |-> tree, stored |-> Len(stored)],
           l # <<>> => \/ op = "rename" /\ FilesOnly(l) /\ FileHalf(tree, tree, l, p, q)
                       \/ op # "rename" /\ (StaysPut(l) \/ OneStep(l))
                       \/ StartsDir(r, tree, l)
    PROVE  Progress'
<1>1. /\ todo' = l /\ tree' = tree /\ stored' = stored
      /\ request' = IF l = <<>> THEN NoRequest ELSE r
    BY DEF Begin
<1>2. AsFound(r, stored, tree) /\ r.op = op /\ r.path = p /\ r.to = q /\ r.tree = tree
    BY DEF AsFound
<1>3. ASSUME l # <<>> PROVE HowFar(r, stored, tree, l)
    BY <1>2, <1>3 DEF HowFar
<1>4. ASSUME todo' # <<>> PROVE HowFar(request', stored', tree', todo')
    BY ONLY <1>1, <1>3, <1>4
<1> QED BY ONLY <1>4 DEF Progress

LEMMA OthersFar ==
    ASSUME NEW op, op # "rename", NEW p, NEW q, NEW l, Begin(op, p, q, l),
           l # <<>> => StaysPut(l) \/ OneStep(l)
    PROVE  Progress'
<1> DEFINE r == [op |-> op, path |-> p, to |-> q, tree |-> tree, stored |-> Len(stored)]
<1> HIDE DEF r
<1>1. r = [op |-> op, path |-> p, to |-> q, tree |-> tree, stored |-> Len(stored)]
    BY DEF r
<1> QED BY <1>1, BeginsFar

LEMMA RenameFar ==
    ASSUME IInv, NoNamesakes, NEW p \in Targets, NEW q \in Targets, NEW flag, Rename(p, q, flag)
    PROVE  Progress'
<1>0. todo = <<>>
    BY DEF Rename, Refuse, Begin, Idle
<1>1. CASE RenameError(p, q, flag) # "none"
    <2>1. todo' = <<>>
        BY <1>0, <1>1 DEF Rename, Refuse
    <2> QED BY <2>1 DEF Progress
<1>2. CASE RenameError(p, q, flag) = "none"
    <2> DEFINE over == FileExists(tree, q)
               l == IF FileExists(tree, p) THEN FileSteps(p, q, over) ELSE DirSteps(p, q)
               r == [op |-> "rename", path |-> p, to |-> q, tree |-> tree, stored |-> Len(stored)]
    <2>1. Begin("rename", p, q, l)
        BY <1>2 DEF Rename
    <2>2. p \in SomePaths /\ q \in SomePaths
        BY TargetsArePaths
    <2>3. over \in BOOLEAN
        BY DEF FileExists
    <2>4. CASE FileExists(tree, p)
        <3>1. FilesOnly(l)
            BY <2>2, <2>3, <2>4, FileStepsOnly
        <3>2. ~HasDir(tree, p) /\ ~HasDir(tree, q)
            <4>1. IsTree(tree) /\ p \in Seq(Names) \ {<<>>} /\ q \in Seq(Names) \ {<<>>}
                BY <2>2, TodoIs DEF SomePaths
            <4>2. ~DirExists(tree, p)
                BY <1>0, <2>2, <2>4 DEF NoNamesakes
            <4>3. ~DirExists(tree, q)
                BY <1>2, <2>4 DEF RenameError
            <4> QED BY <4>1, <4>2, <4>3, DirShown
        <3>3. FileHalf(tree, tree, l, p, q)
            BY <2>2, <2>3, <2>4, <3>2, TodoIs, FileStepsHalf
        <3> HIDE DEF l, over
        <3> QED BY <2>1, <3>1, <3>3, BeginsFar
    <2>5. CASE ~FileExists(tree, p)
        <3>1. IsTree(tree)
            BY TodoIs
        <3>2. HasDir(tree, p)
            <4>1. DirExists(tree, p)
                BY <1>2, <2>5 DEF RenameError
            <4> QED BY <2>2, <3>1, <4>1, DirShown DEF SomePaths
        <3>3. OneKindOf(tree, p)
            <4>1. ASSUME NEW s \in SomePaths PROVE Filed(tree, s) = {} \/ ~HasDir(tree, s)
                BY <1>0, <3>1, FiledOfDir, DirShown DEF NoNamesakes, SomePaths
            <4> QED BY <4>1 DEF OneKindOf
        <3>4. l = DirSteps(p, q)
            BY <2>5
        <3>5. r.op = "rename" /\ r.path = p /\ r.to = q
            OBVIOUS
        <3>6. StartsDir(r, tree, l)
            BY <3>2, <3>3, <3>4, <3>5 DEF StartsDir
        <3> HIDE DEF l, over
        <3> QED BY <2>1, <3>6, BeginsFar
    <2> QED BY <2>4, <2>5
<1> QED BY <1>1, <1>2

LEMMA RequestFar ==
    ASSUME IInv, NoNamesakes, Request
    PROVE  Progress' /\ todo = <<>>
<1>1. PICK p \in Targets :
        \/ Unlink(p) \/ Mkdir(p) \/ Rmdir(p) \/ GetAttr(p)
        \/ \E mode \in {"r", "w"} : Create(p, mode) \/ Open(p, mode) \/ Release(p, mode)
        \/ \E c \in Contents : Write(p, c)
        \/ \E q \in Targets, flag \in {"none", "noreplace", "exchange"} : Rename(p, q, flag)
    BY DEF Request
<1>0. p \in SomePaths
    BY TargetsArePaths
<1>2. ASSUME Unlink(p) PROVE Progress'
    <2> DEFINE l == FlushOf(p) \o <<On("remove", p)>>
    <2>1. Begin("unlink", p, p, l) /\ StaysPut(l)
        BY <1>0, <1>2, UnlinkStaysPut DEF Unlink
    <2> HIDE DEF l
    <2> QED BY <2>1, OthersFar
<1>3. ASSUME Mkdir(p) PROVE Progress'
    <2> DEFINE l == <<On("mkdir", p)>>
    <2>1. Begin("mkdir", p, p, l) /\ OneStep(l)
        BY <1>0, <1>3, MkdirOnly DEF Mkdir
    <2> HIDE DEF l
    <2> QED BY <2>1, OthersFar
<1>4. ASSUME Rmdir(p) PROVE Progress'
    <2> DEFINE l == <<On("rmdir", p)>>
    <2>1. Begin("rmdir", p, p, l) /\ OneStep(l)
        BY <1>0, <1>4, MkdirOnly DEF Rmdir
    <2> HIDE DEF l
    <2> QED BY <2>1, OthersFar
<1>5. ASSUME GetAttr(p) PROVE Progress'
    <2> DEFINE l == IF FileAt(tree, p).write THEN FlushOf(p) ELSE <<>>
    <2>1. Begin("getattr", p, p, l)
        BY <1>5 DEF GetAttr
    <2>2. l # <<>> => StaysPut(l)
        BY <1>0, FlushStaysPut
    <2> HIDE DEF l
    <2> QED BY <2>1, <2>2, OthersFar
<1>6. ASSUME NEW mode, Create(p, mode) \/ Open(p, mode) PROVE Progress'
    BY <1>6 DEF Create, Open, InMemory, Idle, Progress
<1>7. ASSUME NEW mode, Release(p, mode) PROVE Progress'
    <2> DEFINE l == IF mode = "w" THEN FlushOf(p) ELSE <<>>
    <2>1. Begin("release", p, p, l)
        BY <1>7 DEF Release
    <2>2. l # <<>> => StaysPut(l)
        BY <1>0, FlushStaysPut
    <2> HIDE DEF l
    <2> QED BY <2>1, <2>2, OthersFar
<1>8. ASSUME NEW c \in Contents, Write(p, c) PROVE Progress'
    BY <1>8 DEF Write, InMemory, Idle, Progress
<1>9. ASSUME NEW q \in Targets, NEW flag, Rename(p, q, flag) PROVE Progress'
    BY <1>9, RenameFar
<1>10. Progress'
    BY <1>1, <1>2, <1>3, <1>4, <1>5, <1>6, <1>7, <1>8, <1>9
<1>11. todo = <<>>
    BY <1>1 DEF Unlink, Mkdir, Rmdir, GetAttr, Create, Open, Release, Write, Rename, InMemory, Begin, Refuse,
                Idle
<1> QED BY <1>10, <1>11

LEMMA StepProgress == IInv /\ RenameInv /\ Progress /\ NoNamesakes /\ [Next]_vars => Progress'
<1> SUFFICES ASSUME IInv, RenameInv, Progress, NoNamesakes, [Next]_vars PROVE Progress'
    OBVIOUS
<1>1. CASE Request
    BY <1>1, RequestFar
<1>2. CASE RunStep
    <2>1. ASSUME todo' # <<>> PROVE HowFar(request', stored', tree', todo')
        BY <1>2, <2>1, FlushFar, CopyFar, MoveFar, DeleteFar, MakeDirFar, MoveAllFar, RemoveDirFar
        DEF RunStep
    <2> QED BY ONLY <2>1 DEF Progress
<1>3. CASE Remount
    BY <1>3 DEF Remount, Progress
<1>4. CASE UNCHANGED vars
    <2>1. todo' = todo /\ tree' = tree /\ stored' = stored /\ request' = request
        BY <1>4 DEF vars
    <2> QED BY <2>1 DEF Progress
<1> QED BY <1>1, <1>2, <1>3, <1>4 DEF Next

-----------------------------------------------------------------------------
\* A refused operation found its tree.
Refused == todo # <<>> /\ todo' = <<>> /\ result' \notin {"ok", "EIO", "mounted"}
NothingChanged == tree' = request.tree /\ Len(stored') = request.stored

LEMMA OnlyDirsRefuse ==
    ASSUME IInv, NoNamesakes, [Next]_vars, Refused
    PROVE  (MakeDir \/ RemoveDir) /\ (\E error : Abort(error)) /\ tree' = tree /\ stored' = stored
<1>1. RunStep
    BY RequestFar DEF Refused, Next, vars, Remount
<1>2. ~Continue(<<>>)
    BY DEF Refused, Continue
<1>3. ~StoreFails
    BY DEF Refused, StoreFails, Abort
<1>4. ~MoveAll
    BY DEF Refused, MoveAll, Continue
<1>5. ~Flush /\ ~Copy /\ ~Move /\ ~Delete
    BY <1>2, <1>3 DEF Flush, Copy, Move, Delete, Store
<1>6. MakeDir \/ RemoveDir
    BY <1>1, <1>4, <1>5 DEF RunStep
<1>7. (\E error : Abort(error)) /\ tree' = tree /\ stored' = stored
    BY <1>2, <1>3, <1>6 DEF MakeDir, RemoveDir, Store
<1> QED BY <1>6, <1>7

LEMMA MovingIsNotRefused ==
    ASSUME IInv, RenameInv, request.op = "rename", Moving(tree, todo, request.path, request.to),
           [Next]_vars, Refused, NoNamesakes
    PROVE  FALSE
<1>1. /\ todo # <<>> /\ Head(todo) = todo[1] /\ 1 \in DOMAIN todo /\ IsTree(tree) /\ TreeOK(tree)
      /\ Shape(todo) /\ todo \in Seq(Steps)
    BY TodoIs, ListFacts DEF Refused, IsTree
<1>2. todo[1].path \in SomePaths /\ todo[1].path \in Seq(Names) \ {<<>>} /\ todo[1].path \in Seq(Names)
    BY <1>1, StepIs DEF SomePaths
<1>3. MakeDir \/ RemoveDir
    BY OnlyDirsRefuse
<1>4. ~Continue(<<>>) /\ ~StoreFails
    BY DEF Refused, Continue, StoreFails, Abort
<1> DEFINE p == todo[1].path
<1>5. CASE MakeDir
    <2>1. todo[1].do = "mkdir"
        BY <1>1, <1>5 DEF MakeDir, Doing
    <2>2. HasDir(tree, Front(p)) /\ ~HasDir(tree, p) /\ Filed(tree, p) = {}
        BY <2>1 DEF Moving, CanMake
    <2>3. FindContainingDir(tree, p) \in DOMAIN tree /\ ~DirExists(tree, p) /\ ~FileExists(tree, p)
        BY <1>1, <1>2, <2>2, FiledIs, FiledOfDir, DirShown
    <2> QED BY <1>1, <1>4, <1>5, <2>3 DEF MakeDir, Store
<1>6. CASE RemoveDir
    <2>1. todo[1].do = "rmdir"
        BY <1>1, <1>6 DEF RemoveDir, Doing
    <2>2. HasDir(tree, p) /\ tree[FindDirByPath(tree, p)] = EmptyDir
        BY <2>1 DEF Moving, CanRemove
    <2>3. DirExists(tree, p)
        BY <1>1, <1>2, <2>2, DirShown
    <2> QED BY <1>1, <1>4, <1>6, <2>2, <2>3 DEF RemoveDir, Store
<1> QED BY <1>3, <1>5, <1>6

LEMMA RefusedAsFound ==
    ASSUME IInv, RenameInv, Progress, NoNamesakes, [Next]_vars, Refused
    PROVE  NothingChanged
<1>1. todo # <<>> /\ tree' = tree /\ stored' = stored
    BY OnlyDirsRefuse DEF Refused
<1>2. ~FilesOnly(todo) /\ ~StaysPut(todo)
    <2>1. todo # <<>> /\ Head(todo) = todo[1] /\ 1 \in DOMAIN todo
        BY TodoIs, ListFacts DEF Refused
    <2>2. todo[1].do \in {"mkdir", "rmdir"}
        BY <2>1, OnlyDirsRefuse DEF MakeDir, RemoveDir, Doing
    <2> QED BY <2>1, <2>2, PutIsFiles DEF FilesOnly
<1>3. ~(request.op = "rename" /\ Moving(tree, todo, request.path, request.to))
    BY MovingIsNotRefused
<1>4. HowFar(request, stored, tree, todo)
    BY DEF Refused, Progress
<1>5. AsFound(request, stored, tree)
    BY <1>2, <1>3, <1>4 DEF HowFar
<1> QED BY OnlyDirsRefuse, <1>5 DEF AsFound, NothingChanged

\* An operation that mkdir's, rmdir's or rename's checks refuse has changed nothing,
\* however deep the recursion of renameDir is and whatever came before: a rename is
\* refused before it begins or not at all.  Between operations no directory may hold
\* a file and a directory of one name: a rename of both has moved the file when
\* bucse_mkdir (rename.c:162) refuses the directory.
THEOREM RefusedAtOnce == Spec /\ []NoNamesakes => RefusedChangesNothing
<1>1. IInv /\ RenameInv /\ Progress /\ NoNamesakes /\ [Next]_vars => (Refused => NothingChanged)
    BY RefusedAsFound
<1>2. Init => IInv /\ RenameInv /\ Progress
    BY StartIsCoherent, NoRenameAtFirst DEF Init, Progress
<1>3. (Refused => NothingChanged) <=>
        (todo # <<>> /\ todo' = <<>> /\ result' \notin {"ok", "EIO", "mounted"} =>
            tree' = request.tree /\ Len(stored') = request.stored)
    BY DEF Refused, NothingChanged
<1> QED BY <1>1, <1>2, <1>3, Kept, StepKeepsRename, StepProgress, PTL DEF Spec, RefusedChangesNothing

-----------------------------------------------------------------------------
\* Everything below p has gone to q, and nothing else has changed.
AllMoved(t0, u, p, q) == \A r \in SomePaths :
    /\ Under(p, r) => /\ ContentAt(u, r) = NoContent /\ ~HasDir(u, r)
                      /\ ContentAt(u, Dest(p, q, r)) = ContentAt(t0, r)
                      /\ HasDir(u, Dest(p, q, r)) <=> HasDir(t0, r)
    /\ Under(q, r) => ~HasDir(t0, r)
    /\ ~Under(p, r) /\ ~Under(q, r) => SameAt(t0, u, r)

\* The file was moved.
LEMMA FileHasMoved ==
    ASSUME NEW t0, NEW t, IsTree(t), NEW l, NEW p \in SomePaths, NEW q \in SomePaths, Apart(p, q),
           FileHalf(t0, t, l, p, q), NEW u, NEW g, Moves2(t, u, p, q, g), g.content = ContentAt(t, p)
    PROVE  AllMoved(t0, u, p, q)
<1>1. /\ p \in Seq(Names) /\ q \in Seq(Names) /\ ~HasDir(t, p) /\ ~HasDir(t, q)
      /\ IsTree(t0) /\ ~HasDir(t0, p) /\ ~HasDir(t0, q)
    BY DEF FileHalf, SameDirs, SomePaths
<1>2. /\ \A r \in SomePaths : Under(p, r) => ~HasDir(t, r) /\ (r # p => Filed(t, r) = {})
      /\ \A r \in SomePaths : Under(q, r) => ~HasDir(t, r) /\ (r # q => Filed(t, r) = {})
    BY <1>1, NothingBelow
<1>3. /\ Filed(u, p) = {} /\ Filed(u, q) = {g}
      /\ \A r \in SomePaths : r # p /\ r # q => Filed(u, r) = Filed(t, r)
    BY DEF Moves2, SomePaths
<1>4. ASSUME NEW r \in SomePaths
      PROVE  /\ HasDir(u, r) <=> HasDir(t, r)
             /\ HasDir(t, r) <=> HasDir(t0, r)
             /\ ContentAt(t, r) = ContentAt(t0, r)
    <2>1. r \in Seq(Names)
        BY DEF SomePaths
    <2> QED BY <2>1 DEF Moves2, FileHalf, SameDirs
<1>5. ContentAt(u, p) = NoContent /\ ContentAt(u, q) = ContentAt(t0, p)
    BY <1>3, <1>4, ContentOfFiled
<1>6. Under(p, p) /\ Under(q, q) /\ Dest(p, q, p) = q
    BY <1>1, DestOfSource
<1>7. ASSUME NEW r \in SomePaths, Under(p, r)
      PROVE  /\ ContentAt(u, r) = NoContent /\ ~HasDir(u, r)
             /\ ContentAt(u, Dest(p, q, r)) = ContentAt(t0, r)
             /\ HasDir(u, Dest(p, q, r)) <=> HasDir(t0, r)
    <2> DEFINE s == Dest(p, q, r)
    <2>1. s \in SomePaths /\ Under(q, s) /\ s # p /\ r # q /\ (s = q => r = p) /\ (r = p => s = q)
        BY <1>6, <1>7, Pairs
    <2> HIDE DEF s
    <2>2. ~HasDir(t, r) /\ ~HasDir(t, s)
        BY <1>2, <1>7, <2>1
    <2>3. CASE r = p
        BY <1>4, <1>5, <2>1, <2>2, <2>3 DEF s
    <2>4. CASE r # p
        <3>1. Filed(t, r) = {} /\ Filed(t, s) = {}
            BY <1>2, <1>7, <2>1, <2>4
        <3>2. Filed(u, r) = {} /\ Filed(u, s) = {}
            BY <1>3, <2>1, <2>4, <3>1
        <3>3. ContentAt(t, r) = NoContent /\ ContentAt(u, r) = NoContent /\ ContentAt(u, s) = NoContent
            BY <3>1, <3>2, ContentOfFiled
        <3> QED BY <1>4, <2>1, <2>2, <3>3 DEF s
    <2> QED BY <2>3, <2>4
<1>8. ASSUME NEW r \in SomePaths, Under(q, r) PROVE ~HasDir(t0, r)
    BY <1>2, <1>4, <1>8
<1>9. ASSUME NEW r \in SomePaths, ~Under(p, r), ~Under(q, r) PROVE SameAt(t0, u, r)
    <2>1. r # p /\ r # q
        BY <1>6, <1>9
    <2>2. Filed(u, r) = Filed(t, r)
        BY <1>3, <2>1
    <2>3. ContentAt(u, r) = ContentAt(t, r)
        BY <2>2, ContentIs
    <2> QED BY <1>4, <2>3 DEF SameAt
<1> QED BY <1>7, <1>8, <1>9 DEF AllMoved

\* The directory is gone.
LEMMA DirHasMoved ==
    ASSUME NEW t0, IsTree(t0), NEW p \in SomePaths, NEW q \in SomePaths, Apart(p, q),
           Filed(t0, p) = {}, ~HasDir(t0, q),
           NEW u, IsTree(u), Halfway(t0, u, p, q), ~HasDir(u, p)
    PROVE  AllMoved(t0, u, p, q)
<1>1. p \in Seq(Names) /\ q \in Seq(Names)
    BY DEF SomePaths
<1>2. /\ \A r \in SomePaths : Under(p, r) => ~HasDir(u, r) /\ (r # p => Filed(u, r) = {})
      /\ \A r \in SomePaths : Under(q, r) => ~HasDir(t0, r)
    BY NothingBelow
<1>3. ASSUME NEW r \in SomePaths, Under(p, r)
      PROVE  /\ ContentAt(u, r) = NoContent /\ ~HasDir(u, r)
             /\ ContentAt(u, Dest(p, q, r)) = ContentAt(t0, r)
             /\ HasDir(u, Dest(p, q, r)) <=> HasDir(t0, r)
    <2> DEFINE s == Dest(p, q, r)
    <2>1. OnItsWay(t0, u, r, s)
        BY <1>3 DEF Halfway
    <2> HIDE DEF s
    <2>2. Filed(u, r) = {}
        BY <1>2, <1>3, <2>1 DEF OnItsWay
    <2>3. ContentAt(u, r) = NoContent
        BY <2>2, ContentOfFiled
    <2>4. ContentAt(u, s) = ContentAt(t0, r)
        <3>1. Filed(u, s) = {} => ContentAt(u, s) = NoContent
            BY ContentOfFiled
        <3> QED BY <2>1, <2>3, <3>1 DEF OnItsWay
    <2>5. HasDir(u, s) <=> HasDir(t0, r)
        BY <1>2, <1>3, <2>1 DEF OnItsWay
    <2> QED BY <1>2, <1>3, <2>3, <2>4, <2>5 DEF s
<1>4. ASSUME NEW r \in SomePaths, ~Under(p, r), ~Under(q, r) PROVE SameAt(t0, u, r)
    BY <1>4 DEF Halfway
<1> QED BY <1>2, <1>3, <1>4 DEF AllMoved

\* Apart in either order.
LEMMA ApartTurned ==
    ASSUME NEW p \in Seq(Names), NEW q \in Seq(Names), Apart(p, q)
    PROVE  Apart(q, p)
<1>1. Len(p) \in Nat /\ Len(q) \in Nat
    BY LenProperties
<1>2. PICK n \in 1 .. Len(p) : n <= Len(q) /\ p[n] # q[n]
    BY DEF Apart
<1>3. n \in 1 .. Len(q) /\ n <= Len(p)
    BY <1>1, <1>2
<1> QED BY <1>2, <1>3 DEF Apart

\* Where what is below the destination comes from.
LEMMA SourceOf ==
    ASSUME NEW p \in SomePaths, NEW q \in SomePaths, Apart(p, q), NEW r \in SomePaths, Under(q, r)
    PROVE  /\ Dest(q, p, r) \in SomePaths /\ Under(p, Dest(q, p, r))
           /\ Dest(p, q, Dest(q, p, r)) = r /\ ~Under(p, r)
<1>1. p \in Seq(Names) /\ q \in Seq(Names) /\ r \in Seq(Names)
    BY DEF SomePaths
<1>2. Apart(q, p)
    BY <1>1, ApartTurned
<1>3. Dest(q, p, r) \in SomePaths /\ Under(p, Dest(q, p, r)) /\ Dest(p, q, Dest(q, p, r)) = r
    BY <1>1, <1>2, DestApart, DestUnder
<1> DEFINE s == Dest(q, p, r)
<1>4. Under(p, r) => Dest(p, q, s) # r
    <2>1. s \in SomePaths /\ Under(p, s)
        BY <1>3
    <2> HIDE DEF s
    <2> QED BY <2>1, Pairs
<1> QED BY <1>3, <1>4

\* What RenameMoves says of the files and of the directories.
LEMMA MovedView ==
    ASSUME Paths = SomePaths, NEW p \in SomePaths, NEW q \in SomePaths, Apart(p, q),
           NEW t0, IsTree(t0), NEW u, IsTree(u), AllMoved(t0, u, p, q)
    PROVE  FilesOf(u) = Moved(FilesOf(t0), p, q) /\ DirsOf(u) = MovedDirs(DirsOf(t0), p, q)
<1>1. ASSUME NEW r \in SomePaths
      PROVE  /\ (IsPrefix(p, r) <=> Under(p, r)) /\ (IsPrefix(q, r) <=> Under(q, r))
             /\ (DirExists(u, r) <=> HasDir(u, r)) /\ (DirExists(t0, r) <=> HasDir(t0, r))
    <2>1. p \in Seq(Names) /\ q \in Seq(Names) /\ r \in Seq(Names)
        BY DEF SomePaths
    <2>2. (IsPrefix(p, r) <=> Under(p, r)) /\ (IsPrefix(q, r) <=> Under(q, r))
        BY <2>1, PrefixIsUnder, UnderIsPrefix
    <2>3. (DirExists(u, r) <=> HasDir(u, r)) /\ (DirExists(t0, r) <=> HasDir(t0, r))
        BY DirShown DEF SomePaths
    <2> QED BY <2>2, <2>3
<1>2. FilesOf(u) = Moved(FilesOf(t0), p, q)
    <2>1. ASSUME NEW r \in SomePaths
          PROVE  ContentAt(u, r) =
                    IF IsPrefix(q, r)
                    THEN IF Dest(q, p, r) \in Paths THEN ContentAt(t0, Dest(q, p, r)) ELSE NoContent
                    ELSE IF IsPrefix(p, r) THEN NoContent ELSE ContentAt(t0, r)
        <3>1. CASE Under(q, r)
            <4> DEFINE s == Dest(q, p, r)
            <4>1. s \in SomePaths /\ Under(p, s) /\ Dest(p, q, s) = r
                BY <3>1, SourceOf
            <4> HIDE DEF s
            <4>2. ContentAt(u, r) = ContentAt(t0, s)
                BY <4>1 DEF AllMoved
            <4> QED BY <1>1, <3>1, <4>1, <4>2 DEF s
        <3>2. CASE ~Under(q, r) /\ Under(p, r)
            BY <1>1, <3>2 DEF AllMoved
        <3>3. CASE ~Under(q, r) /\ ~Under(p, r)
            BY <1>1, <3>3 DEF AllMoved, SameAt
        <3> QED BY <3>1, <3>2, <3>3
    <2>2. FilesOf(t0) = [r \in Paths |-> ContentAt(t0, r)] /\ FilesOf(u) = [r \in Paths |-> ContentAt(u, r)]
        BY DEF FilesOf
    <2>3. Moved(FilesOf(t0), p, q) =
            [r \in Paths |-> IF IsPrefix(q, r)
                             THEN IF Dest(q, p, r) \in Paths THEN FilesOf(t0)[Dest(q, p, r)] ELSE NoContent
                             ELSE IF IsPrefix(p, r) THEN NoContent ELSE FilesOf(t0)[r]]
        BY DEF Moved, Dest
    <2>4. ASSUME NEW r \in Paths
          PROVE  ContentAt(u, r) =
                    IF IsPrefix(q, r)
                    THEN IF Dest(q, p, r) \in Paths THEN FilesOf(t0)[Dest(q, p, r)] ELSE NoContent
                    ELSE IF IsPrefix(p, r) THEN NoContent ELSE FilesOf(t0)[r]
        BY <2>1, <2>2
    <2> QED BY ONLY <2>2, <2>3, <2>4
<1>3. DirsOf(u) = MovedDirs(DirsOf(t0), p, q)
    <2>1. /\ DirsOf(u) = {r \in SomePaths : HasDir(u, r)}
          /\ DirsOf(t0) = {r \in SomePaths : HasDir(t0, r)}
        BY <1>1 DEF DirsOf
    <2>2. MovedDirs(DirsOf(t0), p, q) =
            {r \in DirsOf(t0) : ~IsPrefix(p, r)} \union
            {Dest(p, q, r) : r \in {s \in DirsOf(t0) : IsPrefix(p, s)}}
        BY DEF MovedDirs, Dest
    <2>3. ASSUME NEW r \in DirsOf(u) PROVE r \in MovedDirs(DirsOf(t0), p, q)
        <3>1. r \in SomePaths /\ HasDir(u, r)
            BY <2>1, <2>3
        <3>2. ~Under(p, r)
            BY <3>1 DEF AllMoved
        <3>3. CASE Under(q, r)
            <4> DEFINE s == Dest(q, p, r)
            <4>1. s \in SomePaths /\ Under(p, s) /\ Dest(p, q, s) = r
                BY <3>1, <3>3, SourceOf
            <4> HIDE DEF s
            <4>2. HasDir(t0, s)
                BY <3>1, <4>1 DEF AllMoved
            <4>3. s \in {x \in DirsOf(t0) : IsPrefix(p, x)}
                BY <1>1, <2>1, <4>1, <4>2
            <4> QED BY <2>2, <4>1, <4>3
        <3>4. CASE ~Under(q, r)
            <4>1. HasDir(t0, r)
                BY <3>1, <3>2, <3>4 DEF AllMoved, SameAt
            <4> QED BY <1>1, <2>1, <2>2, <3>1, <3>2, <4>1
        <3> QED BY <3>3, <3>4
    <2>4. ASSUME NEW r \in DirsOf(t0), ~IsPrefix(p, r) PROVE r \in DirsOf(u)
        <3>1. r \in SomePaths /\ HasDir(t0, r) /\ ~Under(p, r)
            BY <1>1, <2>1, <2>4
        <3>2. HasDir(u, r)
            BY <3>1 DEF AllMoved, SameAt
        <3> QED BY <2>1, <3>1, <3>2
    <2>5. ASSUME NEW r \in DirsOf(t0), IsPrefix(p, r) PROVE Dest(p, q, r) \in DirsOf(u)
        <3>1. r \in SomePaths /\ HasDir(t0, r) /\ Under(p, r)
            BY <1>1, <2>1, <2>5
        <3>2. HasDir(u, Dest(p, q, r)) /\ Dest(p, q, r) \in SomePaths
            BY <3>1, Pairs DEF AllMoved
        <3> QED BY <2>1, <3>2
    <2> QED BY <2>2, <2>3, <2>4, <2>5
<1> QED BY <1>2, <1>3

\* The last step of a rename moves its file, or removes its directory.
LEMMA LastStep ==
    ASSUME IInv, RenameInv, Progress, todo # <<>>, request.op = "rename", Tail(todo) = <<>>
    PROVE  /\ todo[1].path = request.path
           /\ \/ todo[1].do = "move" /\ FilesOnly(todo)
              \/ todo[1].do = "rmdir"
<1>1. /\ todo \in Seq(Steps) /\ request.path \in SomePaths /\ request.to \in SomePaths
      /\ FilesOnly(todo) => FileHalf(request.tree, tree, todo, request.path, request.to)
      /\ ~FilesOnly(todo) => \/ Half(request.tree, tree, todo, request.path, request.to)
                             \/ StartsDir(request, tree, todo)
    BY RenameGoing
<1>2. CASE FilesOnly(todo)
    <2>1. EndsWith(todo, "move", request.path)
        BY <1>1, <1>2 DEF FileHalf
    <2> QED BY <1>1, <1>2, <2>1, EndOfTail
<1>3. CASE Half(request.tree, tree, todo, request.path, request.to)
    <2>1. EndsWith(todo, "rmdir", request.path)
        BY <1>3 DEF Half
    <2> QED BY <1>1, <2>1, EndOfTail
<1>4. ~StartsDir(request, tree, todo)
    <2> SUFFICES ASSUME todo = DirSteps(request.path, request.to) PROVE FALSE
        BY DEF StartsDir
    <2>1. DOMAIN todo = {1, 2, 3}
        BY <1>1, ThreeSteps
    <2>2. Len(todo) \in Nat /\ DOMAIN todo = 1 .. Len(todo) /\ Len(Tail(todo)) = Len(todo) - 1
          /\ Tail(todo) \in Seq(Steps)
        BY <1>1, ListFacts
    <2>3. Len(todo) = 1
        <3> DEFINE k == Tail(todo)
        <3>1. k = <<>> /\ Len(k) = Len(todo) - 1
            BY <2>2
        <3> HIDE DEF k
        <3>2. Len(k) = 0
            BY <3>1
        <3> QED BY <2>2, <3>1, <3>2
    <2> QED BY <2>1, <2>2, <2>3
<1> QED BY <1>1, <1>2, <1>3, <1>4

LEMMA RenameEnds ==
    ASSUME IInv, RenameInv, Progress, NoNamesakes, [Next]_vars, request.op = "rename",
           todo' = <<>>, result' = "ok", NEW p, p = request.path, NEW q, q = request.to,
           NEW t0, t0 = request.tree
    PROVE  /\ p \in SomePaths /\ q \in SomePaths /\ Apart(p, q) /\ IsTree(t0) /\ IsTree(tree')
           /\ \/ FileExists(t0, q) /\ FileAt(t0, q).write
              \/ AllMoved(t0, tree', p, q)
<1>1. todo # <<>>
    BY DEF IInv, RequestOK, NoRequest
<1>2. RunStep
    <2>1. ~Request
        BY RequestInRename
    <2>2. ~Remount
        BY DEF Remount
    <2>3. ~UNCHANGED vars
        BY <1>1 DEF vars
    <2> QED BY <2>1, <2>2, <2>3 DEF Next
<1>3. ~MoveAll
    BY MoveAllFar
<1>4. ~StoreFails /\ \A error \in {"ENOENT", "EEXIST", "EACCES", "ENOTEMPTY"} : ~Abort(error)
    BY DEF StoreFails, Abort
<1>5. Continue(<<>>)
    BY <1>2, <1>3, <1>4 DEF RunStep, Flush, Copy, Move, Delete, MakeDir, RemoveDir, Store
<1>6. Tail(todo) = <<>>
    BY <1>1, <1>5, TodoIs DEF Continue
<1>7. /\ todo[1].path = p
      /\ \/ todo[1].do = "move" /\ FilesOnly(todo)
         \/ todo[1].do = "rmdir"
    BY <1>1, <1>6, LastStep
<1>8. /\ p \in SomePaths /\ q \in SomePaths /\ Apart(p, q) /\ IsTree(tree) /\ Mapped(todo, p, q)
      /\ Head(todo) = todo[1] /\ 1 \in DOMAIN todo
      /\ FilesOnly(todo) => FileHalf(t0, tree, todo, p, q)
      /\ ~FilesOnly(todo) => \/ Half(t0, tree, todo, p, q)
                             \/ todo[1].do = "mkdir"
    BY <1>1, RenameGoing
<1>9. Move \/ RemoveDir
    BY <1>1, <1>2, <1>3, <1>7, <1>8 DEF RunStep, Flush, Copy, Delete, MakeDir, Doing
<1>10. IsTree(tree')
    BY StepKeeps DEF IInv, Coherent
<1>11. CASE Move
    <2>1. todo[1].do = "move"
        BY <1>8, <1>11 DEF Move, Doing
    <2>2. FileHalf(t0, tree, todo, p, q)
        BY <1>7, <1>8, <2>1
    <2>3. todo[1].to = q
        <3>1. todo[1].to = Dest(p, q, p)
            BY <1>7, <1>8, <2>1 DEF Mapped
        <3> QED BY <1>8, <3>1, DestOfSource DEF SomePaths
    <2>4. PICK g : /\ Moves2(tree, tree', p, q, g)
                   /\ (FileExists(tree, q) /\ FileAt(tree, q).write) \/ g.content = ContentAt(tree, p)
        BY <1>4, <1>7, <1>11, <2>3, MovedIs
    <2>5. FileExists(tree, q) /\ FileAt(tree, q).write => FileExists(t0, q) /\ FileAt(t0, q).write
        <3>1. Filed(tree, q) = Filed(t0, q)
            BY <2>2 DEF FileHalf
        <3>2. FileExists(tree, q) => FileExists(t0, q) /\ FileAt(t0, q) = FileAt(tree, q)
            BY <3>1 DEF Filed
        <3> QED BY <3>2
    <2>6. g.content = ContentAt(tree, p) => AllMoved(t0, tree', p, q)
        BY <1>8, <2>2, <2>4, FileHasMoved
    <2>7. IsTree(t0)
        BY <2>2 DEF FileHalf
    <2> QED BY <1>8, <1>10, <2>4, <2>5, <2>6, <2>7
<1>12. CASE RemoveDir
    <2>1. Half(t0, tree, todo, p, q) /\ Halfway(t0, tree', p, q)
        BY <1>12, RemovedFar
    <2>2. ~HasDir(tree', p)
        <3>1. \A r \in Seq(Names) : HasDir(tree', r) <=> r # todo[1].path /\ HasDir(tree, r)
            BY <1>12, RemovedIs
        <3>2. p \in Seq(Names)
            BY <1>8 DEF SomePaths
        <3> QED BY <1>7, <3>1, <3>2
    <2>3. IsTree(t0) /\ Filed(t0, p) = {} /\ ~HasDir(t0, q)
        BY <2>1 DEF Half
    <2>4. AllMoved(t0, tree', p, q)
        BY <1>8, <1>10, <2>1, <2>2, <2>3, DirHasMoved
    <2> QED BY <1>8, <1>10, <2>3, <2>4
<1> QED BY <1>9, <1>11, <1>12

Renamed == Ends("rename") /\ result' = "ok"
AllIsMoved ==
    \/ FileExists(request.tree, request.to) /\ FileAt(request.tree, request.to).write
    \/ /\ FilesOf(tree') = Moved(FilesOf(request.tree), request.path, request.to)
       /\ DirsOf(tree') = MovedDirs(DirsOf(request.tree), request.path, request.to)

LEMMA RenameEndsMoved ==
    ASSUME Paths = SomePaths, IInv, RenameInv, Progress, NoNamesakes, [Next]_vars, Renamed
    PROVE  AllIsMoved
<1>1. request.op = "rename" /\ todo' = <<>> /\ result' = "ok"
    BY DEF Renamed, Ends
<1> DEFINE p == request.path
           q == request.to
           t0 == request.tree
<1>2. /\ p \in SomePaths /\ q \in SomePaths /\ Apart(p, q) /\ IsTree(t0) /\ IsTree(tree')
      /\ \/ FileExists(t0, q) /\ FileAt(t0, q).write
         \/ AllMoved(t0, tree', p, q)
    BY <1>1, RenameEnds
<1>3. AllMoved(t0, tree', p, q) =>
        FilesOf(tree') = Moved(FilesOf(t0), p, q) /\ DirsOf(tree') = MovedDirs(DirsOf(t0), p, q)
    BY <1>2, MovedView
<1> QED BY <1>2, <1>3 DEF AllIsMoved

\* When rename answers success everything below the source is below the target, to
\* any depth, with what the files held, and nothing else has changed: the two loops
\* of renameDir empty every directory before it is removed, and all that it makes
\* was at the source.  Of all paths, which the bounded Paths of a run are not.
THEOREM RenameMovesAll ==
    ASSUME Paths = SomePaths
    PROVE  Spec /\ []NoNamesakes => RenameMoves
<1>1. IInv /\ RenameInv /\ Progress /\ NoNamesakes /\ [Next]_vars => (Renamed => AllIsMoved)
    BY RenameEndsMoved
<1>2. Init => IInv /\ RenameInv /\ Progress
    BY StartIsCoherent, NoRenameAtFirst DEF Init, Progress
<1>3. (Renamed => AllIsMoved) <=>
        (Ends("rename") /\ result' = "ok" =>
            LET p == request.path
                q == request.to
                before == request.tree
            IN \/ FileExists(before, q) /\ FileAt(before, q).write
               \/ /\ FilesOf(tree') = Moved(FilesOf(before), p, q)
                  /\ DirsOf(tree') = MovedDirs(DirsOf(before), p, q))
    BY DEF Renamed, AllIsMoved
<1> QED BY <1>1, <1>2, <1>3, Kept, StepKeepsRename, StepProgress, PTL DEF Spec, RenameMoves

-----------------------------------------------------------------------------
\* Where no directory holds two of one name: at every step, unless the second
\* action of a moved file was refused.
OneEach(t) == \A r \in SomePaths : Filed(t, r) = {} \/ ~HasDir(t, r)

LEMMA OneEachIs ==
    ASSUME NEW t, IsTree(t)
    PROVE  OneEach(t) <=> \A r \in SomePaths : ~(FileExists(t, r) /\ DirExists(t, r))
<1>1. ASSUME NEW r \in SomePaths
      PROVE  /\ DirExists(t, r) <=> HasDir(t, r)
             /\ FileExists(t, r) <=> Filed(t, r) # {}
    BY DirShown DEF SomePaths, Filed
<1> QED BY <1>1 DEF OneEach

\* What shows no more shows none.
LEMMA NoMoreShown ==
    ASSUME NEW t, NEW u, OneEach(t), SameDirs(t, u),
           \A r \in SomePaths : Filed(u, r) # {} => Filed(t, r) # {} \/ ~HasDir(t, r)
    PROVE  OneEach(u)
BY DEF OneEach, SameDirs, SomePaths

\* The file to be moved has a free target, or replaces a file.
LEMMA TargetIsFree ==
    ASSUME IInv, RenameInv, Progress, OneEach(tree), MovesNext(todo)
    PROVE  todo[1].to \in SomePaths /\ ~HasDir(tree, todo[1].to)
<1>1. todo # <<>> /\ todo[1].do = "move" /\ Coherent(stored, tree, todo, halfMoved)
    BY DEF MovesNext, IInv
<1>2. Shape(todo) /\ 1 \in DOMAIN todo /\ todo \in Seq(Steps)
    BY <1>1, ListFacts DEF Coherent, TodoFor, Shape
<1>3. todo[1].path \in SomePaths /\ todo[1].to \in SomePaths
    BY <1>2, StepIs
<1>4. request.op = "rename"
    <2>1. ~StaysPut(todo)
        BY <1>1, <1>2 DEF StaysPut
    <2>2. ~OneStep(todo)
        BY <1>1 DEF OneStep
    <2> QED BY <1>1, <2>1, <2>2 DEF Progress, HowFar, StartsDir
<1> DEFINE p == request.path
           q == request.to
           a == todo[1].path
<1>5. /\ p \in SomePaths /\ q \in SomePaths /\ Apart(p, q) /\ Mapped(todo, p, q)
      /\ FilesOnly(todo) => FileHalf(request.tree, tree, todo, p, q)
      /\ ~FilesOnly(todo) => Moving(tree, todo, p, q)
    BY <1>1, <1>4, RenameGoing
<1>6. todo[1].to = Dest(p, q, a) /\ Under(p, a)
    BY <1>1, <1>2, <1>5 DEF Mapped
<1>7. Filed(tree, a) # {}
    BY <1>1, <1>2 DEF Coherent, TodoFor, Ready, FileReady
<1>8. CASE FilesOnly(todo)
    <2>1. a = p
        BY <1>2, <1>5, <1>8 DEF FileHalf
    <2>2. todo[1].to = q
        BY <1>5, <1>6, <2>1, DestOfSource DEF SomePaths
    <2>3. ~HasDir(tree, q)
        BY <1>5, <1>8 DEF FileHalf, SameDirs, SomePaths
    <2> QED BY <1>3, <2>2, <2>3
<1>9. CASE Moving(tree, todo, p, q)
    <2>1. NoClash(tree, todo, p, q, a)
        BY <1>3, <1>6, <1>9 DEF Moving, NoClashes
    <2> QED BY <1>3, <1>6, <1>7, <2>1 DEF NoClash
<1> QED BY <1>5, <1>8, <1>9

LEMMA MoveKeepsOne ==
    ASSUME IInv, RenameInv, Progress, OneEach(tree), Move
    PROVE  OneEach(tree')
<1>1. CASE StoreFails
    BY <1>1 DEF StoreFails
<1>2. CASE ~StoreFails
    <2>1. /\ MovesNext(todo) /\ \E g : Moves2(tree, tree', todo[1].path, todo[1].to, g)
        BY <1>2, MovedIs DEF MovesNext
    <2>2. ~HasDir(tree, todo[1].to)
        BY <2>1, TargetIsFree
    <2>3. /\ SameDirs(tree, tree') /\ Filed(tree', todo[1].path) = {}
          /\ \A r \in SomePaths : r # todo[1].path /\ r # todo[1].to => Filed(tree', r) = Filed(tree, r)
        BY <2>1 DEF Moves2, SomePaths
    <2> QED BY <2>2, <2>3, NoMoreShown
<1> QED BY <1>1, <1>2

LEMMA CreateKeepsOne ==
    ASSUME IInv, NEW p \in Targets, NEW mode \in Modes, Create(p, mode), OneEach(tree)
    PROVE  OneEach(tree')
<1> DEFINE f == [CleanFile(Last(p), Empty) EXCEPT !.create = TRUE]
           u == AddFileTo(tree, FindContainingDir(tree, p), f)
<1>1. /\ FindContainingDir(tree, p) \in DOMAIN tree /\ ~FileExists(tree, p) /\ ~DirExists(tree, p)
      /\ tree' = u /\ IsTree(tree)
    BY DEF Create, InMemory, IInv, Coherent
<1>2. p \in Seq(Names) \ {<<>>} /\ p \in SomePaths
    BY TargetsArePaths
<1>3. Last(p) \in Names /\ Empty \in ContentOf
    BY <1>2, SplitPath, ContentsAssumption DEF ContentOf
<1>4. f \in Files /\ f.name = Last(p)
    BY <1>3, NewFileIs
<1> HIDE DEF f
<1>5. HasDir(tree, Front(p)) /\ Filed(tree, p) = {} /\ ~HasDir(tree, p)
    BY <1>1, <1>2, FiledIs, DirShown DEF Filed
<1>6. FileUpdate(tree, u, p, {f})
    BY <1>2, <1>4, <1>1, <1>5, AddFileView
<1> HIDE DEF u
<1>7. SameDirs(tree, u) /\ \A r \in SomePaths : r # p => Filed(u, r) = Filed(tree, r)
    BY <1>6 DEF FileUpdate, SameDirs, HasDir, SomePaths
<1>8. OneEach(u)
    BY <1>5, <1>7, NoMoreShown
<1> QED BY <1>1, <1>8

LEMMA WriteKeepsOne ==
    ASSUME IInv, NEW p \in Targets, NEW c \in Contents, Write(p, c), OneEach(tree)
    PROVE  OneEach(tree')
<1> DEFINE h == FileAt(tree, p)
           f == [h EXCEPT !.content = c, !.write = TRUE]
           u == SetFile(tree, FindContainingDir(tree, p), Last(p), f)
<1>1. FileExists(tree, p) /\ tree' = u /\ IsTree(tree)
    BY DEF Write, InMemory, IInv, Coherent
<1>2. p \in Seq(Names) \ {<<>>} /\ p \in SomePaths
    BY TargetsArePaths
<1>3. Filed(tree, p) = {h} /\ h \in Files /\ h.name = Last(p)
    BY <1>1, <1>2, FileThere
<1> HIDE DEF h
<1>4. c \in ContentOf
    BY DEF ContentOf
<1>5. f \in Files /\ f.name = Last(p)
    BY <1>3, <1>4, WrittenIs
<1> HIDE DEF f
<1>6. FileUpdate(tree, u, p, {f})
    BY <1>1, <1>2, <1>5, SetFileView
<1> HIDE DEF u
<1>7. SameDirs(tree, u) /\ \A r \in SomePaths : r # p => Filed(u, r) = Filed(tree, r)
    BY <1>6 DEF FileUpdate, SameDirs, HasDir, SomePaths
<1>8. OneEach(u)
    BY <1>3, <1>7, NoMoreShown
<1> QED BY <1>1, <1>8

LEMMA RequestKeepsOne ==
    ASSUME IInv, OneEach(tree), Request
    PROVE  OneEach(tree')
<1>1. CASE \E p \in Targets, mode \in Modes : Create(p, mode)
    BY <1>1, CreateKeepsOne
<1>2. CASE \E p \in Targets, c \in Contents : Write(p, c)
    BY <1>2, WriteKeepsOne
<1>3. ASSUME tree' = tree PROVE OneEach(tree')
    BY <1>3
<1>4. \A op, p, q, l : Begin(op, p, q, l) => tree' = tree
    BY DEF Begin
<1>5. \A error : Refuse(error) => tree' = tree
    BY DEF Refuse
<1>6. ASSUME NEW p PROVE Unlink(p) \/ Mkdir(p) \/ Rmdir(p) \/ GetAttr(p) => tree' = tree
    BY <1>4 DEF Unlink, Mkdir, Rmdir, GetAttr
<1>7. ASSUME NEW p, NEW mode PROVE Open(p, mode) \/ Release(p, mode) => tree' = tree
    BY <1>4 DEF Open, Release, InMemory
<1>8. ASSUME NEW p, NEW q, NEW flag PROVE Rename(p, q, flag) => tree' = tree
    BY <1>4, <1>5 DEF Rename
<1> QED BY <1>1, <1>2, <1>3, <1>6, <1>7, <1>8 DEF Request, Modes

LEMMA DeleteKeepsOne ==
    ASSUME IInv, OneEach(tree), Delete
    PROVE  OneEach(tree')
<1>1. CASE StoreFails
    BY <1>1 DEF StoreFails
<1>2. CASE ~StoreFails
    <2>1. /\ todo # <<>> /\ todo[1].do = "remove" /\ 1 \in DOMAIN todo /\ Shape(todo) /\ IsTree(tree)
          /\ Head(todo) = todo[1] /\ Ready(todo, tree, 1)
        BY TodoIs, ListFacts DEF Delete, Doing, IInv, Coherent, TodoFor
    <2> DEFINE p == todo[1].path
    <2>2. p \in SomePaths /\ Filed(tree, p) # {}
        BY <2>1, StepIs DEF Ready, FileReady
    <2>3. tree' = RemoveFileFrom(tree, FindContainingDir(tree, p), Last(p))
        BY <1>2, <2>1 DEF Delete, Store
    <2> HIDE DEF p
    <2>4. FileExists(tree, p)
        BY <2>2 DEF Filed
    <2>5. FileUpdate(tree, tree', p, {})
        BY <2>1, <2>2, <2>3, <2>4, RemoveFileView DEF SomePaths
    <2>6. SameDirs(tree, tree') /\ \A r \in SomePaths : Filed(tree', r) # {} => Filed(tree, r) # {}
        BY <2>5 DEF FileUpdate, SameDirs, HasDir, SomePaths
    <2> QED BY <2>6, NoMoreShown
<1> QED BY <1>1, <1>2

LEMMA FlushKeepsOne ==
    ASSUME IInv, OneEach(tree), Flush
    PROVE  OneEach(tree')
<1>1. SameDirs(tree, tree') /\ SameEmpty(tree, tree')
    BY FlushShows DEF LooksTheSame
<1> QED BY <1>1, NoMoreShown DEF SameEmpty

LEMMA MakeDirKeepsOne ==
    ASSUME IInv, OneEach(tree), MakeDir
    PROVE  OneEach(tree')
<1>1. CASE tree' = tree
    BY <1>1
<1>2. CASE tree' # tree
    <2>1. result' \in {"ok", "running"}
        BY <1>2 DEF MakeDir, Store, StoreFails, Continue
    <2>2. /\ Filed(tree, todo[1].path) = {}
          /\ \A r \in Seq(Names) : HasDir(tree', r) <=> r = todo[1].path \/ HasDir(tree, r)
          /\ \A r \in SomePaths : Filed(tree', r) = Filed(tree, r)
        BY <2>1, MadeIs
    <2> QED BY <2>2 DEF OneEach, SomePaths
<1> QED BY <1>1, <1>2

LEMMA RemoveDirKeepsOne ==
    ASSUME IInv, OneEach(tree), RemoveDir
    PROVE  OneEach(tree')
<1>1. CASE tree' = tree
    BY <1>1
<1>2. CASE tree' # tree
    <2>1. result' \in {"ok", "running"}
        BY <1>2 DEF RemoveDir, Store, StoreFails, Continue
    <2>2. /\ \A r \in Seq(Names) : HasDir(tree', r) => HasDir(tree, r)
          /\ \A r \in SomePaths : Filed(tree', r) = Filed(tree, r)
        BY <2>1, RemovedIs
    <2> QED BY <2>2 DEF OneEach, SomePaths
<1> QED BY <1>1, <1>2

LEMMA RunStepKeepsOne ==
    ASSUME IInv, RenameInv, Progress, OneEach(tree), RunStep
    PROVE  OneEach(tree')
<1>1. CASE Copy \/ MoveAll
    <2>1. tree' = tree
        BY <1>1 DEF Copy, MoveAll, Store, StoreFails
    <2> QED BY <2>1
<1> QED BY <1>1, FlushKeepsOne, MoveKeepsOne, DeleteKeepsOne, MakeDirKeepsOne, RemoveDirKeepsOne
        DEF RunStep

\* A mount finds no file that memory has not, but for the copy of the one that moves.
LEMMA MountShowsNoMore ==
    ASSUME IInv, RenameInv, Progress, OneEach(tree), ~halfMoved
    PROVE  \A r \in SomePaths : Filed(Replay(stored), r) # {} => Filed(tree, r) # {} \/ ~HasDir(tree, r)
<1>1. /\ stored \in Seq(Actions) /\ Agreement(stored, tree, todo, halfMoved)
    BY DEF IInv, Coherent
<1>2. ASSUME NEW m, FilesAgree(m, tree), NEW r \in SomePaths, Filed(m, r) # {}
      PROVE  Filed(tree, r) # {}
    BY <1>2 DEF FilesAgree, SomePaths
<1>3. CASE ~MovesNext(todo)
    BY <1>1, <1>2, <1>3 DEF Agreement
<1>4. CASE MovesNext(todo)
    <2>1. PICK k \in Seq(Actions) : BeforeCopy(k, stored, tree, todo[1], halfMoved)
        BY <1>1, <1>4 DEF Agreement
    <2> DEFINE c == CopyOf(todo[1], tree, Len(k) + 1)
    <2>2. /\ stored = Append(k, c) /\ OrdersAgree(k, tree) /\ FilesAgree(Replay(k), tree)
          /\ c.path = todo[1].to /\ c.type \in {AddFile, EditFile}
        BY <2>1 DEF BeforeCopy, CopyOf
    <2> HIDE DEF c
    <2>3. todo[1].to \in SomePaths /\ ~HasDir(tree, todo[1].to)
        BY <1>4, TargetIsFree
    <2>4. \A r \in SomePaths : r # todo[1].to => Filed(Replay(stored), r) = Filed(Replay(k), r)
        <3>1. Apt(tree, c) /\ c.type # RemoveFile /\ c.type # RemoveDirectory
            BY <2>2 DEF Apt, AddFile, EditFile, RemoveFile, AddDirectory, RemoveDirectory
        <3>2. c \in Actions
            <4>1. /\ Len(k) \in Nat /\ Len(Append(k, c)) = Len(k) + 1 /\ Append(k, c)[Len(k) + 1] = c
                BY LenProperties, AppendProperties
            <4>2. \A i \in 1 .. Len(stored) : stored[i] \in Actions
                BY <1>1, ElementOfSeq
            <4> QED BY <2>2, <4>1, <4>2
        <3>3. ShowsAfter(Replay(k), c, Replay(stored))
            BY <2>2, <3>1, <3>2, ActionShows
        <3> QED BY <2>2, <3>1, <3>3 DEF ShowsAfter, FiledAfter, SomePaths
    <2> QED BY <1>2, <2>2, <2>3, <2>4
<1> QED BY <1>3, <1>4

LEMMA MountKeepsOne ==
    ASSUME IInv, RenameInv, Progress, OneEach(tree), ~halfMoved, Remount
    PROVE  OneEach(tree')
<1>1. PICK l \in MountOrders(stored) : tree' = Replay(l)
    BY DEF Remount
<1>2. OrdersAgree(stored, tree)
    BY DEF IInv, Coherent, Agreement
<1> DEFINE m == Replay(stored)
           u == Replay(l)
<1>3. SameDirs(u, tree) /\ SameView(m, u)
    BY <1>2 DEF OrdersAgree
<1>4. \A r \in SomePaths : Filed(m, r) # {} => Filed(tree, r) # {} \/ ~HasDir(tree, r)
    BY MountShowsNoMore
<1> HIDE DEF m, u
<1>5. SameDirs(tree, u) /\ \A r \in SomePaths : Filed(u, r) = Filed(m, r)
    BY <1>3 DEF SameDirs, SameView, SomePaths
<1>6. OneEach(u)
    BY <1>4, <1>5, NoMoreShown
<1> QED BY <1>1, <1>6 DEF u

LEMMA StepKeepsOne ==
    IInv /\ RenameInv /\ Progress /\ OneEach(tree) /\ ~halfMoved /\ [Next]_vars => OneEach(tree')
<1> SUFFICES ASSUME IInv, RenameInv, Progress, OneEach(tree), ~halfMoved, [Next]_vars
             PROVE  OneEach(tree')
    OBVIOUS
<1>1. CASE UNCHANGED vars
    BY <1>1 DEF vars
<1> QED BY <1>1, RequestKeepsOne, RunStepKeepsOne, MountKeepsOne DEF Next

\* No directory holds a file and a directory of one name if none did at the start and
\* no file was ever moved halfway (rename.c:103): the checks of create, mkdir and
\* rename see to that in memory, and a mount shows no file that memory has not, but
\* for the copy of the one being moved, whose target is free.
THEOREM NoneOfOneName == Spec /\ NoNamesakes /\ []~halfMoved => []NoNamesakes
<1> DEFINE One == OneEach(tree)
<1>1. IInv /\ One => NoNamesakes
    <2> SUFFICES ASSUME IInv, One PROVE NoNamesakes
        OBVIOUS
    <2>1. IsTree(tree)
        BY DEF IInv, Coherent
    <2> QED BY <2>1, OneEachIs DEF NoNamesakes
<1>2. IInv /\ Init /\ NoNamesakes => One
    <2> SUFFICES ASSUME IInv, Init, NoNamesakes PROVE One
        OBVIOUS
    <2>1. IsTree(tree) /\ todo = <<>>
        BY DEF IInv, Coherent, Init
    <2> QED BY <2>1, OneEachIs DEF NoNamesakes
<1>3. Init => IInv /\ RenameInv /\ Progress
    BY StartIsCoherent, NoRenameAtFirst DEF Init, Progress
<1>4. IInv /\ RenameInv /\ Progress /\ One /\ ~halfMoved /\ [Next]_vars => One'
    BY StepKeepsOne
<1> HIDE DEF One
<1> QED BY <1>1, <1>2, <1>3, <1>4, Kept, StepKeepsRename, StepProgress, PTL DEF Spec
=============================================================================
