---------------------------- MODULE FsTreeProofs ----------------------------
(***************************************************************************)
(* Facts about the operators of FsTree: what lookups and removals return,  *)
(* that every update of the tree leaves a well-formed tree; then what a    *)
(* tree without repeated names shows at its paths (HasDir, Filed), what    *)
(* the updates and doAction do to it, and a replay one action at a time.   *)
(***************************************************************************)
EXTENDS FsTree, TLAPS, WellFoundedInduction, SequenceTheorems, FiniteSetTheorems

\* A nonempty set of naturals has a least element.
LEMMA LeastNatural ==
    ASSUME NEW S \in SUBSET Nat, S # {}
    PROVE  \E m \in S : \A n \in S : m <= n
<1> DEFINE Less == {ss \in Nat \X Nat : ss[1] < ss[2]}
<1>1. IsWellFoundedOn(Less, Nat)
    BY NatLessThanWellFounded DEF OpToRel
<1>2. \E m \in S : \A n \in S : <<n, m>> \notin Less
    <2> HIDE DEF Less
    <2> QED BY <1>1, WFMin
<1>3. PICK m \in S : \A n \in S : <<n, m>> \notin Less
    BY <1>2
<1>4. ASSUME NEW n \in S PROVE m <= n
    <2>1. <<n, m>> \notin Less
        BY <1>3
    <2> QED BY <2>1
<1> QED BY <1>4

\* Unordered removal shortens a sequence by one and keeps the type of its elements.
LEMMA RemoveUnorderedType ==
    ASSUME NEW S, NEW s \in Seq(S), NEW n
    PROVE  /\ RemoveUnordered(s, n) \in Seq(S)
           /\ s # <<>> => Len(RemoveUnordered(s, n)) = Len(s) - 1
           /\ \A k \in DOMAIN RemoveUnordered(s, n) : \E l \in DOMAIN s : RemoveUnordered(s, n)[k] = s[l]
BY DEF RemoveUnordered

\* Unordered removal loses no other element.
LEMMA RemoveUnorderedKeeps ==
    ASSUME NEW S, NEW s \in Seq(S), NEW n \in 1 .. Len(s), NEW k \in 1 .. Len(s), k # n
    PROVE  \E m \in DOMAIN RemoveUnordered(s, n) : RemoveUnordered(s, n)[m] = s[k]
<1>1. CASE k = Len(s)
    <2>1. n \in DOMAIN RemoveUnordered(s, n) /\ RemoveUnordered(s, n)[n] = s[k]
        BY <1>1 DEF RemoveUnordered
    <2> QED BY <2>1
<1>2. CASE k # Len(s)
    <2>1. k \in DOMAIN RemoveUnordered(s, n) /\ RemoveUnordered(s, n)[k] = s[k]
        BY <1>2 DEF RemoveUnordered
    <2> QED BY <2>1
<1> QED BY <1>1, <1>2

\* A lookup by name returns 0 or the index of an entry with that name.
LEMMA FindFileResult ==
    ASSUME NEW dir, dir.files \in Seq(Files), NEW name
    PROVE  /\ FindFile(dir, name) \in Nat
           /\ FindFile(dir, name) # 0 =>
                /\ FindFile(dir, name) \in DOMAIN dir.files
                /\ dir.files[FindFile(dir, name)].name = name
<1> DEFINE I == {k \in 1 .. Len(dir.files) : dir.files[k].name = name}
<1>1. ASSUME I # {} PROVE Min(I) \in I
    <2>1. I \in SUBSET Nat
        OBVIOUS
    <2>2. \E m \in I : \A n \in I : m <= n
        <3> HIDE DEF I
        <3> QED BY <1>1, <2>1, LeastNatural
    <2> HIDE DEF I
    <2> QED BY <2>2 DEF Min
<1>2. FindFile(dir, name) = IF I # {} THEN Min(I) ELSE 0
    BY DEF FindFile, SelectInSeq
<1> QED BY <1>1, <1>2

\* Replacing an element keeps the type of a sequence; at no index it changes nothing.
LEMMA ReplaceType ==
    ASSUME NEW S, NEW s \in Seq(S), NEW n, NEW e \in S
    PROVE  [s EXCEPT ![n] = e] \in Seq(S)
<1>1. CASE n \in 1 .. Len(s)
    BY <1>1, ExceptSeq
<1>2. CASE n \notin 1 .. Len(s)
    <2>1. DOMAIN s = 1 .. Len(s) /\ s = [k \in DOMAIN s |-> s[k]]
        BY LenProperties
    <2>2. [s EXCEPT ![n] = e] = s
        BY <1>2, <2>1
    <2> QED BY <2>2
<1> QED BY <1>1, <1>2

\* Replacing one directory by a well-formed one leaves a well-formed tree.
LEMMA ReplaceDirOK ==
    ASSUME NEW tree, TreeOK(tree), NEW d, NEW dir \in Dirs,
           \A k \in DOMAIN dir.dirs : dir.dirs[k].node \in DOMAIN tree
    PROVE  TreeOK([tree EXCEPT ![d] = dir])
<1> DEFINE new == [tree EXCEPT ![d] = dir]
<1>1. DOMAIN new = DOMAIN tree
    OBVIOUS
<1>2. new \in Seq(Dirs)
    BY ReplaceType DEF TreeOK
<1>3. ASSUME NEW n \in DOMAIN tree, NEW k \in DOMAIN new[n].dirs
      PROVE  new[n].dirs[k].node \in DOMAIN tree
    <2>1. CASE n = d
        BY <2>1, new[n] = dir
    <2>2. CASE n # d
        BY <2>2, new[n] = tree[n] DEF TreeOK
    <2> QED BY <2>1, <2>2
<1> HIDE DEF new
<1>4. TreeOK(new)
    BY <1>1, <1>2, <1>3 DEF TreeOK
<1> QED BY <1>4 DEF new

LEMMA DirOK ==
    ASSUME NEW tree, TreeOK(tree), NEW d \in DOMAIN tree
    PROVE  /\ tree[d] \in Dirs
           /\ tree[d].files \in Seq(Files) /\ tree[d].dirs \in Seq(Subdirs)
           /\ \A k \in DOMAIN tree[d].dirs : tree[d].dirs[k].node \in DOMAIN tree
<1>1. tree[d] \in Dirs
    BY DEF TreeOK
<1> QED BY <1>1 DEF TreeOK, Dirs

LEMMA SetFilesOK ==
    ASSUME NEW tree, TreeOK(tree), NEW d \in DOMAIN tree, NEW files \in Seq(Files)
    PROVE  TreeOK(SetFiles(tree, d, files))
<1> DEFINE dir == [files |-> files, dirs |-> tree[d].dirs]
<1>1. dir \in Dirs /\ dir.dirs = tree[d].dirs
    BY DirOK DEF Dirs
<1> HIDE DEF dir
<1>2. TreeOK([tree EXCEPT ![d] = dir])
    BY <1>1, DirOK, ReplaceDirOK
<1> QED BY <1>2 DEF SetFiles, dir

LEMMA SetDirsOK ==
    ASSUME NEW tree, TreeOK(tree), NEW d \in DOMAIN tree, NEW dirs \in Seq(Subdirs),
           \A k \in DOMAIN dirs : dirs[k].node \in DOMAIN tree
    PROVE  TreeOK(SetDirs(tree, d, dirs))
<1> DEFINE dir == [files |-> tree[d].files, dirs |-> dirs]
<1>1. dir \in Dirs /\ dir.dirs = dirs
    BY DirOK DEF Dirs
<1> HIDE DEF dir
<1>2. TreeOK([tree EXCEPT ![d] = dir])
    BY <1>1, ReplaceDirOK
<1> QED BY <1>2 DEF SetDirs, dir

LEMMA AddFileToOK ==
    ASSUME NEW tree, TreeOK(tree), NEW d \in DOMAIN tree, NEW file \in Files
    PROVE  TreeOK(AddFileTo(tree, d, file))
<1>1. Append(tree[d].files, file) \in Seq(Files)
    BY DirOK
<1> QED BY <1>1, SetFilesOK DEF AddFileTo

LEMMA SetFileOK ==
    ASSUME NEW tree, TreeOK(tree), NEW d \in DOMAIN tree, NEW name, NEW file \in Files
    PROVE  TreeOK(SetFile(tree, d, name, file))
<1> DEFINE files == tree[d].files
           k == FindFile(tree[d], name)
<1>1. files \in Seq(Files)
    BY DirOK
<1> HIDE DEF files, k
<1>2. [files EXCEPT ![k] = file] \in Seq(Files)
    BY <1>1, ReplaceType
<1> QED BY <1>2, SetFilesOK DEF SetFile, files, k

LEMMA RemoveFileFromOK ==
    ASSUME NEW tree, TreeOK(tree), NEW d \in DOMAIN tree, NEW name
    PROVE  TreeOK(RemoveFileFrom(tree, d, name))
<1>1. RemoveUnordered(tree[d].files, FindFile(tree[d], name)) \in Seq(Files)
    BY DirOK, RemoveUnorderedType
<1> QED BY <1>1, SetFilesOK DEF RemoveFileFrom

LEMMA AddDirToOK ==
    ASSUME NEW tree, TreeOK(tree), NEW d \in DOMAIN tree, NEW name \in Names
    PROVE  TreeOK(AddDirTo(tree, d, name))
<1> DEFINE n == Len(tree) + 1
           entry == [name |-> name, node |-> n]
           dirs == Append(tree[d].dirs, entry)
           bigger == Append(tree, EmptyDir)
           dir == [files |-> tree[d].files, dirs |-> dirs]
<1>1. n \in Nodes /\ Len(tree) \in Nat /\ tree \in Seq(Dirs) /\ DOMAIN tree = 1 .. Len(tree)
    BY DEF TreeOK, Nodes
<1>2. EmptyDir \in Dirs /\ EmptyDir.dirs = <<>>
    BY DEF EmptyDir, Dirs
<1>3. /\ bigger \in Seq(Dirs) /\ DOMAIN bigger = DOMAIN tree \union {n}
      /\ \A m \in DOMAIN tree : bigger[m] = tree[m]
      /\ bigger[n] = EmptyDir
    BY <1>1, <1>2
<1>4. TreeOK(bigger)
    <2> HIDE DEF bigger, n
    <2>1. ASSUME NEW m \in DOMAIN bigger, NEW k \in DOMAIN bigger[m].dirs
          PROVE  bigger[m].dirs[k].node \in DOMAIN bigger
        <3>1. CASE m \in DOMAIN tree
            BY <3>1, <2>1, <1>3, DirOK
        <3>2. CASE m = n
            BY <3>2, <2>1, <1>2, <1>3
        <3> QED BY <3>1, <3>2, <1>3
    <2> QED BY <2>1, <1>3 DEF TreeOK
<1>5. dirs \in Seq(Subdirs) /\ \A k \in DOMAIN dirs : dirs[k].node \in DOMAIN bigger
    <2>1. tree[d].dirs \in Seq(Subdirs) /\ \A k \in DOMAIN tree[d].dirs : tree[d].dirs[k].node \in DOMAIN bigger
        BY <1>3, DirOK
    <2>2. entry \in Subdirs /\ entry.node \in DOMAIN bigger
        BY <1>1, <1>3 DEF Subdirs
    <2> HIDE DEF entry, bigger
    <2> QED BY <2>1, <2>2
<1>6. TreeOK([bigger EXCEPT ![d] = dir])
    <2>1. dir \in Dirs /\ dir.dirs = dirs
        BY <1>5, DirOK DEF Dirs
    <2> HIDE DEF dir, bigger, dirs
    <2> QED BY <2>1, <1>4, <1>5, ReplaceDirOK
<1>7. bigger[d] = tree[d]
    BY <1>3
<1> QED BY <1>6, <1>7 DEF AddDirTo, SetDirs

LEMMA RemoveDirFromOK ==
    ASSUME NEW tree, TreeOK(tree), NEW d \in DOMAIN tree, NEW name
    PROVE  TreeOK(RemoveDirFrom(tree, d, name))
<1> DEFINE k == FindDir(tree[d], name)
           gone == tree[d].dirs[k].node
           dirs == RemoveUnordered(tree[d].dirs, k)
           smaller == SetDirs(tree, d, dirs)
<1> HIDE DEF k
<1>1. /\ dirs \in Seq(Subdirs)
      /\ \A l \in DOMAIN dirs : \E m \in DOMAIN tree[d].dirs : dirs[l] = tree[d].dirs[m]
    BY DirOK, RemoveUnorderedType
<1> HIDE DEF dirs
<1>2. TreeOK(smaller)
    BY <1>1, DirOK, SetDirsOK
<1>3. EmptyDir \in Dirs /\ DOMAIN EmptyDir.dirs = {}
    BY DEF EmptyDir, Dirs
<1>4. TreeOK([smaller EXCEPT ![gone] = EmptyDir])
    <2> HIDE DEF smaller, gone
    <2> QED BY <1>2, <1>3, ReplaceDirOK
<1> QED BY <1>4 DEF RemoveDirFrom, k, dirs

\* Replaying an action on a well-formed tree gives a well-formed tree, also
\* where a lookup fails: no doAction leaves an entry without its directory.
THEOREM DoActionOK ==
    ASSUME NEW tree, TreeOK(tree),
           NEW a, a.path \in Seq(Names) \ {<<>>}, a.content \in ContentOf, a.type \in ActionTypes
    PROVE  TreeOK(DoAction(tree, a))
<1> DEFINE d == FindContainingDir(tree, a.path)
           name == Last(a.path)
<1>1. name \in Names
    BY DEF Last
<1>2. CleanFile(name, a.content) \in Files
    BY <1>1 DEF CleanFile, Files
<1>3. CASE ~CanDo(tree, a)
    BY <1>3 DEF DoAction
<1>4. CASE CanDo(tree, a)
    <2>1. d \in DOMAIN tree
        BY <1>4 DEF CanDo
    <2> HIDE DEF d, name
    <2>2. /\ TreeOK(AddFileTo(tree, d, CleanFile(name, a.content)))
          /\ TreeOK(SetFile(tree, d, name, CleanFile(name, a.content)))
          /\ TreeOK(RemoveFileFrom(tree, d, name))
          /\ TreeOK(AddDirTo(tree, d, name))
          /\ TreeOK(RemoveDirFrom(tree, d, name))
        BY <1>1, <1>2, <2>1, AddFileToOK, SetFileOK, RemoveFileFromOK, AddDirToOK, RemoveDirFromOK
    <2>3. \/ DoAction(tree, a) = AddFileTo(tree, d, CleanFile(name, a.content))
          \/ DoAction(tree, a) = SetFile(tree, d, name, CleanFile(name, a.content))
          \/ DoAction(tree, a) = RemoveFileFrom(tree, d, name)
          \/ DoAction(tree, a) = AddDirTo(tree, d, name)
          \/ DoAction(tree, a) = RemoveDirFrom(tree, d, name)
        BY <1>4 DEF DoAction, d, name, ActionTypes, AddFile, EditFile, RemoveFile, AddDirectory, RemoveDirectory
    <2> QED BY <2>2, <2>3
<1> QED BY <1>3, <1>4

-----------------------------------------------------------------------------
\* Lookups in one directory.
LEMMA FindFileAny ==
    ASSUME NEW dir, dir.files \in Seq(Files), NEW name
    PROVE  FindFile(dir, name) # 0 <=> \E k \in DOMAIN dir.files : dir.files[k].name = name
<1> DEFINE I == {k \in 1 .. Len(dir.files) : dir.files[k].name = name}
<1>1. ASSUME I # {} PROVE Min(I) \in I
    <2>1. I \in SUBSET Nat
        OBVIOUS
    <2>2. \E m \in I : \A n \in I : m <= n
        <3> HIDE DEF I
        <3> QED BY <1>1, <2>1, LeastNatural
    <2> HIDE DEF I
    <2> QED BY <2>2 DEF Min
<1>2. FindFile(dir, name) = IF I # {} THEN Min(I) ELSE 0
    BY DEF FindFile, SelectInSeq
<1>3. DOMAIN dir.files = 1 .. Len(dir.files)
    OBVIOUS
<1> QED BY <1>1, <1>2, <1>3

\* The same for the directories in a directory.
LEMMA FindDirResult ==
    ASSUME NEW dir, dir.dirs \in Seq(Subdirs), NEW name
    PROVE  /\ FindDir(dir, name) \in Nat
           /\ FindDir(dir, name) # 0 =>
                /\ FindDir(dir, name) \in DOMAIN dir.dirs
                /\ dir.dirs[FindDir(dir, name)].name = name
           /\ FindDir(dir, name) # 0 <=> \E k \in DOMAIN dir.dirs : dir.dirs[k].name = name
<1> DEFINE I == {k \in 1 .. Len(dir.dirs) : dir.dirs[k].name = name}
<1>1. ASSUME I # {} PROVE Min(I) \in I
    <2>1. I \in SUBSET Nat
        OBVIOUS
    <2>2. \E m \in I : \A n \in I : m <= n
        <3> HIDE DEF I
        <3> QED BY <1>1, <2>1, LeastNatural
    <2> HIDE DEF I
    <2> QED BY <2>2 DEF Min
<1>2. FindDir(dir, name) = IF I # {} THEN Min(I) ELSE 0
    BY DEF FindDir, SelectInSeq
<1>3. DOMAIN dir.dirs = 1 .. Len(dir.dirs)
    OBVIOUS
<1> QED BY <1>1, <1>2, <1>3

LEMMA FindDirIs ==
    ASSUME NEW dir, dir.dirs \in Seq(Subdirs), NamesDiffer(dir), NEW k \in DOMAIN dir.dirs
    PROVE  FindDir(dir, dir.dirs[k].name) = k
<1> DEFINE name == dir.dirs[k].name
<1>1. FindDir(dir, name) # 0
    BY FindDirResult
<1> QED BY <1>1, FindDirResult DEF NamesDiffer

\* Paths, one name at a time.
Child(tree, node, name) ==
    LET k == IF node \in DOMAIN tree THEN FindDir(tree[node], name) ELSE 0
    IN IF k = 0 THEN Null ELSE tree[node].dirs[k].node

WalksUpTo(g, tree, path, n) ==
    g = [k \in 0 .. n |-> IF k = 0 THEN Root ELSE Child(tree, g[k-1], path[k])]

\* Lookups by path are walks; two walks along the same names agree.
LEMMA WalkExists ==
    ASSUME NEW tree, NEW path, NEW n \in Nat
    PROVE  \E g : WalksUpTo(g, tree, path, n)
<1> DEFINE Bad == {m \in Nat : ~\E g : WalksUpTo(g, tree, path, m)}
<1>1. ASSUME Bad # {} PROVE FALSE
    <2>1. PICK m \in Bad : \A l \in Bad : m <= l
        <3>1. Bad \in SUBSET Nat
            OBVIOUS
        <3> HIDE DEF Bad
        <3> QED BY <1>1, <3>1, LeastNatural
    <2>2. m # 0
        <3>1. WalksUpTo([k \in 0 .. 0 |-> Root], tree, path, 0)
            BY DEF WalksUpTo
        <3> QED BY <3>1
    <2>3. m - 1 \in Nat /\ m - 1 \notin Bad
        BY <2>1, <2>2
    <2>4. PICK g : WalksUpTo(g, tree, path, m - 1)
        BY <2>3
    <2> DEFINE h == [k \in 0 .. m |-> IF k = 0 THEN Root ELSE Child(tree, g[k-1], path[k])]
    <2>5. ASSUME NEW k \in 0 .. m - 1 PROVE h[k] = g[k]
        <3>1. g[k] = IF k = 0 THEN Root ELSE Child(tree, g[k-1], path[k])
            BY <2>4 DEF WalksUpTo
        <3>2. k \in 0 .. m
            BY <2>1
        <3> QED BY <3>1, <3>2
    <2>6. ASSUME NEW k \in 0 .. m PROVE h[k] = IF k = 0 THEN Root ELSE Child(tree, h[k-1], path[k])
        <3>1. k # 0 => k - 1 \in 0 .. m - 1
            BY <2>1
        <3>2. k # 0 => h[k-1] = g[k-1]
            <4> HIDE DEF h
            <4> QED BY <3>1, <2>5
        <3>3. h[k] = IF k = 0 THEN Root ELSE Child(tree, g[k-1], path[k])
            OBVIOUS
        <3> HIDE DEF h
        <3> QED BY <3>2, <3>3
    <2>7. h = [k \in 0 .. m |-> h[k]]
        OBVIOUS
    <2>8. WalksUpTo(h, tree, path, m)
        <3> HIDE DEF h
        <3> QED BY <2>6, <2>7 DEF WalksUpTo
    <2>9. m \notin Bad
        <3> HIDE DEF h
        <3> QED BY <2>8
    <2> QED BY <2>1, <2>9
<1> QED BY <1>1

SameUpTo(p, q, n) == \A l \in 1 .. n : p[l] = q[l]

\* Walks along paths that begin with the same names agree.
LEMMA WalksAgree ==
    ASSUME NEW tree, NEW p, NEW q, NEW m \in Nat, NEW n \in Nat, NEW g, NEW h,
           WalksUpTo(g, tree, p, m), WalksUpTo(h, tree, q, n),
           NEW k \in Nat, k <= m, k <= n, SameUpTo(p, q, k)
    PROVE  g[k] = h[k]
<1> DEFINE Bad == {l \in Nat : l <= k /\ g[l] # h[l]}
<1>1. ASSUME Bad # {} PROVE FALSE
    <2>1. PICK l \in Bad : \A i \in Bad : l <= i
        <3>1. Bad \in SUBSET Nat
            OBVIOUS
        <3> HIDE DEF Bad
        <3> QED BY <1>1, <3>1, LeastNatural
    <2>2. g[l] = IF l = 0 THEN Root ELSE Child(tree, g[l-1], p[l])
        BY <2>1 DEF WalksUpTo
    <2>3. h[l] = IF l = 0 THEN Root ELSE Child(tree, h[l-1], q[l])
        BY <2>1 DEF WalksUpTo
    <2>4. l # 0 => l - 1 \in Nat /\ l - 1 \notin Bad /\ l - 1 <= k /\ p[l] = q[l]
        BY <2>1 DEF SameUpTo
    <2> QED BY <2>1, <2>2, <2>3, <2>4
<1> QED BY <1>1

LEMMA DirByWalk ==
    ASSUME NEW tree, NEW path \in Seq(Names), NEW g, WalksUpTo(g, tree, path, Len(path))
    PROVE  FindDirByPath(tree, path) = g[Len(path)]
<1> DEFINE w == CHOOSE h : WalksUpTo(h, tree, path, Len(path))
<1>1. WalksUpTo(w, tree, path, Len(path))
    BY WalkExists
<1>2. FindDirByPath(tree, path) = w[Len(path)]
    BY DEF FindDirByPath, WalksUpTo, Child
<1>3. w[Len(path)] = g[Len(path)]
    <2>1. SameUpTo(path, path, Len(path)) /\ Len(path) \in Nat
        BY DEF SameUpTo
    <2> HIDE DEF w
    <2> QED BY <1>1, <2>1, WalksAgree
<1> QED BY <1>2, <1>3

LEMMA RootPath == \A tree : FindDirByPath(tree, <<>>) = Root
<1> TAKE tree
<1>1. PICK g : WalksUpTo(g, tree, <<>>, 0)
    BY WalkExists
<1>2. g[0] = Root
    BY <1>1 DEF WalksUpTo
<1>3. <<>> \in Seq(Names) /\ Len(<<>>) = 0
    OBVIOUS
<1> QED BY <1>1, <1>2, <1>3, DirByWalk

\* A path is the path of its directory and its last name.
LEMMA SplitPath ==
    ASSUME NEW p \in Seq(Names) \ {<<>>}
    PROVE  /\ Front(p) \in Seq(Names) /\ Last(p) \in Names /\ Len(Front(p)) = Len(p) - 1
           /\ p = Append(Front(p), Last(p)) /\ Len(p) \in Nat \ {0}
           /\ \A l \in 1 .. Len(p) - 1 : Front(p)[l] = p[l]
           /\ Last(p) = p[Len(p)]
<1>1. Len(p) \in Nat \ {0} /\ DOMAIN p = 1 .. Len(p) /\ \A l \in 1 .. Len(p) : p[l] \in Names
    BY LenProperties, ElementOfSeq, EmptySeq
<1>2. Last(p) = p[Len(p)] /\ Last(p) \in Names
    BY <1>1 DEF Last
<1>3. /\ Front(p) \in Seq(Names) /\ Len(Front(p)) = Len(p) - 1
      /\ \A l \in 1 .. Len(p) - 1 : Front(p)[l] = p[l]
    BY <1>1, SubSeqProperties DEF Front
<1>4. p = Append(Front(p), Last(p))
    <2> DEFINE f == Front(p)
               x == Last(p)
    <2>1. f \in Seq(Names) /\ x \in Names /\ Len(f) = Len(p) - 1 /\ x = p[Len(p)]
          /\ \A l \in 1 .. Len(p) - 1 : f[l] = p[l]
        BY <1>2, <1>3
    <2> HIDE DEF f, x
    <2>2. Append(f, x) \in Seq(Names) /\ Len(Append(f, x)) = Len(p)
        <3>1. Append(f, x) \in Seq(Names) /\ Len(Append(f, x)) = Len(f) + 1
            BY ONLY <2>1
        <3> QED BY <1>1, <2>1, <3>1
    <2>3. \A l \in 1 .. Len(p) : Append(f, x)[l] = p[l]
        BY <1>1, <2>1
    <2>4. Append(f, x) = p
        BY <2>2, <2>3, SeqEqual
    <2> QED BY <2>4 DEF f, x
<1> QED BY <1>1, <1>2, <1>3, <1>4

LEMMA AppendPath ==
    ASSUME NEW p \in Seq(Names), NEW n \in Names
    PROVE  /\ Append(p, n) \in Seq(Names) \ {<<>>}
           /\ Front(Append(p, n)) = p /\ Last(Append(p, n)) = n
BY DEF Front, Last

\* A lookup by path, one name at a time.
LEMMA LongerPath ==
    ASSUME NEW tree, NEW p \in Seq(Names) \ {<<>>}
    PROVE  FindDirByPath(tree, p) = Child(tree, FindDirByPath(tree, Front(p)), Last(p))
<1> DEFINE n == Len(p)
<1>1. n \in Nat \ {0} /\ Len(Front(p)) = n - 1 /\ Front(p) \in Seq(Names) /\ Last(p) = p[n]
      /\ \A l \in 1 .. n - 1 : Front(p)[l] = p[l]
    BY SplitPath
<1>2. PICK g : WalksUpTo(g, tree, p, n)
    BY <1>1, WalkExists
<1>3. PICK h : WalksUpTo(h, tree, Front(p), n - 1)
    <2>1. n - 1 \in Nat
        BY <1>1
    <2> HIDE DEF n
    <2> QED BY ONLY <2>1, WalkExists
<1>4. FindDirByPath(tree, p) = g[n]
    <2>1. p \in Seq(Names) /\ WalksUpTo(g, tree, p, Len(p))
        BY <1>2
    <2> QED BY <2>1, DirByWalk
<1>5. FindDirByPath(tree, Front(p)) = h[n-1]
    BY <1>1, <1>3, DirByWalk
<1>6. g[n-1] = h[n-1]
    <2>1. n \in Nat /\ n - 1 \in Nat /\ n - 1 <= n /\ n - 1 <= n - 1 /\ \A l \in 1 .. n - 1 : p[l] = Front(p)[l]
        BY <1>1
    <2> DEFINE m == n - 1
               q == Front(p)
    <2>2. /\ n \in Nat /\ m \in Nat /\ m <= n /\ m <= m /\ SameUpTo(p, q, m)
          /\ WalksUpTo(g, tree, p, n) /\ WalksUpTo(h, tree, q, m)
        BY <1>2, <1>3, <2>1 DEF SameUpTo
    <2> HIDE DEF n, m, q
    <2>3. g[m] = h[m]
        BY ONLY <2>2, WalksAgree
    <2> QED BY <2>3 DEF m
<1>7. g[n] = Child(tree, g[n-1], p[n])
    <2> HIDE DEF n
    <2> QED BY <1>1, <1>2 DEF WalksUpTo
<1> QED BY <1>1, <1>4, <1>5, <1>6, <1>7

\* NULL is no node.
LEMMA NodesArePositive ==
    ASSUME NEW tree, TreeOK(tree)
    PROVE  /\ tree \in Seq(Dirs) /\ DOMAIN tree = 1 .. Len(tree) /\ Len(tree) \in Nat
           /\ Null \notin DOMAIN tree /\ Root \in DOMAIN tree
<1>1. tree \in Seq(Dirs) /\ Root \in DOMAIN tree
    BY DEF TreeOK
<1>2. DOMAIN tree = 1 .. Len(tree) /\ Len(tree) \in Nat
    BY <1>1, LenProperties
<1> QED BY <1>1, <1>2 DEF Null

\* What the lookup of one name reaches.
LEMMA ChildOf ==
    ASSUME NEW tree, TreeOK(tree), NEW n, NEW name
    PROVE  /\ Child(tree, n, name) \in DOMAIN tree \union {Null}
           /\ Child(tree, n, name) # Null =>
                /\ n \in DOMAIN tree /\ FindDir(tree[n], name) \in DOMAIN tree[n].dirs
                /\ tree[n].dirs[FindDir(tree[n], name)].name = name
                /\ Child(tree, n, name) = tree[n].dirs[FindDir(tree[n], name)].node
           /\ Child(tree, n, name) # Null <=> n \in DOMAIN tree /\ FindDir(tree[n], name) # 0
<1>1. CASE n \in DOMAIN tree
    <2>1. tree[n].dirs \in Seq(Subdirs)
          /\ \A k \in DOMAIN tree[n].dirs : tree[n].dirs[k].node \in DOMAIN tree
        BY <1>1, DirOK
    <2>2. Null \notin DOMAIN tree
        BY NodesArePositive
    <2>3. FindDir(tree[n], name) # 0 =>
            FindDir(tree[n], name) \in DOMAIN tree[n].dirs /\ tree[n].dirs[FindDir(tree[n], name)].name = name
        BY <2>1, FindDirResult
    <2> QED BY <1>1, <2>1, <2>2, <2>3 DEF Child
<1>2. CASE n \notin DOMAIN tree
    BY <1>2 DEF Child
<1> QED BY <1>1, <1>2

LEMMA ChildIn ==
    ASSUME NEW tree, TreeOK(tree), NEW n, NEW name, Child(tree, n, name) # Null
    PROVE  /\ n \in DOMAIN tree /\ FindDir(tree[n], name) \in DOMAIN tree[n].dirs
           /\ tree[n].dirs[FindDir(tree[n], name)].name = name
           /\ Child(tree, n, name) = tree[n].dirs[FindDir(tree[n], name)].node
BY ChildOf

\* A directory is entered at one place.
LEMMA EntryIs ==
    ASSUME NEW tree, EntriesDiffer(tree), NEW m \in DOMAIN tree, NEW n \in DOMAIN tree,
           NEW k \in DOMAIN tree[m].dirs, NEW l \in DOMAIN tree[n].dirs,
           tree[m].dirs[k].node = tree[n].dirs[l].node
    PROVE  m = n /\ k = l
BY DEF EntriesDiffer

\* A lookup by path returns a node or NULL.
LEMMA DirIsNode ==
    ASSUME NEW tree, TreeOK(tree), NEW p \in Seq(Names)
    PROVE  /\ FindDirByPath(tree, p) \in DOMAIN tree \union {Null}
           /\ FindDirByPath(tree, p) \in DOMAIN tree <=> FindDirByPath(tree, p) # Null
<1>1. FindDirByPath(tree, p) \in DOMAIN tree \union {Null}
    <2>1. CASE p = <<>>
        BY <2>1, RootPath, NodesArePositive
    <2>2. CASE p # <<>>
        <3>1. FindDirByPath(tree, p) = Child(tree, FindDirByPath(tree, Front(p)), Last(p))
            BY <2>2, LongerPath
        <3> QED BY <3>1, ChildOf
    <2> QED BY <2>1, <2>2
<1> QED BY <1>1, NodesArePositive

\* The directory that holds what a path names, and the one a path names.
LEMMA DirExistsIs ==
    ASSUME NEW tree, TreeOK(tree), NEW p \in Seq(Names) \ {<<>>}
    PROVE  /\ FindContainingDir(tree, p) = FindDirByPath(tree, Front(p))
           /\ DirExists(tree, p) <=> FindDirByPath(tree, p) \in DOMAIN tree
           /\ DirExists(tree, p) => FindContainingDir(tree, p) \in DOMAIN tree
<1> DEFINE d == FindContainingDir(tree, p)
<1>1. d = FindDirByPath(tree, Front(p))
    BY DEF FindContainingDir
<1>2. FindDirByPath(tree, p) = Child(tree, d, Last(p))
    BY <1>1, LongerPath
<1>3. DirExists(tree, p) <=> d \in DOMAIN tree /\ FindDir(tree[d], Last(p)) # 0
    BY DEF DirExists
<1> HIDE DEF d
<1>4. FindDirByPath(tree, p) \in DOMAIN tree <=> Child(tree, d, Last(p)) # Null
    BY <1>2, DirIsNode
<1> QED BY <1>1, <1>3, <1>4, ChildOf DEF d

\* Two paths to one directory are one path.
LEMMA EnteredOnce ==
    ASSUME NEW tree, IsTree(tree), NEW p \in Seq(Names), NEW q \in Seq(Names),
           FindDirByPath(tree, p) = FindDirByPath(tree, q), FindDirByPath(tree, p) # Null
    PROVE  p = q
<1> DEFINE At(r) == FindDirByPath(tree, r)
           Bad == {n \in Nat : \E r, s \in Seq(Names) : Len(r) = n /\ At(r) = At(s) /\ At(r) # Null /\ r # s}
<1>0. TreeOK(tree)
    BY DEF IsTree
<1>1. ASSUME NEW r \in Seq(Names), r # <<>>, At(r) # Null
      PROVE  At(r) # Root
    <2>1. At(r) = Child(tree, At(Front(r)), Last(r))
        BY <1>1, LongerPath
    <2> HIDE DEF At
    <2>2. \E n \in DOMAIN tree : \E k \in DOMAIN tree[n].dirs : At(r) = tree[n].dirs[k].node
        BY <1>0, <1>1, <2>1, ChildOf
    <2> QED BY <2>2 DEF IsTree, EntriesDiffer
<1>2. ASSUME Bad # {} PROVE FALSE
    <2>1. PICK n \in Bad : \A l \in Bad : n <= l
        <3>1. Bad \in SUBSET Nat
            OBVIOUS
        <3> HIDE DEF Bad
        <3> QED BY <1>2, <3>1, LeastNatural
    <2>2. PICK r \in Seq(Names), s \in Seq(Names) : Len(r) = n /\ At(r) = At(s) /\ At(r) # Null /\ r # s
        BY <2>1
    <2>3. r # <<>> /\ s # <<>>
        BY <1>1, <2>2, RootPath
    <2>4. At(r) = Child(tree, At(Front(r)), Last(r)) /\ At(s) = Child(tree, At(Front(s)), Last(s))
        BY <2>3, LongerPath
    <2>5. /\ Front(r) \in Seq(Names) /\ Front(s) \in Seq(Names) /\ Len(Front(r)) = n - 1 /\ n - 1 \in Nat
          /\ r = Append(Front(r), Last(r)) /\ s = Append(Front(s), Last(s))
        BY <2>2, <2>3, SplitPath
    <2>6. At(Front(r)) = At(Front(s)) /\ At(Front(r)) # Null /\ Last(r) = Last(s)
        <3> DEFINE a == At(Front(r))
                   b == At(Front(s))
                   x == Last(r)
                   y == Last(s)
                   k == FindDir(tree[a], x)
                   l == FindDir(tree[b], y)
        <3>0. /\ At(r) = Child(tree, a, x) /\ At(r) = Child(tree, b, y)
              /\ Child(tree, a, x) # Null /\ Child(tree, b, y) # Null
            BY <2>2, <2>4
        <3> HIDE DEF At, Bad, a, b, x, y
        <3>1. /\ a \in DOMAIN tree /\ k \in DOMAIN tree[a].dirs
              /\ tree[a].dirs[k].name = x /\ At(r) = tree[a].dirs[k].node
            <4>1. TreeOK(tree) /\ Child(tree, a, x) # Null /\ At(r) = Child(tree, a, x)
                BY <1>0, <3>0
            <4> QED BY ONLY <4>1, ChildIn
        <3>2. /\ b \in DOMAIN tree /\ l \in DOMAIN tree[b].dirs
              /\ tree[b].dirs[l].name = y /\ At(r) = tree[b].dirs[l].node
            <4>1. TreeOK(tree) /\ Child(tree, b, y) # Null /\ At(r) = Child(tree, b, y)
                BY <1>0, <3>0
            <4> QED BY ONLY <4>1, ChildIn
        <3> HIDE DEF k, l
        <3>3. a = b /\ k = l
            <4>1. EntriesDiffer(tree)
                BY DEF IsTree
            <4> QED BY <4>1, <3>1, <3>2, EntryIs
        <3>4. a # Null
            BY <1>0, <3>1, NodesArePositive
        <3> QED BY <3>1, <3>2, <3>3, <3>4 DEF a, b, x, y
    <2>7. n - 1 \notin Bad
        <3>1. ~(n <= n - 1)
            BY <2>5
        <3> HIDE DEF Bad
        <3> QED BY <2>1, <3>1
    <2>8. Front(r) = Front(s)
        BY <2>5, <2>6, <2>7
    <2> QED BY <2>2, <2>5, <2>6, <2>8
<1>3. Len(p) \in Nat
    OBVIOUS
<1> QED BY <1>2, <1>3

\* Trees with the same entries of directories have the same paths.
LEMMA SameChildren ==
    ASSUME NEW t, NEW u, \A n, name : Child(u, n, name) = Child(t, n, name), NEW p \in Seq(Names)
    PROVE  FindDirByPath(u, p) = FindDirByPath(t, p)
<1>1. Len(p) \in Nat
    OBVIOUS
<1>2. PICK g : WalksUpTo(g, t, p, Len(p))
    BY <1>1, WalkExists
<1>3. WalksUpTo(g, u, p, Len(p))
    BY <1>2 DEF WalksUpTo
<1> QED BY <1>2, <1>3, DirByWalk

\* One entry of a directory comes, goes or changes: paths that do not end there
\* stay, as what it leads to has no entries itself, before or after.
OneEntry(t, u, p, new) ==
    \A n, name : Child(u, n, name) =
        IF n = FindContainingDir(t, p) /\ name = Last(p) THEN new ELSE Child(t, n, name)
NoEntries(t, n) == \A name : Child(t, n, name) = Null

\* By the shortest path that shows otherwise.
LEMMA OneEntryChanges ==
    ASSUME NEW t, NEW u, IsTree(t), NEW p \in Seq(Names) \ {<<>>},
           FindContainingDir(t, p) \in DOMAIN t, NEW new,
           OneEntry(t, u, p, new), NoEntries(u, new), NoEntries(t, FindDirByPath(t, p)),
           NEW q \in Seq(Names)
    PROVE  FindDirByPath(u, q) = IF q = p THEN new ELSE FindDirByPath(t, q)
<1> DEFINE At(r) == IF r = p THEN new ELSE FindDirByPath(t, r)
           Bad == {n \in Nat : \E r \in Seq(Names) : Len(r) = n /\ FindDirByPath(u, r) # At(r)}
<1>1. TreeOK(t) /\ FindContainingDir(t, p) = FindDirByPath(t, Front(p)) /\ FindContainingDir(t, p) # Null
    BY DirExistsIs, NodesArePositive DEF IsTree
<1> USE DEF OneEntry, NoEntries
<1>2. ASSUME Bad # {} PROVE FALSE
    <2>1. PICK n \in Bad : \A l \in Bad : n <= l
        <3>1. Bad \in SUBSET Nat
            OBVIOUS
        <3> HIDE DEF Bad
        <3> QED BY <1>2, <3>1, LeastNatural
    <2>2. PICK r \in Seq(Names) : Len(r) = n /\ FindDirByPath(u, r) # At(r)
        BY <2>1
    <2>3. r # <<>>
        <3>1. FindDirByPath(u, <<>>) = Root /\ FindDirByPath(t, <<>>) = Root
            BY RootPath
        <3> QED BY <2>2, <3>1
    <2>4. /\ Front(r) \in Seq(Names) /\ Len(Front(r)) = n - 1 /\ n - 1 \in Nat
          /\ r = Append(Front(r), Last(r)) /\ p = Append(Front(p), Last(p)) /\ Front(p) \in Seq(Names)
        BY <2>2, <2>3, SplitPath
    <2>5. FindDirByPath(u, Front(r)) = At(Front(r))
        <3>1. n - 1 \notin Bad
            <4>1. ~(n <= n - 1)
                BY <2>4
            <4> HIDE DEF Bad
            <4> QED BY <2>1, <4>1
        <3> QED BY <2>4, <3>1
    <2>6. /\ FindDirByPath(u, r) = Child(u, At(Front(r)), Last(r))
          /\ FindDirByPath(t, r) = Child(t, FindDirByPath(t, Front(r)), Last(r))
        BY <2>3, <2>5, LongerPath
    <2>7. CASE Front(r) = p
        <3>1. r # p
            <4>1. Len(r) # Len(Front(r))
                BY <2>2, <2>4
            <4> QED BY <2>7, <4>1
        <3>2. FindDirByPath(u, r) = Null
            BY <2>6, <2>7
        <3>3. FindDirByPath(t, r) = Null
            BY <2>6, <2>7
        <3> QED BY <2>2, <3>1, <3>2, <3>3
    <2>8. CASE Front(r) # p
        <3>1. CASE FindDirByPath(t, Front(r)) = FindContainingDir(t, p) /\ Last(r) = Last(p)
            <4>1. Front(r) = Front(p)
                BY <1>1, <2>4, <3>1, EnteredOnce
            <4>2. r = p
                BY <2>4, <3>1, <4>1
            <4>3. FindDirByPath(u, r) = new
                BY <2>6, <2>8, <3>1
            <4> QED BY <2>2, <4>2, <4>3
        <3>2. CASE ~(FindDirByPath(t, Front(r)) = FindContainingDir(t, p) /\ Last(r) = Last(p))
            <4>1. FindDirByPath(u, r) = FindDirByPath(t, r)
                BY <2>6, <2>8, <3>2
            <4>2. r # p
                BY <1>1, <3>2
            <4> QED BY <2>2, <4>1, <4>2
        <3> QED BY <3>1, <3>2
    <2> QED BY <2>7, <2>8
<1>3. Len(q) \in Nat
    OBVIOUS
<1> QED BY <1>2, <1>3

\* What a new sequence of files in a directory leaves as it was.
FilesDiffer(files) == \A k, l \in DOMAIN files : files[k].name = files[l].name => k = l

LEMMA SetFilesKeepsTree ==
    ASSUME NEW t, IsTree(t), NEW d \in DOMAIN t, NEW files \in Seq(Files), FilesDiffer(files)
    PROVE  /\ IsTree(SetFiles(t, d, files))
           /\ DOMAIN SetFiles(t, d, files) = DOMAIN t
           /\ \A q \in Seq(Names) : FindDirByPath(SetFiles(t, d, files), q) = FindDirByPath(t, q)
           /\ SetFiles(t, d, files)[d].files = files
           /\ \A n \in DOMAIN t : n # d => SetFiles(t, d, files)[n] = t[n]
           /\ \A n \in DOMAIN t : SetFiles(t, d, files)[n].dirs = t[n].dirs
<1> DEFINE u == SetFiles(t, d, files)
<1>1. /\ DOMAIN u = DOMAIN t /\ u[d].files = files
      /\ \A n \in DOMAIN t : n # d => u[n] = t[n]
      /\ \A n \in DOMAIN t : u[n].dirs = t[n].dirs
    BY DEF SetFiles
<1>2. TreeOK(u)
    BY SetFilesOK DEF IsTree
<1> HIDE DEF u
<1>3. \A n, name : Child(u, n, name) = Child(t, n, name)
    BY <1>1 DEF Child, FindDir
<1>4. \A n \in DOMAIN u : NamesDiffer(u[n])
    BY <1>1 DEF NamesDiffer, IsTree, FilesDiffer
<1>5. EntriesDiffer(u)
    BY <1>1 DEF EntriesDiffer, IsTree
<1> QED BY <1>1, <1>2, <1>3, <1>4, <1>5, SameChildren DEF IsTree, u

-----------------------------------------------------------------------------
\* What paths show: is there a directory, and which file.
HasDir(t, p) == FindDirByPath(t, p) # Null
Filed(t, p) == IF FileExists(t, p) THEN {FileAt(t, p)} ELSE {}

\* The files of a sequence that have a name.
Named(files, name) == {files[k] : k \in {l \in DOMAIN files : files[l].name = name}}

\* The file at a path is the one of that name in the directory that holds it.
LEMMA FiledIs ==
    ASSUME NEW t, IsTree(t), NEW p \in Seq(Names) \ {<<>>}
    PROVE  LET d == FindContainingDir(t, p)
           IN /\ d \in DOMAIN t <=> HasDir(t, Front(p))
              /\ Filed(t, p) = IF d \in DOMAIN t THEN Named(t[d].files, Last(p)) ELSE {}
<1> DEFINE d == FindContainingDir(t, p)
<1>1. d \in DOMAIN t <=> HasDir(t, Front(p))
    BY SplitPath, DirIsNode DEF IsTree, HasDir, FindContainingDir
<1>2. ASSUME d \in DOMAIN t PROVE Filed(t, p) = Named(t[d].files, Last(p))
    <2> DEFINE k == FindFile(t[d], Last(p))
    <2>1. /\ FileExists(t, p) <=> k # 0
          /\ FileAt(t, p) = t[d].files[k]
        BY <1>2 DEF FileExists, FileAt
    <2>2. t[d].files \in Seq(Files) /\ NamesDiffer(t[d])
        BY <1>2, DirOK DEF IsTree
    <2>3. k # 0 => k \in DOMAIN t[d].files /\ t[d].files[k].name = Last(p)
        BY <2>2, FindFileResult
    <2>4. k # 0 <=> \E l \in DOMAIN t[d].files : t[d].files[l].name = Last(p)
        BY <2>2, FindFileAny
    <2> HIDE DEF d, k
    <2>5. CASE k # 0
        <3>1. Named(t[d].files, Last(p)) = {t[d].files[k]}
            BY <2>2, <2>3, <2>5 DEF Named, NamesDiffer
        <3> QED BY <2>1, <2>5, <3>1 DEF Filed
    <2>6. CASE k = 0
        <3>1. Named(t[d].files, Last(p)) = {}
            BY <2>4, <2>6 DEF Named
        <3> QED BY <2>1, <2>6, <3>1 DEF Filed
    <2> QED BY <2>5, <2>6
<1>3. ASSUME d \notin DOMAIN t PROVE Filed(t, p) = {}
    BY <1>3 DEF Filed, FileExists
<1> QED BY <1>1, <1>2, <1>3

LEMMA FiledOfDir ==
    ASSUME NEW t, IsTree(t), NEW p \in Seq(Names) \ {<<>>}
    PROVE  /\ Filed(t, p) # {} => HasDir(t, Front(p))
           /\ Filed(t, p) # {} <=> FileExists(t, p)
           /\ FileExists(t, p) => /\ Filed(t, p) = {FileAt(t, p)} /\ FileAt(t, p) \in Files
                                  /\ FileAt(t, p).name = Last(p)
<1> DEFINE d == FindContainingDir(t, p)
<1>1. FileExists(t, p) => d \in DOMAIN t
    BY DEF FileExists
<1>2. d \in DOMAIN t => \A f \in Named(t[d].files, Last(p)) : f \in Files /\ f.name = Last(p)
    <2> SUFFICES ASSUME d \in DOMAIN t, NEW f \in Named(t[d].files, Last(p))
                 PROVE  f \in Files /\ f.name = Last(p)
        OBVIOUS
    <2>1. t[d].files \in Seq(Files)
        BY DirOK DEF IsTree
    <2> QED BY <2>1, ElementOfSeq DEF Named
<1>3. FileExists(t, p) => FileAt(t, p) \in Filed(t, p)
    BY DEF Filed
<1> QED BY <1>1, <1>2, <1>3, FiledIs DEF Filed

\* What a new sequence of files does to what paths show.
LEMMA SetFilesView ==
    ASSUME NEW t, IsTree(t), NEW p \in Seq(Names) \ {<<>>}, HasDir(t, Front(p)),
           NEW files \in Seq(Files), FilesDiffer(files),
           \A name \in Names : name # Last(p) =>
                Named(files, name) = Named(t[FindContainingDir(t, p)].files, name)
    PROVE  LET u == SetFiles(t, FindContainingDir(t, p), files)
           IN /\ IsTree(u)
              /\ \A q \in Seq(Names) : FindDirByPath(u, q) = FindDirByPath(t, q)
              /\ \A q \in Seq(Names) \ {<<>>} :
                    Filed(u, q) = IF q = p THEN Named(files, Last(p)) ELSE Filed(t, q)
<1> DEFINE d == FindContainingDir(t, p)
           u == SetFiles(t, d, files)
<1>1. d \in DOMAIN t
    BY FiledIs
<1>2. /\ IsTree(u) /\ DOMAIN u = DOMAIN t
      /\ \A q \in Seq(Names) : FindDirByPath(u, q) = FindDirByPath(t, q)
      /\ u[d].files = files /\ \A n \in DOMAIN t : n # d => u[n] = t[n]
    BY <1>1, SetFilesKeepsTree
<1>3. ASSUME NEW q \in Seq(Names) \ {<<>>}
      PROVE  Filed(u, q) = IF q = p THEN Named(files, Last(p)) ELSE Filed(t, q)
    <2> DEFINE e == FindContainingDir(t, q)
    <2>1. e = FindDirByPath(t, Front(q)) /\ FindContainingDir(u, q) = e
        BY <1>2, SplitPath DEF FindContainingDir
    <2>2. d = FindDirByPath(t, Front(p)) /\ d # Null
        BY DEF HasDir, FindContainingDir
    <2>3. /\ Filed(t, q) = IF e \in DOMAIN t THEN Named(t[e].files, Last(q)) ELSE {}
          /\ Filed(u, q) = IF e \in DOMAIN t THEN Named(u[e].files, Last(q)) ELSE {}
        BY <1>2, <2>1, FiledIs
    <2>4. CASE e = d
        <3>1. Front(p) = Front(q)
            BY <2>1, <2>2, <2>4, SplitPath, EnteredOnce
        <3>2. Last(q) \in Names /\ (q = p <=> Last(q) = Last(p))
            BY <3>1, SplitPath
        <3> HIDE DEF d, e, u
        <3>3. Named(u[e].files, Last(q)) = Named(files, Last(q))
            BY <1>2, <2>4
        <3>4. q # p => Named(files, Last(q)) = Named(t[e].files, Last(q))
            BY <2>4, <3>2 DEF d
        <3> QED BY <1>1, <2>3, <2>4, <3>2, <3>3, <3>4
    <2>5. CASE e # d
        <3>1. q # p
            BY <2>5
        <3> HIDE DEF d, e, u
        <3>2. e \in DOMAIN t => u[e] = t[e]
            BY <1>2, <2>5
        <3> QED BY <2>3, <3>1, <3>2
    <2> QED BY <2>4, <2>5
<1> QED BY <1>2, <1>3

\* The updates of files, as paths show them.
FileUpdate(t, u, p, now) ==
    /\ IsTree(u)
    /\ \A q \in Seq(Names) : FindDirByPath(u, q) = FindDirByPath(t, q)
    /\ \A q \in Seq(Names) \ {<<>>} : Filed(u, q) = IF q = p THEN now ELSE Filed(t, q)

\* A file is added, replaced, removed: nothing shows but at its path.
LEMMA AddFileView ==
    ASSUME NEW t, IsTree(t), NEW p \in Seq(Names) \ {<<>>}, HasDir(t, Front(p)), Filed(t, p) = {},
           NEW f \in Files, f.name = Last(p)
    PROVE  FileUpdate(t, AddFileTo(t, FindContainingDir(t, p), f), p, {f})
<1> DEFINE d == FindContainingDir(t, p)
           old == t[d].files
           files == Append(old, f)
<1>1. d \in DOMAIN t /\ Named(old, Last(p)) = {}
    BY FiledIs
<1>2. old \in Seq(Files) /\ NamesDiffer(t[d])
    BY <1>1, DirOK DEF IsTree
<1>3. FilesDiffer(old)
    BY <1>2 DEF NamesDiffer, FilesDiffer
<1>4. AddFileTo(t, d, f) = SetFiles(t, d, files)
    BY DEF AddFileTo
<1> HIDE DEF old
<1>5. /\ files \in Seq(Files) /\ Len(files) = Len(old) + 1 /\ Len(old) \in Nat
      /\ DOMAIN old = 1 .. Len(old) /\ DOMAIN files = 1 .. Len(old) + 1
      /\ \A k \in 1 .. Len(old) : files[k] = old[k]
      /\ files[Len(old) + 1] = f
    BY <1>2
<1> HIDE DEF files
<1>6. \A k \in DOMAIN old : old[k].name # Last(p)
    BY <1>1 DEF Named
<1>7. FilesDiffer(files)
    <2> SUFFICES ASSUME NEW k \in DOMAIN files, NEW l \in DOMAIN files, files[k].name = files[l].name
                 PROVE  k = l
        BY DEF FilesDiffer
    <2>1. CASE k \in DOMAIN old /\ l \in DOMAIN old
        BY <1>3, <1>5, <2>1 DEF FilesDiffer
    <2>2. CASE k \in DOMAIN old /\ l = Len(old) + 1
        BY <1>5, <1>6, <2>2
    <2>3. CASE k = Len(old) + 1 /\ l \in DOMAIN old
        BY <1>5, <1>6, <2>3
    <2> QED BY <1>5, <2>1, <2>2, <2>3
<1>8. ASSUME NEW name
      PROVE  Named(files, name) = IF name = Last(p) THEN {f} ELSE Named(old, name)
    <2>1. ASSUME NEW k \in DOMAIN files
          PROVE  (k \in DOMAIN old /\ files[k] = old[k]) \/ (k = Len(old) + 1 /\ files[k] = f)
        <3>1. k \in 1 .. Len(old) \/ k = Len(old) + 1
            BY <1>5
        <3> QED BY <1>5, <3>1
    <2>2. DOMAIN old \subseteq DOMAIN files /\ Len(old) + 1 \in DOMAIN files
        BY <1>5
    <2>3. CASE name = Last(p)
        BY <1>5, <1>6, <2>1, <2>2, <2>3 DEF Named
    <2>4. CASE name # Last(p)
        <3>1. {l \in DOMAIN files : files[l].name = name} = {l \in DOMAIN old : old[l].name = name}
            BY <1>5, <2>1, <2>2, <2>4
        <3>2. \A l \in DOMAIN old : files[l] = old[l]
            BY <1>5
        <3> QED BY <2>4, <3>1, <3>2 DEF Named
    <2> QED BY <2>3, <2>4
<1> HIDE DEF d
<1>9. FileUpdate(t, SetFiles(t, d, files), p, Named(files, Last(p)))
    BY <1>5, <1>7, <1>8, SetFilesView DEF FileUpdate, d, old
<1> QED BY <1>4, <1>8, <1>9 DEF d

LEMMA SetFileView ==
    ASSUME NEW t, IsTree(t), NEW p \in Seq(Names) \ {<<>>}, FileExists(t, p),
           NEW f \in Files, f.name = Last(p)
    PROVE  FileUpdate(t, SetFile(t, FindContainingDir(t, p), Last(p), f), p, {f})
<1> DEFINE d == FindContainingDir(t, p)
           old == t[d].files
           n == FindFile(t[d], Last(p))
           files == [old EXCEPT ![n] = f]
<1>1. d \in DOMAIN t /\ n # 0 /\ HasDir(t, Front(p))
    BY FiledIs DEF FileExists
<1>2. old \in Seq(Files) /\ NamesDiffer(t[d])
    BY <1>1, DirOK DEF IsTree
<1>3. FilesDiffer(old)
    BY <1>2 DEF NamesDiffer, FilesDiffer
<1>4. SetFile(t, d, Last(p), f) = SetFiles(t, d, files)
    BY DEF SetFile
<1>5. n \in DOMAIN old /\ old[n].name = Last(p)
    BY <1>1, <1>2, FindFileResult
<1> HIDE DEF old, n
<1>6. files \in Seq(Files)
    BY <1>2, ReplaceType
<1>7. /\ DOMAIN files = DOMAIN old /\ files[n] = f
      /\ \A k \in DOMAIN old : k # n => files[k] = old[k]
    BY <1>5
<1> HIDE DEF files
<1>8. \A k \in DOMAIN old : files[k].name = old[k].name
    BY <1>5, <1>7
<1>9. FilesDiffer(files)
    BY <1>3, <1>7, <1>8 DEF FilesDiffer
<1>10. {l \in DOMAIN files : files[l].name = Last(p)} = {n}
    BY <1>3, <1>5, <1>7, <1>8 DEF FilesDiffer
<1>11. Named(files, Last(p)) = {f}
    BY <1>7, <1>10 DEF Named
<1>12. ASSUME NEW name, name # Last(p) PROVE Named(files, name) = Named(old, name)
    <2>1. {l \in DOMAIN files : files[l].name = name} = {l \in DOMAIN old : old[l].name = name}
        BY <1>7, <1>8
    <2>2. \A l \in DOMAIN old : old[l].name = name => files[l] = old[l]
        BY <1>5, <1>7, <1>12
    <2> QED BY <2>1, <2>2 DEF Named
<1> HIDE DEF d
<1>13. FileUpdate(t, SetFiles(t, d, files), p, Named(files, Last(p)))
    BY <1>1, <1>6, <1>9, <1>12, SetFilesView DEF FileUpdate, d, old
<1> QED BY <1>4, <1>11, <1>13 DEF d

LEMMA RemoveFileView ==
    ASSUME NEW t, IsTree(t), NEW p \in Seq(Names) \ {<<>>}, FileExists(t, p)
    PROVE  FileUpdate(t, RemoveFileFrom(t, FindContainingDir(t, p), Last(p)), p, {})
<1> DEFINE d == FindContainingDir(t, p)
           old == t[d].files
           n == FindFile(t[d], Last(p))
           files == RemoveUnordered(old, n)
<1>1. d \in DOMAIN t /\ n # 0 /\ HasDir(t, Front(p))
    BY FiledIs DEF FileExists
<1>2. old \in Seq(Files) /\ NamesDiffer(t[d])
    BY <1>1, DirOK DEF IsTree
<1>3. FilesDiffer(old)
    BY <1>2 DEF NamesDiffer, FilesDiffer
<1>4. RemoveFileFrom(t, d, Last(p)) = SetFiles(t, d, files)
    BY DEF RemoveFileFrom
<1>5. n \in DOMAIN old /\ old[n].name = Last(p) /\ DOMAIN old = 1 .. Len(old)
    BY <1>1, <1>2, FindFileResult, LenProperties
<1> HIDE DEF old, n
<1>6. files \in Seq(Files)
    BY <1>2, RemoveUnorderedType
<1>7. /\ DOMAIN files = 1 .. Len(old) - 1 /\ Len(old) \in Nat
      /\ \A k \in DOMAIN files : files[k] = IF k = n THEN old[Len(old)] ELSE old[k]
    BY <1>2 DEF RemoveUnordered
<1> HIDE DEF files
<1> DEFINE Was(k) == IF k = n THEN Len(old) ELSE k
<1>8. \A k \in DOMAIN files : Was(k) \in DOMAIN old /\ Was(k) # n /\ files[k] = old[Was(k)]
    BY <1>5, <1>7
<1>9. \A k, l \in DOMAIN files : Was(k) = Was(l) => k = l
    BY <1>5, <1>7
<1>10. \A l \in DOMAIN old : l # n => \E k \in DOMAIN files : Was(k) = l
    <2> SUFFICES ASSUME NEW l \in DOMAIN old, l # n PROVE \E k \in DOMAIN files : Was(k) = l
        OBVIOUS
    <2>1. CASE l = Len(old)
        BY <1>5, <1>7, <2>1
    <2>2. CASE l # Len(old)
        BY <1>5, <1>7, <2>2
    <2> QED BY <2>1, <2>2
<1> HIDE DEF Was
<1>11. FilesDiffer(files)
    BY <1>3, <1>8, <1>9 DEF FilesDiffer
<1>12. Named(files, Last(p)) = {}
    BY <1>3, <1>5, <1>8 DEF Named, FilesDiffer
<1>13. ASSUME NEW name, name # Last(p) PROVE Named(files, name) = Named(old, name)
    BY <1>5, <1>8, <1>10, <1>13 DEF Named
<1> HIDE DEF d
<1>14. FileUpdate(t, SetFiles(t, d, files), p, Named(files, Last(p)))
    BY <1>1, <1>6, <1>11, <1>13, SetFilesView DEF FileUpdate, d, old
<1> QED BY <1>4, <1>12, <1>14 DEF d

-----------------------------------------------------------------------------
\* The updates of directories, as paths show them.
DirUpdate(t, u, p, there) ==
    /\ IsTree(u)
    /\ \A q \in Seq(Names) : HasDir(u, q) <=> IF q = p THEN there ELSE HasDir(t, q)
    /\ \A q \in Seq(Names) \ {<<>>} : Filed(u, q) = IF Front(q) = p THEN {} ELSE Filed(t, q)

LEMMA ChildIs ==
    ASSUME NEW t, TreeOK(t), NEW n \in DOMAIN t, NamesDiffer(t[n])
    PROVE  /\ \A k \in DOMAIN t[n].dirs : Child(t, n, t[n].dirs[k].name) = t[n].dirs[k].node
           /\ \A name : (\A k \in DOMAIN t[n].dirs : t[n].dirs[k].name # name) => Child(t, n, name) = Null
<1>1. t[n].dirs \in Seq(Subdirs)
    BY DirOK
<1>2. ASSUME NEW k \in DOMAIN t[n].dirs
      PROVE  Child(t, n, t[n].dirs[k].name) = t[n].dirs[k].node
    <2>1. FindDir(t[n], t[n].dirs[k].name) = k
        BY <1>1, FindDirIs
    <2>2. k # 0
        BY <1>1
    <2> QED BY <2>1, <2>2 DEF Child
<1>3. ASSUME NEW name, \A k \in DOMAIN t[n].dirs : t[n].dirs[k].name # name
      PROVE  Child(t, n, name) = Null
    <2>1. FindDir(t[n], name) = 0
        BY <1>1, <1>3, FindDirResult
    <2> QED BY <2>1 DEF Child
<1> QED BY <1>2, <1>3

LEMMA NoChild ==
    ASSUME NEW t, TreeOK(t), NEW name
    PROVE  /\ Child(t, Null, name) = Null
           /\ \A n \in DOMAIN t : t[n].dirs = <<>> => Child(t, n, name) = Null
<1>1. Child(t, Null, name) = Null
    BY NodesArePositive DEF Child
<1>2. ASSUME NEW n \in DOMAIN t, t[n].dirs = <<>> PROVE Child(t, n, name) = Null
    <2>1. t[n].dirs \in Seq(Subdirs) /\ DOMAIN t[n].dirs = {}
        BY <1>2
    <2>2. FindDir(t[n], name) = 0
        BY <2>1, FindDirResult
    <2> QED BY <2>2 DEF Child
<1> QED BY <1>1, <1>2

\* The files of directories that keep theirs.
LEMMA FilesStay ==
    ASSUME NEW t, NEW u, IsTree(t), IsTree(u), NEW q \in Seq(Names) \ {<<>>},
           FindDirByPath(u, Front(q)) = FindDirByPath(t, Front(q)),
           \/ FindDirByPath(t, Front(q)) = Null
           \/ u[FindDirByPath(t, Front(q))].files = t[FindDirByPath(t, Front(q))].files
    PROVE  Filed(u, q) = Filed(t, q)
<1> DEFINE e == FindDirByPath(t, Front(q))
<1>1. FindContainingDir(t, q) = e /\ FindContainingDir(u, q) = e
    BY DEF FindContainingDir
<1>2. /\ e \in DOMAIN t <=> e # Null
      /\ e \in DOMAIN u <=> e # Null
    BY <1>1, FiledIs DEF HasDir
<1> HIDE DEF e
<1>3. /\ Filed(t, q) = IF e # Null THEN Named(t[e].files, Last(q)) ELSE {}
      /\ Filed(u, q) = IF e # Null THEN Named(u[e].files, Last(q)) ELSE {}
    BY <1>1, <1>2, FiledIs
<1> QED BY <1>3 DEF e

\* A path is below another if that is its beginning; every path is below itself.
SomePaths == Seq(Names) \ {<<>>}
Under(p, r) == Len(p) <= Len(r) /\ \A i \in 1 .. Len(p) : r[i] = p[i]

LEMMA UnderFront ==
    ASSUME NEW p \in SomePaths, NEW r \in SomePaths
    PROVE  /\ Under(p, r) <=> r = p \/ Under(p, Front(r))
           /\ ~Under(p, Front(p))
<1>1. /\ Len(p) \in Nat \ {0} /\ Len(Front(p)) = Len(p) - 1
      /\ r \in Seq(Names) /\ Len(r) \in Nat \ {0} /\ Len(Front(r)) = Len(r) - 1
      /\ \A i \in 1 .. Len(r) - 1 : Front(r)[i] = r[i]
    BY SplitPath DEF SomePaths
<1>2. ASSUME Under(p, r), r # p PROVE Under(p, Front(r))
    <2>1. Len(p) # Len(r)
        <3>1. p \in Seq(Names) /\ r \in Seq(Names)
            BY DEF SomePaths
        <3> QED BY <1>2, <3>1, SeqEqual DEF Under
    <2> QED BY <1>1, <1>2, <2>1 DEF Under
<1>3. ASSUME Under(p, Front(r)) PROVE Under(p, r)
    BY <1>1, <1>3 DEF Under
<1>4. Under(p, p)
    BY <1>1 DEF Under
<1>5. ~Under(p, Front(p))
    BY <1>1 DEF Under
<1> QED BY <1>2, <1>3, <1>4, <1>5

\* Paths below a path below a path.
LEMMA UnderUnder ==
    ASSUME NEW p \in Seq(Names), NEW q \in Seq(Names), NEW r \in Seq(Names), Under(p, q), Under(q, r)
    PROVE  Under(p, r)
BY LenProperties DEF Under

LEMMA RootIsAbove ==
    ASSUME NEW p \in SomePaths
    PROVE  ~Under(p, <<>>)
BY SplitPath DEF Under, SomePaths

\* There is no directory below where there is none: by the shortest path to one.
LEMMA DirsAbove ==
    ASSUME NEW t, TreeOK(t), NEW p \in SomePaths, ~HasDir(t, p), NEW q \in Seq(Names), Under(p, q)
    PROVE  ~HasDir(t, q)
<1> DEFINE Bad == {n \in Nat : \E r \in Seq(Names) : Len(r) = n /\ Under(p, r) /\ HasDir(t, r)}
<1>1. ASSUME Bad # {} PROVE FALSE
    <2>1. PICK n \in Bad : \A l \in Bad : n <= l
        <3>1. Bad \in SUBSET Nat
            OBVIOUS
        <3> HIDE DEF Bad
        <3> QED BY <1>1, <3>1, LeastNatural
    <2>2. PICK r \in Seq(Names) : Len(r) = n /\ Under(p, r) /\ HasDir(t, r)
        BY <2>1
    <2>3. r \in SomePaths /\ r # p
        BY <2>2, RootIsAbove DEF SomePaths
    <2>4. Under(p, Front(r)) /\ Front(r) \in Seq(Names) /\ Len(Front(r)) = n - 1 /\ n - 1 \in Nat
        BY <2>2, <2>3, UnderFront, SplitPath DEF SomePaths
    <2>5. HasDir(t, Front(r))
        <3>1. FindDirByPath(t, r) = Child(t, FindDirByPath(t, Front(r)), Last(r))
            BY <2>3, LongerPath DEF SomePaths
        <3> QED BY <2>2, <3>1, NodesArePositive DEF HasDir, Child
    <2>6. n - 1 \in Bad /\ ~(n <= n - 1)
        BY <2>4, <2>5
    <2> HIDE DEF Bad
    <2> QED BY <2>1, <2>6
<1>2. Len(q) \in Nat
    OBVIOUS
<1> QED BY <1>1, <1>2

\* A directory that goes with all that is in it: its paths are gone, others stay.
SubtreeOff(t, u, p) ==
    \A n, name : Child(u, n, name) =
        IF n = FindDirByPath(t, p) \/ (n = FindContainingDir(t, p) /\ name = Last(p)) THEN Null
        ELSE Child(t, n, name)

LEMMA SubtreeGoes ==
    ASSUME NEW t, NEW u, IsTree(t), TreeOK(u), NEW p \in SomePaths, HasDir(t, p),
           SubtreeOff(t, u, p), NEW q \in Seq(Names)
    PROVE  FindDirByPath(u, q) = IF Under(p, q) THEN Null ELSE FindDirByPath(t, q)
<1> DEFINE At(r) == IF Under(p, r) THEN Null ELSE FindDirByPath(t, r)
           Bad == {n \in Nat : \E r \in Seq(Names) : Len(r) = n /\ FindDirByPath(u, r) # At(r)}
<1>1. /\ TreeOK(t) /\ FindContainingDir(t, p) = FindDirByPath(t, Front(p)) /\ Front(p) \in Seq(Names)
      /\ p \in Seq(Names) /\ FindDirByPath(t, p) # Null /\ p = Append(Front(p), Last(p))
      /\ FindDirByPath(t, p) = Child(t, FindDirByPath(t, Front(p)), Last(p))
    BY DirExistsIs, SplitPath, LongerPath DEF IsTree, SomePaths, HasDir
<1>2. FindDirByPath(t, Front(p)) # Null
    BY <1>1, NoChild
<1>3. ASSUME Bad # {} PROVE FALSE
    <2>1. PICK n \in Bad : \A l \in Bad : n <= l
        <3>1. Bad \in SUBSET Nat
            OBVIOUS
        <3> HIDE DEF Bad
        <3> QED BY <1>3, <3>1, LeastNatural
    <2>2. PICK r \in Seq(Names) : Len(r) = n /\ FindDirByPath(u, r) # At(r)
        BY <2>1
    <2>3. r # <<>> /\ r \in SomePaths
        <3>1. FindDirByPath(u, <<>>) = Root /\ FindDirByPath(t, <<>>) = Root /\ ~Under(p, <<>>)
            BY RootPath, RootIsAbove
        <3> QED BY <2>2, <3>1 DEF SomePaths
    <2>4. /\ Front(r) \in Seq(Names) /\ Len(Front(r)) = n - 1 /\ n - 1 \in Nat
          /\ r = Append(Front(r), Last(r))
        BY <2>2, <2>3, SplitPath
    <2>5. FindDirByPath(u, Front(r)) = At(Front(r))
        <3>1. n - 1 \notin Bad
            <4>1. ~(n <= n - 1)
                BY <2>4
            <4> HIDE DEF Bad
            <4> QED BY <2>1, <4>1
        <3> QED BY <2>4, <3>1
    <2>6. /\ FindDirByPath(u, r) = Child(u, At(Front(r)), Last(r))
          /\ FindDirByPath(t, r) = Child(t, FindDirByPath(t, Front(r)), Last(r))
        BY <2>3, <2>5, LongerPath
    <2>7. Under(p, r) <=> r = p \/ Under(p, Front(r))
        BY <2>3, UnderFront
    <2>8. CASE Under(p, Front(r))
        <3>1. FindDirByPath(u, r) = Child(u, Null, Last(r))
            BY <2>6, <2>8
        <3> QED BY <2>2, <2>7, <2>8, <3>1, NoChild
    <2>9. CASE ~Under(p, Front(r)) /\ r = p
        <3>1. FindDirByPath(u, r) = Child(u, FindDirByPath(t, Front(p)), Last(p))
            BY <2>6, <2>9
        <3> QED BY <1>1, <2>2, <2>7, <2>9, <3>1 DEF SubtreeOff
    <2>10. CASE ~Under(p, Front(r)) /\ r # p
        <3>1. FindDirByPath(t, Front(r)) # FindDirByPath(t, p)
            <4>1. Front(r) # p
                BY <2>10, UnderFront
            <4> QED BY <1>1, <2>4, <4>1, EnteredOnce
        <3>2. ~(FindDirByPath(t, Front(r)) = FindDirByPath(t, Front(p)) /\ Last(r) = Last(p))
            <4> SUFFICES ASSUME FindDirByPath(t, Front(r)) = FindDirByPath(t, Front(p)), Last(r) = Last(p)
                         PROVE  FALSE
                OBVIOUS
            <4>1. Front(r) = Front(p)
                BY <1>1, <1>2, <2>4, EnteredOnce
            <4> QED BY <1>1, <2>4, <2>10, <4>1
        <3>3. FindDirByPath(u, r) = Child(u, FindDirByPath(t, Front(r)), Last(r))
            BY <2>6, <2>10
        <3> QED BY <1>1, <2>2, <2>6, <2>7, <2>10, <3>1, <3>2, <3>3 DEF SubtreeOff
    <2> QED BY <2>8, <2>9, <2>10
<1>4. Len(q) \in Nat
    OBVIOUS
<1> QED BY <1>3, <1>4

\* A new directory is empty, and nothing else changes.
LEMMA AddDirView ==
    ASSUME NEW t, IsTree(t), NEW p \in Seq(Names) \ {<<>>}, HasDir(t, Front(p)), ~HasDir(t, p)
    PROVE  DirUpdate(t, AddDirTo(t, FindContainingDir(t, p), Last(p)), p, TRUE)
<1> DEFINE d == FindContainingDir(t, p)
           name == Last(p)
           new == Len(t) + 1
           entry == [name |-> name, node |-> new]
           old == t[d].dirs
           dirs == Append(old, entry)
           u == AddDirTo(t, d, name)
<1>1. /\ t \in Seq(Dirs) /\ DOMAIN t = 1 .. Len(t) /\ Len(t) \in Nat /\ Root \in DOMAIN t
      /\ TreeOK(t) /\ name \in Names /\ Front(p) \in Seq(Names) /\ d \in DOMAIN t
    BY NodesArePositive, SplitPath, FiledIs DEF IsTree
<1>2. new \notin DOMAIN t /\ new # Null /\ new # d /\ new # Root
    BY <1>1 DEF Null
<1>3. TreeOK(u)
    BY <1>1, AddDirToOK
<1>4. /\ DOMAIN u = DOMAIN t \union {new} /\ u[new] = EmptyDir
      /\ u[d] = [files |-> t[d].files, dirs |-> dirs]
      /\ \A n \in DOMAIN t : n # d => u[n] = t[n]
    <2>1. /\ Append(t, EmptyDir) \in Seq(Dirs)
          /\ DOMAIN Append(t, EmptyDir) = DOMAIN t \union {new} /\ Append(t, EmptyDir)[new] = EmptyDir
          /\ \A n \in DOMAIN t : Append(t, EmptyDir)[n] = t[n]
        <3>1. EmptyDir \in Dirs
            BY DEF EmptyDir, Dirs
        <3> QED BY <1>1, <3>1
    <2>2. u = [Append(t, EmptyDir) EXCEPT ![d] = [files |-> t[d].files, dirs |-> dirs]]
        BY <1>1, <2>1 DEF AddDirTo, SetDirs
    <2> HIDE DEF dirs
    <2> QED BY <1>1, <1>2, <2>1, <2>2
<1>5. old \in Seq(Subdirs) /\ NamesDiffer(t[d]) /\ \A k \in DOMAIN old : old[k].node \in DOMAIN t
    BY <1>1, DirOK DEF IsTree
<1>6. \A k \in DOMAIN old : old[k].name # name
    <2>1. FindDirByPath(t, p) = Child(t, d, name)
        BY LongerPath DEF FindContainingDir
    <2>2. Child(t, d, name) = Null
        BY <2>1 DEF HasDir
    <2> SUFFICES ASSUME NEW k \in DOMAIN old, old[k].name = name PROVE FALSE
        OBVIOUS
    <2> HIDE DEF d, name
    <2>3. Child(t, d, old[k].name) = old[k].node
        BY <1>1, <1>5, ChildIs DEF old
    <2>4. Null \notin DOMAIN t
        BY <1>1, NodesArePositive
    <2> QED BY <1>5, <2>2, <2>3, <2>4
<1> HIDE DEF old
<1>7. /\ DOMAIN dirs = DOMAIN old \union {Len(old) + 1} /\ Len(old) + 1 \notin DOMAIN old
      /\ \A k \in DOMAIN old : dirs[k] = old[k]
      /\ dirs[Len(old) + 1] = entry /\ entry.name = name /\ entry.node = new
    <2> HIDE DEF entry
    <2>1. DOMAIN old = 1 .. Len(old) /\ Len(old) \in Nat
        BY <1>5
    <2>2. entry.name = name /\ entry.node = new
        BY DEF entry
    <2> QED BY <1>5, <2>1, <2>2
<1>8. /\ u[new].dirs = <<>> /\ u[new].files = <<>> /\ u[d].dirs = dirs /\ u[d].files = t[d].files
    <2> HIDE DEF u, dirs
    <2> QED BY <1>4 DEF EmptyDir
<1> HIDE DEF u, dirs, entry, new, d, name
<1>9. \A n \in DOMAIN u : NamesDiffer(u[n])
    <2>1. NamesDiffer(u[new])
        BY <1>8 DEF NamesDiffer
    <2>2. NamesDiffer(u[d])
        BY <1>5, <1>6, <1>7, <1>8 DEF NamesDiffer, old
    <2>3. \A n \in DOMAIN t : NamesDiffer(t[n])
        BY DEF IsTree
    <2> QED BY <1>4, <2>1, <2>2, <2>3
<1>10. EntriesDiffer(u)
    <2> SUFFICES ASSUME NEW m \in DOMAIN u, NEW n \in DOMAIN u,
                        NEW k \in DOMAIN u[m].dirs, NEW l \in DOMAIN u[n].dirs
                 PROVE  /\ u[m].dirs[k].node # Root
                        /\ u[m].dirs[k].node = u[n].dirs[l].node => m = n /\ k = l
        BY DEF EntriesDiffer
    <2>1. ASSUME NEW i \in DOMAIN u, NEW j \in DOMAIN u[i].dirs
          PROVE  \/ i = d /\ j = Len(old) + 1 /\ u[i].dirs[j].node = new
                 \/ i \in DOMAIN t /\ j \in DOMAIN t[i].dirs /\ u[i].dirs[j] = t[i].dirs[j]
                    /\ t[i].dirs[j].node \in DOMAIN t
        <3>1. CASE i = new
            BY <1>8, <2>1, <3>1
        <3>2. CASE i = d
            BY <1>1, <1>5, <1>7, <1>8, <2>1, <3>2 DEF old
        <3>3. CASE i # new /\ i # d
            BY <1>1, <1>4, <2>1, <3>3, DirOK
        <3> QED BY <3>1, <3>2, <3>3
    <2>2. EntriesDiffer(t)
        BY DEF IsTree
    <2>3. \/ m = d /\ k = Len(old) + 1 /\ u[m].dirs[k].node = new
          \/ m \in DOMAIN t /\ k \in DOMAIN t[m].dirs /\ u[m].dirs[k] = t[m].dirs[k]
             /\ t[m].dirs[k].node \in DOMAIN t
        BY <2>1
    <2>4. \/ n = d /\ l = Len(old) + 1 /\ u[n].dirs[l].node = new
          \/ n \in DOMAIN t /\ l \in DOMAIN t[n].dirs /\ u[n].dirs[l] = t[n].dirs[l]
             /\ t[n].dirs[l].node \in DOMAIN t
        BY <2>1
    <2> QED BY <1>2, <2>2, <2>3, <2>4 DEF EntriesDiffer
<1>11. IsTree(u)
    BY <1>3, <1>9, <1>10 DEF IsTree
<1>12. ASSUME NEW n, NEW x
       PROVE  Child(u, n, x) = IF n = d /\ x = name THEN new ELSE Child(t, n, x)
    <2>1. CASE n = new
        <3>1. Child(u, new, x) = Null
            BY <1>3, <1>4, <1>8, NoChild
        <3>2. Child(t, new, x) = Null
            BY <1>2 DEF Child
        <3> QED BY <1>2, <2>1, <3>1, <3>2
    <2>2. CASE n = d
        <3>1. d \in DOMAIN u /\ NamesDiffer(u[d])
            BY <1>1, <1>4, <1>9
        <3>2. CASE x = name
            <4>1. Len(old) + 1 \in DOMAIN u[d].dirs /\ u[d].dirs[Len(old) + 1] = entry
                BY <1>7, <1>8
            <4>2. Child(u, d, u[d].dirs[Len(old) + 1].name) = u[d].dirs[Len(old) + 1].node
                BY <1>3, <3>1, <4>1, ChildIs
            <4> QED BY <1>7, <2>2, <3>2, <4>1, <4>2
        <3>3. CASE x # name
            <4>1. CASE \E k \in DOMAIN old : old[k].name = x
                <5>1. PICK k \in DOMAIN old : old[k].name = x
                    BY <4>1
                <5>2. Child(t, d, x) = old[k].node
                    BY <1>1, <1>5, <5>1, ChildIs DEF old
                <5>3. k \in DOMAIN u[d].dirs /\ u[d].dirs[k] = old[k]
                    BY <1>7, <1>8
                <5>4. Child(u, d, x) = old[k].node
                    BY <1>3, <3>1, <5>1, <5>3, ChildIs
                <5> QED BY <2>2, <3>3, <5>2, <5>4
            <4>2. CASE \A k \in DOMAIN old : old[k].name # x
                <5>1. Child(t, d, x) = Null
                    BY <1>1, <1>5, <4>2, ChildIs DEF old
                <5>2. \A k \in DOMAIN u[d].dirs : u[d].dirs[k].name # x
                    BY <1>7, <1>8, <3>3, <4>2
                <5>3. Child(u, d, x) = Null
                    BY <1>3, <3>1, <5>2, ChildIs
                <5> QED BY <2>2, <3>3, <5>1, <5>3
            <4> QED BY <4>1, <4>2
        <3> QED BY <3>2, <3>3
    <2>3. CASE n # new /\ n # d
        BY <1>4, <2>3 DEF Child
    <2> QED BY <2>1, <2>2, <2>3
<1>13. ASSUME NEW q \in Seq(Names)
       PROVE  FindDirByPath(u, q) = IF q = p THEN new ELSE FindDirByPath(t, q)
    <2>1. NoEntries(u, new)
        BY <1>3, <1>4, <1>8, NoChild DEF NoEntries
    <2>2. NoEntries(t, FindDirByPath(t, p))
        BY <1>1, NoChild DEF HasDir, NoEntries
    <2>3. OneEntry(t, u, p, new)
        BY <1>12 DEF d, name, OneEntry
    <2>4. FindContainingDir(t, p) \in DOMAIN t
        BY <1>1 DEF d
    <2>5. p \in Seq(Names) \ {<<>>}
        OBVIOUS
    <2> QED BY ONLY IsTree(t), <2>5, <1>13, <2>1, <2>2, <2>3, <2>4, OneEntryChanges
<1>14. ASSUME NEW q \in Seq(Names) \ {<<>>}
       PROVE  Filed(u, q) = IF Front(q) = p THEN {} ELSE Filed(t, q)
    <2>1. Front(q) \in Seq(Names)
        BY SplitPath
    <2>2. CASE Front(q) = p
        <3>1. FindContainingDir(u, q) = new
            BY <1>13, <2>2, SplitPath DEF FindContainingDir
        <3>2. Filed(u, q) = Named(u[new].files, Last(q))
            BY <1>4, <1>11, <3>1, FiledIs
        <3>3. Named(u[new].files, Last(q)) = {}
            BY <1>8 DEF Named
        <3> QED BY <2>2, <3>2, <3>3
    <2>3. CASE Front(q) # p
        <3> DEFINE e == FindDirByPath(t, Front(q))
        <3>1. FindDirByPath(u, Front(q)) = e
            BY <1>13, <2>1, <2>3
        <3>2. e = Null \/ e \in DOMAIN t
            BY <1>1, <2>1, DirIsNode
        <3> HIDE DEF e
        <3>3. e = Null \/ u[e].files = t[e].files
            BY <1>4, <1>8, <3>2
        <3>4. Filed(u, q) = Filed(t, q)
            BY <1>11, <3>1, <3>3, FilesStay DEF e
        <3> QED BY <2>3, <3>4
    <2> QED BY <2>2, <2>3
<1> QED BY <1>2, <1>11, <1>13, <1>14 DEF DirUpdate, HasDir, u, d, name

-----------------------------------------------------------------------------
\* No directory is in the directory of a path.
NoDirIn(t, p) == \A name \in Names : ~HasDir(t, Append(p, name))

LEMMA NoDirInIs ==
    ASSUME NEW t, IsTree(t), NEW p \in Seq(Names), HasDir(t, p)
    PROVE  FindDirByPath(t, p) \in DOMAIN t /\ (NoDirIn(t, p) <=> t[FindDirByPath(t, p)].dirs = <<>>)
<1> DEFINE n == FindDirByPath(t, p)
<1>1. n \in DOMAIN t /\ TreeOK(t)
    BY DirIsNode DEF HasDir, IsTree
<1>2. t[n].dirs \in Seq(Subdirs) /\ NamesDiffer(t[n])
      /\ \A k \in DOMAIN t[n].dirs : t[n].dirs[k].node \in DOMAIN t
    BY <1>1, DirOK DEF IsTree
<1>3. ASSUME NEW x \in Names PROVE HasDir(t, Append(p, x)) <=> Child(t, n, x) # Null
    <2>1. Append(p, x) \in Seq(Names) \ {<<>>} /\ Front(Append(p, x)) = p /\ Last(Append(p, x)) = x
        BY AppendPath
    <2> QED BY <2>1, LongerPath DEF HasDir
<1> HIDE DEF n
<1>4. ASSUME t[n].dirs = <<>> PROVE NoDirIn(t, p)
    BY <1>1, <1>3, <1>4, NoChild DEF NoDirIn
<1>5. ASSUME t[n].dirs # <<>> PROVE ~NoDirIn(t, p)
    <2> DEFINE x == t[n].dirs[1].name
    <2>1. 1 \in DOMAIN t[n].dirs /\ x \in Names
        <3>1. Len(t[n].dirs) \in Nat \ {0} /\ DOMAIN t[n].dirs = 1 .. Len(t[n].dirs)
            BY <1>2, <1>5, EmptySeq, LenProperties
        <3>2. 1 \in DOMAIN t[n].dirs
            BY <3>1
        <3>3. t[n].dirs[1] \in Subdirs
            BY <1>2, <3>1, ElementOfSeq
        <3> QED BY <3>2, <3>3 DEF Subdirs
    <2>2. Child(t, n, x) = t[n].dirs[1].node
        BY <1>1, <1>2, <2>1, ChildIs
    <2>3. Child(t, n, x) # Null
        BY <1>1, <1>2, <2>1, <2>2, NodesArePositive
    <2> QED BY <1>3, <2>1, <2>3 DEF NoDirIn
<1> QED BY <1>1, <1>4, <1>5 DEF n

\* Below a directory that has no directories there are none.
LEMMA OnlyBelow ==
    ASSUME NEW t, TreeOK(t), NEW p \in SomePaths, NoDirIn(t, p),
           NEW q \in Seq(Names), Under(p, q), q # p
    PROVE  ~HasDir(t, q)
<1> DEFINE n == Len(p) + 1
           x == q[n]
           r == Append(p, x)
<1>1. p \in Seq(Names) /\ Len(p) \in Nat /\ Len(q) \in Nat /\ Len(p) # Len(q) /\ Len(p) <= Len(q)
    BY LenProperties, SeqEqual DEF SomePaths, Under
<1>2. n \in 1 .. Len(q) /\ x \in Names
    BY <1>1, ElementOfSeq
<1>3. /\ r \in Seq(Names) /\ r # <<>> /\ Len(r) = n /\ r[n] = x /\ n \in Nat
      /\ \A i \in 1 .. Len(p) : r[i] = p[i]
    <2> HIDE DEF x
    <2> QED BY <1>1, <1>2
<1>4. ~HasDir(t, r)
    <2> HIDE DEF x
    <2> QED BY <1>2 DEF NoDirIn
<1> HIDE DEF r
<1>5. Under(r, q)
    <2>1. Len(r) <= Len(q)
        BY <1>2, <1>3
    <2>2. ASSUME NEW i \in 1 .. Len(r) PROVE q[i] = r[i]
        <3>1. i = n \/ i \in 1 .. Len(p)
            BY <1>1, <1>3
        <3>2. i \in 1 .. Len(p) => q[i] = p[i]
            BY DEF Under
        <3> QED BY <1>3, <3>1, <3>2
    <2> QED BY <2>1, <2>2 DEF Under
<1> QED BY <1>3, <1>4, <1>5, DirsAbove DEF SomePaths

\* The entries of directories when one of them goes: its own, and the one it was
\* entered at.
LEMMA RemoveDirEntries ==
    ASSUME NEW t, IsTree(t), NEW p \in Seq(Names) \ {<<>>}, HasDir(t, p)
    PROVE  LET u == RemoveDirFrom(t, FindContainingDir(t, p), Last(p))
           IN /\ IsTree(u) /\ SubtreeOff(t, u, p) /\ DOMAIN u = DOMAIN t
              /\ FindContainingDir(t, p) \in DOMAIN t /\ FindDirByPath(t, p) \in DOMAIN t
              /\ \A m \in DOMAIN t : m # FindDirByPath(t, p) => u[m].files = t[m].files
<1> DEFINE d == FindContainingDir(t, p)
           name == Last(p)
           old == t[d].dirs
           n == FindDir(t[d], name)
           gone == old[n].node
           dirs == RemoveUnordered(old, n)
           u == RemoveDirFrom(t, d, name)
<1>1. /\ t \in Seq(Dirs) /\ DOMAIN t = 1 .. Len(t) /\ Len(t) \in Nat /\ Root \in DOMAIN t
      /\ TreeOK(t) /\ name \in Names /\ Front(p) \in Seq(Names)
    BY NodesArePositive, SplitPath DEF IsTree
<1>2. FindDirByPath(t, p) = Child(t, d, name) /\ Child(t, d, name) # Null
    BY LongerPath DEF FindContainingDir, HasDir
<1>3. /\ d \in DOMAIN t /\ n \in DOMAIN old /\ old[n].name = name /\ FindDirByPath(t, p) = gone
    <2> DEFINE a == d
    <2> HIDE DEF a, name
    <2>1. TreeOK(t) /\ Child(t, a, name) # Null
        BY <1>1, <1>2 DEF a
    <2>2. /\ a \in DOMAIN t /\ FindDir(t[a], name) \in DOMAIN t[a].dirs
          /\ t[a].dirs[FindDir(t[a], name)].name = name
          /\ Child(t, a, name) = t[a].dirs[FindDir(t[a], name)].node
        BY ONLY <2>1, ChildIn
    <2> QED BY <1>2, <2>2 DEF a
<1>4. old \in Seq(Subdirs) /\ NamesDiffer(t[d]) /\ \A k \in DOMAIN old : old[k].node \in DOMAIN t
    BY <1>1, <1>3, DirOK DEF IsTree
<1>5. gone \in DOMAIN t /\ gone # d
    <2>1. gone \in DOMAIN t
        BY <1>1, <1>3, DirIsNode DEF HasDir
    <2>2. p \in Seq(Names) /\ p # Front(p)
        BY SplitPath
    <2>3. d = FindDirByPath(t, Front(p))
        BY DEF FindContainingDir
    <2>4. FindDirByPath(t, p) # Null
        BY DEF HasDir
    <2> HIDE DEF gone, d
    <2>5. FindDirByPath(t, p) # FindDirByPath(t, Front(p))
        BY <1>1, <2>2, <2>4, EnteredOnce
    <2> QED BY <1>3, <2>1, <2>3, <2>5
<1>6. TreeOK(u)
    BY <1>1, <1>3, RemoveDirFromOK
<1>7. /\ DOMAIN u = DOMAIN t /\ u[gone].files = <<>> /\ u[gone].dirs = <<>>
      /\ u[d].files = t[d].files /\ u[d].dirs = dirs
      /\ \A m \in DOMAIN t : m # d /\ m # gone => u[m] = t[m]
    <2>1. u = [[t EXCEPT ![d] = [files |-> t[d].files, dirs |-> dirs]] EXCEPT ![gone] = EmptyDir]
        BY DEF RemoveDirFrom, SetDirs
    <2> HIDE DEF u, dirs, gone, d
    <2> QED BY <1>1, <1>3, <1>5, <2>1 DEF EmptyDir
<1>8. DOMAIN old = 1 .. Len(old) /\ Len(old) \in Nat
    BY <1>4, LenProperties
<1> HIDE DEF old, n
<1>9. /\ DOMAIN dirs = 1 .. Len(old) - 1
      /\ \A k \in DOMAIN dirs : dirs[k] = IF k = n THEN old[Len(old)] ELSE old[k]
    BY DEF RemoveUnordered
<1> HIDE DEF u, dirs, gone, d, name
<1> DEFINE Was(k) == IF k = n THEN Len(old) ELSE k
<1>10. \A k \in DOMAIN dirs : Was(k) \in DOMAIN old /\ Was(k) # n /\ dirs[k] = old[Was(k)]
    BY <1>3, <1>8, <1>9
<1>11. \A k, l \in DOMAIN dirs : Was(k) = Was(l) => k = l
    BY <1>3, <1>8, <1>9
<1>12. \A l \in DOMAIN old : l # n => \E k \in DOMAIN dirs : Was(k) = l
    <2> SUFFICES ASSUME NEW l \in DOMAIN old, l # n PROVE \E k \in DOMAIN dirs : Was(k) = l
        OBVIOUS
    <2>1. CASE l = Len(old)
        BY <1>3, <1>8, <1>9, <2>1
    <2>2. CASE l # Len(old)
        BY <1>3, <1>8, <1>9, <2>2
    <2> QED BY <2>1, <2>2
<1> HIDE DEF Was
<1>13. \A m \in DOMAIN u : NamesDiffer(u[m])
    <2>1. NamesDiffer(u[gone])
        BY <1>7 DEF NamesDiffer
    <2>2. NamesDiffer(u[d])
        BY <1>4, <1>7, <1>10, <1>11 DEF NamesDiffer, old
    <2>3. \A m \in DOMAIN t : NamesDiffer(t[m])
        BY DEF IsTree
    <2> QED BY <1>7, <2>1, <2>2, <2>3
<1>14. EntriesDiffer(u)
    <2> SUFFICES ASSUME NEW i \in DOMAIN u, NEW j \in DOMAIN u,
                        NEW k \in DOMAIN u[i].dirs, NEW l \in DOMAIN u[j].dirs
                 PROVE  /\ u[i].dirs[k].node # Root
                        /\ u[i].dirs[k].node = u[j].dirs[l].node => i = j /\ k = l
        BY DEF EntriesDiffer
    <2> DEFINE At(m, e) == IF m = d THEN Was(e) ELSE e
    <2>1. ASSUME NEW m \in DOMAIN u, NEW e \in DOMAIN u[m].dirs
          PROVE  m \in DOMAIN t /\ At(m, e) \in DOMAIN t[m].dirs /\ u[m].dirs[e] = t[m].dirs[At(m, e)]
        <3>1. CASE m = gone
            BY <1>7, <2>1, <3>1
        <3>2. CASE m = d
            BY <1>3, <1>7, <1>10, <2>1, <3>2 DEF old
        <3>3. CASE m # gone /\ m # d
            BY <1>7, <2>1, <3>3
        <3> QED BY <3>1, <3>2, <3>3
    <2>2. EntriesDiffer(t)
        BY DEF IsTree
    <2>3. /\ i \in DOMAIN t /\ At(i, k) \in DOMAIN t[i].dirs /\ u[i].dirs[k] = t[i].dirs[At(i, k)]
          /\ j \in DOMAIN t /\ At(j, l) \in DOMAIN t[j].dirs /\ u[j].dirs[l] = t[j].dirs[At(j, l)]
        BY <2>1
    <2> HIDE DEF At
    <2>4. u[i].dirs[k].node # Root
        BY <2>2, <2>3 DEF EntriesDiffer
    <2>5. ASSUME u[i].dirs[k].node = u[j].dirs[l].node PROVE i = j /\ k = l
        <3>1. i = j /\ At(i, k) = At(j, l)
            BY <2>2, <2>3, <2>5, EntryIs
        <3>2. CASE i = d
            <4>1. k \in DOMAIN dirs /\ l \in DOMAIN dirs /\ Was(k) = Was(l)
                BY <1>7, <3>1, <3>2 DEF At
            <4> QED BY <1>11, <3>1, <4>1
        <3>3. CASE i # d
            BY <3>1, <3>3 DEF At
        <3> QED BY <3>2, <3>3
    <2> QED BY <2>4, <2>5
<1>15. IsTree(u)
    BY <1>6, <1>13, <1>14 DEF IsTree
<1>16. ASSUME NEW m, NEW x
       PROVE  Child(u, m, x) = IF m = gone \/ (m = d /\ x = name) THEN Null ELSE Child(t, m, x)
    <2>1. CASE m = gone
        <3>1. Child(u, gone, x) = Null
            BY <1>5, <1>6, <1>7, NoChild
        <3> QED BY <2>1, <3>1
    <2>2. CASE m = d
        <3>1. d \in DOMAIN u /\ NamesDiffer(u[d])
            BY <1>3, <1>7, <1>13
        <3>2. CASE x = name
            <4>1. \A k \in DOMAIN u[d].dirs : u[d].dirs[k].name # x
                BY <1>3, <1>4, <1>7, <1>10, <3>2 DEF NamesDiffer, old
            <4>2. Child(u, d, x) = Null
                BY <1>6, <3>1, <4>1, ChildIs
            <4> QED BY <2>2, <3>2, <4>2
        <3>3. CASE x # name
            <4>1. CASE \E l \in DOMAIN old : old[l].name = x
                <5>1. PICK l \in DOMAIN old : old[l].name = x
                    BY <4>1
                <5>2. Child(t, d, x) = old[l].node
                    BY <1>1, <1>3, <1>4, <5>1, ChildIs DEF old
                <5>3. PICK k \in DOMAIN dirs : Was(k) = l
                    BY <1>3, <1>12, <3>3, <5>1
                <5>4. k \in DOMAIN u[d].dirs /\ u[d].dirs[k] = old[l]
                    BY <1>7, <1>10, <5>3
                <5>5. Child(u, d, x) = old[l].node
                    BY <1>6, <3>1, <5>1, <5>4, ChildIs
                <5> QED BY <1>5, <2>2, <3>3, <5>2, <5>5
            <4>2. CASE \A l \in DOMAIN old : old[l].name # x
                <5>1. Child(t, d, x) = Null
                    BY <1>1, <1>3, <1>4, <4>2, ChildIs DEF old
                <5>2. \A k \in DOMAIN u[d].dirs : u[d].dirs[k].name # x
                    BY <1>7, <1>10, <4>2
                <5>3. Child(u, d, x) = Null
                    BY <1>6, <3>1, <5>2, ChildIs
                <5> QED BY <1>5, <2>2, <3>3, <5>1, <5>3
            <4> QED BY <4>1, <4>2
        <3> QED BY <3>2, <3>3
    <2>3. CASE m # gone /\ m # d
        BY <1>7, <2>3 DEF Child
    <2> QED BY <2>1, <2>2, <2>3
<1>17. SubtreeOff(t, u, p)
    BY <1>3, <1>16 DEF SubtreeOff, d, name
<1>18. \A m \in DOMAIN t : m # gone => u[m].files = t[m].files
    BY <1>7
<1> QED BY <1>3, <1>5, <1>7, <1>15, <1>17, <1>18 DEF u, d, name

\* A directory goes, with all files and directories below it.
LEMMA RemoveTreeView ==
    ASSUME NEW t, IsTree(t), NEW p \in SomePaths, HasDir(t, p)
    PROVE  LET u == RemoveDirFrom(t, FindContainingDir(t, p), Last(p))
           IN /\ IsTree(u)
              /\ \A q \in Seq(Names) : HasDir(u, q) <=> HasDir(t, q) /\ ~Under(p, q)
              /\ \A q \in SomePaths : Filed(u, q) = IF Under(p, Front(q)) THEN {} ELSE Filed(t, q)
<1> DEFINE u == RemoveDirFrom(t, FindContainingDir(t, p), Last(p))
           gone == FindDirByPath(t, p)
<1>1. /\ IsTree(u) /\ SubtreeOff(t, u, p) /\ DOMAIN u = DOMAIN t /\ gone \in DOMAIN t
      /\ \A m \in DOMAIN t : m # gone => u[m].files = t[m].files
    BY RemoveDirEntries DEF SomePaths
<1> HIDE DEF u
<1>2. TreeOK(t) /\ TreeOK(u) /\ p \in Seq(Names)
    BY <1>1 DEF IsTree, SomePaths
<1>3. \A q \in Seq(Names) : FindDirByPath(u, q) = IF Under(p, q) THEN Null ELSE FindDirByPath(t, q)
    BY <1>1, <1>2, SubtreeGoes
<1>4. ASSUME NEW q \in SomePaths
      PROVE  Filed(u, q) = IF Under(p, Front(q)) THEN {} ELSE Filed(t, q)
    <2> DEFINE e == FindDirByPath(t, Front(q))
    <2>1. Front(q) \in Seq(Names) /\ q \in Seq(Names) \ {<<>>}
        BY SplitPath DEF SomePaths
    <2>2. CASE Under(p, Front(q))
        <3>1. ~HasDir(u, Front(q))
            BY <1>3, <2>1, <2>2 DEF HasDir
        <3> QED BY <1>1, <2>1, <2>2, <3>1, FiledOfDir
    <2>3. CASE ~Under(p, Front(q))
        <3>1. FindDirByPath(u, Front(q)) = e /\ (e = Null \/ e \in DOMAIN t)
            BY <1>2, <1>3, <2>1, <2>3, DirIsNode
        <3>2. e # gone
            <4>1. Front(q) # p
                BY <2>3, UnderFront
            <4>2. gone # Null
                BY <1>1, <1>2, NodesArePositive
            <4> QED BY <1>2, <2>1, <4>1, <4>2, EnteredOnce
        <3> HIDE DEF e, gone
        <3>3. e = Null \/ u[e].files = t[e].files
            BY <1>1, <3>1, <3>2
        <3>4. Filed(u, q) = Filed(t, q)
            BY <1>1, <2>1, <3>1, <3>3, FilesStay DEF e
        <3> QED BY <2>3, <3>4
    <2> QED BY <2>2, <2>3
<1>5. \A q \in Seq(Names) : HasDir(u, q) <=> HasDir(t, q) /\ ~Under(p, q)
    BY <1>3 DEF HasDir
<1> QED BY <1>1, <1>4, <1>5 DEF u

\* A directory without directories goes, with its files.
LEMMA RemoveDirView ==
    ASSUME NEW t, IsTree(t), NEW p \in Seq(Names) \ {<<>>}, HasDir(t, p), NoDirIn(t, p)
    PROVE  DirUpdate(t, RemoveDirFrom(t, FindContainingDir(t, p), Last(p)), p, FALSE)
<1> DEFINE u == RemoveDirFrom(t, FindContainingDir(t, p), Last(p))
<1>1. /\ IsTree(u)
      /\ \A q \in Seq(Names) : HasDir(u, q) <=> HasDir(t, q) /\ ~Under(p, q)
      /\ \A q \in SomePaths : Filed(u, q) = IF Under(p, Front(q)) THEN {} ELSE Filed(t, q)
    BY RemoveTreeView DEF SomePaths
<1> HIDE DEF u
<1>2. TreeOK(t) /\ p \in Seq(Names) /\ p \in SomePaths
    BY DEF IsTree, SomePaths
<1>3. Under(p, p)
    BY <1>2, UnderFront
<1>4. ASSUME NEW q \in Seq(Names), Under(p, q), q # p PROVE ~HasDir(t, q)
    BY <1>2, <1>4, OnlyBelow
<1>5. ASSUME NEW q \in Seq(Names) \ {<<>>}
      PROVE  Filed(u, q) = IF Front(q) = p THEN {} ELSE Filed(t, q)
    <2>1. q \in SomePaths /\ Front(q) \in Seq(Names)
        BY SplitPath DEF SomePaths
    <2>2. Under(p, Front(q)) /\ Front(q) # p => Filed(t, q) = {}
        BY <1>4, <2>1, FiledOfDir
    <2> QED BY <1>1, <1>3, <2>1, <2>2
<1> QED BY <1>1, <1>3, <1>4, <1>5 DEF DirUpdate, u

-----------------------------------------------------------------------------
\* What doAction does to what paths show.
ActionShape(a) == a.path \in Seq(Names) \ {<<>>} /\ a.content \in ContentOf /\ a.type \in ActionTypes

\* What those who store an action about a directory have checked.
Apt(t, a) ==
    /\ a.type = AddDirectory => ~HasDir(t, a.path)
    /\ a.type = RemoveDirectory => NoDirIn(t, a.path)

CleanOf(a) == CleanFile(Last(a.path), a.content)

HasDirAfter(t, a, q) ==
    IF a.type = AddDirectory /\ q = a.path /\ HasDir(t, Front(a.path)) THEN TRUE
    ELSE IF a.type = RemoveDirectory /\ q = a.path THEN FALSE
    ELSE HasDir(t, q)

FiledAfter(t, a, q) ==
    IF a.type = AddFile /\ q = a.path /\ HasDir(t, Front(a.path)) /\ Filed(t, q) = {} THEN {CleanOf(a)}
    ELSE IF a.type = EditFile /\ q = a.path /\ Filed(t, q) # {} THEN {CleanOf(a)}
    ELSE IF a.type = RemoveFile /\ q = a.path THEN {}
    ELSE IF a.type = RemoveDirectory /\ Front(q) = a.path THEN {}
    ELSE Filed(t, q)

ShowsAfter(t, a, u) ==
    /\ \A q \in Seq(Names) : HasDir(u, q) <=> HasDirAfter(t, a, q)
    /\ \A q \in Seq(Names) \ {<<>>} : Filed(u, q) = FiledAfter(t, a, q)

\* When doAction does something, as paths show it.
LEMMA CanDoIs ==
    ASSUME NEW t, IsTree(t), NEW a, ActionShape(a)
    PROVE  CanDo(t, a) <=>
                /\ HasDir(t, Front(a.path))
                /\ a.type = AddFile => Filed(t, a.path) = {}
                /\ a.type \in {EditFile, RemoveFile} => Filed(t, a.path) # {}
                /\ a.type = RemoveDirectory => HasDir(t, a.path)
<1> DEFINE p == a.path
           d == FindContainingDir(t, p)
<1>1. p \in Seq(Names) \ {<<>>} /\ TreeOK(t)
    BY DEF ActionShape, IsTree
<1>2. d \in DOMAIN t <=> HasDir(t, Front(p))
    BY <1>1, FiledIs
<1>3. d \in DOMAIN t => (FindFile(t[d], Last(p)) # 0 <=> Filed(t, p) # {})
    BY <1>1, FiledOfDir DEF FileExists
<1>4. d \in DOMAIN t => (FindDir(t[d], Last(p)) # 0 <=> HasDir(t, p))
    <2>1. DirExists(t, p) <=> FindDirByPath(t, p) \in DOMAIN t
        BY <1>1, DirExistsIs
    <2>2. FindDirByPath(t, p) \in DOMAIN t <=> HasDir(t, p)
        BY <1>1, DirIsNode DEF HasDir
    <2> QED BY <2>1, <2>2 DEF DirExists
<1> QED BY <1>2, <1>3, <1>4 DEF CanDo

\* The actions that are apt leave a tree; what it shows follows from what it showed.
LEMMA DoActionIs ==
    ASSUME NEW t, IsTree(t), NEW a, ActionShape(a), Apt(t, a)
    PROVE  IsTree(DoAction(t, a)) /\ ShowsAfter(t, a, DoAction(t, a))
<1> DEFINE p == a.path
           d == FindContainingDir(t, p)
           u == DoAction(t, a)
<1>1. p \in Seq(Names) \ {<<>>} /\ TreeOK(t) /\ Last(p) \in Names /\ Front(p) \in Seq(Names)
      /\ a.content \in ContentOf /\ a.type \in ActionTypes
    BY SplitPath DEF ActionShape, IsTree
<1>2. CleanOf(a) \in Files /\ CleanOf(a).name = Last(p)
    BY <1>1 DEF CleanOf, CleanFile, Files
<1>3. CASE ~CanDo(t, a)
    <2>1. u = t
        BY <1>3 DEF DoAction
    <2>2. /\ a.type = AddFile => ~HasDir(t, Front(p)) \/ Filed(t, p) # {}
          /\ a.type \in {EditFile, RemoveFile} => ~HasDir(t, Front(p)) \/ Filed(t, p) = {}
          /\ a.type = AddDirectory => ~HasDir(t, Front(p))
          /\ a.type = RemoveDirectory => ~HasDir(t, Front(p)) \/ ~HasDir(t, p)
        <3>1. ~(/\ HasDir(t, Front(p))
                /\ a.type = AddFile => Filed(t, p) = {}
                /\ a.type \in {EditFile, RemoveFile} => Filed(t, p) # {}
                /\ a.type = RemoveDirectory => HasDir(t, p))
            BY <1>3, CanDoIs
        <3> HIDE DEF p
        <3> QED BY ONLY <3>1 DEF AddDirectory, AddFile, EditFile, RemoveFile, RemoveDirectory
    <2>3. /\ HasDir(t, p) => HasDir(t, Front(p))
          /\ Filed(t, p) # {} => HasDir(t, Front(p))
        BY <1>1, DirExistsIs, FiledIs, FiledOfDir, DirIsNode DEF HasDir
    <2>4. ASSUME NEW q \in Seq(Names) PROVE HasDir(t, q) <=> HasDirAfter(t, a, q)
        BY <2>2, <2>3 DEF HasDirAfter, AddDirectory, AddFile, EditFile, RemoveFile, RemoveDirectory
    <2>5. ASSUME NEW q \in Seq(Names) \ {<<>>} PROVE Filed(t, q) = FiledAfter(t, a, q)
        <3>1. Filed(t, q) # {} => HasDir(t, Front(q))
            BY FiledOfDir
        <3> HIDE DEF p
        <3> QED BY <1>1, <2>2, <2>3, <3>1 DEF FiledAfter, p, AddDirectory, AddFile, EditFile, RemoveFile, RemoveDirectory
    <2> QED BY <2>1, <2>4, <2>5 DEF ShowsAfter
<1>4. CASE CanDo(t, a) /\ a.type \in {AddFile, EditFile, RemoveFile}
    <2> DEFINE now == IF a.type = RemoveFile THEN {} ELSE {CleanOf(a)}
    <2>1. /\ HasDir(t, Front(p))
          /\ a.type = AddFile => Filed(t, p) = {}
          /\ a.type \in {EditFile, RemoveFile} => Filed(t, p) # {} /\ FileExists(t, p)
        BY <1>1, <1>4, CanDoIs, FiledOfDir
    <2>2. FileUpdate(t, u, p, now)
        <3>1. CASE a.type = AddFile
            <4>1. u = AddFileTo(t, d, CleanOf(a)) /\ now = {CleanOf(a)}
                BY <1>4, <3>1 DEF DoAction, AddFile, EditFile, RemoveFile, AddDirectory, RemoveDirectory, CleanOf
            <4> QED BY <1>1, <1>2, <2>1, <3>1, <4>1, AddFileView
        <3>2. CASE a.type = EditFile
            <4>1. u = SetFile(t, d, Last(p), CleanOf(a)) /\ now = {CleanOf(a)}
                BY <1>4, <3>2 DEF DoAction, AddFile, EditFile, RemoveFile, AddDirectory, RemoveDirectory, CleanOf
            <4> QED BY <1>1, <1>2, <2>1, <3>2, <4>1, SetFileView
        <3>3. CASE a.type = RemoveFile
            <4>1. u = RemoveFileFrom(t, d, Last(p)) /\ now = {}
                BY <1>4, <3>3 DEF DoAction, AddFile, EditFile, RemoveFile, AddDirectory, RemoveDirectory
            <4> QED BY <1>1, <2>1, <3>3, <4>1, RemoveFileView
        <3> QED BY <1>4, <3>1, <3>2, <3>3
    <2> HIDE DEF u, p, now
    <2>3. IsTree(u)
        BY <2>2 DEF FileUpdate
    <2>4. ASSUME NEW q \in Seq(Names) PROVE HasDir(u, q) <=> HasDirAfter(t, a, q)
        BY <1>4, <2>2 DEF FileUpdate, HasDir, HasDirAfter, AddFile, EditFile, RemoveFile, AddDirectory, RemoveDirectory
    <2>5. ASSUME NEW q \in Seq(Names) \ {<<>>} PROVE Filed(u, q) = FiledAfter(t, a, q)
        <3>1. Filed(u, q) = IF q = p THEN now ELSE Filed(t, q)
            BY <2>2 DEF FileUpdate
        <3> QED BY <1>4, <2>1, <3>1 DEF FiledAfter, now, p, AddFile, EditFile, RemoveFile, AddDirectory, RemoveDirectory
    <2> QED BY <2>3, <2>4, <2>5 DEF ShowsAfter, u
<1>5. CASE CanDo(t, a) /\ a.type \in {AddDirectory, RemoveDirectory}
    <2> DEFINE there == a.type = AddDirectory
    <2>1. /\ HasDir(t, Front(p))
          /\ a.type = AddDirectory => ~HasDir(t, p)
          /\ a.type = RemoveDirectory => HasDir(t, p) /\ NoDirIn(t, p)
        BY <1>5, CanDoIs DEF Apt
    <2>2. DirUpdate(t, u, p, there)
        <3>1. CASE a.type = AddDirectory
            <4>1. u = AddDirTo(t, d, Last(p)) /\ there = TRUE
                BY <1>5, <3>1 DEF DoAction, AddFile, EditFile, RemoveFile, AddDirectory, RemoveDirectory
            <4>2. DirUpdate(t, AddDirTo(t, d, Last(p)), p, TRUE)
                BY <1>1, <2>1, <3>1, AddDirView
            <4> QED BY <4>1, <4>2
        <3>2. CASE a.type = RemoveDirectory
            <4>1. u = RemoveDirFrom(t, d, Last(p)) /\ there = FALSE
                BY <1>5, <3>2 DEF DoAction, AddFile, EditFile, RemoveFile, AddDirectory, RemoveDirectory
            <4>2. DirUpdate(t, RemoveDirFrom(t, d, Last(p)), p, FALSE)
                BY <1>1, <2>1, <3>2, RemoveDirView
            <4> QED BY <4>1, <4>2
        <3> QED BY <1>5, <3>1, <3>2
    <2> HIDE DEF u, p
    <2>3. IsTree(u)
        BY <2>2 DEF DirUpdate
    <2>4. ASSUME NEW q \in Seq(Names) PROVE HasDir(u, q) <=> HasDirAfter(t, a, q)
        BY <1>5, <2>1, <2>2 DEF DirUpdate, HasDirAfter, p, AddFile, EditFile, RemoveFile, AddDirectory, RemoveDirectory
    <2>5. ASSUME NEW q \in Seq(Names) \ {<<>>} PROVE Filed(u, q) = FiledAfter(t, a, q)
        <3>1. Filed(u, q) = IF Front(q) = p THEN {} ELSE Filed(t, q)
            BY <2>2 DEF DirUpdate
        <3>2. Filed(t, q) # {} => HasDir(t, Front(q))
            BY FiledOfDir
        <3>3. CASE a.type = AddDirectory
            <4>1. FiledAfter(t, a, q) = Filed(t, q)
                BY <3>3 DEF FiledAfter, AddFile, EditFile, RemoveFile, AddDirectory, RemoveDirectory
            <4> QED BY <2>1, <3>1, <3>2, <3>3, <4>1
        <3>4. CASE a.type = RemoveDirectory
            <4>1. FiledAfter(t, a, q) = IF Front(q) = a.path THEN {} ELSE Filed(t, q)
                BY <3>4 DEF FiledAfter, AddFile, EditFile, RemoveFile, AddDirectory, RemoveDirectory
            <4> QED BY <3>1, <4>1 DEF p
        <3> QED BY <1>5, <3>3, <3>4
    <2> QED BY <2>3, <2>4, <2>5 DEF ShowsAfter, u
<1> QED BY <1>1, <1>3, <1>4, <1>5 DEF ActionTypes

\* Trees that show the same.
SameView(t, u) ==
    /\ \A q \in Seq(Names) : HasDir(t, q) <=> HasDir(u, q)
    /\ \A q \in Seq(Names) \ {<<>>} : Filed(t, q) = Filed(u, q)

\* Trees that show the same show the same after an action.
LEMMA SameAct ==
    ASSUME NEW t, NEW u, IsTree(t), IsTree(u), SameView(t, u), NEW a, ActionShape(a), Apt(t, a)
    PROVE  Apt(u, a) /\ SameView(DoAction(t, a), DoAction(u, a))
<1>1. a.path \in Seq(Names) \ {<<>>} /\ Front(a.path) \in Seq(Names)
    BY SplitPath DEF ActionShape
<1>2. Apt(u, a)
    <2>1. \A name \in Names : Append(a.path, name) \in Seq(Names)
        BY <1>1, AppendPath
    <2> QED BY <1>1, <2>1 DEF Apt, SameView, NoDirIn
<1>3. ShowsAfter(t, a, DoAction(t, a)) /\ ShowsAfter(u, a, DoAction(u, a))
    BY <1>2, DoActionIs
<1>4. ASSUME NEW q \in Seq(Names) PROVE HasDirAfter(t, a, q) <=> HasDirAfter(u, a, q)
    BY <1>1 DEF HasDirAfter, SameView
<1>5. ASSUME NEW q \in Seq(Names) \ {<<>>} PROVE FiledAfter(t, a, q) = FiledAfter(u, a, q)
    BY <1>1 DEF FiledAfter, SameView
<1> QED BY <1>2, <1>3, <1>4, <1>5 DEF ShowsAfter, SameView

\* A file that changes and one that goes: the order shows nowhere.
LEMMA FileActsCommute ==
    ASSUME NEW t, IsTree(t), NEW a, ActionShape(a), a.type \in {AddFile, EditFile},
           NEW b, ActionShape(b), b.type = RemoveFile, a.path # b.path
    PROVE  /\ IsTree(DoAction(DoAction(t, a), b)) /\ IsTree(DoAction(DoAction(t, b), a))
           /\ SameView(DoAction(DoAction(t, a), b), DoAction(DoAction(t, b), a))
<1> USE DEF AddFile, EditFile, RemoveFile, AddDirectory, RemoveDirectory
<1>1. \A v : Apt(v, a) /\ Apt(v, b)
    BY DEF Apt
<1> DEFINE ta == DoAction(t, a)
           tb == DoAction(t, b)
<1>2. IsTree(ta) /\ ShowsAfter(t, a, ta) /\ IsTree(tb) /\ ShowsAfter(t, b, tb)
    BY <1>1, DoActionIs
<1> HIDE DEF ta, tb
<1> DEFINE ab == DoAction(ta, b)
           ba == DoAction(tb, a)
<1>3. IsTree(ab) /\ ShowsAfter(ta, b, ab) /\ IsTree(ba) /\ ShowsAfter(tb, a, ba)
    BY <1>1, <1>2, DoActionIs
<1> HIDE DEF ab, ba
<1>4. a.path \in Seq(Names) \ {<<>>} /\ Front(a.path) \in Seq(Names)
    BY SplitPath DEF ActionShape
<1>5. ASSUME NEW q \in Seq(Names)
      PROVE  /\ HasDir(ab, q) <=> HasDir(t, q)
             /\ HasDir(ba, q) <=> HasDir(t, q)
             /\ HasDir(tb, q) <=> HasDir(t, q)
    BY <1>2, <1>3 DEF ShowsAfter, HasDirAfter
<1>6. ASSUME NEW q \in Seq(Names) \ {<<>>} PROVE Filed(ab, q) = Filed(ba, q)
    <2>1. Filed(ab, q) = FiledAfter(ta, b, q) /\ Filed(ta, q) = FiledAfter(t, a, q)
        BY <1>2, <1>3 DEF ShowsAfter
    <2>2. Filed(ba, q) = FiledAfter(tb, a, q) /\ Filed(tb, q) = FiledAfter(t, b, q)
        BY <1>2, <1>3 DEF ShowsAfter
    <2>3. HasDir(tb, Front(a.path)) <=> HasDir(t, Front(a.path))
        BY <1>4, <1>5
    <2>4. CASE q = a.path
        BY <2>1, <2>2, <2>3, <2>4 DEF FiledAfter
    <2>5. CASE q # a.path
        BY <2>1, <2>2, <2>5 DEF FiledAfter
    <2> QED BY <2>4, <2>5
<1> QED BY <1>3, <1>5, <1>6 DEF SameView, ab, ba, ta, tb

-----------------------------------------------------------------------------
\* A replay, one action at a time.
ReplaysUpTo(g, log, n) ==
    g = [s \in SUBSET (1 .. n) |->
            IF s = {} THEN EmptyTree ELSE DoAction(g[s \ {Max(s)}], log[Max(s)])]

LEMMA MaxIs ==
    ASSUME NEW s, NEW n \in Nat, s \subseteq 1 .. n, n \in s
    PROVE  Max(s) = n
<1>1. n \in s /\ \A y \in s : n >= y
    OBVIOUS
<1>2. \A x \in s : (\A y \in s : x >= y) => x = n
    BY <1>1
<1> QED BY <1>1, <1>2 DEF Max

LEMMA ReplayExists ==
    ASSUME NEW log, NEW n \in Nat
    PROVE  \E g : ReplaysUpTo(g, log, n)
<1> DEFINE Bad == {m \in Nat : ~\E g : ReplaysUpTo(g, log, m)}
<1>1. ASSUME Bad # {} PROVE FALSE
    <2>1. PICK m \in Bad : \A l \in Bad : m <= l
        <3>1. Bad \in SUBSET Nat
            OBVIOUS
        <3> HIDE DEF Bad
        <3> QED BY <1>1, <3>1, LeastNatural
    <2>2. m # 0
        <3> DEFINE g == [s \in SUBSET (1 .. 0) |-> EmptyTree]
        <3>1. \A s \in SUBSET (1 .. 0) : s = {}
            OBVIOUS
        <3>2. g = [s \in SUBSET (1 .. 0) |->
                    IF s = {} THEN EmptyTree ELSE DoAction(g[s \ {Max(s)}], log[Max(s)])]
            BY <3>1
        <3>3. ReplaysUpTo(g, log, 0)
            BY <3>2 DEF ReplaysUpTo
        <3> QED BY <3>3
    <2>3. m - 1 \in Nat /\ m - 1 \notin Bad /\ m \in Nat
        BY <2>1, <2>2
    <2>4. PICK g : ReplaysUpTo(g, log, m - 1)
        BY <2>3
    <2> DEFINE h == [s \in SUBSET (1 .. m) |->
                        IF m \in s THEN DoAction(g[s \ {m}], log[m]) ELSE g[s]]
    <2>5. ASSUME NEW s \in SUBSET (1 .. m)
          PROVE  h[s] = IF s = {} THEN EmptyTree ELSE DoAction(h[s \ {Max(s)}], log[Max(s)])
        <3>1. \A r \in SUBSET (1 .. m) : m \notin r => r \in SUBSET (1 .. m - 1) /\ h[r] = g[r]
            <4> SUFFICES ASSUME NEW r \in SUBSET (1 .. m), m \notin r
                         PROVE  r \in SUBSET (1 .. m - 1) /\ h[r] = g[r]
                OBVIOUS
            <4>1. \A i \in 1 .. m : i # m => i \in 1 .. m - 1
                BY <2>3
            <4> QED BY <4>1
        <3>2. CASE m \in s
            <4>1. Max(s) = m
                BY <2>3, <3>2, MaxIs
            <4>2. h[s] = DoAction(g[s \ {m}], log[m])
                BY <3>2
            <4>3. s \ {m} \in SUBSET (1 .. m) /\ m \notin s \ {m}
                OBVIOUS
            <4> HIDE DEF h
            <4> QED BY <3>1, <3>2, <4>1, <4>2, <4>3
        <3>3. CASE m \notin s
            <4>1. h[s] = g[s] /\ s \in SUBSET (1 .. m - 1)
                BY <3>1, <3>3
            <4>2. g[s] = IF s = {} THEN EmptyTree ELSE DoAction(g[s \ {Max(s)}], log[Max(s)])
                BY <2>4, <4>1 DEF ReplaysUpTo
            <4>3. h[s \ {Max(s)}] = g[s \ {Max(s)}]
                <5>1. s \ {Max(s)} \in SUBSET (1 .. m) /\ m \notin s \ {Max(s)}
                    BY <3>3
                <5> HIDE DEF h
                <5> QED BY <3>1, <5>1
            <4> HIDE DEF h
            <4> QED BY <4>1, <4>2, <4>3
        <3> QED BY <3>2, <3>3
    <2>6. h = [s \in SUBSET (1 .. m) |-> h[s]]
        OBVIOUS
    <2>7. ReplaysUpTo(h, log, m)
        <3> HIDE DEF h
        <3> QED BY <2>5, <2>6 DEF ReplaysUpTo
    <2> HIDE DEF h, Bad
    <2>8. m \notin Bad
        BY <2>7 DEF Bad
    <2> QED BY <2>1, <2>8
<1> QED BY <1>1

LEMMA ReplaysAgree ==
    ASSUME NEW l, NEW k, NEW m \in Nat, NEW n \in Nat, NEW g, NEW h,
           ReplaysUpTo(g, l, m), ReplaysUpTo(h, k, n),
           NEW i \in Nat, i <= m, i <= n, SameUpTo(l, k, i)
    PROVE  g[1 .. i] = h[1 .. i]
<1> DEFINE Bad == {j \in Nat : j <= i /\ g[1 .. j] # h[1 .. j]}
<1>1. ASSUME Bad # {} PROVE FALSE
    <2>1. PICK j \in Bad : \A b \in Bad : j <= b
        <3>1. Bad \in SUBSET Nat
            OBVIOUS
        <3> HIDE DEF Bad
        <3> QED BY <1>1, <3>1, LeastNatural
    <2>2. j \in Nat /\ j <= i /\ g[1 .. j] # h[1 .. j] /\ 1 .. j \subseteq 1 .. m /\ 1 .. j \subseteq 1 .. n
        BY <2>1
    <2>3. /\ g[1 .. j] = IF 1 .. j = {} THEN EmptyTree ELSE DoAction(g[(1 .. j) \ {Max(1 .. j)}], l[Max(1 .. j)])
          /\ h[1 .. j] = IF 1 .. j = {} THEN EmptyTree ELSE DoAction(h[(1 .. j) \ {Max(1 .. j)}], k[Max(1 .. j)])
        BY <2>2 DEF ReplaysUpTo
    <2>4. j # 0
        <3>1. 1 .. 0 = {}
            OBVIOUS
        <3> QED BY <2>2, <2>3, <3>1
    <2>5. Max(1 .. j) = j /\ (1 .. j) \ {j} = 1 .. j - 1 /\ 1 .. j # {} /\ l[j] = k[j]
        <3>1. j \in 1 .. j /\ j \in 1 .. i
            BY <2>2, <2>4
        <3>2. Max(1 .. j) = j
            BY <2>2, <3>1, MaxIs
        <3>3. (1 .. j) \ {j} = 1 .. j - 1
            BY <2>2, <2>4
        <3> QED BY <3>1, <3>2, <3>3 DEF SameUpTo
    <2>6. g[1 .. j - 1] = h[1 .. j - 1]
        <3>1. j - 1 \in Nat /\ j - 1 <= i /\ ~(j <= j - 1)
            BY <2>2, <2>4
        <3>2. j - 1 \notin Bad
            <4> HIDE DEF Bad
            <4> QED BY <2>1, <3>1
        <3> QED BY <3>1, <3>2
    <2> QED BY <2>2, <2>3, <2>5, <2>6
<1> QED BY <1>1

LEMMA ReplayIs ==
    ASSUME NEW S, NEW log \in Seq(S)
    PROVE  \E g : ReplaysUpTo(g, log, Len(log)) /\ Replay(log) = g[1 .. Len(log)]
<1> DEFINE w == CHOOSE g : ReplaysUpTo(g, log, Len(log))
<1>0. Len(log) \in Nat /\ DOMAIN log = 1 .. Len(log)
    OBVIOUS
<1>1. ReplaysUpTo(w, log, Len(log))
    BY <1>0, ReplayExists
<1>2. Replay(log) = w[1 .. Len(log)]
    BY <1>0 DEF Replay, FoldLeft, MapThenFoldSet, ReplaysUpTo
<1> QED BY <1>1, <1>2

\* One action file more is one action more.
LEMMA ReplayAppend ==
    ASSUME NEW S, NEW log \in Seq(S), NEW a \in S
    PROVE  Replay(Append(log, a)) = DoAction(Replay(log), a)
<1> DEFINE n == Len(log)
           more == Append(log, a)
<1>1. more \in Seq(S) /\ Len(more) = n + 1 /\ n \in Nat /\ n + 1 \in Nat /\ more[n + 1] = a
      /\ \A i \in 1 .. n : more[i] = log[i]
    OBVIOUS
<1>2. PICK g : ReplaysUpTo(g, log, n) /\ Replay(log) = g[1 .. n]
    BY ReplayIs
<1>3. PICK h : ReplaysUpTo(h, more, n + 1) /\ Replay(more) = h[1 .. n + 1]
    BY <1>1, ReplayIs
<1> HIDE DEF n, more
<1>4. h[1 .. n + 1] = DoAction(h[1 .. n], a)
    <2>1. 1 .. n + 1 # {} /\ n + 1 \in 1 .. n + 1 /\ (1 .. n + 1) \ {n + 1} = 1 .. n
        BY <1>1
    <2>2. Max(1 .. n + 1) = n + 1
        BY <1>1, <2>1, MaxIs
    <2>3. h[1 .. n + 1] = IF 1 .. n + 1 = {} THEN EmptyTree
            ELSE DoAction(h[(1 .. n + 1) \ {Max(1 .. n + 1)}], more[Max(1 .. n + 1)])
        BY <1>3 DEF ReplaysUpTo
    <2> QED BY <1>1, <2>1, <2>2, <2>3
<1>5. g[1 .. n] = h[1 .. n]
    <2>1. SameUpTo(log, more, n) /\ n <= n /\ n <= n + 1
        BY <1>1 DEF SameUpTo
    <2> QED BY <1>1, <1>2, <1>3, <2>1, ReplaysAgree
<1> QED BY <1>2, <1>3, <1>4, <1>5 DEF more

-----------------------------------------------------------------------------
\* Any action, one that removes a directory with all that is in it included; only
\* what adds a directory must not find one.
DirAfter(t, a, q) ==
    IF a.type = AddDirectory /\ q = a.path /\ HasDir(t, Front(a.path)) THEN TRUE
    ELSE IF a.type = RemoveDirectory /\ Under(a.path, q) THEN FALSE
    ELSE HasDir(t, q)

FileAfter(t, a, q) ==
    IF a.type = RemoveDirectory /\ Under(a.path, Front(q)) THEN {} ELSE FiledAfter(t, a, q)

LEMMA AnyActionIs ==
    ASSUME NEW t, IsTree(t), NEW a, ActionShape(a), a.type = AddDirectory => ~HasDir(t, a.path)
    PROVE  /\ IsTree(DoAction(t, a))
           /\ \A q \in Seq(Names) : HasDir(DoAction(t, a), q) <=> DirAfter(t, a, q)
           /\ \A q \in SomePaths : Filed(DoAction(t, a), q) = FileAfter(t, a, q)
<1> DEFINE p == a.path
           u == DoAction(t, a)
<1>1. p \in SomePaths /\ p \in Seq(Names) /\ p # <<>> /\ Front(p) \in Seq(Names) /\ TreeOK(t)
    BY SplitPath DEF ActionShape, IsTree, SomePaths
<1>2. CASE a.type # RemoveDirectory
    <2>1. IsTree(u) /\ ShowsAfter(t, a, u)
        BY <1>2, DoActionIs DEF Apt
    <2> HIDE DEF u
    <2>2. \A q : HasDirAfter(t, a, q) <=> DirAfter(t, a, q)
        BY <1>2 DEF HasDirAfter, DirAfter
    <2>3. \A q : FileAfter(t, a, q) = FiledAfter(t, a, q)
        BY <1>2 DEF FileAfter
    <2> QED BY <2>1, <2>2, <2>3 DEF ShowsAfter, SomePaths, u
<1>3. CASE a.type = RemoveDirectory
    <2>1. \A q : FiledAfter(t, a, q) = IF Front(q) = p THEN {} ELSE Filed(t, q)
        BY <1>3 DEF FiledAfter, AddFile, EditFile, RemoveFile, AddDirectory, RemoveDirectory
    <2>2. Under(p, p)
        BY <1>1, UnderFront
    <2>3. \A q : FileAfter(t, a, q) = IF Under(p, Front(q)) THEN {} ELSE Filed(t, q)
        BY <1>3, <2>1, <2>2 DEF FileAfter
    <2>4. \A q : DirAfter(t, a, q) <=> HasDir(t, q) /\ ~Under(p, q)
        BY <1>3 DEF DirAfter, AddDirectory, RemoveDirectory
    <2>5. CASE CanDo(t, a)
        <3>1. HasDir(t, p)
            BY <1>3, <2>5, CanDoIs
        <3>2. u = RemoveDirFrom(t, FindContainingDir(t, p), Last(p))
            BY <1>3, <2>5 DEF DoAction, AddFile, EditFile, RemoveFile, AddDirectory, RemoveDirectory
        <3> HIDE DEF u, p
        <3>3. /\ IsTree(u)
              /\ \A q \in Seq(Names) : HasDir(u, q) <=> HasDir(t, q) /\ ~Under(p, q)
              /\ \A q \in SomePaths : Filed(u, q) = IF Under(p, Front(q)) THEN {} ELSE Filed(t, q)
            BY <1>1, <3>1, <3>2, RemoveTreeView
        <3> QED BY <2>3, <2>4, <3>3 DEF u
    <2>6. CASE ~CanDo(t, a)
        <3>1. u = t
            BY <2>6 DEF DoAction
        <3>2. HasDir(t, p) => HasDir(t, Front(p))
            BY <1>1, DirExistsIs, FiledIs, DirIsNode DEF HasDir
        <3>3. ~HasDir(t, p)
            BY <1>3, <2>6, <3>2, CanDoIs DEF AddFile, EditFile, RemoveFile, RemoveDirectory
        <3>4. \A q \in Seq(Names) : Under(p, q) => ~HasDir(t, q)
            BY <1>1, <3>3, DirsAbove
        <3>5. ASSUME NEW q \in SomePaths, Under(p, Front(q)) PROVE Filed(t, q) = {}
            <4>1. Front(q) \in Seq(Names)
                BY SplitPath DEF SomePaths
            <4> QED BY <3>4, <3>5, <4>1, FiledOfDir DEF SomePaths
        <3> QED BY <2>3, <2>4, <3>1, <3>4, <3>5
    <2> QED BY <2>5, <2>6
<1> QED BY <1>2, <1>3

\* A replay up to a place does not depend on what comes later.
LEMMA BeforePlace ==
    ASSUME NEW S, NEW log \in Seq(S), NEW x \in S, NEW n \in 1 .. Len(log) + 1
    PROVE  /\ SubSeq(Append(log, x), 1, n - 1) = SubSeq(log, 1, n - 1)
           /\ n = Len(log) + 1 => SubSeq(log, 1, n - 1) = log
<1> DEFINE more == Append(log, x)
           j == n - 1
<1>1. /\ Len(log) \in Nat /\ Len(more) = Len(log) + 1 /\ more \in Seq(S)
      /\ \A i \in 1 .. Len(log) : more[i] = log[i] /\ log[i] \in S
    BY ElementOfSeq
<1> HIDE DEF more
<1>2. j \in Int /\ 1 \in Int /\ j <= Len(log) /\ (n = Len(log) + 1 => j = Len(log)) /\ j \in Nat
    BY <1>1
<1> HIDE DEF j
<1>3. \A i \in 1 .. j : more[i] = log[i] /\ more[i] \in S /\ log[i] \in S
    BY <1>1, <1>2
<1> DEFINE a == SubSeq(more, 1, j)
           b == SubSeq(log, 1, j)
<1>4. /\ a \in Seq(S) /\ Len(a) = (IF 1 <= j THEN j - 1 + 1 ELSE 0)
      /\ \A i \in 1 .. j - 1 + 1 : a[i] = more[1 + i - 1]
    BY <1>2, <1>3, SubSeqProperties
<1>5. /\ b \in Seq(S) /\ Len(b) = (IF 1 <= j THEN j - 1 + 1 ELSE 0)
      /\ \A i \in 1 .. j - 1 + 1 : b[i] = log[1 + i - 1]
    BY <1>2, <1>3, SubSeqProperties
<1> HIDE DEF a, b
<1>6. ASSUME NEW i \in 1 .. j PROVE i \in 1 .. j - 1 + 1 /\ 1 + i - 1 = i
    BY <1>2
<1>7. Len(a) = j /\ Len(b) = j
    BY <1>2, <1>4, <1>5
<1>8. \A i \in 1 .. j : a[i] = b[i] /\ b[i] = log[i]
    BY <1>3, <1>4, <1>5, <1>6
<1>9. a = b
    BY <1>4, <1>5, <1>7, <1>8, SeqEqual
<1>10. j = Len(log) => b = log
    BY <1>5, <1>7, <1>8, SeqEqual
<1> QED BY <1>2, <1>9, <1>10 DEF a, b, j, more

\* A path shows how many entries of a name there are: one or none.
LEMMA CountIs ==
    ASSUME NEW s, DOMAIN s \subseteq Nat, NEW name,
           \A k, l \in DOMAIN s : s[k].name = s[l].name => k = l
    PROVE  Cardinality({k \in DOMAIN s : s[k].name = name})
               = IF \E k \in DOMAIN s : s[k].name = name THEN 1 ELSE 0
<1>1. CASE \E k \in DOMAIN s : s[k].name = name
    <2>1. PICK k \in DOMAIN s : s[k].name = name
        BY <1>1
    <2>2. {l \in DOMAIN s : s[l].name = name} = {k}
        BY <2>1
    <2> QED BY <1>1, <2>2, FS_Singleton
<1>2. CASE ~\E k \in DOMAIN s : s[k].name = name
    <2>1. {l \in DOMAIN s : s[l].name = name} = {}
        BY <1>2
    <2> QED BY <1>2, <2>1, FS_EmptySet
<1> QED BY <1>1, <1>2

\* Trees with the same directories and files answer getattr and readdir alike.
LEMMA ShownAlike ==
    ASSUME NEW t, NEW u, IsTree(t), IsTree(u), SameView(t, u), NEW p \in Seq(Names)
    PROVE  Shown(t, p) = Shown(u, p)
<1> DEFINE m == FindDirByPath(t, p)
           n == FindDirByPath(u, p)
           Count(s, name) == Cardinality({k \in DOMAIN s : s[k].name = name})
           One(b) == IF b THEN 1 ELSE 0
<1>1. TreeOK(t) /\ TreeOK(u)
    BY DEF IsTree
<1>2. (m \in DOMAIN t <=> HasDir(t, p)) /\ (n \in DOMAIN u <=> HasDir(u, p))
    BY <1>1, DirIsNode DEF HasDir
<1>3. ASSUME NEW v, IsTree(v), HasDir(v, p), NEW name \in Names
      PROVE  LET k == FindDirByPath(v, p)
             IN /\ Count(v[k].files, name) = IF Filed(v, Append(p, name)) # {} THEN 1 ELSE 0
                /\ Count(v[k].dirs, name) = IF HasDir(v, Append(p, name)) THEN 1 ELSE 0
    <2> DEFINE k == FindDirByPath(v, p)
               q == Append(p, name)
    <2>1. q \in Seq(Names) \ {<<>>} /\ Front(q) = p /\ Last(q) = name
        BY AppendPath
    <2> HIDE DEF q
    <2>2. TreeOK(v) /\ k \in DOMAIN v
        BY <1>3, DirIsNode DEF IsTree, HasDir
    <2>3. NamesDiffer(v[k]) /\ v[k].files \in Seq(Files) /\ v[k].dirs \in Seq(Subdirs)
          /\ \A l \in DOMAIN v[k].dirs : v[k].dirs[l].node \in DOMAIN v
        BY <1>3, <2>2, DirOK DEF IsTree
    <2>4. FindContainingDir(v, q) = k
        BY <2>1 DEF FindContainingDir
    <2>5. Filed(v, q) = Named(v[k].files, name)
        BY <1>3, <2>1, <2>2, <2>4, FiledIs
    <2>6. FindDirByPath(v, q) = Child(v, k, name)
        BY <2>1, LongerPath
    <2> HIDE DEF k
    <2>7. Filed(v, q) # {} <=> \E l \in DOMAIN v[k].files : v[k].files[l].name = name
        BY <2>5 DEF Named
    <2>8. HasDir(v, q) <=> \E l \in DOMAIN v[k].dirs : v[k].dirs[l].name = name
        <3>1. ASSUME NEW l \in DOMAIN v[k].dirs, v[k].dirs[l].name = name PROVE HasDir(v, q)
            BY <2>2, <2>3, <2>6, <3>1, ChildIs, NodesArePositive DEF HasDir
        <3>2. ASSUME \A l \in DOMAIN v[k].dirs : v[k].dirs[l].name # name PROVE ~HasDir(v, q)
            BY <2>2, <2>3, <2>6, <3>2, ChildIs DEF HasDir
        <3> QED BY <3>1, <3>2
    <2>9. DOMAIN v[k].files \subseteq Nat /\ DOMAIN v[k].dirs \subseteq Nat
        <3>1. DOMAIN v[k].files = 1 .. Len(v[k].files) /\ DOMAIN v[k].dirs = 1 .. Len(v[k].dirs)
            BY <2>3, LenProperties
        <3> QED BY <3>1
    <2>10. Count(v[k].files, name) = IF \E l \in DOMAIN v[k].files : v[k].files[l].name = name THEN 1 ELSE 0
        BY <2>3, <2>9, CountIs DEF NamesDiffer
    <2>11. Count(v[k].dirs, name) = IF \E l \in DOMAIN v[k].dirs : v[k].dirs[l].name = name THEN 1 ELSE 0
        BY <2>3, <2>9, CountIs DEF NamesDiffer
    <2> QED BY <2>7, <2>8, <2>10, <2>11 DEF k, q
<1>4. CASE HasDir(t, p)
    <2>1. HasDir(u, p)
        BY <1>4 DEF SameView
    <2>2. ASSUME NEW name \in Names
          PROVE  /\ Count(t[m].files, name) = Count(u[n].files, name)
                 /\ Count(t[m].dirs, name) = Count(u[n].dirs, name)
        <3>1. Append(p, name) \in Seq(Names) \ {<<>>}
            BY AppendPath
        <3>2. Filed(t, Append(p, name)) = Filed(u, Append(p, name))
              /\ (HasDir(t, Append(p, name)) <=> HasDir(u, Append(p, name)))
            BY <3>1 DEF SameView
        <3> HIDE DEF Count
        <3> QED BY <1>3, <1>4, <2>1, <3>2
    <2>3. Shown(t, p) = [files |-> [x \in Names |-> Count(t[m].files, x)],
                         dirs |-> [x \in Names |-> Count(t[m].dirs, x)]]
        BY <1>2, <1>4 DEF Shown
    <2>4. Shown(u, p) = [files |-> [x \in Names |-> Count(u[n].files, x)],
                         dirs |-> [x \in Names |-> Count(u[n].dirs, x)]]
        BY <1>2, <2>1 DEF Shown
    <2> HIDE DEF Count
    <2> QED BY <2>2, <2>3, <2>4
<1>5. CASE ~HasDir(t, p)
    <2>1. ~HasDir(u, p)
        BY <1>5 DEF SameView
    <2>2. Shown(t, p) = IF p # <<>> /\ FileExists(t, p) THEN FileAt(t, p).content ELSE NoContent
        BY <1>2, <1>5 DEF Shown
    <2>3. Shown(u, p) = IF p # <<>> /\ FileExists(u, p) THEN FileAt(u, p).content ELSE NoContent
        BY <1>2, <2>1 DEF Shown
    <2>4. p # <<>> => Filed(t, p) = Filed(u, p)
        BY DEF SameView
    <2>5. p # <<>> /\ FileExists(t, p) => FileExists(u, p) /\ FileAt(t, p) = FileAt(u, p)
        BY <2>4 DEF Filed
    <2>6. p # <<>> /\ FileExists(u, p) => FileExists(t, p)
        BY <2>4 DEF Filed
    <2> QED BY <2>2, <2>3, <2>5, <2>6
<1> QED BY <1>4, <1>5
=============================================================================
