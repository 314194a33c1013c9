------------------------------- MODULE FsTree -------------------------------
(***************************************************************************)
(* The directory tree a mounted client keeps in memory (filesystem.h: the  *)
(* global root, FilesystemDir, FilesystemFile) and the pure operations on  *)
(* it: lookup by path (filesystem.c), insertion and unordered removal      *)
(* (dynarray.c) and the replay of one log entry (doAction in actions.c).   *)
(*                                                                         *)
(* A tree is the sequence of the directory nodes allocated so far; a node  *)
(* is referred to by its index, the root is node 1 and NULL is 0.  A freed *)
(* node is emptied and never referred to again.  Paths are the sequences   *)
(* of names path_split cuts them into.  Names may repeat in a directory:   *)
(* nothing in doAction prevents it for directories.                        *)
(***************************************************************************)
EXTENDS DynArray, SequencesExt

CONSTANTS
    Names,      \* file and directory names
    Contents    \* what a file can hold: content list, size and block size together

Null == 0
Root == 1
NoContent == "no content"

Nodes == Nat \ {0}
ContentOf == Contents \union {NoContent}

\* FilesystemFile: "create" and "write" are the bits of dirtyFlags.
Files == [name : Names, content : ContentOf, create : BOOLEAN, write : BOOLEAN]
Subdirs == [name : Names, node : Nodes]
Dirs == [files : Seq(Files), dirs : Seq(Subdirs)]

EmptyDir == [files |-> <<>>, dirs |-> <<>>]
EmptyTree == <<EmptyDir>>

TreeOK(tree) ==
    /\ tree \in Seq(Dirs)
    /\ Root \in DOMAIN tree
    /\ \A n \in DOMAIN tree : \A k \in DOMAIN tree[n].dirs : tree[n].dirs[k].node \in DOMAIN tree

\* No directory has two files or two directories of one name: what mkdir and
\* rename must see to, since doAction does not.  (A file and a directory may share
\* one: a half moved file comes back with the next mount.)
NamesDiffer(dir) ==
    /\ \A k, l \in DOMAIN dir.files : dir.files[k].name = dir.files[l].name => k = l
    /\ \A k, l \in DOMAIN dir.dirs : dir.dirs[k].name = dir.dirs[l].name => k = l

\* What is reached from the root is a tree: a directory is entered at one place.
EntriesDiffer(tree) ==
    \A m, n \in DOMAIN tree : \A k \in DOMAIN tree[m].dirs, l \in DOMAIN tree[n].dirs :
        /\ tree[m].dirs[k].node # Root
        /\ tree[m].dirs[k].node = tree[n].dirs[l].node => m = n /\ k = l

IsTree(tree) ==
    TreeOK(tree) /\ (\A n \in DOMAIN tree : NamesDiffer(tree[n])) /\ EntriesDiffer(tree)

-----------------------------------------------------------------------------
\* findFile and findDir: the index of the first entry with that name, or 0.
FindFile(dir, name) == SelectInSeq(dir.files, LAMBDA f : f.name = name)
FindDir(dir, name) == SelectInSeq(dir.dirs, LAMBDA d : d.name = name)

\* findDirByPath: the node reached from the root, or Null.
FindDirByPath(tree, path) ==
    LET Step(node, name) ==
            LET k == IF node \in DOMAIN tree THEN FindDir(tree[node], name) ELSE 0
            IN IF k = 0 THEN Null ELSE tree[node].dirs[k].node
        walk[k \in 0 .. Len(path)] == IF k = 0 THEN Root ELSE Step(walk[k-1], path[k])
    IN walk[Len(path)]

FindContainingDir(tree, path) == FindDirByPath(tree, Front(path))

FileExists(tree, path) ==
    LET d == FindContainingDir(tree, path)
    IN d \in DOMAIN tree /\ FindFile(tree[d], Last(path)) # 0

DirExists(tree, path) ==
    LET d == FindContainingDir(tree, path)
    IN d \in DOMAIN tree /\ FindDir(tree[d], Last(path)) # 0

\* The file a path denotes, for a path that FileExists.
FileAt(tree, path) ==
    LET d == tree[FindContainingDir(tree, path)]
    IN d.files[FindFile(d, Last(path))]

-----------------------------------------------------------------------------
\* The updates the handlers and doAction share, at a containing directory d.
SetFiles(tree, d, files) == [tree EXCEPT ![d] = [files |-> files, dirs |-> tree[d].dirs]]
SetDirs(tree, d, dirs) == [tree EXCEPT ![d] = [files |-> tree[d].files, dirs |-> dirs]]

AddFileTo(tree, d, file) == SetFiles(tree, d, Append(tree[d].files, file))

SetFile(tree, d, name, file) ==
    SetFiles(tree, d, [tree[d].files EXCEPT ![FindFile(tree[d], name)] = file])

RemoveFileFrom(tree, d, name) ==
    SetFiles(tree, d, RemoveUnordered(tree[d].files, FindFile(tree[d], name)))

AddDirTo(tree, d, name) ==
    LET entry == [name |-> name, node |-> Len(tree) + 1]
    IN SetDirs(Append(tree, EmptyDir), d, Append(tree[d].dirs, entry))

RemoveDirFrom(tree, d, name) ==
    LET k == FindDir(tree[d], name)
        gone == tree[d].dirs[k].node
    IN [SetDirs(tree, d, RemoveUnordered(tree[d].dirs, k)) EXCEPT ![gone] = EmptyDir]

CleanFile(name, content) == [name |-> name, content |-> content, create |-> FALSE, write |-> FALSE]

\* ActionType, with the numbers of the enumeration in actions.h.
AddFile == 0
RemoveFile == 1
AddDirectory == 2
RemoveDirectory == 3
EditFile == 4
ActionTypes == {AddFile, RemoveFile, AddDirectory, RemoveDirectory, EditFile}

\* Mutant: doAction without its check that the file to add is not there yet.
CanAddAgain(tree, a) ==
    LET d == FindContainingDir(tree, a.path)
        name == Last(a.path)
    IN /\ d \in DOMAIN tree
       /\ a.type \in {EditFile, RemoveFile} => FindFile(tree[d], name) # 0
       /\ a.type = RemoveDirectory => FindDir(tree[d], name) # 0

\* doAction returns 0: no lookup of its fails.
CanDo(tree, a) ==
    LET d == FindContainingDir(tree, a.path)
        name == Last(a.path)
    IN /\ d \in DOMAIN tree
       /\ a.type = AddFile => FindFile(tree[d], name) = 0
       /\ a.type \in {EditFile, RemoveFile} => FindFile(tree[d], name) # 0
       /\ a.type = RemoveDirectory => FindDir(tree[d], name) # 0

\* The tree after doAction; a failing doAction changes nothing.
DoAction(tree, a) ==
    LET d == FindContainingDir(tree, a.path)
        name == Last(a.path)
    IN CASE ~CanDo(tree, a) -> tree
         [] CanDo(tree, a) /\ a.type = AddFile -> AddFileTo(tree, d, CleanFile(name, a.content))
         [] CanDo(tree, a) /\ a.type = EditFile -> SetFile(tree, d, name, CleanFile(name, a.content))
         [] CanDo(tree, a) /\ a.type = RemoveFile -> RemoveFileFrom(tree, d, name)
         [] CanDo(tree, a) /\ a.type = AddDirectory -> AddDirTo(tree, d, name)
         [] CanDo(tree, a) /\ a.type = RemoveDirectory -> RemoveDirFrom(tree, d, name)

-----------------------------------------------------------------------------
\* The tree a client mounted now would build from this log.
Replay(log) == FoldLeft(DoAction, EmptyTree, log)

\* What getattr and readdir show at a path: the entries of a directory with
\* their multiplicities, and the content of a file.
Shown(tree, path) ==
    LET node == FindDirByPath(tree, path)
        Count(s, name) == Cardinality({k \in DOMAIN s : s[k].name = name})
    IN IF node \in DOMAIN tree
       THEN [files |-> [n \in Names |-> Count(tree[node].files, n)],
             dirs |-> [n \in Names |-> Count(tree[node].dirs, n)]]
       ELSE IF path # <<>> /\ FileExists(tree, path) THEN FileAt(tree, path).content
       ELSE NoContent
=============================================================================
