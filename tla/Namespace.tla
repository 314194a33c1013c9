------------------------------ MODULE Namespace ------------------------------
(***************************************************************************)
(* The operations that change names (operations/rename.c, mkdir.c,         *)
(* rmdir.c, unlink.c, create.c) of one mounted client against a repository *)
(* that may refuse an action file, up to a crash at any step and the next  *)
(* mount.  An operation is a list of steps, each of which stores one       *)
(* action file at most; renaming a directory puts the steps for what is in *)
(* it in front of the list, as the recursion of renameDir does.  bucseMutex *)
(* is held for the whole list.                                             *)
(***************************************************************************)
EXTENDS FsTree

CONSTANTS
    Empty,          \* the content of a file just created
    Paths,          \* the paths looked at
    Targets,        \* the paths operations name
    StartLog,       \* what the repository holds at first
    MayFail,        \* may the repository refuse an action file?
    MaxStored       \* bound on the action files, checked between operations

Actions == [time : Nat, type : ActionTypes, path : Seq(Names) \ {<<>>}, content : ContentOf]

ASSUME ContentsAssumption == Empty \in Contents /\ NoContent \notin Contents
ASSUME PathsAssumption == Targets \subseteq Paths /\ Paths \subseteq Seq(Names) \ {<<>>}
ASSUME RepositoryAssumption ==
    StartLog \in Seq(Actions) /\ MayFail \in BOOLEAN /\ MaxStored \in Nat
\* It was stored by operations done one after the other, none in a rename.
ASSUME StartAssumption ==
    /\ \A n \in DOMAIN StartLog : StartLog[n].time <= n
    /\ \A n \in 1 .. Len(StartLog) - 1 : StartLog[n].time # StartLog[n + 1].time
    /\ IsTree(Replay(StartLog))

VARIABLES
    tree,       \* the tree at "root"; the content of a file is what a read shows
    stored,     \* the action files, in the order of their times
    open,       \* the open handles: <<path, "r">> and <<path, "w">>
    todo,       \* the steps left of the operation that runs
    result,     \* what the last operation returned
    request,    \* history: the operation that runs and the tree it found
    halfMoved   \* history: a file was moved in the repository only

vars == <<tree, stored, open, todo, result, request, halfMoved>>

NoRequest == [op |-> "none"]
Step(do, path, to, over) == [do |-> do, path |-> path, to |-> to, over |-> over]
On(do, path) == Step(do, path, path, FALSE)

-----------------------------------------------------------------------------
\* Two actions of one rename have one time: a mount sorts them either way.
MountOrders(log) ==
    LET pairs == {n \in 1 .. Len(log) - 1 : log[n].time = log[n + 1].time}
        Swapped(S) == [n \in DOMAIN log |->
            IF n \in S THEN log[n + 1] ELSE IF n - 1 \in S THEN log[n - 1] ELSE log[n]]
    IN {Swapped(S) : S \in SUBSET pairs}

Init ==
    /\ stored = StartLog
    /\ tree \in {Replay(log) : log \in MountOrders(StartLog)}
    /\ open = {} /\ todo = <<>>
    /\ result = "mounted" /\ request = NoRequest /\ halfMoved = FALSE

\* The process dies and the repository is mounted again.
Remount ==
    /\ tree' \in {Replay(log) : log \in MountOrders(stored)}
    /\ open' = {} /\ todo' = <<>>
    /\ result' = "mounted" /\ request' = NoRequest /\ halfMoved' = FALSE
    /\ UNCHANGED stored

-----------------------------------------------------------------------------
Dirty(f) == f.create \/ f.write
Handle(path) == {<<path, "r">>, <<path, "w">>} \intersect open
Idle == todo = <<>> /\ Len(stored) <= MaxStored

\* An operation begins, or is refused at once.
Begin(op, path, to, steps) ==
    /\ Idle
    /\ todo' = steps
    /\ result' = IF steps = <<>> THEN "ok" ELSE "running"
    /\ request' = IF steps = <<>> THEN NoRequest
                  ELSE [op |-> op, path |-> path, to |-> to, tree |-> tree, stored |-> Len(stored)]
    /\ UNCHANGED <<tree, stored, halfMoved>>

Refuse(error) ==
    /\ Idle
    /\ result' = error
    /\ UNCHANGED <<tree, stored, open, todo, request, halfMoved>>

InMemory(newTree) ==
    /\ Idle
    /\ tree' = newTree /\ result' = "ok"
    /\ UNCHANGED <<stored, todo, request, halfMoved>>

\* bucse_create: the file is in memory only until it is flushed.
Create(p, mode) ==
    /\ FindContainingDir(tree, p) \in DOMAIN tree
    /\ ~FileExists(tree, p) /\ ~DirExists(tree, p)
    /\ InMemory(AddFileTo(tree, FindContainingDir(tree, p),
                          [CleanFile(Last(p), Empty) EXCEPT !.create = TRUE]))
    /\ open' = open \union {<<p, mode>>}

Open(p, mode) ==
    /\ FileExists(tree, p) /\ InMemory(tree)
    /\ open' = open \union {<<p, mode>>}

Write(p, c) ==
    /\ <<p, "w">> \in open /\ FileExists(tree, p)
    /\ InMemory(SetFile(tree, FindContainingDir(tree, p), Last(p),
                        [FileAt(tree, p) EXCEPT !.content = c, !.write = TRUE]))
    /\ UNCHANGED open

\* flushFile has something to do.
FlushOf(p) == IF FileExists(tree, p) /\ Dirty(FileAt(tree, p)) THEN <<On("flush", p)>> ELSE <<>>

\* bucse_release does not flush what a handle opened for reading created.
Release(p, mode) ==
    /\ <<p, mode>> \in open
    /\ Begin("release", p, p, IF mode = "w" THEN FlushOf(p) ELSE <<>>)
    /\ open' = open \ {<<p, mode>>}

\* bucse_getattr flushes pending writes, of which a new file may have none.
GetAttr(p) ==
    /\ FileExists(tree, p)
    /\ Begin("getattr", p, p, IF FileAt(tree, p).write THEN FlushOf(p) ELSE <<>>)
    /\ UNCHANGED open

\* libfuse moves an open file that is removed or replaced out of the way first.
Unlink(p) ==
    /\ FileExists(tree, p) /\ Handle(p) = {}
    /\ Begin("unlink", p, p, FlushOf(p) \o <<On("remove", p)>>)
    /\ UNCHANGED open

\* The checks of bucse_mkdir and bucse_rmdir are part of the step (below).
Mkdir(p) == Begin("mkdir", p, p, <<On("mkdir", p)>>) /\ UNCHANGED open
Rmdir(p) == Begin("rmdir", p, p, <<On("rmdir", p)>>) /\ UNCHANGED open

\* bucse_rename, its checks in their order.
RenameError(p, q, flag) ==
    IF FindContainingDir(tree, p) \notin DOMAIN tree THEN "ENOENT"
    ELSE IF ~FileExists(tree, p) /\ ~DirExists(tree, p) THEN "ENOENT"
    ELSE IF FindContainingDir(tree, q) \notin DOMAIN tree THEN "ENOENT"
    ELSE IF FileExists(tree, p) /\ DirExists(tree, q) THEN "EISDIR"
    ELSE IF ~FileExists(tree, p) /\ FileExists(tree, q) THEN "ENOTDIR"
    ELSE IF flag = "noreplace" /\ (FileExists(tree, q) \/ DirExists(tree, q)) THEN "EEXIST"
    ELSE IF flag = "exchange"
         THEN IF FileExists(tree, q) \/ DirExists(tree, q) THEN "ENOSYS" ELSE "ENOENT"
    ELSE IF ~FileExists(tree, p) /\ DirExists(tree, q) /\ tree[FindDirByPath(tree, q)] # EmptyDir
         THEN "ENOTEMPTY"
    ELSE "none"

\* Mutant: the source is removed first.
FileStepsSwapped(p, q, over) == <<On("flush", p), Step("move", p, q, over), Step("copy", p, q, over)>>

FileSteps(p, q, over) == <<On("flush", p), Step("copy", p, q, over), Step("move", p, q, over)>>
DirSteps(p, q) == <<On("mkdir", q), Step("moveAll", p, q, FALSE), On("rmdir", p)>>

\* An open handle follows its file (libfuse keeps the paths).
Follows(h, p, q) == IF IsPrefix(p, h[1]) THEN <<q \o SubSeq(h[1], Len(p) + 1, Len(h[1])), h[2]>> ELSE h

\* The kernel lets no directory move into itself, and nothing onto what holds it.
Rename(p, q, flag) ==
    /\ ~IsPrefix(p, q) /\ ~IsPrefix(q, p) /\ Handle(q) = {}
    /\ IF RenameError(p, q, flag) # "none" THEN Refuse(RenameError(p, q, flag))
       ELSE /\ Begin("rename", p, q,
                IF FileExists(tree, p) THEN FileSteps(p, q, FileExists(tree, q)) ELSE DirSteps(p, q))
            /\ UNCHANGED open

-----------------------------------------------------------------------------
\* The first step of the list is done, with others in front of the rest.
Continue(steps) ==
    /\ todo' = steps \o Tail(todo)
    /\ result' = IF todo' = <<>> THEN "ok" ELSE "running"
    /\ request' = IF todo' = <<>> THEN NoRequest ELSE request
    /\ open' = IF todo' = <<>> /\ request.op = "rename"
               THEN {Follows(h, request.path, request.to) : h \in open} ELSE open

Abort(error) ==
    /\ todo' = <<>> /\ result' = error /\ request' = NoRequest
    /\ UNCHANGED open

\* encryptAndAddActionFile and addAction, with the update of the tree after them.
Store(time, type, path, content, newTree) ==
    /\ stored' = Append(stored, [time |-> time, type |-> type, path |-> path, content |-> content])
    /\ tree' = newTree
    /\ Continue(<<>>)
    /\ UNCHANGED halfMoved

\* The repository refuses the action file.
StoreFails ==
    /\ MayFail
    /\ Abort("EIO")
    /\ UNCHANGED <<tree, stored>>

Doing(do) == todo # <<>> /\ Head(todo).do = do
Now == Len(stored) + 1

Flush ==
    /\ Doing("flush")
    /\ LET p == Head(todo).path
           f == FileAt(tree, p)
       IN IF ~Dirty(f) THEN Continue(<<>>) /\ UNCHANGED <<tree, stored, halfMoved>>
          ELSE \/ Store(Now, IF f.create THEN AddFile ELSE EditFile, p, f.content,
                        SetFile(tree, FindContainingDir(tree, p), Last(p), CleanFile(Last(p), f.content)))
               \/ StoreFails /\ UNCHANGED halfMoved

\* Mutant: the action adds the file, even if it is there.
CopyAsAdded ==
    /\ Doing("copy")
    /\ LET s == Head(todo)
       IN \/ Store(Now, AddFile, s.to, FileAt(tree, s.path).content, tree)
          \/ StoreFails /\ UNCHANGED halfMoved

\* The action for the destination; the tree waits for the one for the source.
Copy ==
    /\ Doing("copy")
    /\ LET s == Head(todo)
       IN \/ Store(Now, IF s.over THEN EditFile ELSE AddFile, s.to, FileAt(tree, s.path).content, tree)
          \/ StoreFails /\ UNCHANGED halfMoved

\* Mutant: the file stays in the source directory as well.
MovedAndKept(p, q, over) ==
    IF over THEN {tree}
    ELSE {AddFileTo(tree, FindContainingDir(tree, q), [FileAt(tree, p) EXCEPT !.name = Last(q)])}

\* The source leaves its directory.  A file that was there keeps its dirty flags
\* and its pending writes, over the content it gets.
MovedFile(p, q, over) ==
    LET f == FileAt(tree, p)
        without == RemoveFileFrom(tree, FindContainingDir(tree, p), Last(p))
        d == FindContainingDir(tree, q)
        target == FileAt(without, q)
    IN IF ~over THEN {AddFileTo(without, d, [f EXCEPT !.name = Last(q)])}
       ELSE {SetFile(without, d, Last(q), [target EXCEPT !.content = c]) :
                c \in IF target.write THEN ContentOf \ {NoContent} ELSE {f.content}}

Move ==
    /\ Doing("move")
    /\ LET s == Head(todo)
       IN \/ \E newTree \in MovedFile(s.path, s.to, s.over) :
                Store(Last(stored).time, RemoveFile, s.path, NoContent, newTree)
          \/ StoreFails /\ halfMoved' = TRUE

Delete ==
    /\ Doing("remove")
    /\ LET p == Head(todo).path
       IN \/ Store(Now, RemoveFile, p, NoContent,
                   RemoveFileFrom(tree, FindContainingDir(tree, p), Last(p)))
          \/ StoreFails /\ UNCHANGED halfMoved

\* Mutant: a directory that is there is made again.
MakeDirAgain ==
    /\ Doing("mkdir")
    /\ LET p == Head(todo).path
           d == FindContainingDir(tree, p)
       IN IF d \notin DOMAIN tree \/ FileExists(tree, p)
          THEN Abort("EEXIST") /\ UNCHANGED <<tree, stored, halfMoved>>
          ELSE \/ Store(Now, AddDirectory, p, NoContent, AddDirTo(tree, d, Last(p)))
               \/ StoreFails /\ UNCHANGED halfMoved

\* bucse_mkdir.
MakeDir ==
    /\ Doing("mkdir")
    /\ LET p == Head(todo).path
           d == FindContainingDir(tree, p)
           error == IF d \notin DOMAIN tree THEN "ENOENT"
                    ELSE IF DirExists(tree, p) \/ FileExists(tree, p) THEN "EEXIST" ELSE "none"
       IN IF error # "none" THEN Abort(error) /\ UNCHANGED <<tree, stored, halfMoved>>
          ELSE \/ Store(Now, AddDirectory, p, NoContent, AddDirTo(tree, d, Last(p)))
               \/ StoreFails /\ UNCHANGED halfMoved

\* What one turn of the loops puts in front of the rest of the list.
MoveFirstFile(s, dir) ==
    FileSteps(s.path \o <<dir.files[1].name>>, s.to \o <<dir.files[1].name>>, FALSE) \o <<s>>
MoveFirstDir(s, dir) ==
    DirSteps(s.path \o <<dir.dirs[1].name>>, s.to \o <<dir.dirs[1].name>>) \o <<s>>

\* Mutant: the directories are left.
MoveFilesOnly(s, dir) == IF dir.files # <<>> THEN MoveFirstFile(s, dir) ELSE <<>>

\* Mutant: the loop does not end.
MoveForever(s, dir) ==
    IF dir.files # <<>> THEN MoveFirstFile(s, dir)
    ELSE IF dir.dirs # <<>> THEN MoveFirstDir(s, dir) ELSE <<s>>

\* The two loops of renameDir: the first file, or else the first directory, again
\* and again.
MoveNext(s, dir) ==
    IF dir.files # <<>> THEN MoveFirstFile(s, dir)
    ELSE IF dir.dirs # <<>> THEN MoveFirstDir(s, dir) ELSE <<>>

MoveAll ==
    /\ Doing("moveAll")
    /\ Continue(MoveNext(Head(todo), tree[FindDirByPath(tree, Head(todo).path)]))
    /\ UNCHANGED <<tree, stored, halfMoved>>

\* bucse_rmdir.
RemoveDir ==
    /\ Doing("rmdir")
    /\ LET p == Head(todo).path
           error == IF ~DirExists(tree, p) THEN IF FileExists(tree, p) THEN "EACCES" ELSE "ENOENT"
                    ELSE IF tree[FindDirByPath(tree, p)] # EmptyDir THEN "ENOTEMPTY" ELSE "none"
       IN IF error # "none" THEN Abort(error) /\ UNCHANGED <<tree, stored, halfMoved>>
          ELSE \/ Store(Now, RemoveDirectory, p, NoContent,
                        RemoveDirFrom(tree, FindContainingDir(tree, p), Last(p)))
               \/ StoreFails /\ UNCHANGED halfMoved

RunStep == Flush \/ Copy \/ Move \/ Delete \/ MakeDir \/ MoveAll \/ RemoveDir

Request ==
    \/ \E p \in Targets :
        \/ Unlink(p) \/ Mkdir(p) \/ Rmdir(p) \/ GetAttr(p)
        \/ \E mode \in {"r", "w"} : Create(p, mode) \/ Open(p, mode) \/ Release(p, mode)
        \/ \E c \in Contents : Write(p, c)
        \/ \E q \in Targets, flag \in {"none", "noreplace", "exchange"} : Rename(p, q, flag)

Next == Request \/ RunStep \/ Remount

\* An operation that began runs on; nothing else has to happen.
Spec == Init /\ [][Next]_vars /\ WF_vars(RunStep)

-----------------------------------------------------------------------------
\* Every variable keeps its type, and what is in memory is a tree without repeated
\* names.
TypeOK ==
    /\ IsTree(tree)
    /\ stored \in Seq(Actions)
    /\ open \subseteq (Seq(Names) \X {"r", "w"})
    /\ todo \in Seq([do : {"flush", "copy", "move", "remove", "mkdir", "moveAll", "rmdir"},
                     path : Seq(Names), to : Seq(Names), over : BOOLEAN])
    /\ halfMoved \in BOOLEAN
    /\ todo = <<>> <=> request = NoRequest

\* What a tree holds at a path.
ContentAt(t, p) == IF FileExists(t, p) THEN FileAt(t, p).content ELSE NoContent
FilesOf(t) == [p \in Paths |-> ContentAt(t, p)]
DirsOf(t) == {p \in Paths : DirExists(t, p)}

Settled ==
    /\ todo = <<>>
    /\ \A n \in DOMAIN tree : \A k \in DOMAIN tree[n].files : ~Dirty(tree[n].files[k])

\* Once nothing waits for a flush a mount of the repository, in whichever order it
\* sorts the actions of one time, shows what memory shows: after refused action
\* files, too, unless it was the second one of a moved file (rename.c:103).
MountShowsTree ==
    Settled /\ ~halfMoved => \A log \in MountOrders(stored) :
        LET mounted == Replay(log) IN FilesOf(mounted) = FilesOf(tree) /\ DirsOf(mounted) = DirsOf(tree)

\* A rename that succeeds moves everything below the source, to any depth, and
\* nothing else (renameDir's loops and recursion), except that a file replaced
\* while writes to it are pending keeps those (rename.c:124).
Moved(files, p, q) == [r \in Paths |->
    IF IsPrefix(q, r)
    THEN LET source == p \o SubSeq(r, Len(q) + 1, Len(r)) IN IF source \in Paths THEN files[source] ELSE NoContent
    ELSE IF IsPrefix(p, r) THEN NoContent ELSE files[r]]
MovedDirs(dirs, p, q) ==
    {r \in dirs : ~IsPrefix(p, r)} \union
    {q \o SubSeq(r, Len(p) + 1, Len(r)) : r \in {s \in dirs : IsPrefix(p, s)}}
Ends(op) == request.op = op /\ todo' = <<>>
RenameMoves ==
    [][Ends("rename") /\ result' = "ok" =>
        LET p == request.path
            q == request.to
            before == request.tree
        IN \/ FileExists(before, q) /\ FileAt(before, q).write
           \/ /\ FilesOf(tree') = Moved(FilesOf(before), p, q)
              /\ DirsOf(tree') = MovedDirs(DirsOf(before), p, q)]_vars

\* An operation that answers an error other than EIO has changed nothing, however
\* deep in the recursion it was refused (unless a directory holds a file and a
\* directory of one name, see the README).
RefusedChangesNothing ==
    [][todo # <<>> /\ todo' = <<>> /\ result' \notin {"ok", "EIO", "mounted"} =>
        tree' = request.tree /\ Len(stored') = request.stored]_vars

\* The files a rename moves that a mount before it would have shown as they are.
Durable(log) == Replay(log)
Moves ==
    LET t == request.tree
        log == SubSeq(stored, 1, request.stored)
        below == {r \in Paths : IsPrefix(request.path, r) /\ FileExists(t, r)
                                 /\ ContentAt(Durable(log), r) = ContentAt(t, r)}
    IN {[from |-> r, to |-> request.to \o SubSeq(r, Len(request.path) + 1, Len(r)),
         content |-> ContentAt(t, r)] : r \in below}
IsHeld(m, log) == m.content \in {ContentAt(Durable(log), m.from), ContentAt(Durable(log), m.to)}
TargetKnown(m) ==
    FileExists(request.tree, m.to) = FileExists(Durable(SubSeq(stored, 1, request.stored)), m.to)

\* Whenever the client dies in a rename, refused action files included, a mount
\* finds every moved file at its old path or at its new one: the destination is
\* stored before the source is removed.  What is in memory and in the repository
\* must agree on whether the target exists (rename.c:49 decides by memory).
CrashKeepsMoved ==
    [][request.op = "rename" => \A m \in Moves : TargetKnown(m) => IsHeld(m, stored')]_vars

\* "move file from src to dst" (rename.c:123), whatever the target was.
RenameKeepsContent ==
    [][request.op = "rename" => \A m \in Moves : IsHeld(m, stored')]_vars

\* Every operation returns: the loops of renameDir shrink the source.
OperationsReturn == todo # <<>> ~> todo = <<>>
=============================================================================
