----------------------------- MODULE MCNamespace -----------------------------
(***************************************************************************)
(* Small instances of Namespace: a directory with a file and a directory   *)
(* with a file in it, and two names that are free.                         *)
(***************************************************************************)
EXTENDS Namespace

CONSTANTS nameA, nameB, nameF, empty, old     \* model values: names and contents

MCNames == {nameA, nameB, nameF}
MCContents == {empty, old}

Made(time, type, path, content) == [time |-> time, type |-> type, path |-> path, content |-> content]

\* What the repository holds: a/f and a/b/f.
DeepLog == <<
    Made(1, AddDirectory, <<nameA>>, NoContent), Made(2, AddFile, <<nameA, nameF>>, old),
    Made(3, AddDirectory, <<nameA, nameB>>, NoContent), Made(4, AddFile, <<nameA, nameB, nameF>>, old)>>
FlatLog == << Made(1, AddFile, <<nameF>>, old) >>
\* A file and a directory of one name in one directory.
MixedLog == <<
    Made(1, AddDirectory, <<nameA>>, NoContent), Made(2, AddFile, <<nameA, nameF>>, old),
    Made(3, AddDirectory, <<nameA, nameF>>, NoContent)>>

AllPaths == UNION {[1 .. n -> MCNames] : n \in 1 .. 4}
TopTargets == {<<nameA>>, <<nameB>>, <<nameF>>}
DeepTargets == {<<nameA>>, <<nameB>>, <<nameA, nameF>>}
=============================================================================
