----------------------------- MODULE MCActionLog -----------------------------
(***************************************************************************)
(* Small instances of ActionLog: one directory, two file names.            *)
(***************************************************************************)
EXTENDS ActionLog

CONSTANTS dirA, fileF, fileG, old, new     \* model values: names and contents

MCNames == {dirA, fileF, fileG}
MCContents == {old, new}

\* In strcmp order: the directory, the file in it, the other files.
InOrder == << <<dirA>>, <<dirA, fileF>>, <<fileF>>, <<fileG>> >>
MCPaths == ToSet(InOrder)
FilePaths == {<<fileF>>, <<fileG>>}
TreePaths == {<<dirA>>, <<dirA, fileF>>}
MCPathRank == [p \in Paths |-> CHOOSE n \in DOMAIN InOrder : InOrder[n] = p]

\* The history of a file on another machine, removed and made again, and an
\* unrelated, older file.
OneFile ==
    {Action(1, AddFile, <<fileG>>, new), Action(2, AddFile, <<fileF>>, old),
     Action(4, EditFile, <<fileF>>, new), Action(6, RemoveFile, <<fileF>>, NoContent),
     Action(7, AddFile, <<fileF>>, new)}

\* A directory with a file, made and removed on another machine, and made on a third
\* one that has not heard of it.
OneDirectory ==
    {Action(1, AddDirectory, <<dirA>>, NoContent), Action(3, AddFile, <<dirA, fileF>>, old),
     Action(5, RemoveFile, <<dirA, fileF>>, NoContent), Action(6, AddDirectory, <<dirA>>, NoContent),
     Action(7, RemoveDirectory, <<dirA>>, NoContent)}

\* A file renamed on another machine: both actions have one time.
OneRename == {Action(2, AddFile, <<fileG>>, new), Action(2, RemoveFile, <<fileF>>, NoContent)}

LocalOdd == {3, 5}
LocalEven == {2, 4}
Nothing == {}
OnlyF == {<<fileF>>}
OnlyA == {<<dirA>>}
OnlyAF == {<<dirA, fileF>>}
=============================================================================
