----------------------------- MODULE MCFileData -----------------------------
(***************************************************************************)
(* Small instances of FileData: blocks of two or four bytes.               *)
(***************************************************************************)
EXTENDS FileData

OneByte == {<<1>>}
TwoBuffers == {<<1>>, <<2, 1>>}
Near == {0, 1, 3}
Two == {0, 1}
Far == {0, 3, 15}
=============================================================================
