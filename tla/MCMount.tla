------------------------------- MODULE MCMount -------------------------------
(***************************************************************************)
(* A small instance of Mount: two workers.                                 *)
(***************************************************************************)
EXTENDS Mount

CONSTANTS w1, w2    \* model values

TwoWorkers == {w1, w2}
=============================================================================
