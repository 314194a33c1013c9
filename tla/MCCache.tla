------------------------------- MODULE MCCache -------------------------------
(***************************************************************************)
(* Four blocks in two buckets, of one to three bytes.  *)
(***************************************************************************)
EXTENDS Cache

CONSTANTS k1, k2, k3, k4

FourKeys == {k1, k2, k3, k4}
TwoBuckets == [k \in Keys |-> IF k \in {k1, k3} THEN 0 ELSE 1]
Sizes == [k \in Keys |-> IF k = k3 THEN 2 ELSE IF k = k4 THEN 3 ELSE 1]
=============================================================================
