------------------------------ MODULE DynArray ------------------------------
(***************************************************************************)
(* What the arrays of dynarray.c do to their elements.  The order they are *)
(* in after a removal is visible to the loops of actions.c and cache.c.    *)
(***************************************************************************)
EXTENDS Integers, Sequences

\* Mutant: the length shrinks and the hole is not filled.
RemoveLast(s, i) == [k \in 1 .. Len(s) - 1 |-> s[k]]

\* removeFromDynArrayUnorderedByIndex: the last element fills the hole.
RemoveUnordered(s, i) ==
    [k \in 1 .. Len(s) - 1 |-> IF k = i THEN s[Len(s)] ELSE s[k]]
=============================================================================
