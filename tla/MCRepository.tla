---------------------------- MODULE MCRepository ----------------------------
(***************************************************************************)
(* Small instances of Repository: a machine with the repository in a       *)
(* directory, one that reaches it over ssh, and an archive of what both    *)
(* stored.                                                                 *)
(***************************************************************************)
EXTENDS Repository

CONSTANTS near, far, one, two, tar     \* model values

MCClients == {near, far}
MCSsh == {far}
MCSingles == {one, two}
MCOwner == [f \in MCSingles |-> IF f = one THEN near ELSE far]
MCArchives == {tar}
MCPacked == [f \in MCArchives |-> <<one, two>>]
=============================================================================
