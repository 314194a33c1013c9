----------------------------- MODULE MCCreation -----------------------------
(***************************************************************************)
(* Small instances of Creation: three inits, with and without encryption,  *)
(* one over ssh, and two mounts, one with a passphrase.                    *)
(***************************************************************************)
EXTENDS Creation

CONSTANTS plain, first, second, opened, locked     \* model values

MCInits == {plain, first, second}
MCMounts == {opened, locked}
MCSsh == {second, locked}
MCAes == {first, second}
MCPassphrase == [m \in MCMounts |-> IF m = locked THEN first ELSE Nobody]
=============================================================================
