-------------------------------- MODULE LogSet --------------------------------
(***************************************************************************)
(* What the action log of a client promises: a set of actions, each known  *)
(* by its time, type and path, that only grows, by actions this machine    *)
(* makes and by actions other machines have stored, the latter waiting     *)
(* until the last file of their batch is read.                             *)
(***************************************************************************)
VARIABLES
    logged,     \* the actions in the log
    waiting     \* the actions read and not yet in the log

Init == logged = {} /\ waiting = {}

\* Files of other machines are read; what is logged already is not news.
Arrive ==
    /\ waiting \subseteq waiting' /\ waiting' \intersect logged = {}
    /\ UNCHANGED logged

\* Everything read so far, and nothing else, enters the log.
Absorb ==
    /\ logged' = logged \union waiting
    /\ waiting' = {}

\* A file operation of this machine logs its actions.
Make ==
    /\ logged \subseteq logged'
    /\ waiting' = waiting \ logged'

Next == Arrive \/ Absorb \/ Make

Spec == Init /\ [][Next]_<<logged, waiting>>
=============================================================================
