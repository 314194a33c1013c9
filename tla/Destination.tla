---------------------------- MODULE Destination ----------------------------
(***************************************************************************)
(* What becomes of a file that a destination stores, and what the put      *)
(* answers (destinations/dest_local.c, destinations/dest_ssh.c), for files *)
(* of one write.                                                           *)
(***************************************************************************)
EXTENDS Integers, Sequences

\* A file is there, and empty, as soon as the put has opened it: "torn" is any file
\* that does not hold all it should.
States == {"none", "torn", "whole", "deleted"}
PutOutcome(file, answer) == [file |-> file, answer |-> answer]
Stored == PutOutcome("whole", "ok")

\* A put to a directory that meets a full disk: a write error is noticed, the one
\* that fclose reports is not.
LocalFailures == {PutOutcome("torn", "ok"), PutOutcome("torn", "error")}

\* A put over ssh that fails: the answer to the write may be lost.
SshFailures == {PutOutcome("whole", "error"), PutOutcome("torn", "error")}
=============================================================================
