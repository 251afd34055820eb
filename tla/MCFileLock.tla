---------------------------- MODULE MCFileLock ----------------------------
(***************************************************************************)
(* The instance of FileLock: every caller is a process of its own.         *)
(***************************************************************************)
EXTENDS FileLock, TLC

CONSTANTS a, b, c, k

Apart == [o \in Owners |-> o]
=============================================================================
