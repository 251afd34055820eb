-------------------------- MODULE MCWorkerLaunch --------------------------
(***************************************************************************)
(* Instances of WorkerLaunch: on Herdr, and on the other terminals.        *)
(***************************************************************************)
EXTENDS WorkerLaunch
=============================================================================
