-------------------------- MODULE MCTaskDelivery --------------------------
(***************************************************************************)
(* Instances of TaskDelivery.                                              *)
(***************************************************************************)
EXTENDS TaskDelivery
=============================================================================
