-------------------------- MODULE MCTaskAuthority --------------------------
(* Operations are interchangeable, and only safety is checked with them.    *)
EXTENDS TaskAuthority, TLC

Renamings == Permutations(Operations)
=============================================================================
