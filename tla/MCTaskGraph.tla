---------------------------- MODULE MCTaskGraph ----------------------------
(***************************************************************************)
(* The graphs that the runs of TaskGraph apply.                            *)
(***************************************************************************)
EXTENDS TaskDerivation, TLC

Def(meaning, worker, needs, target, limit) ==
  [meaning |-> meaning, assignee |-> worker, needs |-> needs,
   target |-> target, limit |-> limit]

\* 1, then 2, then 3; the check 3 sends a failure back to 1.
Chain ==
  (1 :> Def("m", "v", {}, 0, 0)) @@ (2 :> Def("m", "w", {1}, 0, 0)) @@
  (3 :> Def("m", "v", {2}, 1, 1))

\* The same Tasks with another goal for 2.
ChainRevised == [Chain EXCEPT ![2].meaning = "n"]

\* 2 and 3 both need 1 and run beside each other; every failure has an edge.
Fork ==
  (1 :> Def("m", "v", {}, 1, 1)) @@ (2 :> Def("m", "w", {1}, 1, 1)) @@
  (3 :> Def("m", "v", {1}, 3, 1))

\* 2 and 3 both need 1, and 4 joins them; a failure of 4 asks for 2 again.
Diamond ==
  (1 :> Def("m", "v", {}, 0, 0)) @@ (2 :> Def("m", "w", {1}, 0, 0)) @@
  (3 :> Def("m", "w", {1}, 0, 0)) @@ (4 :> Def("m", "v", {2, 3}, 2, 1))

\* 2 goes to the other Worker and 3 is dropped.
ChainReduced ==
  (1 :> Def("m", "v", {}, 0, 0)) @@ (2 :> Def("m", "v", {1}, 0, 0))

RepairGraphs == {Fork, Diamond}
ChainGraphs == {Chain, ChainRevised, ChainReduced}
=============================================================================
