----------------------------- MODULE MCTaskLog -----------------------------
(***************************************************************************)
(* The graphs that the run of TaskLog and TaskView applies.                *)
(***************************************************************************)
EXTENDS TaskView

\* 1, then 2: a failure of 1 sends it back to itself, one of 2 back to 1.
Pair ==
  <<[meaning |-> "m", assignee |-> "v", needs |-> {}, target |-> 1, limit |-> 1],
    [meaning |-> "m", assignee |-> "w", needs |-> {1}, target |-> 1, limit |-> 1]>>

\* The same Tasks with another goal for 1, and without the failure edge of 2.
PairRevised == [Pair EXCEPT ![1].meaning = "n", ![2].target = NoTask]

PairGraphs == {Pair, PairRevised}
=============================================================================
