--------------------------- MODULE TaskDerivation ---------------------------
(***************************************************************************)
(* derive() of src/src/task-authority/graph-control.ts as the source has   *)
(* it: one pass over the Tasks in topological order, each Task from the    *)
(* states of its prerequisites.  Module TaskGraph states the same          *)
(* derivation as a fixed point, from which one can reason; the runs        *)
(* compare the two in every state, and TaskGraphProofs proves them equal.  *)
(***************************************************************************)
EXTENDS TaskGraph

\* The state of a Task and its accepted Attempt, 0 when it has none, from those
\* of its prerequisites in d.
Walk(d, t) ==
  LET needs     == graph[t].needs
      cancels   == {p \in needs : d[p].state = "cancelled"}
      failures  == {p \in needs : d[p].state \in
                      {"dependency_failed", "goal_failed", "exhausted"}}
      waits     == {p \in needs : d[p].state # "goal_achieved"}
      inputs    == [p \in Tasks |-> IF p \in needs THEN d[p].attempt ELSE 0]
      matching  == {n \in DOMAIN attempts[t] :
                      /\ attempts[t][n].lineage = lineage[t]
                      /\ attempts[t][n].demand = Demand(t)
                      /\ attempts[t][n].inputs = inputs
                      /\ ~attempts[t][n].superseded
                      /\ attempts[t][n].phase # "cancelled"}
      phase     == attempts[t][Last(matching)].phase
      settle(s, n) == [state |-> s, attempt |-> n]
  IN  IF IsCancelled(t) THEN settle("cancelled", 0)
      ELSE IF cancels \cup failures # {} THEN settle("dependency_failed", 0)
      ELSE IF waits # {} THEN settle("dependency_waiting", 0)
      ELSE IF matching = {} THEN settle("ready", 0)
      ELSE settle(phase, IF phase = "goal_achieved" THEN Last(matching) ELSE 0)

\* The walk over all Tasks.
Derived ==
  LET derive[t \in DOMAIN graph] == Walk(derive, t)
  IN  derive

\* The fixed point that TaskGraph uses and the walk of the source agree on the
\* state of every Task and on the Attempt it accepts.
DerivationAgrees ==
  LET D == Derived
      A == Accepted
  IN  \A t \in DOMAIN graph :
        /\ State(t) = D[t].state
        /\ \A n \in 1 .. MaxAttempts : <<t, n>> \in A <=> n = D[t].attempt
=============================================================================
