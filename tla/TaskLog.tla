------------------------------ MODULE TaskLog -------------------------------
(***************************************************************************)
(* The controller of src/src/task-authority/graph-control.ts as it keeps   *)
(* its state: complete graph revisions and an append-only log of events,   *)
(* whose common sequence numbers are here the places in one log, and a     *)
(* receipt for each operation.  Everything else is read off the log.       *)
(*                                                                         *)
(* TaskGraph has the same commands over the folds of the log; that this    *)
(* module implements it is one of the properties.  The others are about    *)
(* the readers: the check of a stored snapshot, before any command and any *)
(* read, and the check of a receipt, before a replay is answered.  Replays *)
(* of an operation, which change nothing here, are in TaskAuthority.       *)
(***************************************************************************)
EXTENDS Naturals, Sequences, FiniteSets, SequencesExt

CONSTANTS
  Tasks, Workers, Leader, Meanings, Contexts, NoTask, NoContext, MaxTraversals,
  Graphs, MaxRevisions, MaxAttempts,  \* as in TaskGraph
  MaxCommands,  \* bound of the model: commands accepted
  MaxExtras     \* bound of the model: contexts recorded, clocks set back and old
                \* programs that record no times

ASSUME BoundsAssumption == MaxCommands \in Nat /\ MaxExtras \in Nat

VARIABLES
  log,       \* the revisions and events
  derived,   \* what derive() has read off them: derivedCache
  receipts,  \* the results of the operations, which are numbered
  clock,     \* the last recorded_at; 0 while the program records no times
  extras     \* what is left of MaxExtras

vars == <<log, derived, receipts, clock, extras>>

-----------------------------------------------------------------------------
(* What a log says.                                                        *)

Of(l, kinds) == {i \in DOMAIN l : l[i].kind \in kinds}

Latest(S) == IF S = {} THEN 0 ELSE Max(S)

\* The revision that holds at a place of the log, 0 without one.
RevisionBefore(l, i) == Latest({j \in Of(l, {"graph_revision"}) : j < i})

CurrentRevision(l) == RevisionBefore(l, Len(l) + 1)

GraphOf(l, r) == IF r = 0 THEN << >> ELSE l[r].graph

CurrentGraph(l) == GraphOf(l, CurrentRevision(l))

\* How many revisions there are up to a place: TaskGraph counts them.
Number(l, i) == Cardinality({j \in Of(l, {"graph_revision"}) : j <= i})

\* Mutant: the first event of a kind counts, not the last.
FoldFirst(l, a, kind) ==
  LET found == {i \in Of(l, {kind}) : l[i].attempt = a}
  IN  IF found = {} THEN 0 ELSE Min(found)

\* The last event of a kind that an Attempt has, 0 without one.
Fold(l, a, kind) == Latest({i \in Of(l, {kind}) : l[i].attempt = a})

Phase(l, a) ==
  IF Fold(l, a, "attempt_completed") # 0
  THEN IF \E i \in Of(l, {"failure_edge_exhausted"}) : l[i].source = a THEN "exhausted"
       ELSE l[Fold(l, a, "attempt_completed")].outcome
  ELSE IF Fold(l, a, "task_cancelled") # 0 THEN "cancelled"
  ELSE IF Fold(l, a, "attempt_blocked") > Fold(l, a, "attempt_resumed") THEN "blocked"
  ELSE "in_progress"

\* The starts of the Attempts of a Task.
Starts(l, t) == {i \in Of(l, {"attempt_started"}) : l[i].attempt[1] = t}

Ordinals(l, t) == {l[i].attempt[2] : i \in Starts(l, t)}

\* What the events make of an Attempt.
AttemptFold(l, a) ==
  LET start == l[Fold(l, a, "attempt_started")]
  IN  [lineage |-> Number(l, start.lineage), demand |-> start.demand,
       inputs |-> start.inputs, worker |-> start.worker, phase |-> Phase(l, a),
       superseded |-> Fold(l, a, "attempt_superseded") # 0]

\* attemptFolds(): the Attempts by their identity.
Attempts(l) == [t \in Tasks |-> [n \in Ordinals(l, t) |-> AttemptFold(l, <<t, n>>)]]

Lineages(l) ==
  [t \in Tasks |-> IF t \in DOMAIN CurrentGraph(l)
                   THEN Number(l, l[CurrentRevision(l)].lineage[t]) ELSE 0]

Cancellations(l) ==
  {<<l[i].task, Number(l, l[i].lineage)>> : i \in Of(l, {"task_cancelled"})}

Traversed(l) ==
  {[source |-> l[i].source[1], sourceLineage |-> Number(l, l[i].lineage),
    target |-> l[i].target, targetLineage |-> Number(l, l[i].targetLineage),
    nth |-> l[i].traversal] : i \in Of(l, {"failure_edge_traversed"})}

NotedContexts(l) ==
  [t \in Tasks |->
     LET i == Latest({j \in Of(l, {"task_context_updated"}) : l[j].task = t})
     IN  IF i = 0 THEN [lineage |-> 0, text |-> NoContext]
         ELSE [lineage |-> Number(l, l[i].lineage), text |-> l[i].text]]

\* What derive() reads off a log: the variables of TaskGraph.
Read(l) ==
  [revision |-> Number(l, Len(l)), graph |-> CurrentGraph(l), lineage |-> Lineages(l),
   attempts |-> Attempts(l), cancelled |-> Cancellations(l), traversals |-> Traversed(l),
   context |-> NotedContexts(l)]

\* What derive() makes of it.
Graph(d) == INSTANCE TaskGraph WITH
  revision <- d.revision, graph <- d.graph, lineage <- d.lineage, attempts <- d.attempts,
  cancelled <- d.cancelled, traversals <- d.traversals, context <- d.context

Derived == INSTANCE TaskGraph WITH
  revision <- derived.revision, graph <- derived.graph, lineage <- derived.lineage,
  attempts <- derived.attempts, cancelled <- derived.cancelled,
  traversals <- derived.traversals, context <- derived.context

ASSUME GraphAssumption ==
  /\ Tasks \subseteq Nat /\ IsFiniteSet(Tasks)
  /\ NoTask \notin Tasks /\ NoContext \notin Contexts
  /\ \A g \in Graphs : Derived!IsGraph(g)
  /\ MaxTraversals \in Nat /\ MaxRevisions \in Nat /\ MaxAttempts \in Nat

-----------------------------------------------------------------------------
(* Results                                                                 *)

\* The card of a Task: what toView() shows of it.
Card(t, l, d, A) ==
  LET lineage == l[CurrentRevision(l)].lineage[t]
  IN  [definition |-> d.graph[t], state |-> Graph(d)!State(t),
       context |-> LET i == Latest({j \in Of(l, {"task_context_updated"}) :
                                      l[j].task = t /\ l[j].lineage = lineage})
                   IN  IF i = 0 THEN NoContext ELSE l[i].text,
       activation |-> IF Graph(d)!Released(t, A)
                      THEN <<lineage, Graph(d)!Demand(t), Graph(d)!Inputs(t, A)>> ELSE << >>,
       attemptsStarted |-> Cardinality(Starts(l, t))]

Cards(l, d) == LET A == Graph(d)!Accepted IN [t \in DOMAIN d.graph |-> Card(t, l, d, A)]

ReadyIds(cards) == {t \in DOMAIN cards : cards[t].state = "ready"}

Applied(l, d) ==
  LET cards == Cards(l, d)
  IN  [kind |-> "graph_applied", revision |-> CurrentRevision(l), tasks |-> cards,
       ready |-> ReadyIds(cards)]

Transitioned(transition, t, traversal, l, d) ==
  LET cards == Cards(l, d)
  IN  [kind |-> "task_transitioned", transition |-> transition, task |-> t,
       card |-> cards[t], ready |-> ReadyIds(cards), traversal |-> traversal]

-----------------------------------------------------------------------------
(* Commands                                                                *)

Init ==
  /\ log = << >> /\ derived = Read(<< >>) /\ receipts = << >>
  /\ \/ clock = 1 /\ extras = MaxExtras
     \/ clock = 0 /\ extras = MaxExtras - 1 /\ MaxExtras > 0

\* The time of a command: later than the last, unless the clock was set back.
Records(at, spent) ==
  \/ spent = 0 /\ at = clock + 1
  \/ spent = 0 /\ at = 0 /\ clock = 0
  \/ spent = 1 /\ at = 1 /\ clock > 1

\* The result of a command, read off the log that it leaves; a graph is applied
\* to no Task.
Result(transition, t, traversal, l, d) ==
  IF t = NoTask THEN Applied(l, d) ELSE Transitioned(transition, t, traversal, l, d)

\* What a command records, with the fields that all its records have.
WithFields(r, stamp) ==
  [x \in DOMAIN r \cup DOMAIN stamp |-> IF x \in DOMAIN stamp THEN stamp[x] ELSE r[x]]

Stamped(records, stamp) == [i \in DOMAIN records |-> WithFields(records[i], stamp)]

\* What a command records is in the log together or not at all.
Commit(revisions, events, used, transition, t, traversal) ==
  /\ Len(receipts) < MaxCommands
  /\ \E at \in 0..(clock + 1), spent \in {0, 1} :
       /\ Records(at, spent)
       /\ extras >= used + spent
       /\ extras' = extras - used - spent
       /\ clock' = at
       /\ LET operation == Len(receipts) + 1
              next == log \o Stamped(revisions, [at |-> at])
                          \o Stamped(events, [operation |-> operation, at |-> at])
              value == Read(next)
          IN  /\ log' = next
              /\ derived' = value
              /\ receipts' = Append(receipts, Result(transition, t, traversal, next, value))

\* Attempts of different Tasks, in the order of the Tasks.
InOrder(S) ==
  [i \in 1..Cardinality(S) |->
     CHOOSE a \in S : Cardinality({b \in S : b[1] <= a[1]}) = i]

Supersede(S) ==
  [i \in DOMAIN InOrder(S) |-> [kind |-> "attempt_superseded", attempt |-> InOrder(S)[i]]]

ApplyGraph(g) ==
  LET now == Derived!Accepted
      revision == [kind |-> "graph_revision", graph |-> g,
                   lineage |-> [t \in DOMAIN g |->
                      IF t \in DOMAIN derived.graph /\ derived.graph[t] = g[t]
                      THEN log[CurrentRevision(log)].lineage[t] ELSE Len(log) + 1]]
  IN  /\ derived.revision < MaxRevisions
      /\ Derived!ValidGraph(g)
      /\ Commit(<<revision>>, Supersede(Derived!StandingIds(Derived!Affected(g), now)),
                0, "apply", NoTask, << >>)

LineageOf(t) == log[CurrentRevision(log)].lineage[t]

\* A command about a Task: its own events, then that of the context it carries.
Transition(transition, t, events, traversal, c) ==
  LET noted == IF c = NoContext THEN << >>
               ELSE <<[kind |-> "task_context_updated", task |-> t, lineage |-> LineageOf(t),
                       text |-> c]>>
  IN  Commit(<< >>, events \o noted, Len(noted), transition, t, traversal)

\* Mutant: counts the Attempts of the current meaning of the Task only.
NextOrdinalOfLineage(t) ==
  Cardinality({i \in Starts(log, t) : log[i].lineage = LineageOf(t)}) + 1

NextOrdinal(t) == Cardinality(Starts(log, t)) + 1

Current(t) == <<t, Derived!Last(Derived!Activation(t, Derived!Accepted))>>

Claim(t, w, c) ==
  LET A == Derived!Accepted
  IN  /\ NextOrdinal(t) <= MaxAttempts
      /\ Derived!Ready(t, A) /\ Derived!MayMove(w, t, A) /\ ~Derived!Occupied(w, A)
      /\ Transition("claim", t,
           <<[kind |-> "attempt_started", attempt |-> <<t, NextOrdinal(t)>>,
              revision |-> CurrentRevision(log), lineage |-> LineageOf(t),
              demand |-> Derived!Demand(t), inputs |-> Derived!Inputs(t, A),
              worker |-> w]>>, << >>, c)

\* The Worker moves its current Attempt, which is in the phase.
Moves(t, w, phase) ==
  LET A == Derived!Accepted
  IN  Derived!In(t, {phase}, A) /\ Derived!MayMove(w, t, A)

Block(t, w, c) ==
  /\ Moves(t, w, "in_progress")
  /\ Transition("block", t, <<[kind |-> "attempt_blocked", attempt |-> Current(t)]>>, << >>, c)

Resume(t, w, c) ==
  /\ Moves(t, w, "blocked")
  /\ ~Derived!Occupied(w, Derived!Accepted)
  /\ Transition("resume", t, <<[kind |-> "attempt_resumed", attempt |-> Current(t)]>>, << >>, c)

Completed(t, outcome) ==
  <<[kind |-> "attempt_completed", attempt |-> Current(t), outcome |-> outcome]>>

Achieve(t, w, c) ==
  /\ Moves(t, w, "in_progress")
  /\ Transition("goal_achieved", t, Completed(t, "goal_achieved"), << >>, c)

\* The failure edges of a Task that were followed, up to a place of a log.
TraversalsBefore(l, i, t, lineage) ==
  Cardinality({j \in Of(l, {"failure_edge_traversed"}) :
                 j < i /\ l[j].source[1] = t /\ l[j].lineage = lineage})

FailWithoutRepair(t, w, c) ==
  LET edge == derived.graph[t].target
      prior == TraversalsBefore(log, Len(log) + 1, t, LineageOf(t))
      exhausted == <<[kind |-> "failure_edge_exhausted", source |-> Current(t),
                      lineage |-> LineageOf(t), target |-> edge, traversals |-> prior]>>
  IN  /\ Moves(t, w, "in_progress")
      /\ \/ /\ edge = NoTask
            /\ Transition("goal_failed", t, Completed(t, "goal_failed"), << >>, c)
         \/ /\ edge # NoTask
            /\ prior >= derived.graph[t].limit \/ Derived!IsCancelled(edge)
            /\ Transition("goal_failed", t, Completed(t, "goal_failed") \o exhausted, << >>, c)

FailWithRepair(t, w, c) ==
  LET edge == derived.graph[t].target
      prior == TraversalsBefore(log, Len(log) + 1, t, LineageOf(t))
      traversed == <<[kind |-> "failure_edge_traversed", source |-> Current(t),
                      lineage |-> LineageOf(t), target |-> edge,
                      targetLineage |-> LineageOf(edge), traversal |-> prior + 1]>>
      behind == Derived!StandingIds(
        Derived!ReverseClosure({edge}, derived.graph), Derived!Accepted)
  IN  /\ Moves(t, w, "in_progress")
      /\ edge # NoTask
      /\ prior < derived.graph[t].limit /\ ~Derived!IsCancelled(edge)
      /\ Transition("goal_failed", t,
           Completed(t, "goal_failed") \o traversed \o Supersede(behind \ {Current(t)}),
           <<t, edge, prior + 1>>, c)

Cancel(t, w, c) ==
  LET A == Derived!Accepted
      own == IF Derived!In(t, {"in_progress", "blocked"}, A) THEN {Current(t)} ELSE {}
      active == {u \in Derived!ReverseClosure({t}, derived.graph) : Derived!Active(u) # {}}
      behind == {<<u, Derived!Last(Derived!Active(u))>> : u \in active} \ own
  IN  /\ Derived!Waiting(t, A) \/ Derived!Ready(t, A) \/ own # {}
      /\ w = Leader \/ Derived!MayMove(w, t, A)
      /\ Transition("cancel", t,
           <<[kind |-> "task_cancelled", task |-> t, lineage |-> LineageOf(t),
              attempt |-> IF own = {} THEN << >> ELSE Current(t)]>> \o Supersede(behind),
           << >>, c)

RecordContext(t, c) ==
  /\ c # NoContext
  /\ Transition("context_updated", t, << >>, << >>, c)

Next ==
  \/ \E g \in Graphs : ApplyGraph(g)
  \/ \E t \in DOMAIN derived.graph, c \in Contexts \cup {NoContext} :
       \/ RecordContext(t, c)
       \/ Cancel(t, Leader, c)
       \/ \E w \in Workers :
            \/ Claim(t, w, c)
            \/ Block(t, w, c)
            \/ Resume(t, w, c)
            \/ Achieve(t, w, c)
            \/ FailWithoutRepair(t, w, c)
            \/ FailWithRepair(t, w, c)
            \/ Cancel(t, w, c)

Spec == Init /\ [][Next]_vars

-----------------------------------------------------------------------------
(* What recover() asks of a stored snapshot                                *)

\* Lineages are those that the revision before gives or that begin here.
RevisionIsValid(l, i) ==
  LET prior == RevisionBefore(l, i)
  IN  /\ Derived!ValidGraph(l[i].graph)
      /\ \A t \in DOMAIN l[i].graph :
           l[i].lineage[t] =
             IF t \in DOMAIN GraphOf(l, prior) /\ l[prior].graph[t] = l[i].graph[t]
             THEN l[prior].lineage[t] ELSE i

\* The events of a kind that an Attempt has before a place.
Earlier(l, i, kind, a) == {j \in Of(l, {kind}) : j < i /\ l[j].attempt = a}

IsOfLineage(l, i, t) ==
  LET r == RevisionBefore(l, i)
  IN  t \in DOMAIN GraphOf(l, r) /\ l[i].lineage = l[r].lineage[t]

StartIsValid(l, i) ==
  LET t == l[i].attempt[1]
      r == RevisionBefore(l, i)
      earlier == {j \in Of(l, {"attempt_started"}) : j < i /\ l[j].attempt[1] = t}
  IN  /\ IsOfLineage(l, i, t)
      /\ l[i].revision = r
      /\ l[i].worker = l[r].graph[t].assignee
      /\ l[i].attempt[2] = Cardinality(earlier) + 1

AttemptEventIsValid(l, i) ==
  /\ Earlier(l, i, "attempt_started", l[i].attempt) # {}
  /\ l[i].kind # "attempt_superseded" => Earlier(l, i, "attempt_completed", l[i].attempt) = {}

FailureEventIsValid(l, i) ==
  LET e == l[i]
      t == e.source[1]
      r == RevisionBefore(l, i)
      prior == TraversalsBefore(l, i, t, e.lineage)
  IN  /\ IsOfLineage(l, i, t)
      /\ \E j \in Earlier(l, i, "attempt_completed", e.source) : l[j].outcome = "goal_failed"
      /\ e.target = l[r].graph[t].target
      /\ \A j \in Of(l, {"failure_edge_traversed", "failure_edge_exhausted"}) :
           j < i => l[j].source # e.source
      /\ IF e.kind = "failure_edge_traversed"
         THEN /\ e.targetLineage = l[r].lineage[e.target]
              /\ e.traversal = prior + 1
              /\ e.traversal <= l[r].graph[t].limit
         ELSE e.traversals = prior

EventFits(l, i) ==
  /\ RevisionBefore(l, i) # 0
  /\ CASE l[i].kind = "attempt_started" -> StartIsValid(l, i)
       [] l[i].kind \in {"attempt_blocked", "attempt_resumed", "attempt_completed",
                         "attempt_superseded"} -> AttemptEventIsValid(l, i)
       [] l[i].kind = "task_cancelled" ->
            /\ IsOfLineage(l, i, l[i].task)
            /\ l[i].attempt # << >> => l[i].attempt[1] = l[i].task
       [] l[i].kind = "task_context_updated" -> IsOfLineage(l, i, l[i].task)
       [] OTHER -> FailureEventIsValid(l, i)

EventIsValid(l, i) == l[i].operation \in DOMAIN receipts /\ EventFits(l, i)

\* What validateSnapshot() accepts.
SnapshotIsValid(l) ==
  \A i \in DOMAIN l :
    IF l[i].kind = "graph_revision" THEN RevisionIsValid(l, i) ELSE EventIsValid(l, i)

-----------------------------------------------------------------------------
(* What a replay asks of its receipt                                       *)

EventsOf(l, k) == {i \in DOMAIN l : l[i].kind # "graph_revision" /\ l[i].operation = k}

\* The last record of an operation.
EndOf(l, k, receipt) ==
  Latest(EventsOf(l, k) \cup IF receipt.kind = "graph_applied" THEN {receipt.revision} ELSE {})

TransitionOf(e) ==
  CASE e.kind = "attempt_started"   -> "claim"
    [] e.kind = "attempt_blocked"   -> "block"
    [] e.kind = "attempt_resumed"   -> "resume"
    [] e.kind = "attempt_completed" -> e.outcome
    [] e.kind = "task_cancelled"    -> "cancel"
    [] OTHER                        -> "context_updated"

TaskOf(e) ==
  IF e.kind \in {"task_cancelled", "task_context_updated"} THEN e.task ELSE e.attempt[1]

\* The result of an operation that its events stand for, in the log they close.
ResultOf(l, k, receipt) ==
  LET then == SubSeq(l, 1, EndOf(l, k, receipt))
      first == l[Min(EventsOf(l, k))]
      followed == EventsOf(l, k) \cap Of(l, {"failure_edge_traversed"})
      traversal == IF followed = {} THEN << >>
                   ELSE LET e == l[Min(followed)] IN <<e.source[1], e.target, e.traversal>>
  IN  IF receipt.kind = "graph_applied" THEN Applied(then, Read(then))
      ELSE Transitioned(TransitionOf(first), TaskOf(first), traversal, then, Read(then))

\* What validateReceiptProjection() accepts.
ReceiptIsValid(l, k, receipt) ==
  /\ receipt.kind = "graph_applied" => receipt.revision \in Of(l, {"graph_revision"})
  /\ receipt.kind = "task_transitioned" => EventsOf(l, k) # {}
  /\ receipt = ResultOf(l, k, receipt)

-----------------------------------------------------------------------------
(* Correctness                                                             *)

\* What the log says, read back as derive() reads it, moves as TaskGraph does:
\* the commands over the events and those over their folds are the same.  And no
\* command is lost in the reading, unless it only notes a context again.
ImplementsTaskGraph ==
  /\ Derived!Spec
  /\ [][\/ derived' # derived
        \/ /\ Len(log') = Len(log) + 1
           /\ log'[Len(log')].kind = "task_context_updated"]_log

\* The program reads back whatever it has written: no command leaves a snapshot
\* that recover() refuses, and no later command takes an operation its replay.
ReadsBack ==
  /\ SnapshotIsValid(log)
  /\ \A k \in DOMAIN receipts : ReceiptIsValid(log, k, receipts[k])
=============================================================================
