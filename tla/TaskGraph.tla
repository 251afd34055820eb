------------------------------ MODULE TaskGraph ------------------------------
(***************************************************************************)
(* The Task authority of Pi Team Bright: GraphTaskController in            *)
(* src/src/task-authority/graph-control.ts.                                *)
(*                                                                         *)
(* The controller keeps complete graph revisions and an append-only event  *)
(* log, and derives the state of every Task from them.  The log is kept    *)
(* here by its folds: one record per Attempt, the cancellations, the       *)
(* traversals of failure edges and the last context of each Task.  The     *)
(* SHA-256 digests of the source become the tuples they digest: a lineage  *)
(* is the revision that introduced the meaning of a Task, an activation    *)
(* key is (lineage, demand, inputs), a graph version is a revision number. *)
(***************************************************************************)
EXTENDS Naturals, Sequences, FiniteSets

CONSTANTS
  Tasks,         \* the Task keys, numbers: the source orders keys as strings
  Workers,       \* the Worker names
  Leader,        \* a command that names no Worker
  Meanings,      \* the title and goal of a Task, as one token
  Contexts,      \* the texts a command may record as current context
  NoTask,        \* no failure edge
  NoContext,     \* a command that records no context
  MaxTraversals, \* GRAPH_CONTROL_MAX_FAILURE_TRAVERSALS
  Graphs,        \* the complete graphs that clients apply, valid or not
  MaxRevisions,  \* bound of the model: revisions applied
  MaxAttempts    \* bound of the model: Attempts started per Task

Definition ==
  [meaning: Meanings, assignee: Workers, needs: SUBSET Tasks,
   target: Tasks \cup {NoTask}, limit: Nat]

\* A complete graph: a definition for each of its Task keys.
IsGraph(g) ==
  /\ g = [t \in DOMAIN g |-> g[t]]
  /\ DOMAIN g \subseteq Tasks
  /\ \A t \in DOMAIN g : g[t] \in Definition

ASSUME ConstantsAssumption ==
  /\ Tasks \subseteq Nat /\ IsFiniteSet(Tasks)
  /\ NoTask \notin Tasks /\ Leader \notin Workers
  /\ NoContext \notin Contexts
  /\ \A g \in Graphs : IsGraph(g)
  /\ MaxTraversals \in Nat /\ MaxRevisions \in Nat /\ MaxAttempts \in Nat

VARIABLES
  revision,    \* the number of graph revisions: the current graph version
  graph,       \* the Tasks of the current revision
  lineage,     \* the lineage of each current Task, 0 for the others
  attempts,    \* for each Task the Attempts started, in ordinal order
  cancelled,   \* task_cancelled events: <<task, lineage>>
  traversals,  \* failure_edge_traversed events
  context      \* the last task_context_updated event of each Task

vars == <<revision, graph, lineage, attempts, cancelled, traversals, context>>

Phases == {"in_progress", "blocked", "goal_achieved", "goal_failed",
           "exhausted", "cancelled"}

Attempt ==
  [lineage: Nat, demand: Nat, inputs: [Tasks -> Nat],
   worker: Workers, phase: Phases, superseded: BOOLEAN]

Traversal ==
  [source: Tasks, sourceLineage: Nat, target: Tasks, targetLineage: Nat,
   nth: Nat]

\* The folds of the log have the shapes that attemptFolds() and derive() read.
TypeOK ==
  /\ revision \in Nat
  /\ IsGraph(graph)
  /\ lineage \in [Tasks -> Nat]
  /\ attempts \in [Tasks -> Seq(Attempt)]
  /\ \A x \in cancelled : x \in Tasks \X Nat
  /\ IsFiniteSet(traversals) /\ \A x \in traversals : x \in Traversal
  /\ context \in [Tasks -> [lineage: Nat, text: Contexts \cup {NoContext}]]

-----------------------------------------------------------------------------
(* Graphs *)

\* Mutant of ReverseClosure: follows the prerequisites instead.
ReverseClosureForward(seed, g) ==
  {u \in Tasks : \A S \in SUBSET Tasks :
     /\ seed \subseteq S
     /\ \A v \in S \cap DOMAIN g : g[v].needs \subseteq S
     => u \in S}

\* The least superset of seed that holds every Task that needs one of its own.
ReverseClosure(seed, g) ==
  {u \in Tasks : \A S \in SUBSET Tasks :
     /\ seed \subseteq S
     /\ \A t \in DOMAIN g : g[t].needs \cap S # {} => t \in S
     => u \in S}

\* The transitive prerequisites of a Task.
Ancestors(t, g) ==
  {u \in Tasks : \A S \in SUBSET Tasks :
     /\ g[t].needs \subseteq S
     /\ \A v \in S \cap DOMAIN g : g[v].needs \subseteq S
     => u \in S}

\* What normalizeAndValidate() accepts: prerequisites and failure targets are
\* Tasks of the graph, success edges form no cycle, and a failure edge goes
\* back to its own Task or to a transitive prerequisite.
ValidGraph(g) ==
  /\ DOMAIN g # {}
  /\ \A t \in DOMAIN g :
       /\ g[t].needs \subseteq DOMAIN g
       /\ t \notin Ancestors(t, g)
       /\ g[t].target # NoTask =>
            /\ g[t].limit \in 1 .. MaxTraversals
            /\ g[t].target \in {t} \cup Ancestors(t, g)

-----------------------------------------------------------------------------
(* Derivation of the current state from the log *)

Ids == {a \in Tasks \X (1 .. MaxAttempts) : a[2] \in DOMAIN attempts[a[1]]}

At(a) == attempts[a[1]][a[2]]

IsCancelled(t) == <<t, lineage[t]>> \in cancelled

\* How often failure edges have asked for a Task to be done again.
Demand(t) ==
  Cardinality({x \in traversals : x.target = t /\ x.targetLineage = lineage[t]})

\* How often the failure edge of a Task has been traversed.
PriorTraversals(t) ==
  Cardinality({x \in traversals : x.source = t /\ x.sourceLineage = lineage[t]})

\* An Attempt that derive() still considers: of the current meaning and
\* demand of a Task that is not cancelled, and not superseded.
Eligible(a) ==
  /\ a[1] \in DOMAIN graph
  /\ At(a).lineage = lineage[a[1]]
  /\ At(a).demand = Demand(a[1])
  /\ ~At(a).superseded
  /\ At(a).phase # "cancelled"
  /\ ~IsCancelled(a[1])

\* derive() walks the Tasks in topological order and accepts an achieved
\* Attempt whose inputs are the accepted Attempts of its prerequisites.  On an
\* acyclic graph that is the largest set of achieved Attempts that supports
\* itself; module TaskDerivation has the walk.
Accepted ==
  LET achieved == {a \in Ids : Eligible(a) /\ At(a).phase = "goal_achieved"}
  IN  UNION {S \in SUBSET achieved :
               \A a \in S : \A p \in graph[a[1]].needs : <<p, At(a).inputs[p]>> \in S}

\* The accepted Attempt of a Task, given the set of accepted Attempts.
AcceptedOf(t, A) == CHOOSE n \in 1 .. MaxAttempts : <<t, n>> \in A

\* Every prerequisite is achieved, so that the Task has an activation key.
Released(t, A) ==
  ~IsCancelled(t) /\ \A p \in graph[t].needs : \E n \in 1 .. MaxAttempts : <<p, n>> \in A

\* The accepted Attempts of the prerequisites: part of the activation key.
Inputs(t, A) ==
  [p \in Tasks |-> IF p \in graph[t].needs THEN AcceptedOf(p, A) ELSE 0]

\* The Attempts of the current activation key of a Task.
Activation(t, A) ==
  {n \in DOMAIN attempts[t] :
     Released(t, A) /\ Eligible(<<t, n>>) /\ attempts[t][n].inputs = Inputs(t, A)}

Last(S) == CHOOSE n \in S : \A m \in S : m <= n

Ready(t, A) == Released(t, A) /\ Activation(t, A) = {}

\* The current Attempt of a Task is in the phase.
In(t, phases, A) ==
  /\ Activation(t, A) # {}
  /\ attempts[t][Last(Activation(t, A))].phase \in phases

\* Mutant of Failed: forgets the Attempts whose failure edge is exhausted.
FailedPlainly(t, A) == In(t, {"goal_failed"}, A)

Failed(t, A) == In(t, {"goal_failed", "exhausted"}, A)

\* Mutant of DependencyFailed: looks one step back only.
DependencyFailedDirect(t, A) ==
  /\ ~IsCancelled(t) /\ ~Released(t, A)
  /\ \E u \in graph[t].needs : IsCancelled(u) \/ Failed(u, A)

\* A failed or cancelled prerequisite fails every Task behind it.
DependencyFailed(t, A) ==
  /\ ~IsCancelled(t) /\ ~Released(t, A)
  /\ \E u \in Ancestors(t, graph) : IsCancelled(u) \/ Failed(u, A)

Waiting(t, A) == ~Released(t, A) /\ ~IsCancelled(t) /\ ~DependencyFailed(t, A)

State(t) ==
  LET A == Accepted
  IN  CASE IsCancelled(t)         -> "cancelled"
        [] DependencyFailed(t, A) -> "dependency_failed"
        [] Waiting(t, A)          -> "dependency_waiting"
        [] Ready(t, A)            -> "ready"
        [] OTHER                  -> attempts[t][Last(Activation(t, A))].phase

\* What readAttempts() reports as in progress or blocked: the log has neither
\* completed, cancelled nor superseded the Attempt and its lineage is current.
Active(t) ==
  {n \in DOMAIN attempts[t] :
     /\ t \in DOMAIN graph
     /\ attempts[t][n].phase \in {"in_progress", "blocked"}
     /\ ~attempts[t][n].superseded
     /\ attempts[t][n].lineage = lineage[t]}

\* Mutants of Standing: only Attempts under way, and only finished ones.
StandingActive(t, A) == IF Active(t) # {} THEN {Last(Active(t))} ELSE {}

StandingFinished(t, A) ==
  IF t \in DOMAIN graph /\ In(t, {"goal_achieved", "goal_failed", "exhausted"}, A)
  THEN {Last(Activation(t, A))} ELSE {}

\* The Attempt of a Task that a revision or a repair supersedes: the active
\* one, else the current one.
Standing(t, A) ==
  IF Active(t) # {} THEN {Last(Active(t))}
  ELSE IF t \in DOMAIN graph /\ Activation(t, A) # {} THEN {Last(Activation(t, A))}
  ELSE {}

\* The Task is achieved.
IsAccepted(t) == \E n \in 1 .. MaxAttempts : <<t, n>> \in Accepted

Occupied(w, A) ==
  \E u \in DOMAIN graph : graph[u].assignee = w /\ In(u, {"in_progress"}, A)

-----------------------------------------------------------------------------
(* Commands.  A command that the controller refuses changes nothing, so each *)
(* action is the command that it accepts; the expected version of the client *)
(* is then the current one.                                                  *)

Init ==
  /\ revision = 0
  /\ graph = << >>
  /\ lineage = [t \in Tasks |-> 0]
  /\ attempts = [t \in Tasks |-> << >>]
  /\ cancelled = {}
  /\ traversals = {}
  /\ context = [t \in Tasks |-> [lineage |-> 0, text |-> NoContext]]

\* Set the phase of one Attempt.
SetPhase(t, n, phase) == [attempts EXCEPT ![t][n].phase = phase]

\* The Attempts of log, with those in stop superseded.
Supersede(log, stop) ==
  [t \in Tasks |-> [n \in DOMAIN log[t] |->
     IF <<t, n>> \in stop THEN [log[t][n] EXCEPT !.superseded = TRUE] ELSE log[t][n]]]

StandingIds(S, A) == {a \in S \X (1 .. MaxAttempts) : a[2] \in Standing(a[1], A)}

\* A command may carry a context, recorded after its transition.
UpdateContext(t, c) ==
  context' = IF c = NoContext THEN context
             ELSE [context EXCEPT ![t] = [lineage |-> lineage[t], text |-> c]]

\* The Task keeps its lineage while its definition stays the same.
NextLineage(g) ==
  [t \in Tasks |->
     IF t \notin DOMAIN g THEN 0
     ELSE IF t \in DOMAIN graph /\ graph[t] = g[t] THEN lineage[t]
     ELSE revision + 1]

\* Mutant of Affected: only the Tasks that changed themselves.
AffectedDirectly(g) ==
  {t \in DOMAIN graph \cup DOMAIN g : NextLineage(g)[t] # lineage[t]}

\* The Tasks that were added, removed or changed, and all behind them in the
\* old graph or in the new one.
Affected(g) ==
  LET changed == {t \in DOMAIN graph \cup DOMAIN g : NextLineage(g)[t] # lineage[t]}
  IN  ReverseClosure(changed, graph) \cup ReverseClosure(changed, g)

ApplyGraph(g) ==
  /\ revision < MaxRevisions
  /\ ValidGraph(g)
  /\ revision' = revision + 1
  /\ graph' = g
  /\ lineage' = NextLineage(g)
  /\ attempts' = Supersede(attempts, StandingIds(Affected(g), Accepted))
  /\ UNCHANGED <<cancelled, traversals, context>>

\* A Worker may only move the Tasks and the Attempts that are its own.
MayMove(w, t, A) ==
  /\ w = graph[t].assignee
  /\ In(t, {"in_progress", "blocked"}, A) =>
       w = attempts[t][Last(Activation(t, A))].worker

Claim(t, w, c) ==
  LET A == Accepted
  IN  /\ Len(attempts[t]) < MaxAttempts
      /\ MayMove(w, t, A)
      /\ Ready(t, A)
      /\ ~Occupied(w, A)
      /\ attempts' = [attempts EXCEPT ![t] = Append(@,
           [lineage |-> lineage[t], demand |-> Demand(t), inputs |-> Inputs(t, A),
            worker |-> w, phase |-> "in_progress", superseded |-> FALSE])]
      /\ UpdateContext(t, c)
      /\ UNCHANGED <<revision, graph, lineage, cancelled, traversals>>

\* Mutant of Block: takes any current Attempt, finished ones too.
BlockAny(t, w, c) ==
  LET A == Accepted
  IN  /\ MayMove(w, t, A)
      /\ Activation(t, A) # {}
      /\ attempts' = SetPhase(t, Last(Activation(t, A)), "blocked")
      /\ UpdateContext(t, c)
      /\ UNCHANGED <<revision, graph, lineage, cancelled, traversals>>

Block(t, w, c) ==
  LET A == Accepted
  IN  /\ MayMove(w, t, A)
      /\ In(t, {"in_progress"}, A)
      /\ attempts' = SetPhase(t, Last(Activation(t, A)), "blocked")
      /\ UpdateContext(t, c)
      /\ UNCHANGED <<revision, graph, lineage, cancelled, traversals>>

\* Mutant of Resume: does not ask whether the Worker is busy elsewhere.
ResumeUnchecked(t, w, c) ==
  LET A == Accepted
  IN  /\ MayMove(w, t, A)
      /\ In(t, {"blocked"}, A)
      /\ attempts' = SetPhase(t, Last(Activation(t, A)), "in_progress")
      /\ UpdateContext(t, c)
      /\ UNCHANGED <<revision, graph, lineage, cancelled, traversals>>

Resume(t, w, c) ==
  LET A == Accepted
  IN  /\ MayMove(w, t, A)
      /\ In(t, {"blocked"}, A)
      /\ ~Occupied(w, A)
      /\ attempts' = SetPhase(t, Last(Activation(t, A)), "in_progress")
      /\ UpdateContext(t, c)
      /\ UNCHANGED <<revision, graph, lineage, cancelled, traversals>>

Achieve(t, w, c) ==
  LET A == Accepted
  IN  /\ MayMove(w, t, A)
      /\ In(t, {"in_progress"}, A)
      /\ attempts' = SetPhase(t, Last(Activation(t, A)), "goal_achieved")
      /\ UpdateContext(t, c)
      /\ UNCHANGED <<revision, graph, lineage, cancelled, traversals>>

\* Mutant of MayRepair: no limit.
MayRepairAlways(t) == TRUE

\* The failure edge of a Task has traversals left.
MayRepair(t) == PriorTraversals(t) < graph[t].limit

\* The goal failed and no edge is followed: there is none, its limit is
\* reached, or its target is cancelled.
FailWithoutRepair(t, w, c) ==
  LET A == Accepted
      n == Last(Activation(t, A))
      edge == graph[t].target
  IN  /\ MayMove(w, t, A)
      /\ In(t, {"in_progress"}, A)
      /\ \/ /\ edge = NoTask
            /\ attempts' = SetPhase(t, n, "goal_failed")
         \/ /\ edge # NoTask
            /\ ~MayRepair(t) \/ IsCancelled(edge)
            /\ attempts' = SetPhase(t, n, "exhausted")
      /\ UpdateContext(t, c)
      /\ UNCHANGED <<revision, graph, lineage, cancelled, traversals>>

\* The goal failed and the failure edge asks for its target again: every
\* standing Attempt of the target and of the Tasks behind it is superseded,
\* except the one that failed.
FailWithRepair(t, w, c) ==
  LET A == Accepted
      n == Last(Activation(t, A))
      edge == graph[t].target
      stop == StandingIds(ReverseClosure({edge}, graph), A) \ {<<t, n>>}
  IN  /\ MayMove(w, t, A)
      /\ In(t, {"in_progress"}, A)
      /\ edge # NoTask
      /\ MayRepair(t)
      /\ ~IsCancelled(edge)
      /\ attempts' = Supersede(SetPhase(t, n, "goal_failed"), stop)
      /\ traversals' = traversals \cup
           {[source |-> t, sourceLineage |-> lineage[t],
             target |-> edge, targetLineage |-> lineage[edge],
             nth |-> PriorTraversals(t) + 1]}
      /\ UpdateContext(t, c)
      /\ UNCHANGED <<revision, graph, lineage, cancelled>>

\* The leader, or the Worker of the Task, cancels a Task that is not settled.
Cancel(t, w, c) ==
  LET A == Accepted
      own == IF In(t, {"in_progress", "blocked"}, A) THEN {<<t, Last(Activation(t, A))>>} ELSE {}
      behind == {a \in ReverseClosure({t}, graph) \X (1 .. MaxAttempts) :
                   Active(a[1]) # {} /\ a[2] = Last(Active(a[1]))} \ own
  IN  /\ \/ Waiting(t, A)
         \/ Ready(t, A)
         \/ own # {}
      /\ w = Leader \/ MayMove(w, t, A)
      /\ cancelled' = cancelled \cup {<<t, lineage[t]>>}
      /\ attempts' = Supersede(
           IF own # {} THEN SetPhase(t, Last(Activation(t, A)), "cancelled") ELSE attempts,
           behind)
      /\ UpdateContext(t, c)
      /\ UNCHANGED <<revision, graph, lineage, traversals>>

\* A command without a transition only records a context, whatever the state.
RecordContext(t, c) ==
  /\ c # NoContext
  /\ context[t] # [lineage |-> lineage[t], text |-> c]
  /\ UpdateContext(t, c)
  /\ UNCHANGED <<revision, graph, lineage, attempts, cancelled, traversals>>

Next ==
  \/ \E g \in Graphs : ApplyGraph(g)
  \/ \E t \in DOMAIN graph, c \in Contexts \cup {NoContext} :
       \/ RecordContext(t, c)
       \/ Cancel(t, Leader, c)
       \/ \E w \in Workers :
            \/ Claim(t, w, c)
            \/ Block(t, w, c)
            \/ Resume(t, w, c)
            \/ Achieve(t, w, c)
            \/ FailWithoutRepair(t, w, c)
            \/ FailWithRepair(t, w, c)
            \/ Cancel(t, w, c)

Spec == Init /\ [][Next]_vars

\* selectReadyFrontier(): for each free Worker its first ready Task in key order.
Frontier ==
  LET A == Accepted
      ready == {t \in DOMAIN graph : Ready(t, A)}
  IN  {t \in ready :
         /\ ~Occupied(graph[t].assignee, A)
         /\ \A u \in ready : graph[u].assignee = graph[t].assignee => t <= u}

ClaimOffered(w) == \E t \in Frontier : Claim(t, w, NoContext)

Unblock(t) == t \in DOMAIN graph /\ Resume(t, graph[t].assignee, NoContext)

Finish(t) ==
  /\ t \in DOMAIN graph
  /\ LET w == graph[t].assignee
     IN  \/ Achieve(t, w, NoContext)
         \/ FailWithoutRepair(t, w, NoContext)
         \/ FailWithRepair(t, w, NoContext)

\* Workers that do their part: they take what the frontier offers, and what
\* they are again and again able to resume or to finish, they do.
FairSpec ==
  /\ Spec
  /\ \A w \in Workers : SF_vars(ClaimOffered(w))
  /\ \A t \in Tasks : SF_vars(Unblock(t)) /\ SF_vars(Finish(t))

-----------------------------------------------------------------------------
(* Correctness *)

\* Attempts that still count towards the current graph: under way, or achieved
\* and not superseded, for the current meaning of their Task.
Live(a) ==
  /\ a[1] \in DOMAIN graph
  /\ At(a).lineage = lineage[a[1]]
  /\ ~At(a).superseded
  /\ At(a).phase \in {"in_progress", "blocked", "goal_achieved"}

\* A Worker has at most one Attempt in progress, counted in the event log and
\* not in the derived state that claim() and resume() consult.
OneInProgressPerWorker ==
  \A a, b \in Ids :
    /\ Live(a) /\ Live(b) /\ At(a).worker = At(b).worker
    /\ At(a).phase = "in_progress" /\ At(b).phase = "in_progress"
    => a = b

\* Every Attempt under way in the log is the current Attempt of its Task: no
\* revision, repair or cancellation leaves a Worker with an Attempt that the
\* authority has silently moved past.
NoOrphanedAttempt ==
  LET A == Accepted
  IN  \A t \in DOMAIN graph : \A n \in Active(t) :
        Activation(t, A) # {} /\ n = Last(Activation(t, A))

\* An achieved Attempt that nothing superseded is the accepted one of its Task,
\* and it is the only one: results are lost only through a recorded event.
AcceptedUntilSuperseded ==
  LET A == Accepted
  IN  \A a \in Ids :
        Live(a) /\ At(a).phase = "goal_achieved" =>
          a \in A /\ \A b \in A : b[1] = a[1] => b = a

\* Whoever works on a Task, or has finished it, did so on the Attempts that are
\* accepted now for every prerequisite.
JoinsCurrentResults ==
  LET A == Accepted
  IN  \A a \in Ids : Live(a) =>
        /\ At(a).demand = Demand(a[1])
        /\ ~IsCancelled(a[1])
        /\ \A p \in graph[a[1]].needs : <<p, At(a).inputs[p]>> \in A

\* A plan never waits for nothing: before a Task that waits there is one that
\* some Worker can start, resume or finish.
WaitsForSomeone ==
  LET A == Accepted
  IN  \A t \in DOMAIN graph : Waiting(t, A) =>
        \E u \in Ancestors(t, graph) : Ready(u, A) \/ In(u, {"in_progress", "blocked"}, A)

\* An Attempt that was superseded, cancelled or finished, or whose Task has
\* another meaning now, never moves again: a late command cannot revive it.
SettledAttemptsStay ==
  [][\A a \in Ids :
       At(a).superseded \/ At(a).phase \notin {"in_progress", "blocked"}
         \/ a[1] \notin DOMAIN graph \/ At(a).lineage # lineage[a[1]]
       => /\ attempts'[a[1]][a[2]].phase = At(a).phase
          /\ attempts'[a[1]][a[2]].worker = At(a).worker]_vars

\* A Task leaves the achieved state only when a revision changes it or a Task
\* it depends on, or when a failure edge asks for it or for a Task before it.
AchievedIsStable ==
  [][\A t \in DOMAIN graph :
       IsAccepted(t) =>
         \/ IsAccepted(t)'
         \/ revision' # revision /\ t \in Affected(graph')
         \/ \E x \in traversals' \ traversals : x.target \in {t} \cup Ancestors(t, graph)]_vars

\* Whatever fails, is repaired, blocked or cancelled on the way: once Workers do
\* their part, every Task of a plan is finished, failed or cancelled in the end.
Settled ==
  \A t \in DOMAIN graph :
    State(t) \in {"goal_achieved", "goal_failed", "exhausted", "dependency_failed", "cancelled"}

PlanSettles == []<>Settled

-----------------------------------------------------------------------------
(* The inductive invariant behind the four invariants above *)

LiveAchieved(a) == Live(a) /\ At(a).phase = "goal_achieved"

\* Revisions are numbered upwards and a lineage names the one that made it.
LineagesBounded ==
  /\ \A t \in Tasks : lineage[t] <= revision /\ Len(attempts[t]) <= MaxAttempts
  /\ \A a \in Ids : At(a).lineage <= revision

GraphClosed == \A t \in DOMAIN graph : graph[t].needs \subseteq DOMAIN graph

\* What a live Attempt was started on still holds, in terms of the log only.
LiveJoins ==
  \A a \in Ids : Live(a) =>
    /\ At(a).demand = Demand(a[1])
    /\ ~IsCancelled(a[1])
    /\ At(a).worker = graph[a[1]].assignee
    /\ \A p \in Tasks :
         IF p \in graph[a[1]].needs
         THEN <<p, At(a).inputs[p]>> \in Ids /\ LiveAchieved(<<p, At(a).inputs[p]>>)
         ELSE At(a).inputs[p] = 0

LiveUnique == \A a, b \in Ids : Live(a) /\ Live(b) /\ a[1] = b[1] => a = b

\* A Task is started at most once for one activation key, unless that Attempt
\* was superseded or cancelled.
OneAttemptPerActivation ==
  \A a, b \in Ids :
    /\ a[1] = b[1]
    /\ ~At(a).superseded /\ ~At(b).superseded
    /\ At(a).phase # "cancelled" /\ At(b).phase # "cancelled"
    /\ At(a).lineage = At(b).lineage /\ At(a).demand = At(b).demand
    /\ At(a).inputs = At(b).inputs
    => a = b

IInv ==
  /\ TypeOK /\ LineagesBounded /\ GraphClosed
  /\ LiveJoins /\ LiveUnique /\ OneAttemptPerActivation
  /\ OneInProgressPerWorker

=============================================================================
