------------------------------ MODULE TaskView ------------------------------
(***************************************************************************)
(* The Task graph that a person is shown, in                               *)
(* src/src/task-graph-view/source.ts: a projection of the whole log of     *)
(* TaskLog, which its own parser accepts or refuses.  A refused projection *)
(* shows no graph at all.                                                  *)
(*                                                                         *)
(* Of the projection there is what the parser relates: the state of a Task *)
(* and what it waits for, its Attempts, their times, and the edges with    *)
(* their traversals.  Titles, texts, limits of size and the sorting and    *)
(* layout of the graph are left out.                                       *)
(***************************************************************************)
EXTENDS TaskLog

-----------------------------------------------------------------------------
(* Attempts                                                                *)

LineageNow(t) == derived.lineage[t]

AttemptOf(a) == derived.attempts[a[1]][a[2]]

\* readAttempts()
AttemptState(a) ==
  IF AttemptOf(a).phase \in {"goal_achieved", "goal_failed", "exhausted"} THEN "completed"
  ELSE IF AttemptOf(a).phase = "cancelled" THEN "cancelled"
  ELSE IF AttemptOf(a).superseded \/ AttemptOf(a).lineage # LineageNow(a[1]) THEN "superseded"
  ELSE AttemptOf(a).phase

\* The Attempts of the current meaning of a Task.
Shown(t) == {n \in DOMAIN derived.attempts[t] : AttemptOf(<<t, n>>).lineage = LineageNow(t)}

\* The number of the Attempt that is shown beside the state, 0 without one: the
\* one of the state, else the last.
DisplayAttempt(t) ==
  LET A == Derived!Accepted
  IN  IF Derived!Activation(t, A) # {} THEN Derived!Last(Derived!Activation(t, A))
      ELSE Len(derived.attempts[t])

-----------------------------------------------------------------------------
(* Times                                                                   *)

\* The time of a record; 0 when it is missing or before an earlier record's.
KnownAt(l, i) == IF \E j \in 1..(i - 1) : l[j].at > l[i].at THEN 0 ELSE l[i].at

Endings == {"attempt_completed", "attempt_superseded", "task_cancelled"}

EventsOfAttempt(l, a) ==
  LET kinds == Endings \cup {"attempt_started", "attempt_blocked", "attempt_resumed"}
  IN  {i \in Of(l, kinds) : l[i].attempt = a}

NoTimes == [known |-> TRUE, state |-> "in_progress", since |-> 0, ended |-> "no",
            segments |-> << >>]

\* The state that the Attempt was in until now goes on record.
Close(x, state, at) ==
  [x EXCEPT !.segments = Append(@, [state |-> x.state, from |-> x.since, to |-> at]),
            !.state = state, !.since = at]

\* An event that may come next, with its time.
Follows(x, kind, at) ==
  /\ at # 0 /\ at >= x.since
  /\ kind = "attempt_started" <=> x.since = 0
  /\ kind \in {"attempt_blocked", "attempt_completed"} => x.state = "in_progress"
  /\ kind = "attempt_resumed" => x.state = "blocked"

Moved(x, kind, at) ==
  CASE kind = "attempt_started" -> [x EXCEPT !.since = at]
    [] kind = "attempt_blocked" -> Close(x, "blocked", at)
    [] kind = "attempt_resumed" -> Close(x, "in_progress", at)
    [] OTHER                    -> [Close(x, x.state, at) EXCEPT !.ended = kind]

\* Mutant of Follow: what comes after the completion makes its times doubtful.
FollowToTheEnd(l, x, i) ==
  IF x.ended = "no" /\ Follows(x, l[i].kind, KnownAt(l, i))
  THEN Moved(x, l[i].kind, KnownAt(l, i)) ELSE [x EXCEPT !.known = FALSE]

\* One event of an Attempt, at the place i.  A revision or a repair may still
\* supersede the Attempt when it is completed.
Follow(l, x, i) ==
  IF x.ended = "attempt_completed" /\ l[i].kind = "attempt_superseded" THEN x
  ELSE IF x.ended = "no" /\ Follows(x, l[i].kind, KnownAt(l, i))
       THEN Moved(x, l[i].kind, KnownAt(l, i))
  ELSE [x EXCEPT !.known = FALSE]

\* The times of an Attempt after each of its events, in order.
Times(l, a) ==
  LET after[i \in 0..Len(l)] ==
        IF i = 0 THEN NoTimes
        ELSE IF i \in EventsOfAttempt(l, a) THEN Follow(l, after[i - 1], i) ELSE after[i - 1]
  IN  after[Len(l)]

\* The states of an Attempt with their times, none when they are not known.
Timeline(a) ==
  LET x == Times(log, a)
      ending == [no |-> x.state, attempt_completed |-> "completed",
                 attempt_superseded |-> "superseded", task_cancelled |-> "cancelled"]
  IN  IF ~x.known \/ x.since = 0 \/ AttemptState(a) # ending[x.ended] THEN << >>
      ELSE IF x.ended = "no" THEN Close(x, x.state, 0).segments
      ELSE x.segments

-----------------------------------------------------------------------------
(* Edges                                                                   *)

\* Mutant: counts the traversals for an earlier meaning of the Task too.
EdgeTraversalsEver(t) ==
  Cardinality({i \in Of(log, {"failure_edge_traversed"}) :
                 log[i].source[1] = t /\ log[i].target = derived.graph[t].target})

EdgeTraversals(t) ==
  Cardinality({i \in Of(log, {"failure_edge_traversed"}) :
                 /\ log[i].source[1] = t /\ log[i].lineage = LineageOf(t)
                 /\ log[i].target = derived.graph[t].target})

\* What a Task that waits is said to wait for.
WaitsFor(t) ==
  IF Derived!State(t) # "dependency_waiting" THEN {}
  ELSE {u \in derived.graph[t].needs :
          Derived!State(u) \notin {"goal_achieved", "goal_failed", "exhausted",
                                   "dependency_failed", "cancelled"}}

-----------------------------------------------------------------------------
(* The parser                                                              *)

\* parseTimelineAttempt(): the states follow each other without a gap, and the
\* last one is open if the Attempt is.
IsTimeline(a) ==
  LET s == Timeline(a)
      open == AttemptState(a) \in {"in_progress", "blocked"}
  IN  s # << >> =>
        /\ s[1].state = "in_progress"
        /\ \A i \in DOMAIN s : s[i].to # 0 => s[i].to >= s[i].from
        /\ \A i \in 2..Len(s) : s[i - 1].to = s[i].from /\ s[i - 1].state # s[i].state
        /\ (s[Len(s)].to = 0) = open
        /\ open => s[Len(s)].state = AttemptState(a)

\* parseNode()
IsNode(t) ==
  /\ (Derived!State(t) = "dependency_waiting") = (WaitsFor(t) # {})
  /\ DisplayAttempt(t) <= Cardinality(Starts(log, t))
  /\ \A n \in Shown(t) : IsTimeline(<<t, n>>)

\* parseEdge(): the failure edge of a Task.
IsFailureEdge(t) ==
  LET limit == derived.graph[t].limit
  IN  limit \in 1..MaxTraversals /\ EdgeTraversals(t) \in 0..limit

\* parseTaskGraphViewSource()
IsSource ==
  /\ \A t \in DOMAIN derived.graph :
       /\ IsNode(t)
       /\ derived.graph[t].target # NoTask => IsFailureEdge(t)
       /\ derived.graph[t].needs \cup ({derived.graph[t].target} \ {NoTask})
            \subseteq DOMAIN derived.graph

-----------------------------------------------------------------------------
(* Correctness                                                             *)

\* There is always a graph to show: the parser accepts what is projected from
\* any log that the controller writes.
ViewIsShown == IsSource

\* The times of an Attempt are shown unless one of the records up to its end has
\* no time or is before an earlier one: neither a revision nor a repair that
\* comes after its completion, nor a clock set back elsewhere, takes them away.
TimesAreKnown ==
  \A t \in DOMAIN derived.graph : \A n \in Shown(t) :
    Timeline(<<t, n>>) = << >> =>
      \E i \in EventsOfAttempt(log, <<t, n>>) :
        /\ Earlier(log, i, "attempt_completed", <<t, n>>) = {}
        /\ log[i].at = 0 \/ \E j \in 1..i : log[j].at > log[i].at
=============================================================================
