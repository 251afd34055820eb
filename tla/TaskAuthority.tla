--------------------------- MODULE TaskAuthority ---------------------------
(***************************************************************************)
(* A command to the Task authority from its call to its answer: receipts,   *)
(* replay and the boundary of an operation (command of                      *)
(* src/task-authority/graph-control.ts, mutate of                           *)
(* src/adapters/durable-graph-task-authority.ts), and the publication of    *)
(* what it changed (src/task-authority/graph-orchestration.ts,               *)
(* src/adapters/durable-task-mutation-publication.ts).                      *)
(*                                                                         *)
(* TaskGraph has the graph and all of its commands.  Here it is two Tasks,   *)
(* of which "B" needs "A", and the commands that matter to a receipt: those  *)
(* which change several Tasks, append several events, or lead back to where  *)
(* a Task was.  Retirement and ready delivery, which follow, are in          *)
(* TaskDelivery.                                                            *)
(***************************************************************************)
EXTENDS Naturals, Sequences, FiniteSets

CONSTANTS
  Operations,  \* names of operations
  MaxLog,      \* bound of the model: records of the authority after the first three
  MaxRetries,  \* bound of the model: calls beyond the first of an operation
  MaxFaults    \* bound of the model: failed writes, and ends of a process

\* The operations of a Team before the model begins.
Earlier == {"first", "second", "third"}

ASSUME ConstantsAssumption ==
  /\ Operations \cap Earlier = {}
  /\ MaxLog \in Nat /\ MaxRetries \in Nat /\ MaxFaults \in Nat

VARIABLES
  log,       \* revisions and events, each with the graph after it
  receipts,  \* operations that are committed, with what was asked
  journal,   \* Task events of the Team's journal
  call,      \* the call of each operation
  answers,   \* operation boundaries that were answered
  retries, faults  \* what is left of the bounds

vars == <<log, receipts, journal, call, answers, retries, faults>>

Tasks == {"A", "B"}

-----------------------------------------------------------------------------
(* The graph.                                                                *)

Empty ==
  [revision |-> 0, lineage |-> 0,
   attempt |-> [t \in Tasks |-> "none"], ordinal |-> [t \in Tasks |-> 0]]

\* The graph after the record of a number.
GraphAt(sequence) == IF sequence = 0 THEN Empty ELSE log[sequence].graph

Current == GraphAt(Len(log))

\* The version of a Task is a digest of its card: equal exactly if the cards are.
Card(graph, t) ==
  IF graph.revision = 0 THEN [status |-> "absent", ordinal |-> 0, activation |-> 0]
  ELSE IF t = "B" /\ graph.attempt["A"] # "achieved"
  THEN [status |-> "waiting", ordinal |-> graph.ordinal[t], activation |-> 0]
  ELSE [status |-> IF graph.attempt[t] = "none" THEN "ready" ELSE graph.attempt[t],
        ordinal |-> graph.ordinal[t],
        activation |-> IF t = "A" THEN graph.lineage ELSE graph.ordinal["A"]]

Changed(before, after) == {t \in Tasks : Card(before, t) # Card(after, t)}

Transitions == [claim |-> <<"ready", "in_progress">>, block |-> <<"in_progress", "blocked">>,
                resume |-> <<"blocked", "in_progress">>, complete |-> <<"in_progress", "achieved">>]

\* What a caller may ask for: a revision, of A or of nothing, of the graph it
\* has seen, or a transition of a Task whose card it has seen.
Requests ==
  [command : {"revise", "confirm"}, task : {"A"}, expected : {[graph |-> GraphAt(i).revision] : i \in 0..Len(log)}]
  \cup UNION {[command : DOMAIN Transitions, task : {t},
               expected : {Card(log[i].graph, t) : i \in DOMAIN log}] : t \in Tasks}

IsRevision(request) == request.command \in {"revise", "confirm"}

Accepts(graph, request) ==
  IF IsRevision(request)
  THEN request.expected.graph = graph.revision /\ (request.command = "confirm" => graph.revision # 0)
  ELSE /\ request.expected = Card(graph, request.task)
       /\ request.expected.status = Transitions[request.command][1]

\* The graph after a command that is accepted as record number sequence.
After(graph, request, sequence) ==
  CASE request.command = "confirm" -> [graph EXCEPT !.revision = sequence]
    [] request.command = "revise" ->
         [graph EXCEPT !.revision = sequence, !.lineage = sequence,
                       !.attempt = [t \in Tasks |-> "none"]]
    [] OTHER ->
         [graph EXCEPT !.attempt[request.task] = Transitions[request.command][2],
                       !.ordinal[request.task] = IF request.command = "claim" THEN @ + 1 ELSE @]

\* A revision supersedes the Attempts of what it changes, each by an event.
Superseded(graph, request) ==
  IF request.command = "revise" THEN {t \in Tasks : graph.attempt[t] # "none"} ELSE {}

\* The records of a command.
Records(op, request) ==
  LET graph == After(Current, request, Len(log) + 1) IN
    [i \in 1..(1 + Cardinality(Superseded(Current, request))) |-> [operation |-> op, graph |-> graph]]

-----------------------------------------------------------------------------
(* Operations.                                                               *)

Committed(op) == {i \in DOMAIN log : log[i].operation = op}

First(op) == CHOOSE i \in Committed(op) : \A j \in Committed(op) : i <= j

Last(op) == CHOOSE i \in Committed(op) : \A j \in Committed(op) : i >= j

\* Mutant: the boundary ends with the graph as it is.
BoundaryUntilNow(op) == [before |-> GraphAt(First(op) - 1), after |-> Current]

\* What a committed operation found and left, whatever came after it.
Boundary(op) == [before |-> GraphAt(First(op) - 1), after |-> GraphAt(Last(op))]

\* How the event of a change says what happened.  That of a transition does
\* not name the operation.
Evidence(op, request, boundary, t) ==
  IF IsRevision(request)
  THEN [kind |-> IF boundary.before.revision = 0 THEN "created" ELSE "goal",
        of |-> boundary.after.revision]
  ELSE IF t = request.task THEN [kind |-> request.command, of |-> t]
  ELSE [kind |-> "derived", of |-> op]

\* The model also notes the operation, which the source does not.
Event(op, request, boundary, t) ==
  [task |-> t, version |-> Card(boundary.after, t),
   evidence |-> Evidence(op, request, boundary, t), operation |-> op]

\* Mutant: any event of that version will do.
AnyPublication(event) ==
  \E i \in DOMAIN journal :
    journal[i].task = event.task /\ journal[i].version = event.version

HasPublication(event) ==
  \E i \in DOMAIN journal :
    /\ journal[i].task = event.task /\ journal[i].version = event.version
    /\ journal[i].evidence = event.evidence

NoCall == [phase |-> "none"]

\* An Attempt of "A" that is blocked, after three operations ...
Blocked ==
  LET given == [Empty EXCEPT !.revision = 1, !.lineage = 1]
      claimed == [given EXCEPT !.attempt["A"] = "in_progress", !.ordinal["A"] = 1]
      blocked == [claimed EXCEPT !.attempt["A"] = "blocked"]
  IN  <<[operation |-> "first", graph |-> given], [operation |-> "second", graph |-> claimed],
        [operation |-> "third", graph |-> blocked]>>

\* ... of which the journal tells.
Told ==
  LET event(op, t, after, evidence) ==
        [task |-> t, version |-> Card(Blocked[after].graph, t), evidence |-> evidence, operation |-> op]
  IN  <<event("first", "A", 1, [kind |-> "created", of |-> 1]),
        event("first", "B", 1, [kind |-> "created", of |-> 1]),
        event("second", "A", 2, [kind |-> "claim", of |-> "A"]),
        event("third", "A", 3, [kind |-> "block", of |-> "A"])>>

\* A Team without Tasks, or one at work.
Init ==
  /\ \/ log = << >> /\ journal = << >>
     \/ log = Blocked /\ journal = Told
  /\ receipts = [op \in {} |-> NoCall]
  /\ call = [op \in Operations |-> NoCall] /\ answers = {}
  /\ retries = MaxRetries /\ faults = MaxFaults

\* An operation is asked for, or once more after an end with or without an
\* answer, maybe under another meaning.
Asks(op) ==
  \/ call[op].phase = "none" /\ retries' = retries
  \/ call[op].phase = "ended" /\ retries > 0 /\ retries' = retries - 1

Fault == faults > 0 /\ faults' = faults - 1

Ends(op, request, outcome) ==
  call' = [call EXCEPT ![op] = [phase |-> "ended", request |-> request, outcome |-> outcome]]

Writes(op, request) ==
  /\ Len(log) + Len(Records(op, request)) <= MaxLog + 3
  /\ log' = log \o Records(op, request)
  /\ receipts' = [o \in DOMAIN receipts \cup {op} |-> IF o = op THEN request ELSE receipts[o]]

Commits(op, request) ==
  /\ Writes(op, request)
  /\ LET after == After(Current, request, Len(log) + 1) IN
       call' = [call EXCEPT ![op] =
         [phase |-> "committed", request |-> request, replayed |-> FALSE,
          boundary |-> [before |-> Current, after |-> after], current |-> after]]

Refuses(op, request) == Ends(op, request, "refused") /\ UNCHANGED <<log, receipts>>

\* Mutant: whether it is committed already is not asked.
MutateBlindly(op, request) ==
  /\ Asks(op)
  /\ \/ ~ Accepts(Current, request) /\ Refuses(op, request)
     \/ Accepts(Current, request) /\ Commits(op, request)
  /\ UNCHANGED <<journal, answers, faults>>

\* Under the lock of the authority: the answer that there is, or the command.
\* Log and receipts are one file, replaced at once.
Mutate(op, request) ==
  /\ Asks(op)
  /\ \/ op \in DOMAIN receipts /\ receipts[op] # request /\ Refuses(op, request)
     \/ /\ op \in DOMAIN receipts /\ receipts[op] = request
        /\ call' = [call EXCEPT ![op] =
             [phase |-> "committed", request |-> request, replayed |-> TRUE,
              boundary |-> Boundary(op), current |-> Current]]
        /\ UNCHANGED <<log, receipts>>
     \/ op \notin DOMAIN receipts /\ ~ Accepts(Current, request) /\ Refuses(op, request)
     \/ op \notin DOMAIN receipts /\ Accepts(Current, request) /\ Commits(op, request)
  /\ UNCHANGED <<journal, answers, faults>>

\* The write fails, or the process ends before it knows that it did not.
WriteFails(op, request) ==
  /\ Asks(op) /\ op \notin DOMAIN receipts /\ Accepts(Current, request)
  /\ Fault
  /\ Writes(op, request) \/ UNCHANGED <<log, receipts>>
  /\ Ends(op, request, "unknown")
  /\ UNCHANGED <<journal, answers>>

-----------------------------------------------------------------------------
(* Publication.                                                              *)

\* What an operation tells of some Tasks, by name.
EventsOf(op, tasks) ==
  LET told(t) == IF t \in tasks
                 THEN <<Event(op, call[op].request, call[op].boundary, t)>> ELSE << >>
  IN  told("A") \o told("B")

\* Mutant: a replay publishes as the first call did.
PendingAgain(op) ==
  EventsOf(op, Changed(call[op].boundary.before, call[op].boundary.after))

\* What is published of a committed operation: all that it changed; of a
\* replay what is current still and has no event.
Pending(op) ==
  LET c == call[op] IN
    EventsOf(op, {t \in Changed(c.boundary.before, c.boundary.after) :
      c.replayed => /\ Card(c.current, t) = Card(c.boundary.after, t)
                    /\ ~ HasPublication(Event(op, c.request, c.boundary, t))})

\* The journal is asked before anything is appended to it.
Prepare(op) ==
  /\ call[op].phase = "committed"
  /\ call' = [call EXCEPT ![op] =
       [phase |-> "pending", request |-> @.request, boundary |-> @.boundary,
        current |-> @.current, events |-> Pending(op)]]
  /\ UNCHANGED <<log, receipts, journal, answers, retries, faults>>

Answers(op, outcome) ==
  /\ Ends(op, call[op].request, outcome)
  /\ answers' = answers \cup {[operation |-> op, boundary |-> call[op].boundary]}

\* The events of a command are one batch.
Publish(op) ==
  /\ call[op].phase = "pending"
  /\ journal' = journal \o call[op].events
  /\ Answers(op, "done")
  /\ UNCHANGED <<log, receipts, retries, faults>>

\* The batch is rolled back, and the answer warns of it.
PublishFails(op) ==
  /\ call[op].phase = "pending" /\ call[op].events # << >>
  /\ Fault
  /\ Answers(op, "warned")
  /\ UNCHANGED <<log, receipts, journal, retries>>

\* The process of the caller ends, maybe with a part of the batch written.
Crash(op) ==
  /\ call[op].phase \in {"committed", "pending"}
  /\ Fault
  /\ journal' \in IF call[op].phase = "pending"
                  THEN {journal \o SubSeq(call[op].events, 1, k) : k \in 0..Len(call[op].events)}
                  ELSE {journal}
  /\ Ends(op, call[op].request, "crashed")
  /\ UNCHANGED <<log, receipts, answers, retries>>

Next ==
  \E op \in Operations :
    \/ \E request \in Requests : Mutate(op, request) \/ WriteFails(op, request)
    \/ Prepare(op) \/ Publish(op) \/ PublishFails(op) \/ Crash(op)

Spec == Init /\ [][Next]_vars

-----------------------------------------------------------------------------
(* Properties.                                                               *)

\* An operation is committed at most once, however often it is asked for: all
\* of its records are of one change of the graph (command, mutate).
CommittedOnce ==
  \A op \in Operations : \A i, j \in Committed(op) : log[i].graph = log[j].graph

\* Who asks once more for what is committed is never told that it was refused
\* (command: the receipt comes before every condition of the command).
CommittedIsNotRefused ==
  \A op \in DOMAIN receipts :
    call[op].phase = "ended" /\ call[op].outcome = "refused" => call[op].request # receipts[op]

\* Every answer to an operation tells the same change, whether it is given at
\* once or after other operations (committedBoundary).
OneAnswer ==
  \A a, b \in answers : a.operation = b.operation => a = b

\* A crash, a failure and the replay that repairs it publish a change at most
\* once (needsReplayPublication).
PublishedOnce ==
  \A i, j \in DOMAIN journal :
    journal[i].operation = journal[j].operation /\ journal[i].task = journal[j].task => i = j

Is(event, op, t, boundary) ==
  /\ event.task = t /\ event.version = Card(boundary.after, t)
  /\ event.evidence = Evidence(op, call[op].request, boundary, t)

\* An answer without a warning means that each change of the operation that
\* its caller was given as current is told by an event (applyGraph, transition).
AnsweredIsPublished ==
  [][\A op \in Operations :
       LET c == call[op] IN
       c.phase = "pending" /\ call'[op].phase = "ended" /\ call'[op].outcome = "done" =>
         \A t \in Changed(c.boundary.before, c.boundary.after) :
           Card(c.current, t) = Card(c.boundary.after, t) =>
             \E i \in DOMAIN journal' : Is(journal'[i], op, t, c.boundary)]_vars

\* "Replay checks the event evidence for the exact Task version current at the
\* replay check and repairs a missing event" (docs/journal/
\* 2026-09-26-formal-runtime-hardening.md): each change then has its own event.
ReplayRepairs ==
  [][\A op \in Operations :
       LET c == call[op] IN
       c.phase = "pending" /\ call'[op].phase = "ended" /\ call'[op].outcome = "done" =>
         \A t \in Changed(c.boundary.before, c.boundary.after) :
           Card(c.current, t) = Card(c.boundary.after, t) =>
             \E i \in DOMAIN journal' :
               Is(journal'[i], op, t, c.boundary) /\ journal'[i].operation = op]_vars
=============================================================================
