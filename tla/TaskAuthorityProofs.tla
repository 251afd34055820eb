------------------------ MODULE TaskAuthorityProofs ------------------------
(***************************************************************************)
(* Whatever is asked for, retried, failed or crashed, for any operations:   *)
(* an operation is committed once, its retries are never told that it was   *)
(* refused, every answer to it tells the same change, and the journal tells  *)
(* it once.                                                                 *)
(*                                                                         *)
(* The argument: the records of a committed operation are one interval of    *)
(* the log.  The log only grows, by records of an operation that had none,   *)
(* so the interval stays, and with it the boundary that a replay computes.   *)
(* What an operation has to tell follows from its boundary and its request:  *)
(* a replay computes the very events that an earlier call wrote, finds them, *)
(* and writes what is missing alone.                                        *)
(***************************************************************************)
EXTENDS TaskAuthority, TLAPS, FiniteSetTheorems, SequenceTheorems

Statuses == {"none", "in_progress", "blocked", "achieved"}

Graph ==
  [revision : Nat, lineage : Nat, attempt : [Tasks -> Statuses], ordinal : [Tasks -> Nat]]

Record == [operation : Operations \cup Earlier, graph : Graph]

TypeOK ==
  /\ log \in Seq(Record)
  /\ DOMAIN receipts \subseteq Operations
  /\ DOMAIN call = Operations

\* The records of an operation are an interval of the log, with one graph; it
\* is the whole interval if there is a receipt, and empty otherwise.
Interval(op) ==
  IF op \in DOMAIN receipts
  THEN \E a \in 1..Len(log) : \E b \in a..Len(log) :
         /\ Committed(op) = a..b
         /\ \A i, j \in a..b : log[i].graph = log[j].graph
  ELSE Committed(op) = {}

\* A call that goes on, and every answer, has the boundary of its operation.
BoundariesAgree ==
  /\ \A op \in Operations :
       call[op].phase \in {"committed", "pending"} =>
         op \in DOMAIN receipts /\ call[op].boundary = Boundary(op)
  /\ answers \subseteq {[operation |-> op, boundary |-> Boundary(op)] : op \in DOMAIN receipts}

AuthorityInv ==
  /\ TypeOK
  /\ \A op \in Operations : Interval(op)
  /\ BoundariesAgree
  /\ CommittedIsNotRefused

-----------------------------------------------------------------------------
(* Commands and their records.                                               *)

\* What is asked for names a command and a Task.
LEMMA RequestsName ==
  ASSUME NEW request \in Requests
  PROVE  /\ request.command \in {"revise", "confirm"} \cup DOMAIN Transitions
         /\ request.task \in Tasks
<1>1. CASE request \in [command : {"revise", "confirm"}, task : {"A"},
                        expected : {[graph |-> GraphAt(i).revision] : i \in 0..Len(log)}]
  BY <1>1 DEF Tasks
<1>2. CASE \E t \in Tasks :
             request \in [command : DOMAIN Transitions, task : {t},
                          expected : {Card(log[i].graph, t) : i \in DOMAIN log}]
  BY <1>2
<1> QED
  BY <1>1, <1>2 DEF Requests

\* A command leads from a graph to a graph.
LEMMA AfterIsGraph ==
  ASSUME NEW graph \in Graph, NEW request \in Requests, NEW n \in Nat
  PROVE  After(graph, request, n) \in Graph
<1>1. /\ request.command \in {"revise", "confirm"} \cup DOMAIN Transitions
      /\ request.task \in Tasks
  BY RequestsName
<1>2. CASE request.command = "confirm"
  BY <1>2 DEF After, Graph
<1>3. CASE request.command = "revise"
  BY <1>3 DEF After, Graph, Statuses
<1>4. CASE request.command \in DOMAIN Transitions
  <2>1. Transitions[request.command][2] \in Statuses
    BY <1>4 DEF Transitions, Statuses
  <2>2. request.command \notin {"confirm", "revise"}
    BY <1>4 DEF Transitions
  <2>3. After(graph, request, n) =
          [graph EXCEPT !.attempt[request.task] = Transitions[request.command][2],
                        !.ordinal[request.task] = IF request.command = "claim" THEN @ + 1 ELSE @]
    BY <2>2 DEF After
  <2> DEFINE status == Transitions[request.command][2]
             attempt == [graph.attempt EXCEPT ![request.task] = status]
             ordinal == [graph.ordinal EXCEPT ![request.task] =
                           IF request.command = "claim" THEN @ + 1 ELSE @]
  <2>4. attempt \in [Tasks -> Statuses] /\ ordinal \in [Tasks -> Nat]
    BY <2>1, <1>1 DEF Graph
  <2>5. After(graph, request, n) = [graph EXCEPT !.attempt = attempt, !.ordinal = ordinal]
    BY <2>3 DEF Graph
  <2> HIDE DEF attempt, ordinal
  <2> QED
    BY <2>4, <2>5 DEF Graph
<1> QED
  BY <1>1, <1>2, <1>3, <1>4

\* There is a graph after every record, and before the first.
LEMMA GraphsAreGraphs ==
  ASSUME log \in Seq(Record)
  PROVE  Current \in Graph
<1>1. Empty \in Graph
  BY DEF Empty, Graph, Statuses
<1>2. CASE Len(log) = 0
  BY <1>1, <1>2 DEF Current, GraphAt
<1>3. CASE Len(log) # 0
  <2>1. Len(log) \in 1..Len(log)
    BY <1>3, LenProperties
  <2>2. log[Len(log)] \in Record
    BY <2>1, ElementOfSeq
  <2> QED
    BY <2>2, <1>3 DEF Current, GraphAt, Record
<1> QED
  BY <1>2, <1>3

\* A command has one record or more, all with the graph that it leads to.
LEMMA RecordsOfCommand ==
  ASSUME log \in Seq(Record), NEW op \in Operations, NEW request \in Requests
  PROVE  \E n \in Nat \ {0} :
           /\ Records(op, request) =
                [i \in 1..n |-> [operation |-> op, graph |-> After(Current, request, Len(log) + 1)]]
           /\ Records(op, request) \in Seq(Record)
<1> DEFINE n == 1 + Cardinality(Superseded(Current, request))
<1>1. IsFiniteSet(Tasks)
  <2>1. IsFiniteSet({"A"}) /\ IsFiniteSet({"B"})
    BY FS_Singleton
  <2>2. Tasks = {"A"} \cup {"B"}
    BY DEF Tasks
  <2> QED
    BY <2>1, <2>2, FS_Union
<1>2. Superseded(Current, request) \subseteq Tasks
  BY DEF Superseded
<1>3. n \in Nat \ {0}
  BY <1>1, <1>2, FS_Subset, FS_CardinalityType
<1>4. After(Current, request, Len(log) + 1) \in Graph
  BY GraphsAreGraphs, AfterIsGraph
<1>5. Records(op, request) =
        [i \in 1..n |-> [operation |-> op, graph |-> After(Current, request, Len(log) + 1)]]
  BY DEF Records
<1> HIDE DEF n
<1>6. Records(op, request) \in Seq(Record)
  BY <1>3, <1>4, <1>5 DEF Record
<1> QED
  BY <1>3, <1>5, <1>6

-----------------------------------------------------------------------------
(* How the log grows.                                                        *)

\* A write adds an interval of its own, and leaves those of the others.
LEMMA Growth ==
  ASSUME TypeOK, NEW op \in Operations, NEW request \in Requests,
         Interval(op), op \notin DOMAIN receipts, Writes(op, request)
  PROVE  /\ log' \in Seq(Record)
         /\ DOMAIN receipts' = DOMAIN receipts \cup {op}
         /\ receipts'[op] = request
         /\ \A o \in DOMAIN receipts : receipts'[o] = receipts[o]
         /\ Len(log) \in Nat /\ Len(log') \in Nat /\ Len(log') > Len(log)
         /\ \A i \in 1..Len(log) : log'[i] = log[i]
         /\ Committed(op)' = (Len(log) + 1)..Len(log')
         /\ \A i \in (Len(log) + 1)..Len(log') : log'[i].graph = After(Current, request, Len(log) + 1)
         /\ \A o \in (Operations \cup Earlier) \ {op} : Committed(o)' = Committed(o)
<1> DEFINE L == Len(log)
           graph == After(Current, request, L + 1)
           records == Records(op, request)
<1>1. log \in Seq(Record) /\ L \in Nat
  BY LenProperties DEF TypeOK
<1>2. PICK n \in Nat \ {0} :
        records = [i \in 1..n |-> [operation |-> op, graph |-> graph]] /\ records \in Seq(Record)
  BY <1>1, RecordsOfCommand
<1>3. Len(records) = n
  BY <1>2
<1>4. log' = log \o records
  BY DEF Writes
<1> HIDE DEF records, graph
<1>5. log' \in Seq(Record) /\ Len(log') = L + n
  BY <1>1, <1>2, <1>3, <1>4, ConcatProperties
<1>6. \A i \in 1..L : log'[i] = log[i]
  BY <1>1, <1>2, <1>3, <1>4, ConcatProperties
<1>7. \A i \in (L + 1)..(L + n) : log'[i] = [operation |-> op, graph |-> graph]
  <2> SUFFICES ASSUME NEW i \in (L + 1)..(L + n)
               PROVE  log'[i] = [operation |-> op, graph |-> graph]
    OBVIOUS
  <2>1. i - L \in 1..n /\ i \in 1..(L + n) /\ i > L
    BY <1>1, <1>2
  <2>2. log'[i] = records[i - L]
    BY <2>1, <1>1, <1>2, <1>3, <1>4, ConcatProperties
  <2> QED
    BY <2>1, <2>2, <1>2
<1>8. DOMAIN log = 1..L /\ DOMAIN log' = 1..(L + n)
  BY <1>1, <1>5, LenProperties
<1>9. \A i \in 1..L : log[i].operation # op
  BY <1>8 DEF Interval, Committed
<1>10. Committed(op)' = (L + 1)..(L + n)
  BY <1>1, <1>2, <1>6, <1>7, <1>8, <1>9 DEF Committed
<1>11. \A o \in (Operations \cup Earlier) \ {op} : Committed(o)' = Committed(o)
  BY <1>1, <1>2, <1>6, <1>7, <1>8 DEF Committed
<1>12. /\ DOMAIN receipts' = DOMAIN receipts \cup {op} /\ receipts'[op] = request
       /\ \A o \in DOMAIN receipts : receipts'[o] = receipts[o]
  BY DEF Writes
<1> QED
  BY <1>1, <1>2, <1>5, <1>6, <1>7, <1>10, <1>11, <1>12 DEF graph

\* What stands in an interval has a boundary, and keeps it while the log grows.
LEMMA BoundaryStays ==
  ASSUME TypeOK, NEW o \in Operations, o \in DOMAIN receipts, Interval(o),
         Len(log) \in Nat, \A i \in 1..Len(log) : log'[i] = log[i],
         Committed(o)' = Committed(o)
  PROVE  Boundary(o)' = Boundary(o)
<1>1. PICK a \in 1..Len(log) : \E b \in a..Len(log) : Committed(o) = a..b
  BY DEF Interval
<1>2. PICK b \in a..Len(log) : Committed(o) = a..b
  BY <1>1
<1>3. First(o) = a /\ Last(o) = b
  BY <1>1, <1>2 DEF First, Last
<1>4. First(o)' = First(o) /\ Last(o)' = Last(o)
  BY DEF First, Last
<1>5. /\ a - 1 = 0 \/ a - 1 \in 1..Len(log)
      /\ b \in 1..Len(log)
  BY <1>1, <1>2
<1>6. GraphAt(a - 1)' = GraphAt(a - 1) /\ GraphAt(b)' = GraphAt(b)
  BY <1>5 DEF GraphAt, Empty
<1> QED
  BY <1>3, <1>4, <1>6 DEF Boundary

\* The boundary that a command answers is the one that its replays will find.
LEMMA BoundaryOfCommit ==
  ASSUME TypeOK, NEW op \in Operations, NEW request \in Requests,
         Interval(op), op \notin DOMAIN receipts, Writes(op, request)
  PROVE  Boundary(op)' =
           [before |-> Current, after |-> After(Current, request, Len(log) + 1)]
<1>1. /\ Len(log) \in Nat /\ Len(log') \in Nat /\ Len(log') > Len(log)
      /\ \A i \in 1..Len(log) : log'[i] = log[i]
      /\ Committed(op)' = (Len(log) + 1)..Len(log')
      /\ \A i \in (Len(log) + 1)..Len(log') : log'[i].graph = After(Current, request, Len(log) + 1)
  BY Growth
<1>2. First(op)' = Len(log) + 1 /\ Last(op)' = Len(log')
  BY <1>1 DEF First, Last
<1>3. (GraphAt(Last(op)))' = After(Current, request, Len(log) + 1)
  BY <1>1, <1>2 DEF GraphAt
<1>4. (GraphAt(First(op) - 1))' = Current
  <2>1. First(op)' - 1 = Len(log)
    BY <1>1, <1>2
  <2>2. CASE Len(log) = 0
    BY <2>1, <2>2 DEF GraphAt, Current, Empty
  <2>3. CASE Len(log) # 0
    <3>1. Len(log) \in 1..Len(log)
      BY <2>3, <1>1
    <3> QED
      BY <2>1, <2>3, <3>1, <1>1 DEF GraphAt, Current
  <2> QED
    BY <2>2, <2>3
<1> QED
  BY <1>3, <1>4 DEF Boundary

\* After a write every operation has its interval, and those that had one have
\* their boundary still.
LEMMA WriteKeeps ==
  ASSUME AuthorityInv, NEW op \in Operations, NEW request \in Requests,
         op \notin DOMAIN receipts, Writes(op, request), DOMAIN call' = Operations
  PROVE  /\ TypeOK'
         /\ \A o \in Operations : Interval(o)'
         /\ \A o \in DOMAIN receipts : Boundary(o)' = Boundary(o)
<1>1. TypeOK /\ Interval(op) /\ \A o \in Operations : Interval(o)
  BY DEF AuthorityInv
<1>2. /\ log' \in Seq(Record)
      /\ DOMAIN receipts' = DOMAIN receipts \cup {op}
      /\ Len(log) \in Nat /\ Len(log') \in Nat /\ Len(log') > Len(log)
      /\ \A i \in 1..Len(log) : log'[i] = log[i]
      /\ Committed(op)' = (Len(log) + 1)..Len(log')
      /\ \A i \in (Len(log) + 1)..Len(log') : log'[i].graph = After(Current, request, Len(log) + 1)
      /\ \A o \in (Operations \cup Earlier) \ {op} : Committed(o)' = Committed(o)
  BY <1>1, Growth
<1>3. TypeOK'
  BY <1>1, <1>2 DEF TypeOK
<1>4. ASSUME NEW o \in Operations PROVE Interval(o)'
  <2>1. CASE o = op
    <3>1. Len(log) + 1 \in 1..Len(log') /\ Len(log') \in (Len(log) + 1)..Len(log')
      BY <1>2
    <3>2. \A i, j \in (Len(log) + 1)..Len(log') : log'[i].graph = log'[j].graph
      BY <1>2
    <3>3. Committed(o)' = (Len(log) + 1)..Len(log') /\ o \in DOMAIN receipts'
      BY <2>1, <1>2
    <3> QED
      BY <3>1, <3>2, <3>3 DEF Interval
  <2>2. CASE o # op /\ o \notin DOMAIN receipts
    BY <2>2, <1>1, <1>2 DEF Interval
  <2>3. CASE o # op /\ o \in DOMAIN receipts
    <3>1. PICK a \in 1..Len(log) : \E b \in a..Len(log) :
             Committed(o) = a..b /\ \A i, j \in a..b : log[i].graph = log[j].graph
      BY <2>3, <1>1 DEF Interval
    <3>2. PICK b \in a..Len(log) :
             Committed(o) = a..b /\ \A i, j \in a..b : log[i].graph = log[j].graph
      BY <3>1
    <3>3. a \in 1..Len(log') /\ b \in a..Len(log') /\ a..b \subseteq 1..Len(log)
      BY <3>1, <3>2, <1>2
    <3>4. Committed(o)' = a..b /\ o \in DOMAIN receipts'
      BY <2>3, <3>2, <1>2
    <3>5. \A i, j \in a..b : log'[i].graph = log'[j].graph
      BY <3>2, <3>3, <1>2
    <3> QED
      BY <3>3, <3>4, <3>5 DEF Interval
  <2> QED
    BY <2>1, <2>2, <2>3
<1>5. ASSUME NEW o \in DOMAIN receipts PROVE Boundary(o)' = Boundary(o)
  <2>1. o \in Operations /\ o # op
    BY <1>1 DEF TypeOK
  <2> QED
    BY <2>1, <1>1, <1>2, BoundaryStays
<1> QED
  BY <1>3, <1>4, <1>5

\* A step that writes nothing and changes calls and answers alone.
LEMMA NoWriteKeeps ==
  ASSUME AuthorityInv, UNCHANGED <<log, receipts>>, DOMAIN call' = Operations
  PROVE  /\ TypeOK'
         /\ \A o \in Operations : Interval(o)'
         /\ \A o : Boundary(o)' = Boundary(o)
<1>1. TypeOK'
  BY DEF AuthorityInv, TypeOK
<1>2. \A o \in Operations : Interval(o)'
  BY DEF AuthorityInv, Interval, Committed
<1>3. \A o : Boundary(o)' = Boundary(o)
  BY DEF Boundary, First, Last, Committed, GraphAt, Empty
<1> QED
  BY <1>1, <1>2, <1>3

-----------------------------------------------------------------------------
(* The invariant.                                                            *)

LEMMA InitAuthority == Init => AuthorityInv
<1> SUFFICES ASSUME Init PROVE AuthorityInv
  OBVIOUS
<1>1. DOMAIN receipts = {} /\ DOMAIN call = Operations /\ answers = {}
      /\ \A op \in Operations : call[op].phase = "none"
  BY DEF Init, NoCall
<1>2. << >> \in Seq(Record)
  OBVIOUS
<1>3. Blocked \in Seq(Record) /\ \A i \in DOMAIN Blocked : Blocked[i].operation \in Earlier
  <2>1. Empty \in Graph
    BY DEF Empty, Graph, Statuses
  <2> DEFINE given == [Empty EXCEPT !.revision = 1, !.lineage = 1]
             claimed == [given EXCEPT !.attempt["A"] = "in_progress", !.ordinal["A"] = 1]
             blocked == [claimed EXCEPT !.attempt["A"] = "blocked"]
  <2>2. given \in Graph
    BY <2>1 DEF Graph
  <2>3. claimed \in Graph
    BY <2>2 DEF Graph, Statuses, Tasks
  <2>4. blocked \in Graph
    BY <2>3 DEF Graph, Statuses, Tasks
  <2>5. Blocked = <<[operation |-> "first", graph |-> given], [operation |-> "second", graph |-> claimed],
                    [operation |-> "third", graph |-> blocked]>>
    BY DEF Blocked
  <2> HIDE DEF given, claimed, blocked
  <2>6. /\ [operation |-> "first", graph |-> given] \in Record
        /\ [operation |-> "second", graph |-> claimed] \in Record
        /\ [operation |-> "third", graph |-> blocked] \in Record
    BY <2>2, <2>3, <2>4 DEF Record, Earlier
  <2> QED
    BY <2>5, <2>6 DEF Earlier
<1>4. TypeOK
  BY <1>1, <1>2, <1>3 DEF TypeOK, Init
<1>5. \A op \in Operations : Committed(op) = {}
  BY <1>3, ConstantsAssumption DEF Init, Committed
<1>6. \A op \in Operations : Interval(op)
  BY <1>1, <1>5 DEF Interval
<1> QED
  BY <1>1, <1>4, <1>6 DEF AuthorityInv, BoundariesAgree, CommittedIsNotRefused

\* A command that is accepted and written, whether its caller learns of it.
LEMMA StepMutate ==
  ASSUME AuthorityInv, NEW op \in Operations, NEW request \in Requests, Mutate(op, request)
  PROVE  AuthorityInv'
<1>1. DOMAIN call = Operations /\ Interval(op)
  BY DEF AuthorityInv, TypeOK
<1>2. CASE op \in DOMAIN receipts /\ receipts[op] # request /\ Refuses(op, request)
  <2>1. /\ UNCHANGED <<log, receipts, answers>>
        /\ call' = [call EXCEPT ![op] = [phase |-> "ended", request |-> request, outcome |-> "refused"]]
    BY <1>2 DEF Refuses, Ends, Mutate
  <2>2. DOMAIN call' = Operations
    BY <2>1, <1>1
  <2>3. /\ TypeOK' /\ (\A o \in Operations : Interval(o)') /\ \A o : Boundary(o)' = Boundary(o)
    BY <2>1, <2>2, NoWriteKeeps
  <2>4. BoundariesAgree'
    BY <2>1, <2>3, <1>1 DEF AuthorityInv, BoundariesAgree
  <2>5. CommittedIsNotRefused'
    BY <2>1, <1>1, <1>2 DEF AuthorityInv, TypeOK, CommittedIsNotRefused
  <2> QED
    BY <2>3, <2>4, <2>5 DEF AuthorityInv
<1>3. CASE op \in DOMAIN receipts /\ receipts[op] = request /\ UNCHANGED <<log, receipts>>
           /\ call' = [call EXCEPT ![op] =
                [phase |-> "committed", request |-> request, replayed |-> TRUE,
                 boundary |-> Boundary(op), current |-> Current]]
  <2>1. UNCHANGED answers
    BY DEF Mutate
  <2>2. DOMAIN call' = Operations
    BY <1>3, <1>1
  <2>3. /\ TypeOK' /\ (\A o \in Operations : Interval(o)') /\ \A o : Boundary(o)' = Boundary(o)
    BY <1>3, <2>2, NoWriteKeeps
  <2>4. BoundariesAgree'
    <3>1. call'[op].phase = "committed" /\ call'[op].boundary = Boundary(op)
      BY <1>3, <1>1
    <3>2. \A o \in Operations : o # op => call'[o] = call[o]
      BY <1>3, <1>1
    <3> QED
      BY <1>3, <2>1, <2>3, <3>1, <3>2 DEF AuthorityInv, BoundariesAgree
  <2>5. CommittedIsNotRefused'
    BY <1>3, <1>1 DEF AuthorityInv, TypeOK, CommittedIsNotRefused
  <2> QED
    BY <2>3, <2>4, <2>5 DEF AuthorityInv
<1>4. CASE op \notin DOMAIN receipts /\ Refuses(op, request)
  <2>1. /\ UNCHANGED <<log, receipts, answers>>
        /\ call' = [call EXCEPT ![op] = [phase |-> "ended", request |-> request, outcome |-> "refused"]]
    BY <1>4 DEF Refuses, Ends, Mutate
  <2>2. DOMAIN call' = Operations
    BY <2>1, <1>1
  <2>3. /\ TypeOK' /\ (\A o \in Operations : Interval(o)') /\ \A o : Boundary(o)' = Boundary(o)
    BY <2>1, <2>2, NoWriteKeeps
  <2>4. BoundariesAgree'
    BY <2>1, <2>3, <1>1 DEF AuthorityInv, BoundariesAgree
  <2>5. CommittedIsNotRefused'
    BY <2>1, <1>1, <1>4 DEF AuthorityInv, TypeOK, CommittedIsNotRefused
  <2> QED
    BY <2>3, <2>4, <2>5 DEF AuthorityInv
<1>5. CASE op \notin DOMAIN receipts /\ Commits(op, request)
  <2> DEFINE after == After(Current, request, Len(log) + 1)
  <2>1. /\ Writes(op, request) /\ UNCHANGED answers
        /\ call' = [call EXCEPT ![op] =
             [phase |-> "committed", request |-> request, replayed |-> FALSE,
              boundary |-> [before |-> Current, after |-> after], current |-> after]]
    BY <1>5 DEF Commits, Mutate
  <2> HIDE DEF after
  <2>2. DOMAIN call' = Operations
    BY <2>1, <1>1
  <2>3. TypeOK' /\ (\A o \in Operations : Interval(o)')
        /\ \A o \in DOMAIN receipts : Boundary(o)' = Boundary(o)
    BY <1>5, <2>1, <2>2, WriteKeeps
  <2>4. Boundary(op)' = [before |-> Current, after |-> after]
    BY <1>1, <1>5, <2>1, BoundaryOfCommit DEF AuthorityInv, after
  <2>5. DOMAIN receipts' = DOMAIN receipts \cup {op} /\ receipts'[op] = request
        /\ \A o \in DOMAIN receipts : receipts'[o] = receipts[o]
    BY <1>1, <1>5, <2>1, Growth DEF AuthorityInv
  <2>6. /\ call'[op].phase = "committed"
        /\ call'[op].boundary = [before |-> Current, after |-> after]
        /\ \A o \in Operations : o # op => call'[o] = call[o]
    BY <2>1, <1>1
  <2>7. BoundariesAgree'
    BY <2>1, <2>3, <2>4, <2>5, <2>6 DEF AuthorityInv, BoundariesAgree
  <2>8. CommittedIsNotRefused'
    BY <2>5, <2>6 DEF AuthorityInv, TypeOK, CommittedIsNotRefused
  <2> QED
    BY <2>3, <2>7, <2>8 DEF AuthorityInv
<1> QED
  BY <1>2, <1>3, <1>4, <1>5 DEF Mutate

LEMMA StepWriteFails ==
  ASSUME AuthorityInv, NEW op \in Operations, NEW request \in Requests, WriteFails(op, request)
  PROVE  AuthorityInv'
<1>1. DOMAIN call = Operations /\ Interval(op) /\ op \notin DOMAIN receipts
  BY DEF AuthorityInv, TypeOK, WriteFails
<1>2. /\ call' = [call EXCEPT ![op] = [phase |-> "ended", request |-> request, outcome |-> "unknown"]]
      /\ UNCHANGED answers
  BY DEF WriteFails, Ends
<1>3. /\ DOMAIN call' = Operations
      /\ call'[op].phase = "ended" /\ call'[op].outcome = "unknown"
      /\ \A o \in Operations : o # op => call'[o] = call[o]
  BY <1>1, <1>2
<1>4. CASE Writes(op, request)
  <2>1. TypeOK' /\ (\A o \in Operations : Interval(o)')
        /\ \A o \in DOMAIN receipts : Boundary(o)' = Boundary(o)
    BY <1>1, <1>3, <1>4, WriteKeeps
  <2>2. DOMAIN receipts' = DOMAIN receipts \cup {op}
        /\ \A o \in DOMAIN receipts : receipts'[o] = receipts[o]
    BY <1>1, <1>4, Growth DEF AuthorityInv
  <2>3. BoundariesAgree'
    BY <1>2, <1>3, <2>1, <2>2 DEF AuthorityInv, BoundariesAgree
  <2>4. CommittedIsNotRefused'
    BY <1>3, <2>2 DEF AuthorityInv, TypeOK, CommittedIsNotRefused
  <2> QED
    BY <2>1, <2>3, <2>4 DEF AuthorityInv
<1>5. CASE UNCHANGED <<log, receipts>>
  <2>1. TypeOK' /\ (\A o \in Operations : Interval(o)') /\ \A o : Boundary(o)' = Boundary(o)
    BY <1>3, <1>5, NoWriteKeeps
  <2>2. BoundariesAgree'
    BY <1>2, <1>3, <1>5, <2>1 DEF AuthorityInv, BoundariesAgree
  <2>3. CommittedIsNotRefused'
    BY <1>3, <1>5 DEF AuthorityInv, TypeOK, CommittedIsNotRefused
  <2> QED
    BY <2>1, <2>2, <2>3 DEF AuthorityInv
<1> QED
  BY <1>4, <1>5 DEF WriteFails

\* A step of a call that goes on: the boundary stays or is answered.
LEMMA StepOfCall ==
  ASSUME AuthorityInv, NEW op \in Operations, UNCHANGED <<log, receipts>>,
         call[op].phase \in {"committed", "pending"},
         NEW next, call' = [call EXCEPT ![op] = next],
         \/ next.phase = "pending" /\ next.boundary = call[op].boundary
         \/ next.phase = "ended" /\ next.outcome # "refused",
         \/ UNCHANGED answers
         \/ answers' = answers \cup {[operation |-> op, boundary |-> call[op].boundary]}
  PROVE  AuthorityInv'
<1>1. DOMAIN call = Operations
  BY DEF AuthorityInv, TypeOK
<1>2. /\ DOMAIN call' = Operations /\ call'[op] = next
      /\ \A o \in Operations : o # op => call'[o] = call[o]
  BY <1>1
<1>3. TypeOK' /\ (\A o \in Operations : Interval(o)') /\ \A o : Boundary(o)' = Boundary(o)
  BY <1>2, NoWriteKeeps
<1>4. op \in DOMAIN receipts /\ call[op].boundary = Boundary(op)
  BY DEF AuthorityInv, BoundariesAgree
<1>5. BoundariesAgree'
  BY <1>2, <1>3, <1>4 DEF AuthorityInv, BoundariesAgree
<1>6. CommittedIsNotRefused'
  BY <1>2 DEF AuthorityInv, TypeOK, CommittedIsNotRefused
<1> QED
  BY <1>3, <1>5, <1>6 DEF AuthorityInv

LEMMA StepAuthority == AuthorityInv /\ [Next]_vars => AuthorityInv'
<1> SUFFICES ASSUME AuthorityInv, [Next]_vars PROVE AuthorityInv'
  OBVIOUS
<1>1. CASE UNCHANGED vars
  <2>1. DOMAIN call' = Operations /\ UNCHANGED <<log, receipts, call, answers>>
    BY <1>1 DEF vars, AuthorityInv, TypeOK
  <2>2. TypeOK' /\ (\A o \in Operations : Interval(o)') /\ \A o : Boundary(o)' = Boundary(o)
    BY <2>1, NoWriteKeeps
  <2>3. BoundariesAgree' /\ CommittedIsNotRefused'
    BY <2>1, <2>2 DEF AuthorityInv, BoundariesAgree, CommittedIsNotRefused
  <2> QED
    BY <2>2, <2>3 DEF AuthorityInv
<1>2. ASSUME NEW op \in Operations, NEW request \in Requests, Mutate(op, request)
      PROVE  AuthorityInv'
  BY <1>2, StepMutate
<1>3. ASSUME NEW op \in Operations, NEW request \in Requests, WriteFails(op, request)
      PROVE  AuthorityInv'
  BY <1>3, StepWriteFails
<1>4. ASSUME NEW op \in Operations, Prepare(op)
      PROVE  AuthorityInv'
  <2> DEFINE next == [phase |-> "pending", request |-> call[op].request,
                      boundary |-> call[op].boundary, current |-> call[op].current,
                      events |-> Pending(op)]
  <2>1. /\ UNCHANGED <<log, receipts, answers>> /\ call[op].phase \in {"committed", "pending"}
        /\ call' = [call EXCEPT ![op] = next]
    BY <1>4 DEF Prepare
  <2>2. next.phase = "pending" /\ next.boundary = call[op].boundary
    OBVIOUS
  <2> HIDE DEF next
  <2> QED
    BY <2>1, <2>2, StepOfCall
<1>5. ASSUME NEW op \in Operations, Publish(op) \/ PublishFails(op) \/ Crash(op)
      PROVE  AuthorityInv'
  <2>1. PICK outcome \in {"done", "warned", "crashed"} :
          /\ UNCHANGED <<log, receipts>> /\ call[op].phase \in {"committed", "pending"}
          /\ Ends(op, call[op].request, outcome)
          /\ \/ UNCHANGED answers
             \/ answers' = answers \cup {[operation |-> op, boundary |-> call[op].boundary]}
    BY <1>5 DEF Publish, PublishFails, Crash, Answers
  <2> DEFINE next == [phase |-> "ended", request |-> call[op].request, outcome |-> outcome]
  <2>2. call' = [call EXCEPT ![op] = next] /\ next.phase = "ended" /\ next.outcome # "refused"
    BY <2>1 DEF Ends
  <2> HIDE DEF next
  <2> QED
    BY <2>1, <2>2, StepOfCall
<1> QED
  BY <1>1, <1>2, <1>3, <1>4, <1>5 DEF Next

THEOREM AuthorityHolds == Spec => []AuthorityInv
  BY InitAuthority, StepAuthority, PTL DEF Spec

-----------------------------------------------------------------------------
(* What follows.                                                             *)

\* An operation is committed at most once (command, mutate).
THEOREM CommitsOnce == Spec => []CommittedOnce
<1>1. AuthorityInv => CommittedOnce
  BY DEF AuthorityInv, Interval, CommittedOnce
<1> QED
  BY <1>1, AuthorityHolds, PTL

\* A retry of what is committed is never refused (command: receipts first).
THEOREM RetriesAreNotRefused == Spec => []CommittedIsNotRefused
<1>1. AuthorityInv => CommittedIsNotRefused
  BY DEF AuthorityInv
<1> QED
  BY <1>1, AuthorityHolds, PTL

\* All answers to an operation tell the same change (committedBoundary).
THEOREM AnswersAgree == Spec => []OneAnswer
<1>1. AuthorityInv => OneAnswer
  BY DEF AuthorityInv, BoundariesAgree, OneAnswer
<1> QED
  BY <1>1, AuthorityHolds, PTL

-----------------------------------------------------------------------------
(* Publication.  What an operation tells of a Task is the same whenever it is *)
(* asked for; so a replay, which looks for the events that it would write,    *)
(* finds those that it or an earlier call did write.                          *)

Tells(op, t) == Event(op, receipts[op], Boundary(op), t)

Tellable ==
  {Tells(op, t) : op \in DOMAIN receipts, t \in Tasks} \cup {Told[i] : i \in DOMAIN Told}

Untold(op, t) ==
  \A i \in DOMAIN journal : ~ (journal[i].operation = op /\ journal[i].task = t)

\* A call that goes on will tell what is untold, and all that it must.
CallTells(op) ==
  LET c == call[op] IN
  /\ c.phase \in {"committed", "pending"} => c.request = receipts[op]
  /\ c.phase = "committed" /\ ~ c.replayed => \A t \in Tasks : Untold(op, t)
  /\ c.phase = "committed" /\ ~ c.replayed => c.current = c.boundary.after
  /\ c.phase = "pending" =>
       \E tasks \in SUBSET Tasks :
         /\ c.events = EventsOf(op, tasks)
         /\ \A t \in tasks : Untold(op, t)
         /\ \A t \in Changed(c.boundary.before, c.boundary.after) :
              Card(c.current, t) = Card(c.boundary.after, t) =>
                t \in tasks \/ HasPublication(Event(op, c.request, c.boundary, t))

PublicationInv ==
  /\ journal \in Seq(Tellable)
  /\ \A op \in Operations : CallTells(op)
  /\ PublishedOnce

\* What is committed stays as it was asked for, with what it found and left.
LEMMA CommittedStays ==
  ASSUME AuthorityInv, [Next]_vars
  PROVE  /\ DOMAIN receipts \subseteq DOMAIN receipts'
         /\ \A o \in DOMAIN receipts : receipts'[o] = receipts[o] /\ Boundary(o)' = Boundary(o)
<1>1. DOMAIN call' = Operations
  BY StepAuthority DEF AuthorityInv, TypeOK
<1>2. CASE UNCHANGED <<log, receipts>>
  BY <1>1, <1>2, NoWriteKeeps
<1>3. ASSUME NEW op \in Operations, NEW request \in Requests,
             op \notin DOMAIN receipts, Writes(op, request)
      PROVE  /\ DOMAIN receipts \subseteq DOMAIN receipts'
             /\ \A o \in DOMAIN receipts : receipts'[o] = receipts[o] /\ Boundary(o)' = Boundary(o)
  <2>1. TypeOK /\ Interval(op)
    BY DEF AuthorityInv
  <2>2. /\ DOMAIN receipts' = DOMAIN receipts \cup {op}
        /\ \A o \in DOMAIN receipts : receipts'[o] = receipts[o]
    BY <1>3, <2>1, Growth
  <2>3. \A o \in DOMAIN receipts : Boundary(o)' = Boundary(o)
    BY <1>1, <1>3, WriteKeeps
  <2> QED
    BY <2>2, <2>3
<1>4. \/ UNCHANGED <<log, receipts>>
      \/ \E op \in Operations, request \in Requests : op \notin DOMAIN receipts /\ Writes(op, request)
  BY DEF Next, vars, Mutate, Refuses, Commits, WriteFails, Prepare, Publish, PublishFails, Crash
<1> QED
  BY <1>2, <1>3, <1>4

LEMMA TellableGrows ==
  ASSUME AuthorityInv, [Next]_vars
  PROVE  Tellable \subseteq Tellable'
<1>1. /\ DOMAIN receipts \subseteq DOMAIN receipts'
      /\ \A o \in DOMAIN receipts : receipts'[o] = receipts[o] /\ Boundary(o)' = Boundary(o)
  BY CommittedStays
<1>2. \A o \in DOMAIN receipts, t \in Tasks : Tells(o, t)' = Tells(o, t)
  BY <1>1 DEF Tells, Event, Evidence, Card, IsRevision
<1>3. Told' = Told
  OBVIOUS
<1> QED
  BY <1>1, <1>2, <1>3 DEF Tellable

\* An event of an operation of the model tells what that operation tells.
LEMMA EventOfOperation ==
  ASSUME NEW event \in Tellable, event.operation \in Operations
  PROVE  /\ event.operation \in DOMAIN receipts /\ event.task \in Tasks
         /\ event = Tells(event.operation, event.task)
<1>1. \A i \in DOMAIN Told : Told[i].operation \in Earlier
  BY DEF Told, Earlier
<1>2. PICK op \in DOMAIN receipts, t \in Tasks : event = Tells(op, t)
  BY <1>1, ConstantsAssumption DEF Tellable
<1>3. event.operation = op /\ event.task = t
  BY <1>2 DEF Tells, Event
<1> QED
  BY <1>2, <1>3

\* The events of some Tasks are one for each of them.
LEMMA EventsOfTasks ==
  ASSUME NEW op, NEW tasks \in SUBSET Tasks, NEW S,
         \A t \in tasks : Event(op, call[op].request, call[op].boundary, t) \in S
  PROVE  LET events == EventsOf(op, tasks) IN
         /\ events \in Seq(S)
         /\ \A i \in 1..Len(events) :
              events[i].task \in tasks /\ events[i].operation = op
         /\ \A i, j \in 1..Len(events) : events[i].task = events[j].task => i = j
         /\ \A t \in tasks : \E i \in 1..Len(events) :
              events[i] = Event(op, call[op].request, call[op].boundary, t)
<1> DEFINE event(t) == Event(op, call[op].request, call[op].boundary, t)
           events == EventsOf(op, tasks)
<1>1. \A t : event(t).task = t /\ event(t).operation = op
  BY DEF Event
<1>2. events = (IF "A" \in tasks THEN <<event("A")>> ELSE << >>)
                 \o (IF "B" \in tasks THEN <<event("B")>> ELSE << >>)
  BY DEF EventsOf
<1>3. "A" # "B" /\ tasks \subseteq {"A", "B"} /\ \A t \in tasks : event(t) \in S
  BY DEF Tasks
<1> HIDE DEF event, events
<1>4. CASE "A" \in tasks /\ "B" \in tasks
  <2> DEFINE a == event("A")  b == event("B")
  <2>1. events = <<a>> \o <<b>>
    BY <1>2, <1>4
  <2>2. <<a>> \in Seq(S) /\ <<b>> \in Seq(S) /\ Len(<<a>>) = 1 /\ Len(<<b>>) = 1
    BY <1>3, <1>4
  <2>3. /\ events \in Seq(S) /\ Len(events) = 2
        /\ events[1] = event("A") /\ events[2] = event("B")
    <3>1. <<a>>[1] = a /\ <<b>>[1] = b
      OBVIOUS
    <3> HIDE DEF a, b
    <3>2. /\ events \in Seq(S) /\ Len(events) = 2
          /\ events[1] = <<a>>[1] /\ events[2] = <<b>>[1]
      BY <2>1, <2>2, ConcatProperties
    <3> QED
      BY <3>1, <3>2 DEF a, b
  <2> QED
    BY <2>3, <1>1, <1>3, <1>4 DEF events, event
<1>5. CASE "A" \in tasks /\ "B" \notin tasks
  <2>1. events = <<event("A")>>
    BY <1>2, <1>5
  <2> QED
    BY <2>1, <1>1, <1>3, <1>5 DEF events, event
<1>6. CASE "A" \notin tasks /\ "B" \in tasks
  <2>1. events = <<event("B")>>
    BY <1>2, <1>6
  <2> QED
    BY <2>1, <1>1, <1>3, <1>6 DEF events, event
<1>7. CASE "A" \notin tasks /\ "B" \notin tasks
  <2>1. events = << >>
    BY <1>2, <1>7
  <2> QED
    BY <2>1, <1>1, <1>3, <1>7 DEF events, event
<1> QED
  BY <1>4, <1>5, <1>6, <1>7

\* What is appended to the journal: events of one operation, of Tasks of which
\* it told nothing.
Fresh(op, batch) ==
  /\ batch \in Seq(Tellable)
  /\ \A i \in 1..Len(batch) : batch[i].operation = op /\ Untold(op, batch[i].task)
  /\ \A i, j \in 1..Len(batch) : batch[i].task = batch[j].task => i = j

LEMMA AppendKeeps ==
  ASSUME AuthorityInv, PublicationInv, [Next]_vars,
         NEW op, NEW batch, Fresh(op, batch), journal' = journal \o batch
  PROVE  /\ journal' \in Seq(Tellable')
         /\ PublishedOnce'
         /\ \A i \in DOMAIN journal : i \in DOMAIN journal' /\ journal'[i] = journal[i]
         /\ \A i \in 1..Len(batch) : \E j \in DOMAIN journal' : journal'[j] = batch[i]
         /\ \A o, t : o # op /\ Untold(o, t) => Untold(o, t)'
<1> DEFINE J == Len(journal)  N == Len(batch)
<1>1. journal \in Seq(Tellable) /\ batch \in Seq(Tellable) /\ J \in Nat /\ N \in Nat
  BY LenProperties DEF PublicationInv, Fresh
<1>2. journal' \in Seq(Tellable) /\ Len(journal') = J + N
  BY <1>1, ConcatProperties
<1>3. DOMAIN journal = 1..J /\ DOMAIN journal' = 1..(J + N)
  BY <1>1, <1>2, LenProperties
<1>4. \A i \in 1..J : journal'[i] = journal[i]
  BY <1>1, ConcatProperties
<1>5. \A i \in (J + 1)..(J + N) : i - J \in 1..N /\ journal'[i] = batch[i - J]
  <2> SUFFICES ASSUME NEW i \in (J + 1)..(J + N)
               PROVE  i - J \in 1..N /\ journal'[i] = batch[i - J]
    OBVIOUS
  <2>1. i \in 1..(J + N) /\ ~ (i <= J) /\ i - J \in 1..N
    BY <1>1
  <2> QED
    BY <2>1, <1>1, ConcatProperties
<1>6. \A i \in 1..(J + N) : i \in 1..J \/ i \in (J + 1)..(J + N)
  BY <1>1
<1> HIDE DEF J, N
<1>7. \A i \in 1..J, j \in (J + 1)..(J + N) :
        ~ (journal'[i].operation = journal'[j].operation /\ journal'[i].task = journal'[j].task)
  <2> SUFFICES ASSUME NEW i \in 1..J, NEW j \in (J + 1)..(J + N),
                      journal[i].operation = batch[j - J].operation, journal[i].task = batch[j - J].task
               PROVE  FALSE
    BY <1>4, <1>5
  <2> QED
    BY <1>3, <1>5 DEF Fresh, Untold, N
<1>8. PublishedOnce'
  <2> SUFFICES ASSUME NEW i \in 1..(J + N), NEW j \in 1..(J + N),
                      journal'[i].operation = journal'[j].operation, journal'[i].task = journal'[j].task
               PROVE  i = j
    BY <1>3 DEF PublishedOnce
  <2>1. CASE i \in 1..J /\ j \in 1..J
    BY <2>1, <1>3, <1>4 DEF PublicationInv, PublishedOnce
  <2>2. CASE i \in (J + 1)..(J + N) /\ j \in (J + 1)..(J + N)
    <3>1. i - J = j - J
      BY <2>2, <1>5, ZenonT(60) DEF Fresh, N
    <3> QED
      BY <3>1, <1>1 DEF J, N
  <2> QED
    BY <1>6, <1>7, <2>1, <2>2
<1>9. journal' \in Seq(Tellable')
  BY <1>2, TellableGrows, SeqMonotonic
<1>10. \A i \in DOMAIN journal : i \in DOMAIN journal' /\ journal'[i] = journal[i]
  BY <1>1, <1>3, <1>4 DEF J, N
<1>11. \A i \in 1..Len(batch) : \E j \in DOMAIN journal' : journal'[j] = batch[i]
  <2> SUFFICES ASSUME NEW i \in 1..N PROVE \E j \in 1..(J + N) : journal'[j] = batch[i]
    BY <1>3 DEF N
  <2>1. J + i \in (J + 1)..(J + N) /\ J + i \in 1..(J + N) /\ (J + i) - J = i
    BY <1>1 DEF J, N
  <2>2. journal'[J + i] = batch[i]
    BY <2>1, <1>5
  <2> QED
    BY <2>1, <2>2
<1>12. ASSUME NEW o, NEW t, o # op, Untold(o, t) PROVE Untold(o, t)'
  <2>1. \A i \in 1..J : ~ (journal'[i].operation = o /\ journal'[i].task = t)
    BY <1>3, <1>4, <1>12 DEF Untold
  <2>2. ASSUME NEW i \in (J + 1)..(J + N) PROVE journal'[i].operation = op
    <3>1. i - J \in 1..Len(batch) /\ journal'[i] = batch[i - J]
      BY <1>5 DEF N
    <3> QED
      BY <3>1 DEF Fresh
  <2> QED
    BY <1>3, <1>6, <1>12, <2>1, <2>2 DEF Untold
<1> QED
  BY <1>8, <1>9, <1>10, <1>11, <1>12

\* What another call tells stays true while the journal grows by what it does
\* not tell.
LEMMA OtherTells ==
  ASSUME AuthorityInv, PublicationInv, [Next]_vars, NEW op \in Operations, call'[op] = call[op],
         \A i \in DOMAIN journal : i \in DOMAIN journal' /\ journal'[i] = journal[i],
         \A t : Untold(op, t) => Untold(op, t)'
  PROVE  CallTells(op)'
<1>1. CallTells(op)
  BY DEF PublicationInv
<1>2. call[op].phase \in {"committed", "pending"} =>
        receipts'[op] = receipts[op]
  BY CommittedStays DEF AuthorityInv, BoundariesAgree
<1>3. \A event : HasPublication(event) => HasPublication(event)'
  BY DEF HasPublication
<1>4. \A tasks : EventsOf(op, tasks)' = EventsOf(op, tasks)
  BY DEF EventsOf, Event, Evidence, IsRevision, Card
<1> DEFINE c == call[op]
<1>5. \A t : Event(op, c.request, c.boundary, t)' = Event(op, c.request, c.boundary, t)
  BY DEF Event, Evidence, IsRevision, Card
<1>6. ASSUME c.phase = "pending"
      PROVE  \E tasks \in SUBSET Tasks :
               /\ c.events = EventsOf(op, tasks)'
               /\ \A t \in tasks : Untold(op, t)'
               /\ \A t \in Changed(c.boundary.before, c.boundary.after) :
                    Card(c.current, t) = Card(c.boundary.after, t) =>
                      t \in tasks \/ HasPublication(Event(op, c.request, c.boundary, t))'
  BY <1>1, <1>3, <1>4, <1>6 DEF CallTells
<1> QED
  BY <1>1, <1>2, <1>5, <1>6 DEF CallTells

\* A step that leaves the journal alone, and all calls but one.
LEMMA JournalStays ==
  ASSUME AuthorityInv, PublicationInv, [Next]_vars, NEW op \in Operations, UNCHANGED journal,
         \A o \in Operations : o # op => call'[o] = call[o],
         CallTells(op)'
  PROVE  PublicationInv'
<1>1. journal' \in Seq(Tellable')
  BY TellableGrows, SeqMonotonic DEF PublicationInv
<1>2. PublishedOnce'
  BY DEF PublicationInv, PublishedOnce
<1>3. \A o, t : Untold(o, t) => Untold(o, t)'
  BY DEF Untold
<1>4. \A o \in Operations : CallTells(o)'
  BY <1>3, OtherTells
<1> QED
  BY <1>1, <1>2, <1>4 DEF PublicationInv

\* Of an operation that is not committed the journal tells nothing.
LEMMA NothingOfUncommitted ==
  ASSUME PublicationInv, NEW op \in Operations, op \notin DOMAIN receipts
  PROVE  \A t : Untold(op, t)
<1> SUFFICES ASSUME NEW t, NEW i \in DOMAIN journal, journal[i].operation = op
             PROVE  FALSE
  BY DEF Untold
<1>1. journal[i] \in Tellable
  BY ElementOfSeq, LenProperties DEF PublicationInv
<1> QED
  BY <1>1, EventOfOperation

\* A call that ended has nothing to tell.
LEMMA EndTells ==
  ASSUME NEW op, call'[op].phase = "ended"
  PROVE  CallTells(op)'
  BY DEF CallTells

LEMMA CommandTells ==
  ASSUME AuthorityInv, PublicationInv, NEW op \in Operations, NEW request \in Requests,
         Mutate(op, request) \/ WriteFails(op, request)
  PROVE  PublicationInv'
<1>1. [Next]_vars
  BY DEF Next
<1>2. DOMAIN call = Operations /\ TypeOK /\ Interval(op)
  BY DEF AuthorityInv, TypeOK
<1>3. UNCHANGED journal
  BY DEF Mutate, WriteFails
<1>4. ASSUME NEW outcome, Ends(op, request, outcome) PROVE PublicationInv'
  <2>1. call'[op].phase = "ended" /\ \A o \in Operations : o # op => call'[o] = call[o]
    BY <1>2, <1>4 DEF Ends
  <2> QED
    BY <2>1, <1>1, <1>3, EndTells, JournalStays
<1>5. CASE /\ op \in DOMAIN receipts /\ receipts[op] = request
           /\ call' = [call EXCEPT ![op] =
                [phase |-> "committed", request |-> request, replayed |-> TRUE,
                 boundary |-> Boundary(op), current |-> Current]]
           /\ UNCHANGED <<log, receipts>>
  <2>1. /\ call'[op].phase = "committed" /\ call'[op].replayed /\ call'[op].request = request
        /\ \A o \in Operations : o # op => call'[o] = call[o]
    BY <1>2, <1>5
  <2>2. CallTells(op)'
    BY <1>5, <2>1 DEF CallTells
  <2> QED
    BY <2>1, <2>2, <1>1, <1>3, JournalStays
<1>6. CASE op \notin DOMAIN receipts /\ Commits(op, request)
  <2>1. /\ call'[op].phase = "committed" /\ call'[op].request = request
        /\ call'[op].current = call'[op].boundary.after
        /\ \A o \in Operations : o # op => call'[o] = call[o]
    BY <1>2, <1>6 DEF Commits
  <2>2. receipts'[op] = request
    BY <1>2, <1>6, Growth DEF Commits
  <2>3. \A t : Untold(op, t)'
    BY <1>3, <1>6, NothingOfUncommitted DEF Untold
  <2>4. CallTells(op)'
    BY <2>1, <2>2, <2>3 DEF CallTells
  <2> QED
    BY <2>1, <2>4, <1>1, <1>3, JournalStays
<1> QED
  BY <1>4, <1>5, <1>6 DEF Mutate, WriteFails, Refuses

\* What a call finds pending is untold, and all that it must tell (needsReplayPublication).
LEMMA PrepareTells ==
  ASSUME AuthorityInv, PublicationInv, NEW op \in Operations, Prepare(op)
  PROVE  PublicationInv'
<1>1. [Next]_vars /\ UNCHANGED <<log, receipts, journal>> /\ DOMAIN call = Operations
  BY DEF Next, Prepare, AuthorityInv, TypeOK
<1> DEFINE c == call[op]
           event(t) == Event(op, c.request, c.boundary, t)
           tasks == {t \in Changed(c.boundary.before, c.boundary.after) :
                       c.replayed => /\ Card(c.current, t) = Card(c.boundary.after, t)
                                     /\ ~ HasPublication(event(t))}
<1>2. /\ call'[op].phase = "pending" /\ call'[op].request = c.request
      /\ call'[op].boundary = c.boundary /\ call'[op].current = c.current
      /\ call'[op].events = EventsOf(op, tasks)
      /\ \A o \in Operations : o # op => call'[o] = call[o]
  BY <1>1 DEF Prepare, Pending
<1>3. /\ c.phase = "committed" /\ CallTells(op)
      /\ op \in DOMAIN receipts /\ c.boundary = Boundary(op) /\ c.request = receipts[op]
  BY DEF Prepare, AuthorityInv, BoundariesAgree, PublicationInv, CallTells
<1>4. tasks \in SUBSET Tasks
  BY DEF Changed
<1>5. \A t : event(t) = Tells(op, t)
  BY <1>3 DEF Tells
<1>6. ASSUME NEW t \in tasks PROVE Untold(op, t)
  <2>1. CASE ~ c.replayed
    BY <1>3, <1>4, <2>1 DEF CallTells
  <2>2. CASE c.replayed
    <3> SUFFICES ASSUME NEW i \in DOMAIN journal, journal[i].operation = op, journal[i].task = t
                 PROVE  HasPublication(event(t))
      BY <2>2 DEF Untold
    <3>1. journal[i] \in Tellable
      BY ElementOfSeq, LenProperties DEF PublicationInv
    <3>2. journal[i] = event(t)
      BY <3>1, <1>5, EventOfOperation
    <3> QED
      BY <3>2 DEF HasPublication
  <2> QED
    BY <2>1, <2>2
<1>7. \A t \in Changed(c.boundary.before, c.boundary.after) :
        Card(c.current, t) = Card(c.boundary.after, t) => t \in tasks \/ HasPublication(event(t))
  OBVIOUS
<1>8. PICK told : told = tasks
  OBVIOUS
<1>9. \A t : Event(op, call'[op].request, call'[op].boundary, t) = event(t)
  BY <1>2
<1>10. EventsOf(op, told)' = EventsOf(op, told)
  <2>1. EventsOf(op, told) = (IF "A" \in told THEN <<event("A")>> ELSE << >>)
                               \o (IF "B" \in told THEN <<event("B")>> ELSE << >>)
    BY DEF EventsOf
  <2>2. EventsOf(op, told)' =
          (IF "A" \in told THEN <<Event(op, call'[op].request, call'[op].boundary, "A")>> ELSE << >>)
            \o (IF "B" \in told THEN <<Event(op, call'[op].request, call'[op].boundary, "B")>> ELSE << >>)
    BY DEF EventsOf
  <2> QED
    BY <2>1, <2>2, <1>9
<1>11. /\ \A t : Untold(op, t)' = Untold(op, t)
       /\ \A e : HasPublication(e)' = HasPublication(e)
  BY <1>1 DEF Untold, HasPublication
<1> HIDE DEF tasks, event
<1>12. CallTells(op)'
  <2>1. told \in SUBSET Tasks /\ call'[op].events = EventsOf(op, told)'
    BY <1>2, <1>4, <1>8, <1>10
  <2>2. \A t \in told : Untold(op, t)'
    BY <1>1, <1>6, <1>8, <1>11
  <2>3. \A t \in Changed(call'[op].boundary.before, call'[op].boundary.after) :
          Card(call'[op].current, t) = Card(call'[op].boundary.after, t) =>
            \/ t \in told
            \/ HasPublication(Event(op, call[op].request, call[op].boundary, t))'
    <3> SUFFICES ASSUME NEW t \in Changed(c.boundary.before, c.boundary.after),
                        Card(c.current, t) = Card(c.boundary.after, t), t \notin told
                 PROVE  HasPublication(Event(op, call[op].request, call[op].boundary, t))'
      BY <1>2
    <3>1. HasPublication(event(t))
      BY <1>7, <1>8
    <3>2. PICK e : e = event(t)
      OBVIOUS
    <3>3. HasPublication(e)'
      BY <3>1, <3>2, <1>11
    <3> QED
      BY <3>2, <3>3, <1>9
  <2>4. call'[op].request = receipts'[op]
    BY <1>1, <1>2, <1>3
  <2> QED
    BY <1>2, <2>1, <2>2, <2>3, <2>4 DEF CallTells
<1> QED
  BY <1>1, <1>2, <1>12, JournalStays

\* What a call has pending, and any first part of it, is fresh.
LEMMA PendingIsFresh ==
  ASSUME AuthorityInv, PublicationInv, NEW op \in Operations, call[op].phase = "pending"
  PROVE  /\ Fresh(op, call[op].events)
         /\ \A k \in 0..Len(call[op].events) : Fresh(op, SubSeq(call[op].events, 1, k))
<1> DEFINE events == call[op].events
<1>1. PICK tasks \in SUBSET Tasks : events = EventsOf(op, tasks) /\ \A t \in tasks : Untold(op, t)
  BY DEF PublicationInv, CallTells
<1>2. \A t \in tasks : Event(op, call[op].request, call[op].boundary, t) \in Tellable
  BY DEF AuthorityInv, BoundariesAgree, PublicationInv, CallTells, Tellable, Tells
<1>3. Fresh(op, events)
  <2>1. LET told == EventsOf(op, tasks) IN
        /\ told \in Seq(Tellable)
        /\ \A i \in 1..Len(told) : told[i].task \in tasks /\ told[i].operation = op
        /\ \A i, j \in 1..Len(told) : told[i].task = told[j].task => i = j
    BY <1>2, EventsOfTasks
  <2> HIDE DEF events
  <2> QED
    BY <2>1, <1>1 DEF Fresh
<1> HIDE DEF events
<1>4. ASSUME NEW k \in 0..Len(events) PROVE Fresh(op, SubSeq(events, 1, k))
  <2>1. /\ events \in Seq(Tellable) /\ Len(events) \in Nat
        /\ \A i \in 1..k : i \in 1..Len(events) /\ events[i] \in Tellable
    BY <1>3, ElementOfSeq, LenProperties DEF Fresh
  <2>2. /\ SubSeq(events, 1, k) \in Seq(Tellable) /\ Len(SubSeq(events, 1, k)) = k
        /\ \A i \in 1..k : SubSeq(events, 1, k)[i] = events[i]
    BY <2>1, SubSeqProperties
  <2> QED
    BY <2>1, <2>2, <1>3 DEF Fresh
<1> QED
  BY <1>3, <1>4 DEF events

LEMMA CallTellsOnEnd ==
  ASSUME AuthorityInv, PublicationInv, NEW op \in Operations,
         Publish(op) \/ PublishFails(op) \/ Crash(op)
  PROVE  PublicationInv'
<1>1. [Next]_vars /\ DOMAIN call = Operations
  BY DEF Next, AuthorityInv, TypeOK
<1>2. call'[op].phase = "ended" /\ \A o \in Operations : o # op => call'[o] = call[o]
  BY <1>1 DEF Publish, PublishFails, Crash, Answers, Ends
<1>3. CallTells(op)'
  BY <1>2, EndTells
<1>4. CASE UNCHANGED journal
  BY <1>1, <1>2, <1>3, <1>4, JournalStays
<1>5. ASSUME NEW batch, Fresh(op, batch), journal' = journal \o batch PROVE PublicationInv'
  <2>1. /\ journal' \in Seq(Tellable') /\ PublishedOnce'
        /\ \A i \in DOMAIN journal : i \in DOMAIN journal' /\ journal'[i] = journal[i]
        /\ \A o, t : o # op /\ Untold(o, t) => Untold(o, t)'
    BY <1>1, <1>5, AppendKeeps
  <2>2. \A o \in Operations : CallTells(o)'
    BY <2>1, <1>1, <1>2, <1>3, OtherTells
  <2> QED
    BY <2>1, <2>2 DEF PublicationInv
<1>6. CASE Publish(op)
  BY <1>5, <1>6, PendingIsFresh DEF Publish
<1>7. CASE Crash(op) /\ ~ UNCHANGED journal
  <2>1. PICK k \in 0..Len(call[op].events) :
          call[op].phase = "pending" /\ journal' = journal \o SubSeq(call[op].events, 1, k)
    BY <1>7 DEF Crash
  <2> QED
    BY <2>1, <1>5, PendingIsFresh
<1> QED
  BY <1>4, <1>6, <1>7 DEF PublishFails

LEMMA InitPublication == Init => PublicationInv
<1> SUFFICES ASSUME Init PROVE PublicationInv
  OBVIOUS
<1>1. \A op \in Operations : CallTells(op)
  BY DEF Init, CallTells, NoCall
<1>2. CASE journal = << >>
  BY <1>1, <1>2 DEF PublicationInv, PublishedOnce
<1>3. CASE journal = Told
  <2>1. /\ Told = <<Told[1], Told[2], Told[3], Told[4]>>
        /\ Told[1].task = "A" /\ Told[1].operation = "first"
        /\ Told[2].task = "B" /\ Told[2].operation = "first"
        /\ Told[3].task = "A" /\ Told[3].operation = "second"
        /\ Told[4].task = "A" /\ Told[4].operation = "third"
    BY DEF Told
  <2>2. DOMAIN Told = 1..4 /\ Told \in Seq({Told[i] : i \in DOMAIN Told})
    BY <2>1
  <2>3. journal \in Seq(Tellable)
    BY <1>3, <2>2, SeqMonotonic DEF Tellable
  <2>4. PublishedOnce
    BY <1>3, <2>1, <2>2 DEF PublishedOnce
  <2> QED
    BY <1>1, <2>3, <2>4 DEF PublicationInv
<1> QED
  BY <1>2, <1>3 DEF Init

LEMMA StepPublication == AuthorityInv /\ PublicationInv /\ [Next]_vars => PublicationInv'
<1> SUFFICES ASSUME AuthorityInv, PublicationInv, [Next]_vars PROVE PublicationInv'
  OBVIOUS
<1>1. CASE UNCHANGED vars
  <2>1. UNCHANGED <<journal, call>>
    BY <1>1 DEF vars
  <2>2. \A o, t : Untold(o, t) => Untold(o, t)'
    BY <2>1 DEF Untold
  <2>3. \A o \in Operations : CallTells(o)'
    BY <2>1, <2>2, OtherTells
  <2>4. journal' \in Seq(Tellable')
    BY <2>1, TellableGrows, SeqMonotonic DEF PublicationInv
  <2> QED
    BY <2>1, <2>3, <2>4 DEF PublicationInv, PublishedOnce
<1> QED
  BY <1>1, CommandTells, PrepareTells, CallTellsOnEnd DEF Next

THEOREM PublicationHolds == Spec => []PublicationInv
<1>1. AuthorityInv /\ AuthorityInv' /\ PublicationInv /\ [Next]_vars => PublicationInv'
  BY StepPublication
<1> QED
  BY <1>1, InitPublication, AuthorityHolds, PTL DEF Spec

\* No change is published twice, whatever fails, crashes and is replayed
\* (needsReplayPublication).
THEOREM PublishesOnce == Spec => []PublishedOnce
<1>1. PublicationInv => PublishedOnce
  BY DEF PublicationInv
<1> QED
  BY <1>1, PublicationHolds, PTL

\* An answer without a warning is told in full (applyGraph, transition).
THEOREM AnswersArePublished == Spec => AnsweredIsPublished
<1>1. AuthorityInv /\ PublicationInv /\ [Next]_vars =>
        [\A op \in Operations :
           LET c == call[op] IN
           c.phase = "pending" /\ call'[op].phase = "ended" /\ call'[op].outcome = "done" =>
             \A t \in Changed(c.boundary.before, c.boundary.after) :
               Card(c.current, t) = Card(c.boundary.after, t) =>
                 \E i \in DOMAIN journal' : Is(journal'[i], op, t, c.boundary)]_vars
  <2> SUFFICES ASSUME AuthorityInv, PublicationInv, [Next]_vars, NEW op \in Operations,
                      call[op].phase = "pending", call'[op].phase = "ended", call'[op].outcome = "done",
                      NEW t \in Changed(call[op].boundary.before, call[op].boundary.after),
                      Card(call[op].current, t) = Card(call[op].boundary.after, t)
               PROVE  \E i \in DOMAIN journal' : Is(journal'[i], op, t, call[op].boundary)
    BY Zenon
  <2>1. Publish(op)
    <3>1. DOMAIN call = Operations
      BY DEF AuthorityInv, TypeOK
    <3>2. ASSUME NEW o \in Operations, NEW next, o # op, call' = [call EXCEPT ![o] = next] PROVE FALSE
      BY <3>1, <3>2
    <3>3. ~ Asks(op)
      BY DEF Asks
    <3>4. ASSUME NEW o \in Operations, NEW request \in Requests, Mutate(o, request) \/ WriteFails(o, request)
          PROVE  FALSE
      BY <3>2, <3>3, <3>4 DEF Mutate, WriteFails, Refuses, Commits, Ends
    <3>5. ASSUME NEW o \in Operations, Prepare(o) PROVE FALSE
      BY <3>2, <3>5 DEF Prepare
    <3>6. ASSUME NEW o \in Operations, PublishFails(o) \/ Crash(o) PROVE FALSE
      <4>1. PICK outcome \in {"warned", "crashed"} : Ends(o, call[o].request, outcome)
        BY <3>6 DEF PublishFails, Crash, Answers
      <4> QED
        BY <4>1, <3>1, <3>2 DEF Ends
    <3>7. ASSUME NEW o \in Operations, Publish(o) PROVE o = op
      BY <3>2, <3>7 DEF Publish, Answers, Ends
    <3>8. ~ UNCHANGED vars
      BY DEF vars
    <3> QED
      BY <3>4, <3>5, <3>6, <3>7, <3>8 DEF Next
  <2> DEFINE event == Event(op, call[op].request, call[op].boundary, t)
  <2>2. PICK tasks \in SUBSET Tasks :
          /\ call[op].events = EventsOf(op, tasks)
          /\ t \in tasks \/ HasPublication(event)
    BY DEF PublicationInv, CallTells
  <2>3. Is(event, op, t, call[op].boundary)
    BY DEF Is, Event
  <2>4. /\ \A i \in DOMAIN journal : i \in DOMAIN journal' /\ journal'[i] = journal[i]
        /\ \A i \in 1..Len(call[op].events) : \E j \in DOMAIN journal' : journal'[j] = call[op].events[i]
    <3>1. Fresh(op, call[op].events)
      BY PendingIsFresh
    <3>2. journal' = journal \o call[op].events
      BY <2>1 DEF Publish
    <3>3. PICK batch : batch = call[op].events
      OBVIOUS
    <3>4. Fresh(op, batch) /\ journal' = journal \o batch
      BY <3>1, <3>2, <3>3
    <3>5. /\ \A i \in DOMAIN journal : i \in DOMAIN journal' /\ journal'[i] = journal[i]
          /\ \A i \in 1..Len(batch) : \E j \in DOMAIN journal' : journal'[j] = batch[i]
      BY <3>4, AppendKeeps, SMTT(60)
    <3> QED
      BY <3>3, <3>5
  <2>5. CASE HasPublication(event)
    BY <2>3, <2>4, <2>5 DEF HasPublication, Is
  <2>6. CASE t \in tasks
    <3>1. \A s \in tasks : Event(op, call[op].request, call[op].boundary, s) \in Tellable
      BY DEF AuthorityInv, BoundariesAgree, PublicationInv, CallTells, Tellable, Tells
    <3>2. LET events == EventsOf(op, tasks) IN
          /\ events \in Seq(Tellable)
          /\ \A i \in 1..Len(events) : events[i].task \in tasks /\ events[i].operation = op
          /\ \A i, j \in 1..Len(events) : events[i].task = events[j].task => i = j
          /\ \A s \in tasks : \E i \in 1..Len(events) :
               events[i] = Event(op, call[op].request, call[op].boundary, s)
      BY <3>1, EventsOfTasks, SMTT(60)
    <3>3. \E i \in 1..Len(call[op].events) : call[op].events[i] = event
      BY <2>2, <2>6, <3>2
    <3> QED
      BY <2>3, <2>4, <3>3
  <2> QED
    BY <2>2, <2>5, <2>6
<1> QED
  BY <1>1, AuthorityHolds, PublicationHolds, PTL DEF Spec, AnsweredIsPublished
=============================================================================
