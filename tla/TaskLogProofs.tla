--------------------------- MODULE TaskLogProofs ---------------------------
(***************************************************************************)
(* What is proved of TaskLog and TaskView: that the commands are those of  *)
(* TaskGraph, that what is written is read back, and that it can be shown  *)
(* with its times.                                                         *)
(***************************************************************************)
EXTENDS TaskView, TLAPS, SequenceTheorems, FiniteSetTheorems, FunctionTheorems, WellFoundedInduction

-----------------------------------------------------------------------------
(* Sequences of records that have no type in common                        *)

IsSequence(l) == \E S : l \in Seq(S)

LEMMA SequenceIs ==
  ASSUME NEW l, IsSequence(l)
  PROVE  Len(l) \in Nat /\ DOMAIN l = 1..Len(l) /\ IsFiniteSet(DOMAIN l)
<1>1. PICK S : l \in Seq(S)
  BY DEF IsSequence
<1>2. Len(l) \in Nat /\ DOMAIN l = 1..Len(l)
  BY <1>1
<1> QED
  BY <1>2, FS_Interval

LEMMA SequenceOfMore ==
  ASSUME NEW S, NEW l \in Seq(S), NEW T, S \subseteq T
  PROVE  l \in Seq(T)
  OBVIOUS

LEMMA Joined ==
  ASSUME NEW a, NEW b, IsSequence(a), IsSequence(b)
  PROVE  /\ IsSequence(a \o b)
         /\ Len(a \o b) = Len(a) + Len(b)
         /\ \A i \in 1..Len(a) : (a \o b)[i] = a[i]
         /\ \A i \in 1..Len(b) : (a \o b)[Len(a) + i] = b[i]
         /\ \A i \in 1..(Len(a) + Len(b)) : i \notin 1..Len(a) =>
              i - Len(a) \in 1..Len(b) /\ (a \o b)[i] = b[i - Len(a)]
<1>1. PICK S : a \in Seq(S)
  BY DEF IsSequence
<1>2. PICK T : b \in Seq(T)
  BY DEF IsSequence
<1>3. a \in Seq(S \cup T) /\ b \in Seq(S \cup T)
  BY <1>1, <1>2, SequenceOfMore, Zenon
<1>4. a \o b \in Seq(S \cup T) /\ Len(a \o b) = Len(a) + Len(b)
  BY <1>3, ConcatProperties
<1>5. Len(a) \in Nat /\ Len(b) \in Nat
  BY <1>1, <1>2
<1>6. \A i \in 1..(Len(a) + Len(b)) :
        (a \o b)[i] = IF i <= Len(a) THEN a[i] ELSE b[i - Len(a)]
  BY <1>3, ConcatProperties
<1> QED
  BY <1>4, <1>5, <1>6 DEF IsSequence

LEMMA OneRecord ==
  ASSUME NEW e
  PROVE  IsSequence(<<e>>) /\ Len(<<e>>) = 1 /\ <<e>>[1] = e
<1>1. <<e>> \in Seq({e})
  OBVIOUS
<1> QED
  BY <1>1 DEF IsSequence

LEMMA NoRecord == IsSequence(<< >>) /\ Len(<< >>) = 0 /\ DOMAIN << >> = {}
<1>1. << >> \in Seq({})
  OBVIOUS
<1> QED
  BY <1>1 DEF IsSequence

LEMMA JoinedTwice ==
  ASSUME NEW a, NEW b, NEW c, IsSequence(a), IsSequence(b), IsSequence(c)
  PROVE  a \o (b \o c) = (a \o b) \o c
<1>1. PICK S : a \in Seq(S)
  BY DEF IsSequence
<1>2. PICK T : b \in Seq(T)
  BY DEF IsSequence
<1>3. PICK U : c \in Seq(U)
  BY DEF IsSequence
<1>4. a \in Seq(S \cup T \cup U) /\ b \in Seq(S \cup T \cup U) /\ c \in Seq(S \cup T \cup U)
  BY <1>1, <1>2, <1>3, SequenceOfMore, Zenon
<1> QED
  BY <1>4, ConcatAssociative

LEMMA JoinedToNone ==
  ASSUME NEW a, IsSequence(a)
  PROVE  a \o << >> = a /\ << >> \o a = a
<1>1. PICK S : a \in Seq(S)
  BY DEF IsSequence
<1> QED
  BY <1>1, ConcatEmptySeq


-----------------------------------------------------------------------------
(* Finite sets with an order                                               *)

\* The places of the elements of a finite set in their order are all taken.
LEMMA Ranked ==
  ASSUME NEW S, IsFiniteSet(S), NEW key \in [S -> Nat],
         \A a, b \in S : key[a] = key[b] => a = b,
         NEW before, \A a \in S : before[a] = {b \in S : key[b] <= key[a]}
  PROVE  /\ Cardinality(S) \in Nat
         /\ \A i \in 1..Cardinality(S) : \E a \in S : Cardinality(before[a]) = i
         /\ \A a \in S : Cardinality(before[a]) \in 1..Cardinality(S)
<1> DEFINE upTo(a) == before[a]
           rank == [a \in S |-> Cardinality(upTo(a))]
<1>1. Cardinality(S) \in Nat
  BY FS_CardinalityType
<1>2. ASSUME NEW a \in S
      PROVE  IsFiniteSet(upTo(a)) /\ Cardinality(upTo(a)) \in 1..Cardinality(S)
  <2>1. upTo(a) \in SUBSET S /\ a \in upTo(a)
    OBVIOUS
  <2> HIDE DEF upTo
  <2>2. IsFiniteSet(upTo(a)) /\ Cardinality(upTo(a)) <= Cardinality(S)
    BY <2>1, FS_Subset
  <2>3. Cardinality(upTo(a)) \in Nat /\ Cardinality(upTo(a)) # 0
    BY <2>1, <2>2, FS_CardinalityType, FS_EmptySet
  <2> QED
    BY <1>1, <2>2, <2>3
<1>3. ASSUME NEW a \in S, NEW b \in S, key[a] < key[b]
      PROVE  rank[a] < rank[b]
  <2>1. upTo(a) \in SUBSET upTo(b) /\ b \in upTo(b) /\ b \notin upTo(a)
    BY <1>3
  <2> HIDE DEF upTo
  <2>2. Cardinality(upTo(a)) <= Cardinality(upTo(b)) /\ Cardinality(upTo(a)) # Cardinality(upTo(b))
    BY <2>1, <1>2, FS_Subset
  <2>3. Cardinality(upTo(a)) \in Nat /\ Cardinality(upTo(b)) \in Nat
    BY <1>2
  <2> QED
    BY <2>2, <2>3
<1> HIDE DEF upTo
<1>4. rank \in Injection(S, 1..Cardinality(S))
  <2>1. rank \in [S -> 1..Cardinality(S)]
    BY <1>2
  <2>2. ASSUME NEW a \in S, NEW b \in S, rank[a] = rank[b] PROVE a = b
    <3>1. rank[a] \in Nat /\ rank[b] \in Nat /\ key[a] \in Nat /\ key[b] \in Nat
      BY <1>1, <2>1
    <3> HIDE DEF rank
    <3>2. ~(key[a] < key[b]) /\ ~(key[b] < key[a])
      BY <1>3, <2>2, <3>1
    <3> QED
      BY <3>1, <3>2
  <2> HIDE DEF rank
  <2> QED
    BY <2>1, <2>2 DEF Injection, IsInjective
<1>5. rank \in Surjection(S, 1..Cardinality(S))
  <2> HIDE DEF rank
  <2>1. IsFiniteSet(1..Cardinality(S)) /\ Cardinality(1..Cardinality(S)) = Cardinality(S)
    BY <1>1, FS_Interval
  <2> QED
    BY <1>4, <2>1, FS_Injection
<1>6. \A i \in 1..Cardinality(S) : \E a \in S : rank[a] = i
  BY <1>5 DEF Surjection
<1> QED
  BY <1>1, <1>2, <1>6 DEF upTo

LEMMA LatestIs ==
  ASSUME NEW S \in SUBSET Nat, IsFiniteSet(S), 0 \notin S
  PROVE  /\ S = {} => Latest(S) = 0
         /\ S # {} => Latest(S) \in S
         /\ Latest(S) \in Nat
         /\ \A y \in S : y <= Latest(S)
         /\ \A x \in S : (\A y \in S : y <= x) => Latest(S) = x
<1>1. CASE S = {}
  BY <1>1 DEF Latest
<1>2. CASE S # {}
  <2> DEFINE key == [a \in S |-> a]
             before == [a \in S |-> {b \in S : key[b] <= key[a]}]
  <2>1. key \in [S -> Nat] /\ \A a, b \in S : key[a] = key[b] => a = b
    OBVIOUS
  <2>2. Cardinality(S) \in Nat /\ Cardinality(S) # 0
    BY <1>2, FS_CardinalityType, FS_EmptySet
  <2>3. Cardinality(S) \in 1..Cardinality(S)
    BY <2>2
  <2>a. \A a \in S : before[a] = {b \in S : key[b] <= key[a]}
    OBVIOUS
  <2>b. \A a \in S : before[a] \in SUBSET S /\ \A b \in before[a] : b <= a
    OBVIOUS
  <2> HIDE DEF key, before
  <2>4. PICK x \in S : Cardinality(before[x]) = Cardinality(S)
    <3>1. /\ Cardinality(S) \in Nat
          /\ \A i \in 1..Cardinality(S) : \E a \in S : Cardinality(before[a]) = i
          /\ \A a \in S : Cardinality(before[a]) \in 1..Cardinality(S)
      BY <2>1, <2>a, Ranked
    <3> QED
      BY <2>3, <3>1
  <2>5. before[x] = S
    BY <2>4, <2>b, FS_Subset
  <2>6. \A y \in S : x >= y
    BY <2>5, <2>b
  <2>7. Max(S) \in S /\ \A y \in S : Max(S) >= y
    BY <2>6, Zenon DEF Max
  <2>8. Latest(S) \in S /\ \A y \in S : y <= Latest(S)
    <3> DEFINE m == Max(S)
    <3>1. m \in S /\ (\A y \in S : m >= y) /\ Latest(S) = m
      BY <1>2, <2>7 DEF Latest
    <3> HIDE DEF m
    <3> QED
      BY <3>1
  <2>9. ASSUME NEW y \in S, \A z \in S : z <= y PROVE Latest(S) = y
    <3>1. PICK m : m = Latest(S)
      OBVIOUS
    <3>2. m \in S /\ m <= y /\ y <= m
      BY <2>8, <2>9, <3>1
    <3> QED
      BY <3>1, <3>2
  <2> QED
    BY <1>2, <2>8, <2>9
<1> QED
  BY <1>1, <1>2

\* InOrder lists the Attempts of a set that has one of each Task.
LEMMA InOrderLists ==
  ASSUME NEW S, IsFiniteSet(S), \A a \in S : a[1] \in Nat,
         \A a, b \in S : a[1] = b[1] => a = b
  PROVE  /\ Cardinality(S) \in Nat
         /\ DOMAIN InOrder(S) = 1..Cardinality(S)
         /\ \A i \in 1..Cardinality(S) : InOrder(S)[i] \in S
         /\ \A a \in S : \E i \in 1..Cardinality(S) : InOrder(S)[i] = a
         /\ \A i, j \in 1..Cardinality(S) : InOrder(S)[i] = InOrder(S)[j] => i = j
<1> DEFINE key == [a \in S |-> a[1]]
           n == Cardinality(S)
           upTo(a) == {b \in S : b[1] <= a[1]}
           before == [a \in S |-> upTo(a)]
<1>1. key \in [S -> Nat] /\ \A a, b \in S : key[a] = key[b] => a = b
  OBVIOUS
<1>2. \A a \in S : before[a] = {b \in S : key[b] <= key[a]} /\ before[a] = upTo(a)
  OBVIOUS
<1>3. /\ n \in Nat
      /\ \A i \in 1..n : \E a \in S : Cardinality(upTo(a)) = i
      /\ \A a \in S : Cardinality(upTo(a)) \in 1..n
  <2> HIDE DEF key, before, upTo
  <2>1. /\ Cardinality(S) \in Nat
        /\ \A i \in 1..Cardinality(S) : \E a \in S : Cardinality(before[a]) = i
        /\ \A a \in S : Cardinality(before[a]) \in 1..Cardinality(S)
    BY <1>1, <1>2, Ranked
  <2> QED
    BY <1>2, <2>1, Zenon
<1>4. DOMAIN InOrder(S) = 1..n
  BY DEF InOrder
<1>5. \A i \in 1..n : InOrder(S)[i] = CHOOSE a \in S : Cardinality(upTo(a)) = i
  BY DEF InOrder
<1> HIDE DEF n
<1>6. ASSUME NEW i \in 1..n
      PROVE  InOrder(S)[i] \in S /\ Cardinality(upTo(InOrder(S)[i])) = i
  <2> HIDE DEF upTo
  <2>1. \E a \in S : Cardinality(upTo(a)) = i
    BY <1>3
  <2>2. InOrder(S)[i] = CHOOSE a \in S : Cardinality(upTo(a)) = i
    BY <1>5
  <2> QED
    BY <2>1, <2>2, Zenon
<1>7. ASSUME NEW a \in S, NEW b \in S, Cardinality(upTo(a)) = Cardinality(upTo(b))
      PROVE  a = b
  <2> SUFFICES ASSUME NEW c \in S, NEW d \in S, c[1] < d[1]
               PROVE  Cardinality(upTo(c)) # Cardinality(upTo(d))
    BY <1>7
  <2>1. upTo(c) \in SUBSET upTo(d) /\ d \in upTo(d) /\ d \notin upTo(c) /\ upTo(d) \in SUBSET S
    OBVIOUS
  <2> HIDE DEF upTo
  <2> QED
    BY <2>1, FS_Subset
<1>8. ASSUME NEW a \in S PROVE \E i \in 1..n : InOrder(S)[i] = a
  <2> HIDE DEF upTo
  <2>1. PICK i \in 1..n : Cardinality(upTo(a)) = i
    BY <1>3
  <2>2. InOrder(S)[i] = a
    BY <2>1, <1>6, <1>7
  <2> QED
    BY <2>2
<1>9. ASSUME NEW i \in 1..n, NEW j \in 1..n, InOrder(S)[i] = InOrder(S)[j] PROVE i = j
  <2> HIDE DEF upTo
  <2>1. Cardinality(upTo(InOrder(S)[i])) = i /\ Cardinality(upTo(InOrder(S)[j])) = j
    BY <1>6
  <2> QED
    BY <1>9, <2>1
<1> QED
  BY <1>3, <1>4, <1>6, <1>8, <1>9 DEF n


-----------------------------------------------------------------------------
(* Logs that go on                                                         *)

Prefix(l, m) ==
  /\ IsSequence(l) /\ IsSequence(m)
  /\ Len(l) <= Len(m)
  /\ \A i \in 1..Len(l) : m[i] = l[i]

LEMMA JoinedGoesOn ==
  ASSUME NEW l, NEW s, IsSequence(l), IsSequence(s)
  PROVE  Prefix(l, l \o s)
<1>1. Len(l) \in Nat /\ Len(s) \in Nat
  BY SequenceIs
<1> QED
  BY <1>1, Joined DEF Prefix

LEMMA OfIs ==
  ASSUME NEW l, IsSequence(l), NEW kinds
  PROVE  /\ Of(l, kinds) \in SUBSET Nat /\ IsFiniteSet(Of(l, kinds)) /\ 0 \notin Of(l, kinds)
         /\ \A i : i \in Of(l, kinds) <=> i \in 1..Len(l) /\ l[i].kind \in kinds
<1>1. Len(l) \in Nat /\ DOMAIN l = 1..Len(l) /\ IsFiniteSet(DOMAIN l)
  BY SequenceIs
<1>2. Of(l, kinds) \in SUBSET DOMAIN l /\ \A i : i \in Of(l, kinds) <=> i \in 1..Len(l) /\ l[i].kind \in kinds
  BY <1>1 DEF Of
<1>3. IsFiniteSet(Of(l, kinds))
  BY <1>1, <1>2, FS_Subset
<1> QED
  BY <1>1, <1>2, <1>3

\* Every set of places of a log is finite, and Latest is its last.
LEMMA PlacesAre ==
  ASSUME NEW l, IsSequence(l), NEW kinds, NEW S \in SUBSET Of(l, kinds)
  PROVE  /\ S \in SUBSET Nat /\ IsFiniteSet(S) /\ 0 \notin S
         /\ Latest(S) \in Nat /\ (Latest(S) # 0 <=> S # {}) /\ (S # {} => Latest(S) \in S)
         /\ \A y \in S : y <= Latest(S)
         /\ \A x \in S : (\A y \in S : y <= x) => Latest(S) = x
<1>1. Of(l, kinds) \in SUBSET Nat /\ IsFiniteSet(Of(l, kinds)) /\ 0 \notin Of(l, kinds)
  BY OfIs
<1>2. S \in SUBSET Nat /\ IsFiniteSet(S) /\ 0 \notin S
  BY <1>1, FS_Subset
<1>3. /\ S = {} => Latest(S) = 0
      /\ S # {} => Latest(S) \in S
      /\ Latest(S) \in Nat
      /\ \A y \in S : y <= Latest(S)
      /\ \A x \in S : (\A y \in S : y <= x) => Latest(S) = x
  BY <1>2, LatestIs
<1> QED
  BY <1>2, <1>3

LEMMA LastOfPlaces ==
  ASSUME NEW l, IsSequence(l), NEW kinds, NEW S \in SUBSET Of(l, kinds)
  PROVE  (Latest(S) # 0 <=> S # {}) /\ (S # {} => Latest(S) \in S)
  BY PlacesAre

LEMMA IsLastOfPlaces ==
  ASSUME NEW l, IsSequence(l), NEW kinds, NEW S \in SUBSET Of(l, kinds),
         NEW x \in S, \A y \in S : y <= x
  PROVE  Latest(S) = x
  BY PlacesAre

\* What was before a place stays before it.
LEMMA BeforeStays ==
  ASSUME NEW l, NEW m, Prefix(l, m), NEW i \in 1..(Len(l) + 1)
  PROVE  /\ RevisionBefore(m, i) = RevisionBefore(l, i)
         /\ \A kind, a : Earlier(m, i, kind, a) = Earlier(l, i, kind, a)
         /\ \A t, x : TraversalsBefore(m, i, t, x) = TraversalsBefore(l, i, t, x)
         /\ \A kinds : {j \in Of(m, kinds) : j < i} = {j \in Of(l, kinds) : j < i}
<1>1. Len(l) \in Nat /\ Len(m) \in Nat /\ IsSequence(l) /\ IsSequence(m)
  BY SequenceIs DEF Prefix
<1>2. ASSUME NEW kinds, NEW j, j < i
      PROVE  (j \in Of(m, kinds) <=> j \in Of(l, kinds)) /\ (j \in Of(l, kinds) => m[j] = l[j])
  <2>1. j \in 1..Len(l) \/ j \notin 1..Len(m)
    BY <1>1, <1>2
  <2>2. 1..Len(l) \subseteq 1..Len(m)
    BY <1>1 DEF Prefix
  <2>3. j \in 1..Len(l) => m[j] = l[j]
    BY DEF Prefix
  <2> QED
    BY <1>1, <2>1, <2>2, <2>3, OfIs
<1>3. ASSUME NEW kinds PROVE {j \in Of(m, kinds) : j < i} = {j \in Of(l, kinds) : j < i}
  BY <1>2
<1>4. RevisionBefore(m, i) = RevisionBefore(l, i)
  BY <1>3 DEF RevisionBefore
<1>5. ASSUME NEW kind, NEW a PROVE Earlier(m, i, kind, a) = Earlier(l, i, kind, a)
  BY <1>2 DEF Earlier
<1>6. ASSUME NEW t, NEW x PROVE TraversalsBefore(m, i, t, x) = TraversalsBefore(l, i, t, x)
  <2>1. {j \in Of(m, {"failure_edge_traversed"}) : j < i /\ m[j].source[1] = t /\ m[j].lineage = x}
          = {j \in Of(l, {"failure_edge_traversed"}) : j < i /\ l[j].source[1] = t /\ l[j].lineage = x}
    BY <1>2
  <2> QED
    BY <2>1 DEF TraversalsBefore
<1> QED
  BY <1>3, <1>4, <1>5, <1>6

LEMMA NumberStays ==
  ASSUME NEW l, NEW m, Prefix(l, m), NEW i \in 1..Len(l)
  PROVE  Number(m, i) = Number(l, i)
<1>1. Len(l) \in Nat /\ i \in Nat /\ i + 1 \in 1..(Len(l) + 1)
  BY SequenceIs DEF Prefix
<1>2. IsSequence(l) /\ IsSequence(m)
  BY DEF Prefix
<1>3. \A kinds : Of(l, kinds) \in SUBSET Nat /\ Of(m, kinds) \in SUBSET Nat
  BY <1>2, OfIs
<1>4. {j \in Of(m, {"graph_revision"}) : j < i + 1} = {j \in Of(l, {"graph_revision"}) : j < i + 1}
  BY <1>1, BeforeStays
<1>5. \A j \in Nat : j <= i <=> j < i + 1
  BY <1>1
<1>6. {j \in Of(m, {"graph_revision"}) : j <= i} = {j \in Of(l, {"graph_revision"}) : j <= i}
  BY <1>3, <1>4, <1>5
<1> QED
  BY <1>6 DEF Number


-----------------------------------------------------------------------------
(* What every log is like that the commands leave                          *)

Revisions(l) == Of(l, {"graph_revision"})

AttemptKinds == {"attempt_blocked", "attempt_resumed", "attempt_completed", "attempt_superseded"}

FailureKinds == {"failure_edge_traversed", "failure_edge_exhausted"}

LineageKinds == {"attempt_started", "task_cancelled", "task_context_updated"} \cup FailureKinds

Kinds == {"graph_revision"} \cup AttemptKinds \cup LineageKinds

RecordIsTyped(l, i) ==
  /\ l[i].kind \in Kinds
  /\ l[i].kind = "graph_revision" =>
       Derived!IsGraph(l[i].graph) /\ \A t \in DOMAIN l[i].graph : l[i].lineage[t] \in Revisions(l)
  /\ l[i].kind = "attempt_started" => l[i].attempt \in Tasks \X Nat
  /\ l[i].kind = "attempt_completed" => l[i].outcome \in {"goal_achieved", "goal_failed"}
  /\ l[i].kind = "task_cancelled" /\ l[i].attempt # << >> =>
       Earlier(l, i, "attempt_started", l[i].attempt) # {}
  /\ l[i].kind \in LineageKinds => l[i].lineage \in Revisions(l)
  /\ l[i].kind = "failure_edge_traversed" => l[i].targetLineage \in Revisions(l)

RecordIsValid(l, i) ==
  IF l[i].kind = "graph_revision" THEN RevisionIsValid(l, i) ELSE EventFits(l, i)

\* The Attempts of a Task are numbered in the order of their starts, and every
\* record is one that recover() accepts.
LogFits(l) ==
  /\ IsSequence(l)
  /\ \A i \in 1..Len(l) : RecordIsTyped(l, i) /\ RecordIsValid(l, i)
  /\ \A t \in Tasks : Ordinals(l, t) = 1..Cardinality(Starts(l, t))

LEMMA RevisionBeforeIs ==
  ASSUME NEW l, IsSequence(l), NEW i \in Nat
  PROVE  /\ RevisionBefore(l, i) # 0 => RevisionBefore(l, i) \in Revisions(l) /\ RevisionBefore(l, i) < i
         /\ RevisionBefore(l, i) = 0 => GraphOf(l, RevisionBefore(l, i)) = << >>
         /\ RevisionBefore(l, i) # 0 => GraphOf(l, RevisionBefore(l, i)) = l[RevisionBefore(l, i)].graph
         /\ RevisionBefore(l, i) \in Nat
         /\ \A j \in Revisions(l) : j < i => j <= RevisionBefore(l, i)
<1> DEFINE S == {j \in Revisions(l) : j < i}
<1>1. S \in SUBSET Of(l, {"graph_revision"}) /\ RevisionBefore(l, i) = Latest(S)
  BY DEF Revisions, RevisionBefore
<1>2. /\ Latest(S) \in Nat /\ (Latest(S) # 0 <=> S # {}) /\ (S # {} => Latest(S) \in S)
      /\ \A y \in S : y <= Latest(S)
  <2> HIDE DEF S
  <2> QED
    BY <1>1, PlacesAre
<1> QED
  BY <1>1, <1>2 DEF GraphOf

LEMMA RecordStays ==
  ASSUME NEW l, NEW m, Prefix(l, m), NEW i \in 1..Len(l),
         RecordIsTyped(l, i), RecordIsValid(l, i)
  PROVE  RecordIsTyped(m, i) /\ RecordIsValid(m, i)
<1>1. /\ IsSequence(l) /\ IsSequence(m) /\ Len(l) \in Nat /\ Len(m) \in Nat /\ Len(l) <= Len(m)
      /\ m[i] = l[i] /\ i \in 1..(Len(l) + 1) /\ i \in Nat
      /\ 1..Len(l) \subseteq 1..Len(m) /\ \A j \in 1..Len(l) : m[j] = l[j]
  BY SequenceIs DEF Prefix
<1>2. Revisions(l) \subseteq Revisions(m)
  BY <1>1, OfIs DEF Revisions
<1>3. RecordIsTyped(m, i)
  <2>1. \A kind, a : Earlier(m, i, kind, a) = Earlier(l, i, kind, a)
    BY <1>1, BeforeStays
  <2> QED
    BY <1>1, <1>2, <2>1 DEF RecordIsTyped
<1> DEFINE r == RevisionBefore(l, i)
<1>4. RevisionBefore(m, i) = r
  BY BeforeStays
<1>5. GraphOf(m, r) = GraphOf(l, r) /\ (r # 0 => m[r] = l[r])
  <2>1. r # 0 => r \in 1..Len(l)
    BY <1>1, RevisionBeforeIs, OfIs DEF Revisions
  <2> QED
    BY <1>1, <2>1 DEF GraphOf
<1>6. r = 0 => DOMAIN GraphOf(l, r) = {}
  BY <1>1, RevisionBeforeIs, NoRecord
<1> HIDE DEF r
<1>7. CASE l[i].kind = "graph_revision"
  <2>1. RevisionIsValid(l, i)
    BY <1>7 DEF RecordIsValid
  <2>2. RevisionIsValid(m, i)
    BY <2>1, <1>1, <1>4, <1>5, <1>6 DEF RevisionIsValid, r
  <2> QED
    BY <1>1, <1>3, <1>7, <2>2 DEF RecordIsValid
<1>8. CASE l[i].kind # "graph_revision"
  <2>1. EventFits(l, i) /\ r # 0
    BY <1>8 DEF RecordIsValid, EventFits, r
  <2>2. m[r] = l[r] /\ GraphOf(m, r) = GraphOf(l, r)
    BY <1>5, <2>1
  <2>3. \A t : IsOfLineage(m, i, t) <=> IsOfLineage(l, i, t)
    BY <1>1, <1>4, <2>2 DEF IsOfLineage, r
  <2>4. \A kind, a : Earlier(m, i, kind, a) = Earlier(l, i, kind, a)
    BY <1>1, BeforeStays
  <2>5. \A t, x : TraversalsBefore(m, i, t, x) = TraversalsBefore(l, i, t, x)
    BY <1>1, BeforeStays
  <2>6. \A kinds : {j \in Of(m, kinds) : j < i} = {j \in Of(l, kinds) : j < i}
    BY <1>1, BeforeStays
  <2>7. \A kinds : \A j \in Of(l, kinds) : m[j] = l[j]
    BY <1>1, OfIs
  <2>8. StartIsValid(l, i) => StartIsValid(m, i)
    <3>1. {j \in Of(m, {"attempt_started"}) : j < i /\ m[j].attempt[1] = l[i].attempt[1]}
            = {j \in Of(l, {"attempt_started"}) : j < i /\ l[j].attempt[1] = l[i].attempt[1]}
      BY <2>6, <2>7
    <3> QED
      BY <3>1, <2>3, <2>2, <1>1, <1>4 DEF StartIsValid, r
  <2>9. AttemptEventIsValid(l, i) => AttemptEventIsValid(m, i)
    BY <1>1, <2>4 DEF AttemptEventIsValid
  <2>10. FailureEventIsValid(l, i) => FailureEventIsValid(m, i)
    <3> SUFFICES ASSUME FailureEventIsValid(l, i) PROVE FailureEventIsValid(m, i)
      OBVIOUS
    <3>a. PICK e, prior : e = l[i] /\ prior = TraversalsBefore(l, i, e.source[1], e.lineage)
      OBVIOUS
    <3>b. IsOfLineage(l, i, e.source[1]) /\ e.target = l[r].graph[e.source[1]].target
      BY <3>a DEF FailureEventIsValid, r
    <3>c. \E j \in Earlier(l, i, "attempt_completed", e.source) : l[j].outcome = "goal_failed"
      BY <3>a DEF FailureEventIsValid
    <3>d. \A j \in Of(l, FailureKinds) : j < i => l[j].source # e.source
      BY <3>a DEF FailureEventIsValid, FailureKinds
    <3>e. IF e.kind = "failure_edge_traversed"
          THEN /\ e.targetLineage = l[r].lineage[e.target]
               /\ e.traversal = prior + 1
               /\ e.traversal <= l[r].graph[e.source[1]].limit
          ELSE e.traversals = prior
      BY <3>a DEF FailureEventIsValid, r
    <3>1. \A a : \A j \in Earlier(l, i, "attempt_completed", a) : m[j] = l[j]
      BY <2>7 DEF Earlier
    <3>2. \A j \in Of(m, FailureKinds) : j < i => j \in Of(l, FailureKinds) /\ m[j] = l[j]
      BY <2>6, <2>7
    <3>3. m[i] = e /\ TraversalsBefore(m, i, e.source[1], e.lineage) = prior
      BY <1>1, <2>5, <3>a
    <3>4. IsOfLineage(m, i, e.source[1])
      BY <2>3, <3>b
    <3>5. \E j \in Earlier(m, i, "attempt_completed", e.source) : m[j].outcome = "goal_failed"
      BY <2>4, <3>1, <3>c
    <3>6. \A j \in Of(m, FailureKinds) : j < i => m[j].source # e.source
      BY <3>2, <3>d
    <3>7. e.target = m[r].graph[e.source[1]].target
      BY <2>2, <3>b
    <3>8. IF e.kind = "failure_edge_traversed"
          THEN /\ e.targetLineage = m[r].lineage[e.target]
               /\ e.traversal = prior + 1
               /\ e.traversal <= m[r].graph[e.source[1]].limit
          ELSE e.traversals = prior
      BY <2>2, <3>e
    <3>9. RevisionBefore(m, i) = r
      BY <1>4
    <3> QED
      BY <3>3, <3>4, <3>5, <3>6, <3>7, <3>8, <3>9 DEF FailureEventIsValid, FailureKinds
  <2>11. EventFits(m, i)
    BY <2>1, <2>3, <2>8, <2>9, <2>10, <1>1, <1>4 DEF EventFits, r
  <2> QED
    BY <1>1, <1>3, <1>8, <2>11 DEF RecordIsValid
<1> QED
  BY <1>7, <1>8


-----------------------------------------------------------------------------
(* What is read off a log that goes on                                     *)

\* None of the new records is of these kinds.
NoneNew(l, m, kinds) == \A i \in (Len(l) + 1)..Len(m) : m[i].kind \notin kinds

LEMMA OfStays ==
  ASSUME NEW l, NEW m, Prefix(l, m), NEW kinds, NoneNew(l, m, kinds)
  PROVE  Of(m, kinds) = Of(l, kinds) /\ \A i \in Of(l, kinds) : m[i] = l[i]
<1>1. IsSequence(l) /\ IsSequence(m) /\ Len(l) \in Nat /\ Len(m) \in Nat /\ Len(l) <= Len(m)
  BY SequenceIs DEF Prefix
<1>2. \A i \in 1..Len(m) : i \in 1..Len(l) \/ i \in (Len(l) + 1)..Len(m)
  BY <1>1
<1>3. 1..Len(l) \subseteq 1..Len(m) /\ \A i \in 1..Len(l) : m[i] = l[i]
  BY <1>1 DEF Prefix
<1>4. \A i : i \in Of(l, kinds) <=> i \in 1..Len(l) /\ l[i].kind \in kinds
  BY <1>1, OfIs
<1>5. \A i : i \in Of(m, kinds) <=> i \in 1..Len(m) /\ m[i].kind \in kinds
  BY <1>1, OfIs
<1>6. \A i : i \in Of(m, kinds) <=> i \in Of(l, kinds)
  BY <1>2, <1>3, <1>4, <1>5 DEF NoneNew
<1> QED
  BY <1>3, <1>4, <1>6

LEMMA OfGrows ==
  ASSUME NEW l, NEW m, Prefix(l, m), NEW kinds
  PROVE  Of(l, kinds) \subseteq Of(m, kinds) /\ \A i \in Of(l, kinds) : m[i] = l[i]
<1>1. IsSequence(l) /\ IsSequence(m) /\ Len(l) \in Nat /\ Len(m) \in Nat /\ Len(l) <= Len(m)
  BY SequenceIs DEF Prefix
<1>3. 1..Len(l) \subseteq 1..Len(m) /\ \A i \in 1..Len(l) : m[i] = l[i]
  BY <1>1 DEF Prefix
<1> QED
  BY <1>1, <1>3, OfIs

LEMMA SmallerKinds ==
  ASSUME NEW l, NEW m, NEW kinds, NoneNew(l, m, kinds), NEW fewer, fewer \subseteq kinds
  PROVE  NoneNew(l, m, fewer)
  BY DEF NoneNew

LEMMA RevisionStays ==
  ASSUME NEW l, NEW m, Prefix(l, m), NoneNew(l, m, {"graph_revision"}), LogFits(l)
  PROVE  /\ CurrentRevision(m) = CurrentRevision(l)
         /\ CurrentGraph(m) = CurrentGraph(l)
         /\ CurrentRevision(l) # 0 => m[CurrentRevision(l)] = l[CurrentRevision(l)]
         /\ Number(m, Len(m)) = Number(l, Len(l))
         /\ Lineages(m) = Lineages(l)
<1>1. IsSequence(l) /\ IsSequence(m) /\ Len(l) \in Nat /\ Len(m) \in Nat /\ Len(l) <= Len(m)
  BY SequenceIs DEF Prefix
<1>2. Revisions(m) = Revisions(l) /\ \A i \in Revisions(l) : m[i] = l[i]
  BY OfStays DEF Revisions
<1>3. \A j \in Revisions(l) : j \in Nat /\ j < Len(l) + 1 /\ j < Len(m) + 1 /\ j <= Len(l) /\ j <= Len(m)
  BY <1>1, OfIs DEF Revisions
<1>4. {j \in Revisions(m) : j < Len(m) + 1} = {j \in Revisions(l) : j < Len(l) + 1}
  BY <1>2, <1>3
<1>5. CurrentRevision(m) = CurrentRevision(l)
  BY <1>4 DEF CurrentRevision, RevisionBefore, Revisions
<1>6. {j \in Revisions(m) : j <= Len(m)} = {j \in Revisions(l) : j <= Len(l)}
  BY <1>2, <1>3
<1>7. Number(m, Len(m)) = Number(l, Len(l))
  BY <1>6 DEF Number, Revisions
<1> DEFINE r == CurrentRevision(l)
<1>8. r # 0 => r \in Revisions(l)
  BY <1>1, RevisionBeforeIs DEF CurrentRevision
<1>9. r # 0 => m[r] = l[r]
  BY <1>2, <1>8
<1>10. CurrentGraph(m) = CurrentGraph(l)
  BY <1>5, <1>9 DEF CurrentGraph, GraphOf
<1>11. ASSUME NEW t \in DOMAIN CurrentGraph(l)
       PROVE  Number(m, m[r].lineage[t]) = Number(l, l[r].lineage[t])
  <2>1. r # 0 /\ CurrentGraph(l) = l[r].graph
    BY <1>11, NoRecord DEF CurrentGraph, GraphOf
  <2>2. l[r].kind = "graph_revision" /\ r \in 1..Len(l)
    BY <1>1, <1>8, <2>1, OfIs DEF Revisions
  <2>3. l[r].lineage[t] \in Revisions(l)
    BY <2>1, <2>2, <1>11 DEF LogFits, RecordIsTyped
  <2>4. l[r].lineage[t] \in 1..Len(l)
    BY <1>1, <2>3, OfIs DEF Revisions
  <2> QED
    BY <1>9, <2>1, <2>4, NumberStays
<1>12. Lineages(m) = Lineages(l)
  BY <1>5, <1>10, <1>11 DEF Lineages
<1> QED
  BY <1>5, <1>7, <1>9, <1>10, <1>12

LEMMA LineageIsPlace ==
  ASSUME NEW l, LogFits(l), NEW i \in 1..Len(l)
  PROVE  /\ l[i].kind \in LineageKinds => l[i].lineage \in 1..Len(l)
         /\ l[i].kind = "failure_edge_traversed" => l[i].targetLineage \in 1..Len(l)
<1>1. IsSequence(l) /\ RecordIsTyped(l, i)
  BY DEF LogFits
<1>2. Revisions(l) \subseteq 1..Len(l)
  BY <1>1, OfIs DEF Revisions
<1> QED
  BY <1>1, <1>2 DEF RecordIsTyped

LEMMA CancellationsStay ==
  ASSUME NEW l, NEW m, Prefix(l, m), NoneNew(l, m, {"task_cancelled"}), LogFits(l)
  PROVE  Cancellations(m) = Cancellations(l)
<1>1. Of(m, {"task_cancelled"}) = Of(l, {"task_cancelled"})
      /\ \A i \in Of(l, {"task_cancelled"}) : m[i] = l[i]
  BY OfStays
<1>2. ASSUME NEW i \in Of(l, {"task_cancelled"})
      PROVE  m[i] = l[i] /\ Number(m, m[i].lineage) = Number(l, l[i].lineage)
  <2>1. i \in 1..Len(l) /\ l[i].kind = "task_cancelled"
    BY OfIs DEF LogFits
  <2>2. l[i].lineage \in 1..Len(l)
    BY <2>1, LineageIsPlace DEF LineageKinds
  <2> QED
    BY <1>1, <2>2, NumberStays
<1> QED
  BY <1>1, <1>2 DEF Cancellations

LEMMA TraversedStays ==
  ASSUME NEW l, NEW m, Prefix(l, m), NoneNew(l, m, {"failure_edge_traversed"}), LogFits(l)
  PROVE  Traversed(m) = Traversed(l)
<1> DEFINE K == {"failure_edge_traversed"}
<1>1. Of(m, K) = Of(l, K) /\ \A i \in Of(l, K) : m[i] = l[i]
  BY OfStays
<1>2. ASSUME NEW i \in Of(l, K)
      PROVE  /\ m[i] = l[i] /\ Number(m, m[i].lineage) = Number(l, l[i].lineage)
             /\ Number(m, m[i].targetLineage) = Number(l, l[i].targetLineage)
  <2>1. i \in 1..Len(l) /\ l[i].kind = "failure_edge_traversed"
    BY OfIs DEF LogFits
  <2>2. l[i].lineage \in 1..Len(l) /\ l[i].targetLineage \in 1..Len(l)
    BY <2>1, LineageIsPlace DEF LineageKinds, FailureKinds
  <2> QED
    BY <1>1, <2>2, NumberStays
<1> QED
  BY <1>1, <1>2 DEF Traversed

LEMMA ContextsStay ==
  ASSUME NEW l, NEW m, Prefix(l, m), NoneNew(l, m, {"task_context_updated"}), LogFits(l)
  PROVE  NotedContexts(m) = NotedContexts(l)
<1> DEFINE K == {"task_context_updated"}
           S(x, t) == {j \in Of(x, K) : x[j].task = t}
<1>1. Of(m, K) = Of(l, K) /\ \A i \in Of(l, K) : m[i] = l[i]
  BY OfStays
<1>2. \A t : S(m, t) = S(l, t)
  BY <1>1
<1>3. ASSUME NEW t, NEW i, i = Latest(S(l, t)), i # 0
      PROVE  m[i] = l[i] /\ Number(m, m[i].lineage) = Number(l, l[i].lineage)
  <2>1. S(l, t) \in SUBSET Of(l, K) /\ IsSequence(l)
    BY DEF LogFits
  <2>2. i \in Of(l, K)
    <3> HIDE DEF S
    <3>1. (Latest(S(l, t)) # 0 <=> S(l, t) # {}) /\ (S(l, t) # {} => Latest(S(l, t)) \in S(l, t))
      BY <2>1, PlacesAre
    <3> QED
      BY <1>3, <2>1, <3>1
  <2>3. i \in 1..Len(l) /\ l[i].kind = "task_context_updated"
    BY <2>1, <2>2, OfIs
  <2>4. l[i].lineage \in 1..Len(l)
    BY <2>3, LineageIsPlace DEF LineageKinds
  <2> QED
    BY <1>1, <2>2, <2>4, NumberStays
<1>4. ASSUME NEW t
      PROVE (LET i == Latest(S(m, t))
             IN  IF i = 0 THEN [lineage |-> 0, text |-> NoContext]
                 ELSE [lineage |-> Number(m, m[i].lineage), text |-> m[i].text])
            = (LET i == Latest(S(l, t))
               IN  IF i = 0 THEN [lineage |-> 0, text |-> NoContext]
                   ELSE [lineage |-> Number(l, l[i].lineage), text |-> l[i].text])
  <2>1. PICK i : i = Latest(S(l, t))
    OBVIOUS
  <2>2. Latest(S(m, t)) = i
    BY <1>2, <2>1
  <2>3. i # 0 => m[i] = l[i] /\ Number(m, m[i].lineage) = Number(l, l[i].lineage)
    BY <1>3, <2>1
  <2> HIDE DEF S
  <2> QED
    BY <2>1, <2>2, <2>3
<1> QED
  BY <1>4, Zenon DEF NotedContexts


\* None of the new records of these kinds is about the Attempt.
NoneNewOf(l, m, kinds, a) ==
  \A i \in (Len(l) + 1)..Len(m) : m[i].kind \in kinds => m[i].attempt # a

LEMMA FoldIs ==
  ASSUME NEW l, IsSequence(l), NEW a, NEW kind
  PROVE  /\ Fold(l, a, kind) \in Nat /\ Fold(l, a, kind) <= Len(l)
         /\ Fold(l, a, kind) # 0 => Fold(l, a, kind) \in Of(l, {kind}) /\ l[Fold(l, a, kind)].attempt = a
         /\ Fold(l, a, kind) = 0 => \A i \in Of(l, {kind}) : l[i].attempt # a
         /\ \A i \in Of(l, {kind}) : l[i].attempt = a => i <= Fold(l, a, kind)
<1> DEFINE S == {i \in Of(l, {kind}) : l[i].attempt = a}
<1>1. S \in SUBSET Of(l, {kind}) /\ Fold(l, a, kind) = Latest(S)
  BY DEF Fold
<1>2. /\ S \in SUBSET Nat /\ 0 \notin S
      /\ Latest(S) \in Nat /\ (Latest(S) # 0 <=> S # {}) /\ (S # {} => Latest(S) \in S)
      /\ \A y \in S : y <= Latest(S)
  <2> HIDE DEF S
  <2> QED
    BY <1>1, PlacesAre
<1>3. \A i \in Of(l, {kind}) : i <= Len(l)
  BY OfIs, SequenceIs
<1>4. Len(l) \in Nat
  BY SequenceIs
<1>5. PICK f : f = Latest(S)
  OBVIOUS
<1>6. f \in Nat /\ (f # 0 <=> S # {}) /\ (f # 0 => f \in S) /\ (\A y \in S : y <= f)
  BY <1>2, <1>5
<1>7. f <= Len(l)
  <2>1. CASE f = 0
    BY <1>4, <2>1
  <2>2. CASE f # 0
    BY <1>3, <1>6, <2>2
  <2> QED
    BY <2>1, <2>2
<1>8. \A i : i \in S <=> i \in Of(l, {kind}) /\ l[i].attempt = a
  OBVIOUS
<1>9. Fold(l, a, kind) = f
  BY <1>1, <1>5
<1> HIDE DEF S
<1> QED
  BY <1>6, <1>7, <1>8, <1>9

LEMMA FoldStays ==
  ASSUME NEW l, NEW m, Prefix(l, m), NEW a, NEW kind, NoneNewOf(l, m, {kind}, a)
  PROVE  Fold(m, a, kind) = Fold(l, a, kind)
<1>1. IsSequence(l) /\ IsSequence(m) /\ Len(l) \in Nat /\ Len(m) \in Nat /\ Len(l) <= Len(m)
  BY SequenceIs DEF Prefix
<1>2. \A i \in 1..Len(m) : i \in 1..Len(l) \/ i \in (Len(l) + 1)..Len(m)
  BY <1>1
<1>3. \A i : i \in Of(m, {kind}) <=> i \in 1..Len(m) /\ m[i].kind = kind
  BY <1>1, OfIs
<1>4. \A i : i \in Of(l, {kind}) <=> i \in 1..Len(l) /\ l[i].kind = kind
  BY <1>1, OfIs
<1>5. 1..Len(l) \subseteq 1..Len(m) /\ \A i \in 1..Len(l) : m[i] = l[i]
  BY <1>1 DEF Prefix
<1>6. \A i : i \in Of(m, {kind}) /\ m[i].attempt = a <=> i \in Of(l, {kind}) /\ l[i].attempt = a
  BY <1>2, <1>3, <1>4, <1>5 DEF NoneNewOf
<1>7. {i \in Of(m, {kind}) : m[i].attempt = a} = {i \in Of(l, {kind}) : l[i].attempt = a}
  BY <1>6
<1> QED
  BY <1>7 DEF Fold

\* The last record of a log is the last of its kind.
LEMMA FoldIsLast ==
  ASSUME NEW m, IsSequence(m), Len(m) # 0, NEW a, NEW kind,
         m[Len(m)].kind = kind, m[Len(m)].attempt = a
  PROVE  Fold(m, a, kind) = Len(m)
<1>1. Len(m) \in Nat /\ Len(m) \in 1..Len(m)
  BY SequenceIs
<1>2. Len(m) \in Of(m, {kind})
  BY <1>1, OfIs
<1>3. Len(m) <= Fold(m, a, kind) /\ Fold(m, a, kind) <= Len(m) /\ Fold(m, a, kind) \in Nat
  BY <1>2, FoldIs
<1> QED
  BY <1>1, <1>3

PhaseKinds == {"attempt_blocked", "attempt_resumed", "attempt_completed", "task_cancelled"}

LEMMA PhaseStays ==
  ASSUME NEW l, NEW m, Prefix(l, m), NEW a, NoneNewOf(l, m, PhaseKinds, a),
         \A i \in (Len(l) + 1)..Len(m) : m[i].kind = "failure_edge_exhausted" => m[i].source # a
  PROVE  Phase(m, a) = Phase(l, a)
<1>1. \A kind \in PhaseKinds : NoneNewOf(l, m, {kind}, a)
  BY DEF NoneNewOf
<1>2. ASSUME NEW kind \in PhaseKinds PROVE Fold(m, a, kind) = Fold(l, a, kind)
  <2>1. NoneNewOf(l, m, {kind}, a)
    BY <1>1
  <2> QED
    BY <2>1, FoldStays
<1>3. IsSequence(l) /\ IsSequence(m) /\ Len(l) \in Nat /\ Len(m) \in Nat /\ Len(l) <= Len(m)
  BY SequenceIs DEF Prefix
<1>4. \A i \in 1..Len(m) : i \in 1..Len(l) \/ i \in (Len(l) + 1)..Len(m)
  BY <1>3
<1>5. 1..Len(l) \subseteq 1..Len(m) /\ \A i \in 1..Len(l) : m[i] = l[i]
  BY <1>3 DEF Prefix
<1>6. \A i : i \in Of(m, {"failure_edge_exhausted"}) <=> i \in 1..Len(m) /\ m[i].kind = "failure_edge_exhausted"
  BY <1>3, OfIs
<1>7. \A i : i \in Of(l, {"failure_edge_exhausted"}) <=> i \in 1..Len(l) /\ l[i].kind = "failure_edge_exhausted"
  BY <1>3, OfIs
<1>8. (\E i \in Of(m, {"failure_edge_exhausted"}) : m[i].source = a)
        <=> (\E i \in Of(l, {"failure_edge_exhausted"}) : l[i].source = a)
  BY <1>4, <1>5, <1>6, <1>7
<1>9. Fold(l, a, "attempt_completed") # 0 => m[Fold(l, a, "attempt_completed")] = l[Fold(l, a, "attempt_completed")]
  <2>1. PICK f : f = Fold(l, a, "attempt_completed")
    OBVIOUS
  <2>2. f # 0 => f \in Of(l, {"attempt_completed"})
    BY <1>3, <2>1, FoldIs
  <2>3. f # 0 => f \in 1..Len(l)
    BY <1>3, <2>2, OfIs
  <2> QED
    BY <1>5, <2>1, <2>3
<1> QED
  BY <1>2, <1>8, <1>9 DEF Phase, PhaseKinds

\* A started Attempt.
IsStarted(l, a) == a[1] \in Tasks /\ a[2] \in Ordinals(l, a[1]) /\ a = <<a[1], a[2]>>

LEMMA StartIs ==
  ASSUME NEW l, LogFits(l), NEW a, IsStarted(l, a)
  PROVE  LET i == Fold(l, a, "attempt_started")
         IN  /\ i \in Of(l, {"attempt_started"}) /\ l[i].attempt = a
             /\ i \in 1..Len(l) /\ l[i].kind = "attempt_started"
             /\ l[i].lineage \in 1..Len(l)
<1> DEFINE i == Fold(l, a, "attempt_started")
<1>1. IsSequence(l)
  BY DEF LogFits
<1>2. PICK j \in Of(l, {"attempt_started"}) : l[j].attempt[1] = a[1] /\ l[j].attempt[2] = a[2]
  BY DEF IsStarted, Ordinals, Starts
<1>3. j \in 1..Len(l) /\ l[j].kind = "attempt_started"
  BY <1>1, OfIs
<1>4. l[j].attempt \in Tasks \X Nat
  BY <1>3 DEF LogFits, RecordIsTyped
<1>5. l[j].attempt = a
  BY <1>2, <1>4 DEF IsStarted
<1>a. Len(l) \in Nat /\ i \in Nat
  BY <1>1, FoldIs, SequenceIs
<1>6. j <= i /\ i \in Nat /\ j \in Nat /\ j # 0
  <2>1. j <= i
    BY <1>1, <1>5, FoldIs
  <2> HIDE DEF i
  <2> QED
    BY <1>a, <1>3, <2>1
<1>7. i \in Of(l, {"attempt_started"}) /\ l[i].attempt = a
  BY <1>1, <1>6, FoldIs
<1>8. i \in 1..Len(l) /\ l[i].kind = "attempt_started"
  BY <1>1, <1>7, OfIs
<1>9. l[i].lineage \in 1..Len(l)
  BY <1>8, LineageIsPlace DEF LineageKinds
<1> QED
  BY <1>7, <1>8, <1>9

\* An Attempt of which there is no new record is as it was.
LEMMA AttemptStays ==
  ASSUME NEW l, NEW m, Prefix(l, m), LogFits(l), NEW a, IsStarted(l, a),
         NoneNewOf(l, m, PhaseKinds \cup {"attempt_started", "attempt_superseded"}, a),
         \A i \in (Len(l) + 1)..Len(m) : m[i].kind = "failure_edge_exhausted" => m[i].source # a
  PROVE  AttemptFold(m, a) = AttemptFold(l, a)
<1>1. NoneNewOf(l, m, PhaseKinds, a) /\ NoneNewOf(l, m, {"attempt_started"}, a)
      /\ NoneNewOf(l, m, {"attempt_superseded"}, a)
  BY DEF NoneNewOf
<1>2. Fold(m, a, "attempt_started") = Fold(l, a, "attempt_started")
  BY <1>1, FoldStays
<1>3. Fold(m, a, "attempt_superseded") = Fold(l, a, "attempt_superseded")
  BY <1>1, FoldStays
<1>4. Phase(m, a) = Phase(l, a)
  BY <1>1, PhaseStays
<1>5. PICK i : i = Fold(l, a, "attempt_started")
  OBVIOUS
<1>6. i \in 1..Len(l) /\ l[i].lineage \in 1..Len(l)
  BY <1>5, StartIs
<1>7. m[i] = l[i] /\ Number(m, m[i].lineage) = Number(l, l[i].lineage)
  BY <1>6, NumberStays DEF Prefix
<1> QED
  BY <1>2, <1>3, <1>4, <1>5, <1>7 DEF AttemptFold

LEMMA OrdinalsStay ==
  ASSUME NEW l, NEW m, Prefix(l, m), NoneNew(l, m, {"attempt_started"})
  PROVE  \A t : Starts(m, t) = Starts(l, t) /\ Ordinals(m, t) = Ordinals(l, t)
<1> DEFINE K == {"attempt_started"}
<1>1. Of(m, K) = Of(l, K) /\ \A i \in Of(l, K) : m[i] = l[i]
  BY OfStays
<1>2. ASSUME NEW t PROVE Starts(m, t) = Starts(l, t) /\ \A i \in Starts(l, t) : m[i] = l[i]
  BY <1>1 DEF Starts
<1>3. ASSUME NEW t PROVE Ordinals(m, t) = Ordinals(l, t)
  BY <1>2 DEF Ordinals
<1> QED
  BY <1>2, <1>3

AttemptsKinds == PhaseKinds \cup {"attempt_started", "attempt_superseded", "failure_edge_exhausted"}

LEMMA AttemptsStay ==
  ASSUME NEW l, NEW m, Prefix(l, m), LogFits(l), NoneNew(l, m, AttemptsKinds)
  PROVE  Attempts(m) = Attempts(l)
<1>1. \A t : Ordinals(m, t) = Ordinals(l, t)
  BY OrdinalsStay DEF NoneNew, AttemptsKinds
<1>2. ASSUME NEW t \in Tasks, NEW n \in Ordinals(l, t)
      PROVE  AttemptFold(m, <<t, n>>) = AttemptFold(l, <<t, n>>)
  <2>1. IsStarted(l, <<t, n>>)
    BY DEF IsStarted
  <2>2. NoneNewOf(l, m, PhaseKinds \cup {"attempt_started", "attempt_superseded"}, <<t, n>>)
    BY DEF NoneNewOf, NoneNew, AttemptsKinds
  <2> QED
    BY <2>1, <2>2, AttemptStays DEF NoneNew, AttemptsKinds
<1> QED
  BY <1>1, <1>2 DEF Attempts


LEMMA ReadStays ==
  ASSUME NEW l, NEW m, Prefix(l, m), LogFits(l), NoneNew(l, m, {"graph_revision"})
  PROVE  /\ Read(m).revision = Read(l).revision
         /\ Read(m).graph = Read(l).graph
         /\ Read(m).lineage = Read(l).lineage
         /\ NoneNew(l, m, AttemptsKinds) => Read(m).attempts = Read(l).attempts
         /\ NoneNew(l, m, {"task_cancelled"}) => Read(m).cancelled = Read(l).cancelled
         /\ NoneNew(l, m, {"failure_edge_traversed"}) => Read(m).traversals = Read(l).traversals
         /\ NoneNew(l, m, {"task_context_updated"}) => Read(m).context = Read(l).context
<1>1. /\ Number(m, Len(m)) = Number(l, Len(l)) /\ CurrentGraph(m) = CurrentGraph(l)
      /\ Lineages(m) = Lineages(l)
  BY RevisionStays
<1>2. NoneNew(l, m, AttemptsKinds) => Attempts(m) = Attempts(l)
  BY AttemptsStay
<1>3. NoneNew(l, m, {"task_cancelled"}) => Cancellations(m) = Cancellations(l)
  BY CancellationsStay
<1>4. NoneNew(l, m, {"failure_edge_traversed"}) => Traversed(m) = Traversed(l)
  BY TraversedStays
<1>5. NoneNew(l, m, {"task_context_updated"}) => NotedContexts(m) = NotedContexts(l)
  BY ContextsStay
<1> QED
  BY <1>1, <1>2, <1>3, <1>4, <1>5 DEF Read

LEMMA GrownFits ==
  ASSUME NEW l, NEW m, Prefix(l, m), LogFits(l),
         \A i \in (Len(l) + 1)..Len(m) : RecordIsTyped(m, i) /\ RecordIsValid(m, i),
         NoneNew(l, m, {"attempt_started"})
           \/ \A t \in Tasks : Ordinals(m, t) = 1..Cardinality(Starts(m, t))
  PROVE  LogFits(m)
<1>1. IsSequence(l) /\ IsSequence(m) /\ Len(l) \in Nat /\ Len(m) \in Nat /\ Len(l) <= Len(m)
  BY SequenceIs DEF Prefix
<1>2. \A i \in 1..Len(m) : i \in 1..Len(l) \/ i \in (Len(l) + 1)..Len(m)
  BY <1>1
<1>3. \A i \in 1..Len(l) : RecordIsTyped(m, i) /\ RecordIsValid(m, i)
  BY RecordStays DEF LogFits
<1>4. \A t \in Tasks : Ordinals(m, t) = 1..Cardinality(Starts(m, t))
  BY OrdinalsStay DEF LogFits
<1> QED
  BY <1>1, <1>2, <1>3, <1>4 DEF LogFits

\* One record more.
Adds(l, e, m) == m = l \o <<e>>

LEMMA OneMore ==
  ASSUME NEW l, LogFits(l), NEW e, NEW m, Adds(l, e, m)
  PROVE  /\ Prefix(l, m) /\ Len(l) \in Nat /\ Len(m) = Len(l) + 1 /\ m[Len(m)] = e
         /\ (Len(l) + 1)..Len(m) = {Len(m)}
         /\ Len(m) \in 1..(Len(l) + 1) /\ Len(m) \in 1..Len(m)
         /\ IsSequence(l) /\ IsSequence(m)
<1>1. IsSequence(l) /\ Len(l) \in Nat
  BY SequenceIs DEF LogFits
<1>2. IsSequence(<<e>>) /\ Len(<<e>>) = 1 /\ <<e>>[1] = e
  BY OneRecord
<1>3. IsSequence(m) /\ Len(m) = Len(l) + 1 /\ m[Len(l) + 1] = e
  <2>1. /\ IsSequence(m) /\ Len(m) = Len(l) + Len(<<e>>)
        /\ \A i \in 1..Len(<<e>>) : m[Len(l) + i] = <<e>>[i]
    BY <1>1, <1>2, Joined DEF Adds
  <2>2. 1 \in 1..Len(<<e>>)
    BY <1>2
  <2> QED
    BY <1>2, <2>1, <2>2
<1>4. Prefix(l, m)
  BY <1>1, <1>2, JoinedGoesOn DEF Adds
<1>5. (Len(l) + 1)..Len(m) = {Len(m)} /\ Len(m) \in 1..(Len(l) + 1) /\ Len(m) \in 1..Len(m)
  BY <1>1, <1>3
<1>6. m[Len(m)] = e
  BY <1>3
<1> QED
  BY <1>1, <1>3, <1>4, <1>5, <1>6

LEMMA OneMoreKind ==
  ASSUME NEW l, LogFits(l), NEW e, NEW m, Adds(l, e, m)
  PROVE  \A kinds : NoneNew(l, m, kinds) <=> e.kind \notin kinds
  BY OneMore DEF NoneNew

LEMMA OneMoreAttempt ==
  ASSUME NEW l, LogFits(l), NEW e, NEW m, Adds(l, e, m)
  PROVE  \A kinds, a : NoneNewOf(l, m, kinds, a) <=> (e.kind \in kinds => e.attempt # a)
  BY OneMore DEF NoneNewOf

LEMMA OneMoreFits ==
  ASSUME NEW l, LogFits(l), NEW e, NEW m, Adds(l, e, m), e.kind # "attempt_started",
         RecordIsTyped(m, Len(m)), RecordIsValid(m, Len(m))
  PROVE  LogFits(m)
<1>1. Prefix(l, m) /\ (Len(l) + 1)..Len(m) = {Len(m)}
  BY OneMore
<1>2. NoneNew(l, m, {"attempt_started"})
  BY OneMoreKind
<1> QED
  BY <1>1, <1>2, GrownFits

LEMMA OneMoreReads ==
  ASSUME NEW l, LogFits(l), NEW e, NEW m, Adds(l, e, m), e.kind # "graph_revision"
  PROVE  /\ Read(m).revision = Read(l).revision
         /\ Read(m).graph = Read(l).graph
         /\ Read(m).lineage = Read(l).lineage
         /\ e.kind \notin AttemptsKinds => Read(m).attempts = Read(l).attempts
         /\ e.kind # "task_cancelled" => Read(m).cancelled = Read(l).cancelled
         /\ e.kind # "failure_edge_traversed" => Read(m).traversals = Read(l).traversals
         /\ e.kind # "task_context_updated" => Read(m).context = Read(l).context
         /\ CurrentRevision(m) = CurrentRevision(l)
         /\ CurrentGraph(m) = CurrentGraph(l)
         /\ CurrentRevision(l) # 0 => m[CurrentRevision(l)] = l[CurrentRevision(l)]
<1>1. Prefix(l, m)
  BY OneMore
<1>2. \A kinds : NoneNew(l, m, kinds) <=> e.kind \notin kinds
  BY OneMoreKind
<1>3. NoneNew(l, m, {"graph_revision"})
  BY <1>2
<1>4. /\ NoneNew(l, m, {"task_cancelled"}) <=> e.kind # "task_cancelled"
      /\ NoneNew(l, m, {"failure_edge_traversed"}) <=> e.kind # "failure_edge_traversed"
      /\ NoneNew(l, m, {"task_context_updated"}) <=> e.kind # "task_context_updated"
      /\ NoneNew(l, m, AttemptsKinds) <=> e.kind \notin AttemptsKinds
  BY <1>2
<1> QED
  BY <1>1, <1>3, <1>4, ReadStays, RevisionStays

LEMMA CurrentIs ==
  ASSUME NEW l, LogFits(l), NEW t \in DOMAIN CurrentGraph(l)
  PROVE  LET r == CurrentRevision(l)
         IN  /\ r # 0 /\ r \in Revisions(l) /\ r \in 1..Len(l)
             /\ RevisionBefore(l, Len(l) + 1) = r /\ GraphOf(l, r) = l[r].graph
             /\ CurrentGraph(l) = l[r].graph
             /\ t \in Tasks /\ Derived!IsGraph(CurrentGraph(l))
             /\ l[r].lineage[t] \in Revisions(l) /\ l[r].lineage[t] \in 1..Len(l)
             /\ Lineages(l)[t] = Number(l, l[r].lineage[t])
<1> DEFINE r == CurrentRevision(l)
<1>1. IsSequence(l) /\ Len(l) \in Nat /\ Len(l) + 1 \in Nat
  BY SequenceIs DEF LogFits
<1>2. r # 0
  BY NoRecord DEF CurrentGraph, GraphOf
<1>3. r \in Revisions(l) /\ RevisionBefore(l, Len(l) + 1) = r
  BY <1>1, <1>2, RevisionBeforeIs DEF CurrentRevision
<1>4. Revisions(l) \subseteq 1..Len(l) /\ l[r].kind = "graph_revision"
  BY <1>1, <1>3, OfIs DEF Revisions
<1>5. GraphOf(l, r) = l[r].graph /\ CurrentGraph(l) = l[r].graph
  BY <1>2 DEF CurrentGraph, GraphOf
<1>6. Derived!IsGraph(l[r].graph) /\ l[r].lineage[t] \in Revisions(l)
  BY <1>3, <1>4, <1>5 DEF LogFits, RecordIsTyped
<1>7. t \in Tasks
  BY <1>5, <1>6 DEF Derived!IsGraph
<1>8. Lineages(l)[t] = Number(l, l[r].lineage[t])
  BY <1>7 DEF Lineages
<1> QED
  BY <1>2, <1>3, <1>4, <1>5, <1>6, <1>7, <1>8

\* The lineage of a current Task in a log that goes on without a revision.
LEMMA NewOfLineage ==
  ASSUME NEW l, LogFits(l), NEW t \in DOMAIN CurrentGraph(l), NEW m, Prefix(l, m),
         NoneNew(l, m, {"graph_revision"}),
         NEW i \in (Len(l) + 1)..Len(m)
  PROVE  LET r == CurrentRevision(l)
         IN  /\ RevisionBefore(m, i) = r /\ r # 0 /\ m[r] = l[r]
             /\ GraphOf(m, r) = CurrentGraph(l) /\ CurrentGraph(l) = l[r].graph
             /\ IsOfLineage(m, i, t) <=> m[i].lineage = l[r].lineage[t]
<1> DEFINE r == CurrentRevision(l)
<1>1. IsSequence(l) /\ IsSequence(m) /\ Len(l) \in Nat /\ Len(m) \in Nat /\ Len(l) <= Len(m)
  BY SequenceIs DEF Prefix
<1>2. r # 0 /\ r \in 1..Len(l) /\ CurrentGraph(l) = l[r].graph
  BY CurrentIs
<1>3. m[r] = l[r] /\ r \in Nat
  BY <1>1, <1>2 DEF Prefix
<1>4. Revisions(m) = Revisions(l)
  BY OfStays DEF Revisions
<1>5. \A j \in Revisions(l) : j < i /\ j < Len(l) + 1
  BY <1>1, OfIs DEF Revisions
<1>6. {j \in Revisions(m) : j < i} = {j \in Revisions(l) : j < Len(l) + 1}
  BY <1>4, <1>5
<1>7. RevisionBefore(m, i) = r
  BY <1>6 DEF RevisionBefore, CurrentRevision, Revisions
<1>8. GraphOf(m, r) = CurrentGraph(l)
  BY <1>2, <1>3 DEF GraphOf
<1>9. IsOfLineage(m, i, t) <=> m[i].lineage = l[r].lineage[t]
  BY <1>3, <1>7, <1>8 DEF IsOfLineage
<1> QED
  BY <1>2, <1>3, <1>7, <1>8, <1>9

LEMMA ContextRecorded ==
  ASSUME NEW l, LogFits(l), NEW t \in DOMAIN CurrentGraph(l), NEW e, NEW m, Adds(l, e, m),
         e.kind = "task_context_updated", e.task = t,
         e.lineage = l[CurrentRevision(l)].lineage[t]
  PROVE  /\ LogFits(m)
         /\ Read(m).revision = Read(l).revision /\ Read(m).graph = Read(l).graph
         /\ Read(m).lineage = Read(l).lineage /\ Read(m).attempts = Read(l).attempts
         /\ Read(m).cancelled = Read(l).cancelled /\ Read(m).traversals = Read(l).traversals
         /\ Read(m).context = [Read(l).context EXCEPT
                                 ![t] = [lineage |-> Read(l).lineage[t], text |-> e.text]]
<1> DEFINE n == Len(m)
           K == {"task_context_updated"}
<1>1. /\ Prefix(l, m) /\ Len(l) \in Nat /\ n = Len(l) + 1 /\ m[n] = e
      /\ (Len(l) + 1)..n = {n}
      /\ n \in 1..(Len(l) + 1) /\ n \in 1..n
      /\ IsSequence(l) /\ IsSequence(m)
  BY OneMore
<1>2. \A kinds : NoneNew(l, m, kinds) <=> e.kind \notin kinds
  BY OneMoreKind
<1>3. LogFits(m)
  <2>1. e.lineage \in Revisions(l) /\ Revisions(l) \subseteq Revisions(m)
    BY <1>1, CurrentIs, OfGrows DEF Revisions
  <2>2. RecordIsTyped(m, n)
    BY <1>1, <2>1 DEF RecordIsTyped, Kinds, LineageKinds
  <2>3. IsOfLineage(m, n, t) /\ RevisionBefore(m, n) # 0
    <3>1. n \in (Len(l) + 1)..Len(m) /\ NoneNew(l, m, {"graph_revision"}) /\ Prefix(l, m)
      BY <1>1, <1>2
    <3> QED
      BY <1>1, <3>1, NewOfLineage
  <2>4. RecordIsValid(m, n)
    BY <1>1, <2>3 DEF RecordIsValid, EventFits
  <2> QED
    BY <2>2, <2>4, OneMoreFits
<1>4. /\ Read(m).revision = Read(l).revision /\ Read(m).graph = Read(l).graph
      /\ Read(m).lineage = Read(l).lineage /\ Read(m).attempts = Read(l).attempts
      /\ Read(m).cancelled = Read(l).cancelled /\ Read(m).traversals = Read(l).traversals
  BY OneMoreReads DEF AttemptsKinds, PhaseKinds
<1> DEFINE S(x, u) == {j \in Of(x, K) : x[j].task = u}
<1>5. /\ \A i : i \in Of(m, K) <=> i \in Of(l, K) \/ i = n
      /\ \A i \in Of(l, K) : m[i] = l[i] /\ i \in 1..Len(l)
  <2>1. \A i : i \in Of(m, K) <=> i \in 1..n /\ m[i].kind \in K
    BY <1>1, OfIs
  <2>2. \A i : i \in Of(l, K) <=> i \in 1..Len(l) /\ l[i].kind \in K
    BY <1>1, OfIs
  <2>3. \A i \in 1..Len(l) : m[i] = l[i]
    BY <1>1 DEF Prefix
  <2>4. \A i : i \in 1..n <=> i \in 1..Len(l) \/ i = n
    BY <1>1
  <2> HIDE DEF n
  <2> QED
    BY <1>1, <2>1, <2>2, <2>3, <2>4
<1>6. \A u : u # t => S(m, u) = S(l, u)
  BY <1>1, <1>5
<1>7. Latest(S(m, t)) = n
  <2>1. S(m, t) \in SUBSET Of(m, K) /\ n \in S(m, t) /\ \A y \in S(m, t) : y <= n
    BY <1>1, <1>5
  <2> HIDE DEF S, n
  <2> QED
    BY <1>1, <2>1, IsLastOfPlaces
<1>8. ASSUME NEW u, NEW i, i = Latest(S(l, u)), i # 0
      PROVE  m[i] = l[i] /\ Number(m, m[i].lineage) = Number(l, l[i].lineage)
  <2>1. S(l, u) \in SUBSET Of(l, K)
    OBVIOUS
  <2>2. i \in Of(l, K)
    <3> HIDE DEF S
    <3>1. (Latest(S(l, u)) # 0 <=> S(l, u) # {}) /\ (S(l, u) # {} => Latest(S(l, u)) \in S(l, u))
      BY <1>1, <2>1, LastOfPlaces
    <3> QED
      BY <1>8, <2>1, <3>1
  <2>3. i \in 1..Len(l) /\ l[i].kind = "task_context_updated"
    BY <1>1, <2>2, OfIs
  <2>4. l[i].lineage \in 1..Len(l)
    BY <2>3, LineageIsPlace DEF LineageKinds
  <2> QED
    BY <1>1, <1>5, <2>2, <2>4, NumberStays
<1>9. Number(m, e.lineage) = Lineages(l)[t]
  BY <1>1, CurrentIs, NumberStays
<1>10. ASSUME NEW u \in Tasks
       PROVE  NotedContexts(m)[u] = IF u = t THEN [lineage |-> Lineages(l)[t], text |-> e.text]
                                    ELSE NotedContexts(l)[u]
  <2>1. PICK i : i = Latest(S(l, u))
    OBVIOUS
  <2>2. PICK j : j = Latest(S(m, u))
    OBVIOUS
  <2>3. NotedContexts(l)[u] = IF i = 0 THEN [lineage |-> 0, text |-> NoContext]
                              ELSE [lineage |-> Number(l, l[i].lineage), text |-> l[i].text]
    BY <2>1 DEF NotedContexts
  <2>4. NotedContexts(m)[u] = IF j = 0 THEN [lineage |-> 0, text |-> NoContext]
                              ELSE [lineage |-> Number(m, m[j].lineage), text |-> m[j].text]
    BY <2>2 DEF NotedContexts
  <2>5. CASE u = t
    <3>1. j = n /\ n # 0 /\ m[n] = e
      <4> HIDE DEF S
      <4> QED
        BY <1>1, <1>7, <2>2, <2>5
    <3> HIDE DEF n, S
    <3> QED
      BY <1>9, <2>4, <2>5, <3>1
  <2>6. CASE u # t
    <3>1. i = j /\ (i # 0 => m[i] = l[i] /\ Number(m, m[i].lineage) = Number(l, l[i].lineage))
      <4>1. S(m, u) = S(l, u)
        BY <1>6, <2>6
      <4> HIDE DEF S
      <4> QED
        BY <1>8, <2>1, <2>2, <4>1
    <3> HIDE DEF n, S
    <3> QED
      BY <2>3, <2>4, <2>6, <3>1
  <2> QED
    BY <2>5, <2>6
<1>11. NotedContexts(m) = [NotedContexts(l) EXCEPT ![t] = [lineage |-> Lineages(l)[t], text |-> e.text]]
  <2>1. /\ NotedContexts(m) = [u \in Tasks |-> NotedContexts(m)[u]] /\ DOMAIN NotedContexts(l) = Tasks
        /\ t \in Tasks
    BY CurrentIs DEF NotedContexts
  <2> QED
    BY <1>10, <2>1
<1> QED
  BY <1>3, <1>4, <1>11 DEF Read


\* No record is about an Attempt that was not started.
LEMMA OnlyStarted ==
  ASSUME NEW l, LogFits(l), NEW i \in 1..Len(l)
  PROVE  /\ l[i].kind \in AttemptKinds \cup {"attempt_started"} => IsStarted(l, l[i].attempt)
         /\ l[i].kind = "task_cancelled" /\ l[i].attempt # << >> => IsStarted(l, l[i].attempt)
         /\ l[i].kind \in FailureKinds => IsStarted(l, l[i].source)
<1>1. IsSequence(l) /\ Len(l) \in Nat
  BY SequenceIs DEF LogFits
<1>2. ASSUME NEW j \in Of(l, {"attempt_started"}) PROVE IsStarted(l, l[j].attempt)
  <2>1. j \in 1..Len(l) /\ l[j].kind = "attempt_started"
    BY <1>1, OfIs
  <2>2. l[j].attempt \in Tasks \X Nat
    BY <2>1 DEF LogFits, RecordIsTyped
  <2>3. j \in Starts(l, l[j].attempt[1])
    BY DEF Starts
  <2> QED
    BY <2>2, <2>3 DEF IsStarted, Ordinals
<1>3. ASSUME NEW a, NEW j, Earlier(l, j, "attempt_started", a) # {} PROVE IsStarted(l, a)
  <2>1. PICK k \in Of(l, {"attempt_started"}) : l[k].attempt = a
    BY <1>3 DEF Earlier
  <2> QED
    BY <1>2, <2>1
<1>4. ASSUME NEW j \in 1..Len(l), l[j].kind \in AttemptKinds PROVE IsStarted(l, l[j].attempt)
  <2>1. AttemptEventIsValid(l, j)
    BY <1>4 DEF LogFits, RecordIsValid, EventFits, AttemptKinds
  <2> QED
    BY <1>3, <2>1 DEF AttemptEventIsValid
<1>5. CASE l[i].kind = "attempt_started"
  BY <1>1, <1>2, <1>5, OfIs DEF AttemptKinds, FailureKinds
<1>6. CASE l[i].kind = "task_cancelled"
  <2>1. l[i].attempt # << >> => Earlier(l, i, "attempt_started", l[i].attempt) # {}
    BY <1>6 DEF LogFits, RecordIsTyped
  <2> QED
    BY <1>3, <1>6, <2>1 DEF AttemptKinds, FailureKinds
<1>7. CASE l[i].kind \in FailureKinds
  <2>1. FailureEventIsValid(l, i)
    BY <1>7 DEF LogFits, RecordIsValid, EventFits, FailureKinds
  <2>2. PICK j \in Of(l, {"attempt_completed"}) : l[j].attempt = l[i].source
    BY <2>1 DEF FailureEventIsValid, Earlier
  <2>3. j \in 1..Len(l) /\ l[j].kind = "attempt_completed"
    BY <1>1, <2>2, OfIs
  <2>4. IsStarted(l, l[i].source)
    BY <1>4, <2>2, <2>3 DEF AttemptKinds
  <2> QED
    BY <1>7, <2>4 DEF FailureKinds, AttemptKinds
<1> QED
  BY <1>4, <1>5, <1>6, <1>7 DEF AttemptKinds

LEMMA PairIs ==
  ASSUME NEW a, NEW b
  PROVE  <<a, b>> # << >> /\ <<a, b>>[1] = a /\ <<a, b>>[2] = b
  OBVIOUS

\* What the log says of an Attempt that was not started.
LEMMA NotStarted ==
  ASSUME NEW l, LogFits(l), NEW a, a # << >>, ~IsStarted(l, a)
  PROVE  /\ \A kind \in PhaseKinds \cup {"attempt_superseded"} : Fold(l, a, kind) = 0
         /\ \A i \in Of(l, {"failure_edge_exhausted"}) : l[i].source # a
<1>1. IsSequence(l)
  BY DEF LogFits
<1>2. ASSUME NEW kind \in PhaseKinds \cup {"attempt_superseded"}, Fold(l, a, kind) # 0
      PROVE  FALSE
  <2>1. PICK i \in Of(l, {kind}) : l[i].attempt = a
    BY <1>1, <1>2, FoldIs
  <2>2. i \in 1..Len(l) /\ l[i].kind = kind
    BY <1>1, OfIs
  <2> QED
    BY <2>1, <2>2, OnlyStarted DEF PhaseKinds, AttemptKinds
<1>3. ASSUME NEW i \in Of(l, {"failure_edge_exhausted"}), l[i].source = a
      PROVE  FALSE
  <2>1. i \in 1..Len(l) /\ l[i].kind = "failure_edge_exhausted"
    BY <1>1, OfIs
  <2> QED
    BY <2>1, <1>3, OnlyStarted DEF FailureKinds
<1> QED
  BY <1>2, <1>3

LEMMA AppendIs ==
  ASSUME NEW k \in Nat, NEW f, f = [i \in 1..k |-> f[i]], NEW x
  PROVE  Append(f, x) = [i \in 1..(k + 1) |-> IF i = k + 1 THEN x ELSE f[i]]
<1> DEFINE S == {f[i] : i \in 1..k} \cup {x}
<1>1. f \in Seq(S) /\ Len(f) = k /\ x \in S
  <2>1. f \in [1..k -> S]
    BY Zenon
  <2> QED
    BY <2>1, SeqDef
<1> HIDE DEF S
<1>2. /\ Append(f, x) \in Seq(S) /\ Len(Append(f, x)) = k + 1
      /\ \A i \in 1..k : Append(f, x)[i] = f[i]
      /\ Append(f, x)[k + 1] = x
  BY <1>1, AppendProperties
<1>3. DOMAIN Append(f, x) = 1..(k + 1) /\ Append(f, x) = [i \in DOMAIN Append(f, x) |-> Append(f, x)[i]]
  BY <1>2
<1> QED
  BY <1>2, <1>3

LEMMA AttemptsAre ==
  ASSUME NEW l, LogFits(l), NEW t \in Tasks
  PROVE  LET k == Cardinality(Starts(l, t))
         IN  /\ k \in Nat /\ IsFiniteSet(Starts(l, t)) /\ Ordinals(l, t) = 1..k
             /\ DOMAIN Attempts(l)[t] = 1..k
             /\ Attempts(l)[t] = [n \in 1..k |-> Attempts(l)[t][n]]
             /\ \A n \in 1..k : Attempts(l)[t][n] = AttemptFold(l, <<t, n>>) /\ IsStarted(l, <<t, n>>)
<1>1. IsSequence(l) /\ Starts(l, t) \in SUBSET Of(l, {"attempt_started"})
  BY DEF LogFits, Starts
<1>2. IsFiniteSet(Starts(l, t))
  BY <1>1, PlacesAre
<1>3. PICK k : k = Cardinality(Starts(l, t))
  OBVIOUS
<1>4. k \in Nat /\ Ordinals(l, t) = 1..k
  BY <1>2, <1>3, FS_CardinalityType DEF LogFits
<1>5. Attempts(l)[t] = [n \in 1..k |-> AttemptFold(l, <<t, n>>)]
  BY <1>4 DEF Attempts
<1>6. \A n \in 1..k : IsStarted(l, <<t, n>>)
  BY <1>4 DEF IsStarted
<1> QED
  BY <1>2, <1>3, <1>4, <1>5, <1>6


LEMMA StartRecorded ==
  ASSUME NEW l, LogFits(l), NEW t \in DOMAIN CurrentGraph(l), NEW e, NEW m, Adds(l, e, m),
         e.kind = "attempt_started", e.attempt = <<t, Cardinality(Starts(l, t)) + 1>>,
         e.revision = CurrentRevision(l), e.lineage = l[CurrentRevision(l)].lineage[t],
         e.worker = CurrentGraph(l)[t].assignee
  PROVE  /\ LogFits(m)
         /\ Read(m).revision = Read(l).revision /\ Read(m).graph = Read(l).graph
         /\ Read(m).lineage = Read(l).lineage /\ Read(m).context = Read(l).context
         /\ Read(m).cancelled = Read(l).cancelled /\ Read(m).traversals = Read(l).traversals
         /\ CurrentRevision(m) = CurrentRevision(l)
         /\ m[CurrentRevision(l)] = l[CurrentRevision(l)]
         /\ Read(m).attempts = [Read(l).attempts EXCEPT ![t] = Append(@,
              [lineage |-> Read(l).lineage[t], demand |-> e.demand, inputs |-> e.inputs,
               worker |-> e.worker, phase |-> "in_progress", superseded |-> FALSE])]
<1> DEFINE n == Len(m)
           K == {"attempt_started"}
           k == Cardinality(Starts(l, t))
           a == <<t, k + 1>>
           new == [lineage |-> Lineages(l)[t], demand |-> e.demand, inputs |-> e.inputs,
                   worker |-> e.worker, phase |-> "in_progress", superseded |-> FALSE]
<1>1. /\ Prefix(l, m) /\ Len(l) \in Nat /\ n = Len(l) + 1 /\ m[n] = e
      /\ (Len(l) + 1)..n = {n}
      /\ n \in 1..(Len(l) + 1) /\ n \in 1..n
      /\ IsSequence(l) /\ IsSequence(m)
  BY OneMore
<1>2. \A kinds : NoneNew(l, m, kinds) <=> e.kind \notin kinds
  BY OneMoreKind
<1>3. /\ k \in Nat /\ IsFiniteSet(Starts(l, t)) /\ Ordinals(l, t) = 1..k
      /\ t \in Tasks
  BY CurrentIs, AttemptsAre
<1>4. /\ Read(m).revision = Read(l).revision /\ Read(m).graph = Read(l).graph
      /\ Read(m).lineage = Read(l).lineage /\ Read(m).context = Read(l).context
      /\ Read(m).cancelled = Read(l).cancelled /\ Read(m).traversals = Read(l).traversals
      /\ CurrentRevision(m) = CurrentRevision(l)
      /\ m[CurrentRevision(l)] = l[CurrentRevision(l)]
  BY OneMoreReads, CurrentIs
<1>5. /\ \A i : i \in Of(m, K) <=> i \in Of(l, K) \/ i = n
      /\ \A i \in Of(l, K) : m[i] = l[i] /\ i # n
  <2>1. \A i : i \in Of(m, K) <=> i \in 1..n /\ m[i].kind \in K
    BY <1>1, OfIs
  <2>2. \A i : i \in Of(l, K) <=> i \in 1..Len(l) /\ l[i].kind \in K
    BY <1>1, OfIs
  <2>3. \A i \in 1..Len(l) : m[i] = l[i] /\ i # n
    BY <1>1 DEF Prefix
  <2>4. \A i : i \in 1..n <=> i \in 1..Len(l) \/ i = n
    BY <1>1
  <2> HIDE DEF n
  <2> QED
    BY <1>1, <2>1, <2>2, <2>3, <2>4
<1>6. e.attempt = a /\ a[1] = t /\ a[2] = k + 1 /\ a # << >>
  OBVIOUS
<1>7. Starts(m, t) = Starts(l, t) \cup {n} /\ n \notin Starts(l, t)
  <2> HIDE DEF n, a, k
  <2> QED
    BY <1>1, <1>5, <1>6 DEF Starts
<1>8. \A u : u # t => Starts(m, u) = Starts(l, u)
  <2> HIDE DEF n, a, k
  <2> QED
    BY <1>1, <1>5, <1>6 DEF Starts
<1>9. Cardinality(Starts(m, t)) = k + 1
  BY <1>3, <1>7, FS_AddElement
<1>10. \A u : \A i \in Starts(l, u) : m[i] = l[i]
  BY <1>5 DEF Starts
<1>11. Ordinals(m, t) = 1..(k + 1)
  <2>1. Ordinals(m, t) = Ordinals(l, t) \cup {k + 1}
    <3> HIDE DEF n, a, k
    <3> QED
      BY <1>1, <1>6, <1>7, <1>10 DEF Ordinals
  <2> HIDE DEF k
  <2> QED
    BY <1>3, <2>1
<1>12. \A u : u # t => Ordinals(m, u) = Ordinals(l, u)
  BY <1>8, <1>10 DEF Ordinals
<1>13. LogFits(m)
  <2>1. e.lineage \in Revisions(l) /\ Revisions(l) \subseteq Revisions(m)
    BY <1>1, CurrentIs, OfGrows DEF Revisions
  <2>2. RecordIsTyped(m, n)
    <3>1. e.attempt \in Tasks \X Nat
      BY <1>3
    <3> HIDE DEF n, a
    <3> QED
      BY <1>1, <2>1, <3>1 DEF RecordIsTyped, Kinds, LineageKinds, AttemptKinds
  <2>3. /\ IsOfLineage(m, n, t) /\ RevisionBefore(m, n) = CurrentRevision(l)
        /\ CurrentRevision(l) # 0
    <3>1. n \in (Len(l) + 1)..Len(m) /\ NoneNew(l, m, {"graph_revision"}) /\ Prefix(l, m)
      BY <1>1, <1>2
    <3> QED
      BY <1>1, <3>1, NewOfLineage
  <2>4. {j \in Of(m, K) : j < n /\ m[j].attempt[1] = t} = Starts(l, t)
    <3>1. n \in Nat /\ \A j \in Of(l, K) : j < n
      BY <1>1, OfIs
    <3> HIDE DEF n
    <3> QED
      BY <1>5, <3>1 DEF Starts
  <2>5. m[CurrentRevision(l)].graph[t].assignee = e.worker
    BY <1>4, CurrentIs
  <2>6. StartIsValid(m, n)
    <3>1. e.attempt[1] = t /\ e.attempt[2] = k + 1
      OBVIOUS
    <3> HIDE DEF n, a
    <3> QED
      BY <1>1, <2>3, <2>4, <2>5, <3>1 DEF StartIsValid
  <2>7. RecordIsValid(m, n)
    BY <1>1, <2>3, <2>6 DEF RecordIsValid, EventFits
  <2>8. \A u \in Tasks : Ordinals(m, u) = 1..Cardinality(Starts(m, u))
    BY <1>8, <1>9, <1>11, <1>12 DEF LogFits
  <2> QED
    BY <1>1, <2>2, <2>7, <2>8, GrownFits
<1>14. AttemptFold(m, a) = new
  <2>1. ~IsStarted(l, a)
    BY <1>3, <1>6 DEF IsStarted
  <2>2. \A kind \in PhaseKinds \cup {"attempt_superseded"} : Fold(l, a, kind) = 0
    BY <1>6, <2>1, NotStarted
  <2>3. \A i \in Of(l, {"failure_edge_exhausted"}) : l[i].source # a
    BY <1>6, <2>1, NotStarted
  <2>4. ASSUME NEW kind \in PhaseKinds \cup {"attempt_superseded"} PROVE Fold(m, a, kind) = 0
    <3>1. NoneNewOf(l, m, {kind}, a)
      BY OneMoreAttempt DEF PhaseKinds
    <3> QED
      BY <1>1, <2>2, <3>1, FoldStays
  <2>5. Phase(m, a) = "in_progress"
    BY <2>4 DEF Phase, PhaseKinds
  <2>6. Fold(m, a, "attempt_started") = n
    <3>1. Len(m) # 0 /\ m[Len(m)].kind = "attempt_started" /\ m[Len(m)].attempt = a
      BY <1>1, <1>6
    <3> HIDE DEF a
    <3> QED
      BY <1>1, <3>1, FoldIsLast
  <2>7. Number(m, e.lineage) = Lineages(l)[t]
    BY <1>1, CurrentIs, NumberStays
  <2>8. Fold(m, a, "attempt_superseded") = 0
    BY <2>4
  <2> HIDE DEF a, n
  <2> QED
    BY <1>1, <2>5, <2>6, <2>7, <2>8 DEF AttemptFold
<1>15. ASSUME NEW u \in Tasks, NEW i \in Ordinals(l, u)
       PROVE  AttemptFold(m, <<u, i>>) = AttemptFold(l, <<u, i>>)
  <2>1. IsStarted(l, <<u, i>>)
    BY <1>15 DEF IsStarted
  <2>2. <<u, i>> # e.attempt
    BY <1>3, <1>15
  <2>3. NoneNewOf(l, m, PhaseKinds \cup {"attempt_started", "attempt_superseded"}, <<u, i>>)
    BY <2>2, OneMoreAttempt
  <2> QED
    BY <1>1, <2>1, <2>3, AttemptStays
<1>16. Attempts(m) = [Attempts(l) EXCEPT ![t] = Append(@, new)]
  <2> DEFINE f == Attempts(l)[t]
  <2>1. f = [i \in 1..k |-> f[i]] /\ \A i \in 1..k : f[i] = AttemptFold(l, <<t, i>>)
    BY <1>3, AttemptsAre
  <2> HIDE DEF f, new, k
  <2>2. Append(f, new) = [i \in 1..(k + 1) |-> IF i = k + 1 THEN new ELSE f[i]]
    BY <1>3, <2>1, AppendIs
  <2>3. \A i \in 1..(k + 1) : i = k + 1 \/ i \in 1..k
    BY <1>3
  <2>4. \A i \in 1..(k + 1) : AttemptFold(m, <<t, i>>) = IF i = k + 1 THEN new ELSE f[i]
    BY <1>3, <1>14, <1>15, <2>1, <2>3
  <2>5. Attempts(m)[t] = Append(f, new)
    BY <1>3, <1>11, <2>2, <2>4 DEF Attempts
  <2>6. ASSUME NEW u \in Tasks, u # t PROVE Attempts(m)[u] = Attempts(l)[u]
    BY <1>12, <1>15, <2>6 DEF Attempts
  <2>7. /\ Attempts(m) = [u \in Tasks |-> Attempts(m)[u]]
        /\ Attempts(l) = [u \in Tasks |-> Attempts(l)[u]]
    BY DEF Attempts
  <2> QED
    BY <2>5, <2>6, <2>7 DEF f
<1>17. Read(l).lineage = Lineages(l) /\ Read(l).attempts = Attempts(l) /\ Read(m).attempts = Attempts(m)
  BY DEF Read
<1> HIDE DEF n, k, a
<1> QED
  BY <1>4, <1>13, <1>16, <1>17


-----------------------------------------------------------------------------
(* One more record about an Attempt                                        *)

LEMMA PhaseIs ==
  ASSUME NEW l, LogFits(l), NEW a
  PROVE  /\ Phase(l, a) \in {"in_progress", "blocked"} =>
              Fold(l, a, "attempt_completed") = 0 /\ Fold(l, a, "task_cancelled") = 0
         /\ Phase(l, a) = "blocked" => Fold(l, a, "attempt_blocked") > Fold(l, a, "attempt_resumed")
         /\ Phase(l, a) = "in_progress" => ~(Fold(l, a, "attempt_blocked") > Fold(l, a, "attempt_resumed"))
<1>1. PICK c : c = Fold(l, a, "attempt_completed")
  OBVIOUS
<1>2. IsSequence(l)
  BY DEF LogFits
<1>3. c # 0 => c \in 1..Len(l) /\ l[c].kind = "attempt_completed"
  <2>1. c # 0 => c \in Of(l, {"attempt_completed"})
    BY <1>1, <1>2, FoldIs
  <2> QED
    BY <1>2, <2>1, OfIs
<1>4. c # 0 => l[c].outcome \in {"goal_achieved", "goal_failed"}
  BY <1>3 DEF LogFits, RecordIsTyped
<1> DEFINE exhausted == \E i \in Of(l, {"failure_edge_exhausted"}) : l[i].source = a
<1>a. PICK x, b, r : /\ x = Fold(l, a, "task_cancelled") /\ b = Fold(l, a, "attempt_blocked")
                     /\ r = Fold(l, a, "attempt_resumed")
  OBVIOUS
<1>5. Phase(l, a) = IF c # 0 THEN IF exhausted THEN "exhausted" ELSE l[c].outcome
                    ELSE IF x # 0 THEN "cancelled"
                    ELSE IF b > r THEN "blocked"
                    ELSE "in_progress"
  BY <1>1, <1>a, Zenon DEF Phase
<1> HIDE DEF exhausted
<1>6. CASE c # 0
  <2>1. Phase(l, a) = IF exhausted THEN "exhausted" ELSE l[c].outcome
    BY <1>5, <1>6
  <2>2. Phase(l, a) \in {"exhausted", "goal_achieved", "goal_failed"}
    BY <1>4, <1>6, <2>1
  <2> QED
    BY <2>2
<1>7. CASE c = 0 /\ x # 0
  <2>1. Phase(l, a) = "cancelled"
    BY <1>5, <1>7
  <2> QED
    BY <2>1
<1>8. CASE c = 0 /\ x = 0
  <2>1. Phase(l, a) = IF b > r THEN "blocked" ELSE "in_progress"
    BY <1>5, <1>8
  <2> QED
    BY <1>1, <1>a, <1>8, <2>1
<1> QED
  BY <1>6, <1>7, <1>8

\* A record that changes the phase of an Attempt changes nothing of the others.
LEMMA PhaseMoved ==
  ASSUME NEW l, LogFits(l), NEW e, NEW m, Adds(l, e, m), NEW a, IsStarted(l, a),
         \/ e.kind \in PhaseKinds /\ e.attempt = a
         \/ e.kind = "failure_edge_exhausted" /\ e.source = a
  PROVE  Attempts(m) = [Attempts(l) EXCEPT ![a[1]][a[2]].phase = Phase(m, a)]
<1>1. Prefix(l, m) /\ (Len(l) + 1)..Len(m) = {Len(m)} /\ m[Len(m)] = e /\ IsSequence(l) /\ IsSequence(m)
  BY OneMore
<1>2. \A t : Ordinals(m, t) = Ordinals(l, t)
  BY <1>1, OneMoreKind, OrdinalsStay DEF PhaseKinds
<1>3. ASSUME NEW b, IsStarted(l, b), b # a PROVE AttemptFold(m, b) = AttemptFold(l, b)
  <2>1. NoneNewOf(l, m, PhaseKinds \cup {"attempt_started", "attempt_superseded"}, b)
    BY <1>3, OneMoreAttempt DEF PhaseKinds
  <2>2. \A i \in (Len(l) + 1)..Len(m) : m[i].kind = "failure_edge_exhausted" => m[i].source # b
    BY <1>1, <1>3 DEF PhaseKinds
  <2> QED
    BY <1>1, <1>3, <2>1, <2>2, AttemptStays
<1>4. AttemptFold(m, a) = [AttemptFold(l, a) EXCEPT !.phase = Phase(m, a)]
  <2>1. NoneNewOf(l, m, {"attempt_started"}, a) /\ NoneNewOf(l, m, {"attempt_superseded"}, a)
    BY OneMoreAttempt DEF PhaseKinds
  <2>2. Fold(m, a, "attempt_started") = Fold(l, a, "attempt_started")
    BY <1>1, <2>1, FoldStays
  <2>3. Fold(m, a, "attempt_superseded") = Fold(l, a, "attempt_superseded")
    BY <1>1, <2>1, FoldStays
  <2>4. PICK i : i = Fold(l, a, "attempt_started")
    OBVIOUS
  <2>5. i \in 1..Len(l) /\ l[i].lineage \in 1..Len(l)
    BY <2>4, StartIs
  <2>6. m[i] = l[i] /\ Number(m, m[i].lineage) = Number(l, l[i].lineage)
    BY <1>1, <2>5, NumberStays DEF Prefix
  <2> QED
    BY <2>2, <2>3, <2>4, <2>6 DEF AttemptFold
<1>5. PICK t, k : t = a[1] /\ k = a[2]
  OBVIOUS
<1>6. t \in Tasks /\ k \in Ordinals(l, t) /\ a = <<t, k>>
  BY <1>5 DEF IsStarted
<1>7. PICK p : p = Phase(m, a)
  OBVIOUS
<1>8. ASSUME NEW u \in Tasks, NEW i \in Ordinals(l, u)
      PROVE  Attempts(m)[u][i] = IF u = t /\ i = k THEN [Attempts(l)[u][i] EXCEPT !.phase = p]
                                 ELSE Attempts(l)[u][i]
  <2>1. Attempts(m)[u][i] = AttemptFold(m, <<u, i>>) /\ Attempts(l)[u][i] = AttemptFold(l, <<u, i>>)
    BY <1>2 DEF Attempts
  <2>2. CASE u = t /\ i = k
    BY <2>1, <2>2, <1>4, <1>6, <1>7
  <2>3. CASE ~(u = t /\ i = k)
    <3>1. IsStarted(l, <<u, i>>) /\ <<u, i>> # a
      BY <1>6, <2>3 DEF IsStarted
    <3> QED
      BY <1>3, <2>1, <2>3, <3>1
  <2> QED
    BY <2>2, <2>3
<1>9. /\ Attempts(m) = [u \in Tasks |-> Attempts(m)[u]] /\ Attempts(l) = [u \in Tasks |-> Attempts(l)[u]]
      /\ \A u \in Tasks : /\ Attempts(m)[u] = [i \in Ordinals(l, u) |-> Attempts(m)[u][i]]
                          /\ Attempts(l)[u] = [i \in Ordinals(l, u) |-> Attempts(l)[u][i]]
  BY <1>2 DEF Attempts
<1>10. ASSUME NEW u \in Tasks
       PROVE  Attempts(m)[u] = IF u = t THEN [Attempts(l)[t] EXCEPT ![k].phase = p] ELSE Attempts(l)[u]
  <2>1. PICK f, g : f = Attempts(m)[u] /\ g = Attempts(l)[u]
    OBVIOUS
  <2>2. f = [i \in Ordinals(l, u) |-> f[i]] /\ g = [i \in Ordinals(l, u) |-> g[i]]
    BY <1>9, <2>1
  <2>3. \A i \in Ordinals(l, u) :
          f[i] = IF u = t /\ i = k THEN [g[i] EXCEPT !.phase = p] ELSE g[i]
    BY <1>8, <2>1
  <2>4. CASE u = t
    <3>1. f = [g EXCEPT ![k] = [g[k] EXCEPT !.phase = p]]
      BY <1>6, <2>2, <2>3, <2>4
    <3> QED
      BY <2>1, <2>4, <3>1
  <2>5. CASE u # t
    <3>1. f = g
      BY <2>2, <2>3, <2>5
    <3> QED
      BY <2>1, <2>5, <3>1
  <2> QED
    BY <2>4, <2>5
<1>11. Attempts(m) = [Attempts(l) EXCEPT ![t] = [Attempts(l)[t] EXCEPT ![k].phase = p]]
  BY <1>9, <1>10, <1>6
<1> QED
  BY <1>5, <1>6, <1>7, <1>11

\* A record about an Attempt is one that recover() accepts.
LEMMA AttemptEventFits ==
  ASSUME NEW l, LogFits(l), CurrentGraph(l) # << >>, NEW e, NEW m, Adds(l, e, m),
         e.kind \in AttemptKinds \ {"attempt_superseded"}, IsStarted(l, e.attempt),
         Fold(l, e.attempt, "attempt_completed") = 0,
         e.kind = "attempt_completed" => e.outcome \in {"goal_achieved", "goal_failed"}
  PROVE  LogFits(m)
<1> DEFINE n == Len(m)
           a == e.attempt
<1>1. /\ Prefix(l, m) /\ Len(l) \in Nat /\ n = Len(l) + 1 /\ m[n] = e
      /\ (Len(l) + 1)..n = {n}
      /\ n \in 1..(Len(l) + 1) /\ n \in 1..n
      /\ IsSequence(l) /\ IsSequence(m)
  BY OneMore
<1>2. \A kind, b : Earlier(m, n, kind, b) = Earlier(l, n, kind, b)
  BY <1>1, BeforeStays
<1>3. Earlier(l, n, "attempt_started", a) # {}
  <2>1. PICK i : i = Fold(l, a, "attempt_started")
    OBVIOUS
  <2>2. i \in Of(l, {"attempt_started"}) /\ l[i].attempt = a /\ i \in 1..Len(l)
    BY <2>1, StartIs
  <2>3. i < n
    BY <1>1, <2>2
  <2> QED
    BY <2>2, <2>3 DEF Earlier
<1>4. Earlier(l, n, "attempt_completed", a) = {}
  BY <1>1, FoldIs DEF Earlier
<1>5. AttemptEventIsValid(m, n)
  BY <1>1, <1>2, <1>3, <1>4 DEF AttemptEventIsValid
<1>6. RevisionBefore(m, n) # 0
  <2>1. RevisionBefore(m, n) = RevisionBefore(l, n)
    BY <1>1, BeforeStays
  <2>2. RevisionBefore(l, n) = CurrentRevision(l)
    BY <1>1 DEF CurrentRevision
  <2> QED
    BY <2>1, <2>2 DEF CurrentGraph, GraphOf
<1> HIDE DEF n
<1>7. RecordIsValid(m, n)
  BY <1>1, <1>5, <1>6 DEF RecordIsValid, EventFits, AttemptKinds
<1>8. RecordIsTyped(m, n)
  BY <1>1 DEF RecordIsTyped, AttemptKinds, Kinds, LineageKinds, FailureKinds
<1> QED
  BY <1>7, <1>8, OneMoreFits DEF AttemptKinds, n

\* Block, resume and completion.
IsMove(e, a, from, p) ==
  /\ e.attempt = a
  /\ \/ e.kind = "attempt_blocked" /\ from = "in_progress" /\ p = "blocked"
     \/ e.kind = "attempt_resumed" /\ from = "blocked" /\ p = "in_progress"
     \/ /\ e.kind = "attempt_completed" /\ from = "in_progress" /\ p = e.outcome
        /\ e.outcome \in {"goal_achieved", "goal_failed"}

LEMMA MoveRecorded ==
  ASSUME NEW l, LogFits(l), CurrentGraph(l) # << >>, NEW e, NEW m, Adds(l, e, m), NEW a,
         IsStarted(l, a), NEW p, IsMove(e, a, Phase(l, a), p)
  PROVE  /\ LogFits(m) /\ Phase(m, a) = p
         /\ Read(m).revision = Read(l).revision /\ Read(m).graph = Read(l).graph
         /\ Read(m).lineage = Read(l).lineage /\ Read(m).context = Read(l).context
         /\ Read(m).cancelled = Read(l).cancelled /\ Read(m).traversals = Read(l).traversals
         /\ CurrentRevision(m) = CurrentRevision(l)
         /\ CurrentRevision(l) # 0 => m[CurrentRevision(l)] = l[CurrentRevision(l)]
         /\ Read(m).attempts = [Read(l).attempts EXCEPT ![a[1]][a[2]].phase = p]
<1> DEFINE n == Len(m)
<1> USE DEF IsMove
<1>1. /\ Prefix(l, m) /\ Len(l) \in Nat /\ n = Len(l) + 1 /\ m[n] = e
      /\ (Len(l) + 1)..n = {n}
      /\ n \in 1..(Len(l) + 1) /\ n \in 1..n
      /\ IsSequence(l) /\ IsSequence(m)
  BY OneMore
<1>2. Fold(l, a, "attempt_completed") = 0 /\ Fold(l, a, "task_cancelled") = 0
  BY PhaseIs
<1>3. LogFits(m)
  BY <1>2, AttemptEventFits DEF AttemptKinds
<1>4. Fold(m, a, e.kind) = n
  <2>1. Len(m) # 0 /\ m[Len(m)].kind = e.kind /\ m[Len(m)].attempt = a
    BY <1>1
  <2> QED
    BY <1>1, <2>1, FoldIsLast
<1>5. ASSUME NEW kind \in PhaseKinds, kind # e.kind PROVE Fold(m, a, kind) = Fold(l, a, kind)
  <2>1. NoneNewOf(l, m, {kind}, a)
    BY <1>5, OneMoreAttempt
  <2> QED
    BY <1>1, <2>1, FoldStays
<1>6. \A kind : Fold(l, a, kind) \in Nat /\ Fold(l, a, kind) <= Len(l)
  BY <1>1, FoldIs
<1>7. \A i \in Of(m, {"failure_edge_exhausted"}) : m[i].source # a
  <2>1. Of(m, {"failure_edge_exhausted"}) = Of(l, {"failure_edge_exhausted"})
        /\ \A i \in Of(l, {"failure_edge_exhausted"}) : m[i] = l[i]
    BY <1>1, OneMoreKind, OfStays
  <2>2. ASSUME NEW i \in Of(l, {"failure_edge_exhausted"}), l[i].source = a PROVE FALSE
    <3>1. i \in 1..Len(l) /\ l[i].kind = "failure_edge_exhausted"
      BY <1>1, OfIs
    <3>2. FailureEventIsValid(l, i)
      BY <3>1 DEF LogFits, RecordIsValid, EventFits
    <3>3. PICK j \in Of(l, {"attempt_completed"}) : l[j].attempt = a
      BY <2>2, <3>2 DEF FailureEventIsValid, Earlier
    <3>4. \A k \in Of(l, {"attempt_completed"}) : l[k].attempt # a
      <4>1. \A k \in Of(l, {"attempt_completed"}) :
              l[k].attempt = a => k <= Fold(l, a, "attempt_completed")
        BY <1>1, FoldIs
      <4>2. \A k \in Of(l, {"attempt_completed"}) : k \in Nat /\ k # 0
        BY <1>1, OfIs
      <4> QED
        BY <1>2, <4>1, <4>2
    <3> QED
      BY <3>3, <3>4
  <2> QED
    BY <2>1, <2>2
<1>8. Phase(m, a) = p
  <2>1. n # 0 /\ n \in Nat /\ n > Len(l)
    BY <1>1
  <2>2. CASE e.kind = "attempt_blocked"
    <3>1. /\ Fold(m, a, "attempt_completed") = 0 /\ Fold(m, a, "task_cancelled") = 0
          /\ Fold(m, a, "attempt_blocked") > Fold(m, a, "attempt_resumed")
      BY <1>1, <1>2, <1>4, <1>5, <1>6, <2>1, <2>2 DEF PhaseKinds
    <3> QED
      BY <2>2, <3>1 DEF Phase
  <2>3. CASE e.kind = "attempt_resumed"
    <3>1. /\ Fold(m, a, "attempt_completed") = 0 /\ Fold(m, a, "task_cancelled") = 0
          /\ ~(Fold(m, a, "attempt_blocked") > Fold(m, a, "attempt_resumed"))
      BY <1>1, <1>2, <1>4, <1>5, <1>6, <2>1, <2>3 DEF PhaseKinds
    <3> QED
      BY <2>3, <3>1 DEF Phase
  <2>4. CASE e.kind = "attempt_completed"
    <3>1. Fold(m, a, "attempt_completed") = n /\ m[n].outcome = p
      BY <1>1, <1>4, <2>4
    <3>2. Phase(m, a) = IF \E i \in Of(m, {"failure_edge_exhausted"}) : m[i].source = a
                        THEN "exhausted" ELSE m[n].outcome
      <4> HIDE DEF n
      <4> QED
        BY <2>1, <3>1 DEF Phase
    <3> QED
      BY <1>7, <3>1, <3>2
  <2> QED
    BY <2>2, <2>3, <2>4
<1>9. Attempts(m) = [Attempts(l) EXCEPT ![a[1]][a[2]].phase = p]
  BY <1>8, PhaseMoved DEF PhaseKinds
<1>10. Read(m).attempts = [Read(l).attempts EXCEPT ![a[1]][a[2]].phase = p]
  BY <1>9 DEF Read
<1> QED
  BY <1>3, <1>8, <1>10, OneMoreReads

-----------------------------------------------------------------------------
(* What a command records, as it gets into the log                         *)

LEMMA SequenceIsFunction ==
  ASSUME NEW l, IsSequence(l)
  PROVE  l = [i \in 1..Len(l) |-> l[i]]
<1>1. PICK S : l \in Seq(S)
  BY DEF IsSequence
<1> QED
  BY <1>1

LEMMA FunctionIsSequence ==
  ASSUME NEW n \in Nat, NEW f, f = [i \in 1..n |-> f[i]]
  PROVE  IsSequence(f) /\ Len(f) = n
<1> DEFINE S == {f[i] : i \in 1..n}
<1>1. f \in [1..n -> S]
  BY Zenon
<1>2. f \in Seq(S) /\ Len(f) = n
  BY <1>1, SeqDef
<1> HIDE DEF S
<1> QED
  BY <1>2 DEF IsSequence

LEMMA StampedIs ==
  ASSUME NEW s, IsSequence(s), NEW stamp
  PROVE  /\ IsSequence(Stamped(s, stamp)) /\ Len(Stamped(s, stamp)) = Len(s)
         /\ \A i \in 1..Len(s) : Stamped(s, stamp)[i] = WithFields(s[i], stamp)
<1>1. Len(s) \in Nat /\ DOMAIN s = 1..Len(s)
  BY SequenceIs
<1>2. PICK f : f = Stamped(s, stamp)
  OBVIOUS
<1>3. f = [i \in 1..Len(s) |-> WithFields(s[i], stamp)]
  BY <1>1, <1>2 DEF Stamped
<1>4. f = [i \in 1..Len(s) |-> f[i]]
  BY <1>3
<1>5. IsSequence(f) /\ Len(f) = Len(s)
  BY <1>1, <1>4, FunctionIsSequence
<1> QED
  BY <1>2, <1>3, <1>5

LEMMA StampedJoined ==
  ASSUME NEW a, NEW b, NEW stamp, IsSequence(a), IsSequence(b)
  PROVE  Stamped(a \o b, stamp) = Stamped(a, stamp) \o Stamped(b, stamp)
<1>1. PICK f, g, h : f = Stamped(a \o b, stamp) /\ g = Stamped(a, stamp) /\ h = Stamped(b, stamp)
  OBVIOUS
<1>2. PICK c : c = a \o b
  OBVIOUS
<1>3. PICK n, k : n = Len(a) /\ k = Len(b)
  OBVIOUS
<1>4. n \in Nat /\ k \in Nat
  BY <1>3, SequenceIs
<1>5. /\ IsSequence(c) /\ Len(c) = n + k
      /\ \A i \in 1..n : c[i] = a[i]
      /\ \A i \in 1..(n + k) : i \notin 1..n => i - n \in 1..k /\ c[i] = b[i - n]
  BY <1>2, <1>3, Joined
<1> DEFINE st(r) == WithFields(r, stamp)
<1>6. /\ IsSequence(f) /\ Len(f) = n + k /\ \A i \in 1..(n + k) : f[i] = st(c[i])
  <2>1. f = Stamped(c, stamp) /\ IsSequence(c) /\ Len(c) = n + k
    BY <1>1, <1>2, <1>5
  <2>2. /\ IsSequence(Stamped(c, stamp)) /\ Len(Stamped(c, stamp)) = Len(c)
        /\ \A i \in 1..Len(c) : Stamped(c, stamp)[i] = WithFields(c[i], stamp)
    <3> HIDE <1>2
    <3> QED
      BY <2>1, StampedIs
  <2> QED
    BY <2>1, <2>2
<1>7. /\ IsSequence(g) /\ Len(g) = n /\ \A i \in 1..n : g[i] = st(a[i])
  BY <1>1, <1>3, StampedIs
<1>8. /\ IsSequence(h) /\ Len(h) = k /\ \A i \in 1..k : h[i] = st(b[i])
  BY <1>1, <1>3, StampedIs
<1> HIDE DEF st
<1>9. PICK d : d = g \o h
  OBVIOUS
<1>10. /\ IsSequence(d) /\ Len(d) = n + k
       /\ \A i \in 1..n : d[i] = g[i]
       /\ \A i \in 1..(n + k) : i \notin 1..n => i - n \in 1..k /\ d[i] = h[i - n]
  <2>1. /\ IsSequence(g \o h)
        /\ Len(g \o h) = Len(g) + Len(h)
        /\ \A i \in 1..Len(g) : (g \o h)[i] = g[i]
        /\ \A i \in 1..Len(h) : (g \o h)[Len(g) + i] = h[i]
        /\ \A i \in 1..(Len(g) + Len(h)) : i \notin 1..Len(g) =>
             i - Len(g) \in 1..Len(h) /\ (g \o h)[i] = h[i - Len(g)]
    BY <1>7, <1>8, Joined
  <2>2. Len(g) = n /\ Len(h) = k
    BY <1>7, <1>8
  <2> QED
    BY <1>9, <2>1, <2>2
<1>11. ASSUME NEW i \in 1..(n + k) PROVE f[i] = d[i]
  <2>1. CASE i \in 1..n
    BY <1>5, <1>6, <1>7, <1>10, <2>1
  <2>2. CASE i \notin 1..n
    BY <1>5, <1>6, <1>8, <1>10, <2>2
  <2> QED
    BY <2>1, <2>2
<1>12. f = [i \in 1..(n + k) |-> f[i]] /\ d = [i \in 1..(n + k) |-> d[i]]
  BY <1>6, <1>10, SequenceIsFunction
<1>13. f = d
  BY <1>11, <1>12
<1> QED
  BY <1>1, <1>2, <1>9, <1>13

LEMMA NoneStamped == \A stamp : Stamped(<< >>, stamp) = << >>
<1> SUFFICES ASSUME NEW stamp PROVE Stamped(<< >>, stamp) = << >>
  OBVIOUS
<1>1. PICK f : f = Stamped(<< >>, stamp)
  OBVIOUS
<1>2. IsSequence(f) /\ Len(f) = 0
  BY <1>1, NoRecord, StampedIs
<1>3. PICK S : f \in Seq(S)
  BY <1>2 DEF IsSequence
<1>4. f = << >>
  BY <1>2, <1>3, EmptySeq
<1> QED
  BY <1>1, <1>4

\* The stamp leaves the other fields of a record alone.
Stamp(r, e, stamp) ==
  /\ DOMAIN e = DOMAIN r \cup DOMAIN stamp
  /\ \A x \in DOMAIN r : x \notin DOMAIN stamp => e[x] = r[x]
  /\ \A x \in DOMAIN stamp : e[x] = stamp[x]

LEMMA OneStamped ==
  ASSUME NEW l, IsSequence(l), NEW r, NEW stamp
  PROVE  \E e : Stamp(r, e, stamp) /\ Adds(l, e, l \o Stamped(<<r>>, stamp))
<1>1. IsSequence(<<r>>) /\ Len(<<r>>) = 1 /\ <<r>>[1] = r
  BY OneRecord
<1>2. PICK f : f = Stamped(<<r>>, stamp)
  OBVIOUS
<1> DEFINE e == WithFields(r, stamp)
<1>3. IsSequence(f) /\ Len(f) = 1 /\ f[1] = e
  BY <1>1, <1>2, StampedIs
<1>4. Stamp(r, e, stamp)
  BY DEF Stamp, WithFields
<1> HIDE DEF e
<1>5. f = <<e>>
  <2>1. f = [i \in 1..1 |-> f[i]]
    BY <1>3, SequenceIsFunction
  <2>2. <<e>> = [i \in 1..1 |-> e]
    OBVIOUS
  <2>3. \A i \in 1..1 : f[i] = e
    BY <1>3
  <2> QED
    BY <2>1, <2>2, <2>3
<1>6. Adds(l, e, l \o f)
  BY <1>5 DEF Adds
<1> QED
  BY <1>2, <1>4, <1>6

-----------------------------------------------------------------------------
(* What is superseded                                                      *)

\* The log m goes on from l with one event for each Attempt that is stopped.
Stops(l, m, stop) ==
  /\ Prefix(l, m)
  /\ \A i \in (Len(l) + 1)..Len(m) : m[i].kind = "attempt_superseded" /\ m[i].attempt \in stop
  /\ \A a \in stop : \E i \in (Len(l) + 1)..Len(m) : m[i].attempt = a

LEMMA SupersedeStops ==
  ASSUME NEW l, IsSequence(l), NEW stop, IsFiniteSet(stop), \A a \in stop : a[1] \in Nat,
         \A a, b \in stop : a[1] = b[1] => a = b,
         NEW stamp, "kind" \notin DOMAIN stamp, "attempt" \notin DOMAIN stamp
  PROVE  Stops(l, l \o Stamped(Supersede(stop), stamp), stop)
<1>1. PICK n : n = Cardinality(stop)
  OBVIOUS
<1>2. /\ n \in Nat /\ DOMAIN InOrder(stop) = 1..n
      /\ \A i \in 1..n : InOrder(stop)[i] \in stop
      /\ \A a \in stop : \E i \in 1..n : InOrder(stop)[i] = a
  <2>1. /\ Cardinality(stop) \in Nat
        /\ DOMAIN InOrder(stop) = 1..Cardinality(stop)
        /\ \A i \in 1..Cardinality(stop) : InOrder(stop)[i] \in stop
        /\ \A a \in stop : \E i \in 1..Cardinality(stop) : InOrder(stop)[i] = a
    BY InOrderLists
  <2> QED
    BY <1>1, <2>1
<1>3. PICK s : s = Supersede(stop)
  OBVIOUS
<1>4. s = [i \in 1..n |-> [kind |-> "attempt_superseded", attempt |-> InOrder(stop)[i]]]
  BY <1>2, <1>3 DEF Supersede
<1>5. IsSequence(s) /\ Len(s) = n
  <2>1. s = [i \in 1..n |-> s[i]]
    BY <1>4
  <2> HIDE <1>4
  <2> QED
    BY <1>2, <2>1, FunctionIsSequence
<1>6. PICK f : f = Stamped(s, stamp)
  OBVIOUS
<1>7. /\ IsSequence(f) /\ Len(f) = n
      /\ \A i \in 1..n : f[i] = WithFields(s[i], stamp)
  <2>1. /\ IsSequence(Stamped(s, stamp)) /\ Len(Stamped(s, stamp)) = Len(s)
        /\ \A i \in 1..Len(s) : Stamped(s, stamp)[i] = WithFields(s[i], stamp)
    BY <1>5, StampedIs
  <2> QED
    BY <1>5, <1>6, <2>1
<1>8. ASSUME NEW i \in 1..n
      PROVE  f[i].kind = "attempt_superseded" /\ f[i].attempt = InOrder(stop)[i]
  <2>1. PICK x : x = InOrder(stop)[i]
    OBVIOUS
  <2>2. f[i] = WithFields([kind |-> "attempt_superseded", attempt |-> x], stamp)
    BY <1>4, <1>7, <2>1
  <2> QED
    BY <2>1, <2>2 DEF WithFields
<1>9. PICK m : m = l \o f
  OBVIOUS
<1>10. Prefix(l, m)
  BY <1>7, <1>9, JoinedGoesOn
<1>11. PICK k : k = Len(l)
  OBVIOUS
<1>12. k \in Nat /\ Len(m) = k + n
       /\ (\A i \in 1..n : m[k + i] = f[i])
       /\ \A i \in 1..(k + n) : i \notin 1..k => i - k \in 1..n /\ m[i] = f[i - k]
  <2>1. /\ Len(l \o f) = Len(l) + Len(f)
        /\ \A i \in 1..Len(f) : (l \o f)[Len(l) + i] = f[i]
        /\ \A i \in 1..(Len(l) + Len(f)) : i \notin 1..Len(l) =>
             i - Len(l) \in 1..Len(f) /\ (l \o f)[i] = f[i - Len(l)]
    BY <1>7, Joined
  <2>2. Len(l) \in Nat
    BY SequenceIs
  <2> QED
    BY <1>7, <1>9, <1>11, <2>1, <2>2
<1>13. ASSUME NEW i \in (k + 1)..(k + n)
       PROVE  m[i].kind = "attempt_superseded" /\ m[i].attempt \in stop
  <2>1. i \in 1..(k + n) /\ i \notin 1..k
    BY <1>2, <1>12
  <2>2. i - k \in 1..n /\ m[i] = f[i - k]
    BY <1>12, <2>1
  <2> QED
    BY <1>2, <1>8, <2>2
<1>14. ASSUME NEW a \in stop PROVE \E i \in (k + 1)..(k + n) : m[i].attempt = a
  <2>1. PICK i \in 1..n : InOrder(stop)[i] = a
    BY <1>2
  <2>2. k + i \in (k + 1)..(k + n) /\ m[k + i] = f[i]
    BY <1>2, <1>12
  <2> QED
    BY <1>8, <2>1, <2>2
<1>15. Stops(l, m, stop)
  BY <1>10, <1>11, <1>12, <1>13, <1>14 DEF Stops
<1> QED
  BY <1>3, <1>6, <1>9, <1>15

LEMMA StopsRecorded ==
  ASSUME NEW l, LogFits(l), CurrentGraph(l) # << >>, NEW stop, \A a \in stop : IsStarted(l, a),
         NEW m, Stops(l, m, stop)
  PROVE  /\ LogFits(m)
         /\ Read(m).revision = Read(l).revision /\ Read(m).graph = Read(l).graph
         /\ Read(m).lineage = Read(l).lineage /\ Read(m).context = Read(l).context
         /\ Read(m).cancelled = Read(l).cancelled /\ Read(m).traversals = Read(l).traversals
         /\ CurrentRevision(m) = CurrentRevision(l) /\ CurrentGraph(m) = CurrentGraph(l)
         /\ m[CurrentRevision(l)] = l[CurrentRevision(l)]
         /\ Read(m).attempts = Derived!Supersede(Read(l).attempts, stop)
<1>1. /\ Prefix(l, m) /\ IsSequence(l) /\ IsSequence(m) /\ Len(l) \in Nat /\ Len(m) \in Nat
      /\ Len(l) <= Len(m)
  BY SequenceIs DEF Prefix, Stops
<1>2. ASSUME NEW kinds, "attempt_superseded" \notin kinds PROVE NoneNew(l, m, kinds)
  BY <1>2 DEF NoneNew, Stops
<1>3. CurrentRevision(l) # 0
  BY DEF CurrentGraph, GraphOf
<1>4. LogFits(m)
  <2>1. ASSUME NEW i \in (Len(l) + 1)..Len(m)
        PROVE  RecordIsTyped(m, i) /\ RecordIsValid(m, i)
    <3>1. m[i].kind = "attempt_superseded" /\ m[i].attempt \in stop
      BY DEF Stops
    <3>2. RecordIsTyped(m, i)
      BY <3>1 DEF RecordIsTyped, Kinds, AttemptKinds, LineageKinds, FailureKinds
    <3>3. RevisionBefore(m, i) # 0
      <4>1. CurrentRevision(l) \in Revisions(l)
        BY <1>1, <1>3, RevisionBeforeIs DEF CurrentRevision
      <4>2. CurrentRevision(l) \in 1..Len(l) /\ CurrentRevision(l) \in Revisions(m)
        BY <1>1, <4>1, OfIs, OfGrows DEF Revisions
      <4>3. i \in Nat /\ CurrentRevision(l) < i /\ CurrentRevision(l) \in Nat
        BY <1>1, <4>2
      <4>4. CurrentRevision(l) <= RevisionBefore(m, i) /\ RevisionBefore(m, i) \in Nat
        BY <1>1, <4>2, <4>3, RevisionBeforeIs
      <4> QED
        BY <1>3, <4>3, <4>4
    <3>4. Earlier(m, i, "attempt_started", m[i].attempt) # {}
      <4>1. PICK a : a = m[i].attempt
        OBVIOUS
      <4>2. PICK j : j = Fold(l, a, "attempt_started")
        OBVIOUS
      <4>3. j \in Of(l, {"attempt_started"}) /\ l[j].attempt = a /\ j \in 1..Len(l)
        BY <3>1, <4>1, <4>2, StartIs
      <4>4. j \in Of(m, {"attempt_started"}) /\ m[j] = l[j] /\ j < i
        BY <1>1, <4>3, OfGrows
      <4> QED
        BY <4>1, <4>3, <4>4 DEF Earlier
    <3>5. RecordIsValid(m, i)
      BY <3>1, <3>3, <3>4 DEF RecordIsValid, EventFits, AttemptEventIsValid
    <3> QED
      BY <3>2, <3>5
  <2>2. NoneNew(l, m, {"attempt_started"})
    BY <1>2
  <2> QED
    BY <1>1, <2>1, <2>2, GrownFits
<1>5. NoneNew(l, m, {"graph_revision"}) /\ NoneNew(l, m, {"task_cancelled"})
      /\ NoneNew(l, m, {"failure_edge_traversed"}) /\ NoneNew(l, m, {"task_context_updated"})
      /\ NoneNew(l, m, {"attempt_started"})
  BY <1>2
<1>6. /\ Read(m).revision = Read(l).revision /\ Read(m).graph = Read(l).graph
      /\ Read(m).lineage = Read(l).lineage /\ Read(m).context = Read(l).context
      /\ Read(m).cancelled = Read(l).cancelled /\ Read(m).traversals = Read(l).traversals
  BY <1>1, <1>5, ReadStays
<1>7. /\ CurrentRevision(m) = CurrentRevision(l) /\ CurrentGraph(m) = CurrentGraph(l)
      /\ m[CurrentRevision(l)] = l[CurrentRevision(l)]
  BY <1>1, <1>3, <1>5, RevisionStays
<1>8. ASSUME NEW a, IsStarted(l, a)
      PROVE  AttemptFold(m, a) = IF a \in stop THEN [AttemptFold(l, a) EXCEPT !.superseded = TRUE]
                                 ELSE AttemptFold(l, a)
  <2>1. CASE a \notin stop
    <3>1. NoneNewOf(l, m, PhaseKinds \cup {"attempt_started", "attempt_superseded"}, a)
      BY <2>1 DEF NoneNewOf, Stops, PhaseKinds
    <3>2. \A i \in (Len(l) + 1)..Len(m) : m[i].kind = "failure_edge_exhausted" => m[i].source # a
      BY DEF Stops
    <3> QED
      BY <1>1, <1>8, <2>1, <3>1, <3>2, AttemptStays
  <2>2. CASE a \in stop
    <3>1. NoneNewOf(l, m, {"attempt_started"}, a) /\ NoneNewOf(l, m, PhaseKinds, a)
      BY DEF NoneNewOf, Stops, PhaseKinds
    <3>2. Fold(m, a, "attempt_started") = Fold(l, a, "attempt_started")
      BY <1>1, <3>1, FoldStays
    <3>3. \A i \in (Len(l) + 1)..Len(m) : m[i].kind = "failure_edge_exhausted" => m[i].source # a
      BY DEF Stops
    <3>4. Phase(m, a) = Phase(l, a)
      BY <1>1, <3>1, <3>3, PhaseStays
    <3>5. Fold(m, a, "attempt_superseded") # 0
      <4>1. PICK i \in (Len(l) + 1)..Len(m) : m[i].attempt = a
        BY <2>2 DEF Stops
      <4>2. m[i].kind = "attempt_superseded" /\ i \in 1..Len(m) /\ i \in Nat /\ i # 0
        BY <1>1 DEF Stops
      <4>3. i \in Of(m, {"attempt_superseded"})
        BY <1>1, <4>2, OfIs
      <4>4. i <= Fold(m, a, "attempt_superseded")
        BY <1>1, <4>1, <4>3, FoldIs
      <4> QED
        BY <4>2, <4>4
    <3>6. PICK i : i = Fold(l, a, "attempt_started")
      OBVIOUS
    <3>7. i \in 1..Len(l) /\ l[i].lineage \in 1..Len(l)
      BY <1>8, <3>6, StartIs
    <3>8. m[i] = l[i] /\ Number(m, m[i].lineage) = Number(l, l[i].lineage)
      BY <1>1, <3>7, NumberStays DEF Prefix
    <3> QED
      BY <2>2, <3>2, <3>4, <3>5, <3>6, <3>8 DEF AttemptFold
  <2> QED
    BY <2>1, <2>2
<1>9. \A t : Ordinals(m, t) = Ordinals(l, t)
  BY <1>1, <1>5, OrdinalsStay
<1>10. ASSUME NEW t \in Tasks, NEW n \in Ordinals(l, t)
       PROVE  Attempts(m)[t][n] = IF <<t, n>> \in stop THEN [Attempts(l)[t][n] EXCEPT !.superseded = TRUE]
                                  ELSE Attempts(l)[t][n]
  <2>1. Attempts(m)[t][n] = AttemptFold(m, <<t, n>>) /\ Attempts(l)[t][n] = AttemptFold(l, <<t, n>>)
    BY <1>9 DEF Attempts
  <2>2. IsStarted(l, <<t, n>>)
    BY DEF IsStarted
  <2> QED
    BY <1>8, <2>1, <2>2
<1>11. Attempts(m) = Derived!Supersede(Attempts(l), stop)
  <2>1. /\ Attempts(m) = [t \in Tasks |-> Attempts(m)[t]]
        /\ \A t \in Tasks : /\ Attempts(m)[t] = [n \in Ordinals(l, t) |-> Attempts(m)[t][n]]
                            /\ DOMAIN Attempts(l)[t] = Ordinals(l, t)
    BY <1>9 DEF Attempts
  <2>2. ASSUME NEW t \in Tasks
        PROVE  Attempts(m)[t] = [n \in DOMAIN Attempts(l)[t] |->
                                   IF <<t, n>> \in stop THEN [Attempts(l)[t][n] EXCEPT !.superseded = TRUE]
                                   ELSE Attempts(l)[t][n]]
    BY <1>10, <2>1
  <2> QED
    BY <2>1, <2>2 DEF Derived!Supersede
<1> QED
  BY <1>4, <1>6, <1>7, <1>11 DEF Read

\* The log goes on with the revision that it has.
SameRevision(l, m) ==
  /\ Read(m).revision = Read(l).revision /\ Read(m).graph = Read(l).graph
  /\ Read(m).lineage = Read(l).lineage
  /\ CurrentRevision(m) = CurrentRevision(l) /\ CurrentGraph(m) = CurrentGraph(l)
  /\ m[CurrentRevision(l)] = l[CurrentRevision(l)]

LEMMA SameRevisionTwice ==
  ASSUME NEW k, NEW l, NEW m, SameRevision(k, l), SameRevision(l, m)
  PROVE  SameRevision(k, m)
  BY DEF SameRevision

LEMMA OneMoreRevision ==
  ASSUME NEW l, LogFits(l), CurrentGraph(l) # << >>, NEW e, NEW m, Adds(l, e, m),
         e.kind # "graph_revision"
  PROVE  SameRevision(l, m)
<1>1. CurrentRevision(l) # 0
  BY DEF CurrentGraph, GraphOf
<1> QED
  BY <1>1, OneMoreReads DEF SameRevision

\* No failure edge is followed or given up before the Attempt is completed.
LEMMA NotFailed ==
  ASSUME NEW l, LogFits(l), NEW a, Fold(l, a, "attempt_completed") = 0
  PROVE  \A i \in Of(l, FailureKinds) : l[i].source # a
<1>1. IsSequence(l)
  BY DEF LogFits
<1>2. ASSUME NEW i \in Of(l, FailureKinds), l[i].source = a PROVE FALSE
  <2>1. i \in 1..Len(l) /\ l[i].kind \in FailureKinds
    BY <1>1, OfIs
  <2>2. FailureEventIsValid(l, i)
    BY <2>1 DEF LogFits, RecordIsValid, EventFits, FailureKinds
  <2>3. PICK j \in Of(l, {"attempt_completed"}) : l[j].attempt = a
    BY <1>2, <2>2 DEF FailureEventIsValid, Earlier
  <2>4. \A k \in Of(l, {"attempt_completed"}) :
          l[k].attempt = a => k <= Fold(l, a, "attempt_completed")
    BY <1>1, FoldIs
  <2>5. \A k \in Of(l, {"attempt_completed"}) : k \in Nat /\ k # 0
    BY <1>1, OfIs
  <2> QED
    BY <2>3, <2>4, <2>5
<1> QED
  BY <1>2

LEMMA CancelRecorded ==
  ASSUME NEW l, LogFits(l), NEW t \in DOMAIN CurrentGraph(l), NEW e, NEW m, Adds(l, e, m),
         e.kind = "task_cancelled", e.task = t, e.lineage = l[CurrentRevision(l)].lineage[t],
         \/ e.attempt = << >>
         \/ /\ IsStarted(l, e.attempt) /\ e.attempt[1] = t
            /\ Phase(l, e.attempt) \in {"in_progress", "blocked"}
  PROVE  /\ LogFits(m) /\ SameRevision(l, m)
         /\ Read(m).context = Read(l).context /\ Read(m).traversals = Read(l).traversals
         /\ Read(m).cancelled = Read(l).cancelled \cup {<<t, Read(l).lineage[t]>>}
         /\ e.attempt = << >> => Read(m).attempts = Read(l).attempts
         /\ e.attempt # << >> =>
              Read(m).attempts = [Read(l).attempts EXCEPT ![t][e.attempt[2]].phase = "cancelled"]
<1> DEFINE n == Len(m)
           K == {"task_cancelled"}
           a == e.attempt
<1>1. /\ Prefix(l, m) /\ Len(l) \in Nat /\ n = Len(l) + 1 /\ m[n] = e
      /\ (Len(l) + 1)..n = {n}
      /\ n \in 1..(Len(l) + 1) /\ n \in 1..n
      /\ IsSequence(l) /\ IsSequence(m)
  BY OneMore
<1>2. \A kinds : NoneNew(l, m, kinds) <=> e.kind \notin kinds
  BY OneMoreKind
<1>3. CurrentGraph(l) # << >>
  BY NoRecord
<1>4. SameRevision(l, m)
  BY <1>3, OneMoreRevision
<1>5. Read(m).context = Read(l).context /\ Read(m).traversals = Read(l).traversals
  BY OneMoreReads
<1>6. LogFits(m)
  <2>1. e.lineage \in Revisions(l) /\ Revisions(l) \subseteq Revisions(m)
    BY <1>1, CurrentIs, OfGrows DEF Revisions
  <2>2. a # << >> => Earlier(m, n, "attempt_started", a) # {}
    <3>1. SUFFICES ASSUME IsStarted(l, a) PROVE Earlier(m, n, "attempt_started", a) # {}
      OBVIOUS
    <3>2. PICK i : i = Fold(l, a, "attempt_started")
      OBVIOUS
    <3>3. i \in Of(l, {"attempt_started"}) /\ l[i].attempt = a /\ i \in 1..Len(l)
      BY <3>1, <3>2, StartIs
    <3>4. i \in Of(m, {"attempt_started"}) /\ m[i] = l[i] /\ i < n
      BY <1>1, <3>3, OfGrows
    <3> QED
      BY <3>3, <3>4 DEF Earlier
  <2>3. RecordIsTyped(m, n)
    <3> HIDE DEF n
    <3> QED
      BY <1>1, <2>1, <2>2 DEF RecordIsTyped, Kinds, LineageKinds
  <2>4. IsOfLineage(m, n, t) /\ RevisionBefore(m, n) # 0
    <3>1. n \in (Len(l) + 1)..Len(m) /\ NoneNew(l, m, {"graph_revision"}) /\ Prefix(l, m)
      BY <1>1, <1>2
    <3> QED
      BY <1>1, <3>1, NewOfLineage
  <2>5. RecordIsValid(m, n)
    <3> HIDE DEF n
    <3> QED
      BY <1>1, <2>4 DEF RecordIsValid, EventFits
  <2> QED
    BY <2>3, <2>5, OneMoreFits
<1>7. /\ \A i : i \in Of(m, K) <=> i \in Of(l, K) \/ i = n
      /\ \A i \in Of(l, K) : m[i] = l[i] /\ i \in 1..Len(l)
  <2>1. \A i : i \in Of(m, K) <=> i \in 1..n /\ m[i].kind \in K
    BY <1>1, OfIs
  <2>2. \A i : i \in Of(l, K) <=> i \in 1..Len(l) /\ l[i].kind \in K
    BY <1>1, OfIs
  <2>3. \A i \in 1..Len(l) : m[i] = l[i]
    BY <1>1 DEF Prefix
  <2>4. \A i : i \in 1..n <=> i \in 1..Len(l) \/ i = n
    BY <1>1
  <2> HIDE DEF n
  <2> QED
    BY <1>1, <2>1, <2>2, <2>3, <2>4
<1>8. \A i \in Of(l, K) : m[i] = l[i] /\ Number(m, m[i].lineage) = Number(l, l[i].lineage)
  <2>1. ASSUME NEW i \in Of(l, K) PROVE m[i] = l[i] /\ l[i].lineage \in 1..Len(l)
    <3>1. i \in 1..Len(l) /\ l[i].kind = "task_cancelled"
      BY <1>1, OfIs
    <3> QED
      BY <1>7, <3>1, LineageIsPlace DEF LineageKinds
  <2> QED
    BY <1>1, <2>1, NumberStays
<1>9. Number(m, e.lineage) = Lineages(l)[t]
  BY <1>1, CurrentIs, NumberStays
<1>10. Cancellations(m) = Cancellations(l) \cup {<<t, Lineages(l)[t]>>}
  <2> DEFINE say(x, i) == <<x[i].task, Number(x, x[i].lineage)>>
  <2>1. \A i \in Of(l, K) : say(m, i) = say(l, i)
    BY <1>8
  <2>2. say(m, n) = <<t, Lineages(l)[t]>>
    BY <1>1, <1>9
  <2>3. /\ Cancellations(m) = {say(m, i) : i \in Of(m, K)}
        /\ Cancellations(l) = {say(l, i) : i \in Of(l, K)}
    BY DEF Cancellations
  <2> HIDE DEF say, n
  <2> QED
    BY <1>7, <2>1, <2>2, <2>3
<1>11. ASSUME a = << >> PROVE Attempts(m) = Attempts(l)
  <2>1. \A u : Ordinals(m, u) = Ordinals(l, u)
    BY <1>1, <1>2, OrdinalsStay
  <2>2. ASSUME NEW u \in Tasks, NEW i \in Ordinals(l, u)
        PROVE  AttemptFold(m, <<u, i>>) = AttemptFold(l, <<u, i>>)
    <3>1. IsStarted(l, <<u, i>>)
      BY DEF IsStarted
    <3>2. NoneNewOf(l, m, PhaseKinds \cup {"attempt_started", "attempt_superseded"}, <<u, i>>)
      <4>1. <<u, i>> # << >>
        BY PairIs
      <4>2. \A kinds, b : NoneNewOf(l, m, kinds, b) <=> (e.kind \in kinds => e.attempt # b)
        BY OneMoreAttempt
      <4> QED
        BY <1>11, <4>1, <4>2
    <3>3. \A j \in (Len(l) + 1)..Len(m) : m[j].kind = "failure_edge_exhausted" => m[j].source # <<u, i>>
      BY <1>1
    <3> QED
      BY <1>1, <3>1, <3>2, <3>3, AttemptStays
  <2> QED
    BY <2>1, <2>2 DEF Attempts
<1>12. ASSUME a # << >> PROVE Attempts(m) = [Attempts(l) EXCEPT ![t][a[2]].phase = "cancelled"]
  <2>1. IsStarted(l, a) /\ a[1] = t /\ Phase(l, a) \in {"in_progress", "blocked"}
    BY <1>12
  <2>2. Fold(l, a, "attempt_completed") = 0
    BY <2>1, PhaseIs
  <2>3. Fold(m, a, "attempt_completed") = 0
    <3>1. NoneNewOf(l, m, {"attempt_completed"}, a)
      BY OneMoreAttempt
    <3> QED
      BY <1>1, <2>2, <3>1, FoldStays
  <2>4. Fold(m, a, "task_cancelled") = n /\ n # 0
    <3>1. Len(m) # 0 /\ m[Len(m)].kind = "task_cancelled" /\ m[Len(m)].attempt = a
      BY <1>1
    <3> QED
      BY <1>1, <3>1, FoldIsLast
  <2>5. Phase(m, a) = "cancelled"
    <3> HIDE DEF n
    <3> QED
      BY <2>3, <2>4 DEF Phase
  <2>6. Attempts(m) = [Attempts(l) EXCEPT ![a[1]][a[2]].phase = Phase(m, a)]
    <3>1. PICK b : b = a
      OBVIOUS
    <3>2. IsStarted(l, b) /\ e.kind \in PhaseKinds /\ e.attempt = b
      BY <2>1, <3>1 DEF PhaseKinds
    <3>3. Attempts(m) = [Attempts(l) EXCEPT ![b[1]][b[2]].phase = Phase(m, b)]
      BY <3>2, PhaseMoved
    <3> QED
      BY <3>1, <3>3
  <2> QED
    BY <2>1, <2>5, <2>6
<1>13. /\ Read(l).lineage = Lineages(l) /\ Read(l).attempts = Attempts(l) /\ Read(m).attempts = Attempts(m)
       /\ Read(l).cancelled = Cancellations(l) /\ Read(m).cancelled = Cancellations(m)
  BY DEF Read
<1> QED
  BY <1>4, <1>5, <1>6, <1>10, <1>11, <1>12, <1>13

\* The Attempt failed just now, and a failure edge of its Task is about to be
\* followed or given up.
JustFailed(l, a, t) ==
  /\ IsStarted(l, a) /\ a[1] = t /\ t \in DOMAIN CurrentGraph(l)
  /\ \E i \in Of(l, {"attempt_completed"}) : l[i].attempt = a /\ l[i].outcome = "goal_failed"
  /\ \A i \in Of(l, FailureKinds) : l[i].source # a

LEMMA FailureFits ==
  ASSUME NEW l, LogFits(l), NEW e, NEW m, Adds(l, e, m), NEW a, NEW t, JustFailed(l, a, t),
         e.kind \in FailureKinds, e.source = a, e.lineage = l[CurrentRevision(l)].lineage[t],
         e.target = CurrentGraph(l)[t].target,
         e.kind = "failure_edge_exhausted" =>
           e.traversals = TraversalsBefore(l, Len(l) + 1, t, e.lineage),
         e.kind = "failure_edge_traversed" =>
           /\ e.target \in DOMAIN CurrentGraph(l)
           /\ e.targetLineage = l[CurrentRevision(l)].lineage[e.target]
           /\ e.traversal = TraversalsBefore(l, Len(l) + 1, t, e.lineage) + 1
           /\ e.traversal <= CurrentGraph(l)[t].limit
  PROVE  LogFits(m)
<1> DEFINE n == Len(m)
           r == CurrentRevision(l)
<1>1. /\ Prefix(l, m) /\ Len(l) \in Nat /\ n = Len(l) + 1 /\ m[n] = e
      /\ (Len(l) + 1)..n = {n}
      /\ n \in 1..(Len(l) + 1) /\ n \in 1..n
      /\ IsSequence(l) /\ IsSequence(m)
  BY OneMore
<1>2. \A kinds : NoneNew(l, m, kinds) <=> e.kind \notin kinds
  BY OneMoreKind
<1>3. t \in DOMAIN CurrentGraph(l) /\ IsStarted(l, a) /\ a[1] = t
  BY DEF JustFailed
<1>4. /\ e.lineage \in Revisions(l) /\ Revisions(l) \subseteq Revisions(m)
      /\ e.kind = "failure_edge_traversed" => e.targetLineage \in Revisions(l)
  BY <1>1, <1>3, CurrentIs, OfGrows DEF Revisions
<1>5. RecordIsTyped(m, n)
  <2> HIDE DEF n
  <2> QED
    BY <1>1, <1>4 DEF RecordIsTyped, Kinds, LineageKinds, FailureKinds
<1>6. /\ IsOfLineage(m, n, t) /\ RevisionBefore(m, n) = r /\ r # 0 /\ m[r] = l[r]
      /\ CurrentGraph(l) = l[r].graph
  <2>1. n \in (Len(l) + 1)..Len(m) /\ NoneNew(l, m, {"graph_revision"}) /\ Prefix(l, m)
    BY <1>1, <1>2 DEF FailureKinds
  <2> QED
    BY <1>1, <1>3, <2>1, NewOfLineage
<1>7. \E j \in Earlier(m, n, "attempt_completed", a) : m[j].outcome = "goal_failed"
  <2>1. PICK i \in Of(l, {"attempt_completed"}) : l[i].attempt = a /\ l[i].outcome = "goal_failed"
    BY DEF JustFailed
  <2>2. i \in Of(m, {"attempt_completed"}) /\ m[i] = l[i] /\ i \in 1..Len(l)
    BY <1>1, <2>1, OfGrows, OfIs
  <2>3. i < n
    BY <1>1, <2>2
  <2> QED
    BY <2>1, <2>2, <2>3 DEF Earlier
<1>8. \A j \in Of(m, FailureKinds) : j < n => m[j].source # a
  <2>1. \A kinds : {j \in Of(m, kinds) : j < n} = {j \in Of(l, kinds) : j < n}
    BY <1>1, BeforeStays
  <2>2. \A j \in Of(l, FailureKinds) : m[j] = l[j]
    BY <1>1, OfGrows
  <2> QED
    BY <2>1, <2>2 DEF JustFailed
<1>9. TraversalsBefore(m, n, t, e.lineage) = TraversalsBefore(l, Len(l) + 1, t, e.lineage)
  <2>1. \A u, x : TraversalsBefore(m, n, u, x) = TraversalsBefore(l, n, u, x)
    BY <1>1, BeforeStays
  <2> QED
    BY <1>1, <2>1
<1>10. PICK prior : prior = TraversalsBefore(l, Len(l) + 1, t, e.lineage)
  OBVIOUS
<1>11. FailureEventIsValid(m, n)
  <2>1. /\ e.kind = "failure_edge_traversed" =>
             e.targetLineage = l[r].lineage[e.target] /\ e.traversal = prior + 1
             /\ e.traversal <= l[r].graph[t].limit
        /\ e.kind # "failure_edge_traversed" => e.traversals = prior
    BY <1>6, <1>10 DEF FailureKinds
  <2>2. e.target = l[r].graph[t].target
    BY <1>6
  <2> HIDE DEF n, r
  <2> QED
    BY <1>1, <1>3, <1>6, <1>7, <1>8, <1>9, <1>10, <2>1, <2>2 DEF FailureEventIsValid, FailureKinds
<1>12. RecordIsValid(m, n)
  <2> HIDE DEF n, r
  <2> QED
    BY <1>1, <1>6, <1>11 DEF RecordIsValid, EventFits, FailureKinds
<1> QED
  BY <1>5, <1>12, OneMoreFits DEF FailureKinds

LEMMA ExhaustedRecorded ==
  ASSUME NEW l, LogFits(l), NEW e, NEW m, Adds(l, e, m), NEW a, NEW t, JustFailed(l, a, t),
         Fold(l, a, "attempt_completed") # 0,
         e.kind = "failure_edge_exhausted", e.source = a,
         e.lineage = l[CurrentRevision(l)].lineage[t], e.target = CurrentGraph(l)[t].target,
         e.traversals = TraversalsBefore(l, Len(l) + 1, t, e.lineage)
  PROVE  /\ LogFits(m) /\ SameRevision(l, m)
         /\ Read(m).context = Read(l).context /\ Read(m).traversals = Read(l).traversals
         /\ Read(m).cancelled = Read(l).cancelled
         /\ Read(m).attempts = [Read(l).attempts EXCEPT ![t][a[2]].phase = "exhausted"]
<1>1. /\ Prefix(l, m) /\ Len(l) \in Nat /\ Len(m) \in 1..Len(m) /\ m[Len(m)] = e
      /\ IsSequence(l) /\ IsSequence(m)
  BY OneMore
<1>2. LogFits(m)
  BY FailureFits DEF FailureKinds
<1>3. t \in DOMAIN CurrentGraph(l) /\ IsStarted(l, a) /\ a[1] = t
  BY DEF JustFailed
<1>4. SameRevision(l, m)
  BY <1>3, NoRecord, OneMoreRevision
<1>5. Phase(m, a) = "exhausted"
  <2>1. NoneNewOf(l, m, {"attempt_completed"}, a)
    BY OneMoreAttempt
  <2>2. Fold(m, a, "attempt_completed") # 0
    BY <1>1, <2>1, FoldStays
  <2>3. Len(m) \in Of(m, {"failure_edge_exhausted"})
    BY <1>1, OfIs
  <2> QED
    BY <1>1, <2>2, <2>3 DEF Phase
<1>6. Attempts(m) = [Attempts(l) EXCEPT ![a[1]][a[2]].phase = Phase(m, a)]
  <2>1. PICK b : b = a
    OBVIOUS
  <2>2. IsStarted(l, b) /\ e.kind = "failure_edge_exhausted" /\ e.source = b
    BY <1>3, <2>1
  <2>3. Attempts(m) = [Attempts(l) EXCEPT ![b[1]][b[2]].phase = Phase(m, b)]
    BY <2>2, PhaseMoved
  <2> QED
    BY <2>1, <2>3
<1>7. Attempts(m) = [Attempts(l) EXCEPT ![t][a[2]].phase = "exhausted"]
  BY <1>3, <1>5, <1>6
<1>8. Read(l).attempts = Attempts(l) /\ Read(m).attempts = Attempts(m)
  BY DEF Read
<1> QED
  BY <1>2, <1>4, <1>7, <1>8, OneMoreReads

LEMMA TraversalRecorded ==
  ASSUME NEW l, LogFits(l), NEW e, NEW m, Adds(l, e, m), NEW a, NEW t, JustFailed(l, a, t),
         e.kind = "failure_edge_traversed", e.source = a,
         e.lineage = l[CurrentRevision(l)].lineage[t], e.target = CurrentGraph(l)[t].target,
         e.target \in DOMAIN CurrentGraph(l),
         e.targetLineage = l[CurrentRevision(l)].lineage[e.target],
         e.traversal = TraversalsBefore(l, Len(l) + 1, t, e.lineage) + 1,
         e.traversal <= CurrentGraph(l)[t].limit
  PROVE  /\ LogFits(m) /\ SameRevision(l, m)
         /\ Read(m).context = Read(l).context /\ Read(m).attempts = Read(l).attempts
         /\ Read(m).cancelled = Read(l).cancelled
         /\ Read(m).traversals = Read(l).traversals \cup
              {[source |-> t, sourceLineage |-> Read(l).lineage[t], target |-> e.target,
                targetLineage |-> Read(l).lineage[e.target], nth |-> e.traversal]}
<1> DEFINE n == Len(m)
           K == {"failure_edge_traversed"}
<1>1. /\ Prefix(l, m) /\ Len(l) \in Nat /\ n = Len(l) + 1 /\ m[n] = e
      /\ n \in 1..n /\ IsSequence(l) /\ IsSequence(m)
  BY OneMore
<1>2. LogFits(m)
  BY FailureFits DEF FailureKinds
<1>3. t \in DOMAIN CurrentGraph(l) /\ IsStarted(l, a) /\ a[1] = t
  BY DEF JustFailed
<1>4. SameRevision(l, m)
  BY <1>3, NoRecord, OneMoreRevision
<1>5. /\ Read(m).context = Read(l).context /\ Read(m).attempts = Read(l).attempts
      /\ Read(m).cancelled = Read(l).cancelled
  BY OneMoreReads DEF AttemptsKinds, PhaseKinds
<1>7. /\ \A i : i \in Of(m, K) <=> i \in Of(l, K) \/ i = n
      /\ \A i \in Of(l, K) : m[i] = l[i] /\ i \in 1..Len(l)
  <2>1. \A i : i \in Of(m, K) <=> i \in 1..n /\ m[i].kind \in K
    BY <1>1, OfIs
  <2>2. \A i : i \in Of(l, K) <=> i \in 1..Len(l) /\ l[i].kind \in K
    BY <1>1, OfIs
  <2>3. \A i \in 1..Len(l) : m[i] = l[i]
    BY <1>1 DEF Prefix
  <2>4. \A i : i \in 1..n <=> i \in 1..Len(l) \/ i = n
    BY <1>1
  <2> HIDE DEF n
  <2> QED
    BY <1>1, <2>1, <2>2, <2>3, <2>4
<1>8. ASSUME NEW i \in Of(l, K)
      PROVE  /\ m[i] = l[i] /\ Number(m, m[i].lineage) = Number(l, l[i].lineage)
             /\ Number(m, m[i].targetLineage) = Number(l, l[i].targetLineage)
  <2>1. i \in 1..Len(l) /\ l[i].kind = "failure_edge_traversed"
    BY <1>1, OfIs
  <2>2. l[i].lineage \in 1..Len(l) /\ l[i].targetLineage \in 1..Len(l)
    BY <2>1, LineageIsPlace DEF LineageKinds, FailureKinds
  <2> QED
    BY <1>1, <1>7, <2>2, NumberStays
<1>9. /\ Number(m, e.lineage) = Lineages(l)[t]
      /\ Number(m, e.targetLineage) = Lineages(l)[e.target]
  BY <1>1, <1>3, CurrentIs, NumberStays
<1>10. Traversed(m) = Traversed(l) \cup
         {[source |-> t, sourceLineage |-> Lineages(l)[t], target |-> e.target,
           targetLineage |-> Lineages(l)[e.target], nth |-> e.traversal]}
  <2> DEFINE say(x, i) == [source |-> x[i].source[1], sourceLineage |-> Number(x, x[i].lineage),
                           target |-> x[i].target, targetLineage |-> Number(x, x[i].targetLineage),
                           nth |-> x[i].traversal]
             new == [source |-> t, sourceLineage |-> Lineages(l)[t], target |-> e.target,
                     targetLineage |-> Lineages(l)[e.target], nth |-> e.traversal]
  <2>1. \A i \in Of(l, K) : say(m, i) = say(l, i)
    BY <1>8
  <2>2. say(m, n) = new
    BY <1>1, <1>3, <1>9
  <2>3. /\ Traversed(m) = {say(m, i) : i \in Of(m, K)}
        /\ Traversed(l) = {say(l, i) : i \in Of(l, K)}
    BY DEF Traversed
  <2> HIDE DEF say, n, new
  <2>4. Traversed(m) = Traversed(l) \cup {new}
    BY <1>7, <2>1, <2>2, <2>3
  <2> QED
    BY <2>4 DEF new
<1>11. /\ Read(l).lineage = Lineages(l)
       /\ Read(l).traversals = Traversed(l) /\ Read(m).traversals = Traversed(m)
  BY DEF Read
<1> QED
  BY <1>2, <1>4, <1>5, <1>10, <1>11

\* The number of a revision is told by its place.
LEMMA NumberIs ==
  ASSUME NEW l, IsSequence(l), NEW i \in Revisions(l), NEW j \in Revisions(l),
         Number(l, i) = Number(l, j)
  PROVE  i = j
<1>1. Revisions(l) \in SUBSET Nat /\ IsFiniteSet(Revisions(l))
  BY OfIs DEF Revisions
<1>2. ASSUME NEW x \in Revisions(l), NEW y \in Revisions(l), x < y
      PROVE  Number(l, x) # Number(l, y)
  <2> DEFINE upTo(z) == {k \in Revisions(l) : k <= z}
  <2>1. /\ upTo(x) \in SUBSET upTo(y) /\ y \in upTo(y) /\ y \notin upTo(x)
        /\ upTo(y) \in SUBSET Revisions(l)
        /\ Number(l, x) = Cardinality(upTo(x)) /\ Number(l, y) = Cardinality(upTo(y))
    BY <1>1, <1>2 DEF Number, Revisions
  <2> HIDE DEF upTo
  <2> QED
    BY <1>1, <2>1, FS_Subset
<1>3. i \in Nat /\ j \in Nat
  BY <1>1
<1>4. ~(i < j) /\ ~(j < i)
  BY <1>2
<1> QED
  BY <1>3, <1>4

\* What TaskGraph counts in its set of traversals, the log counts in its events.
LEMMA TraversalsAreCounted ==
  ASSUME NEW l, LogFits(l), NEW t, NEW x \in Revisions(l)
  PROVE  TraversalsBefore(l, Len(l) + 1, t, x)
           = Cardinality({y \in Traversed(l) : y.source = t /\ y.sourceLineage = Number(l, x)})
<1> DEFINE K == {"failure_edge_traversed"}
           P == {j \in Of(l, K) : l[j].source[1] = t /\ l[j].lineage = x}
           Q == {y \in Traversed(l) : y.source = t /\ y.sourceLineage = Number(l, x)}
           say(i) == [source |-> l[i].source[1], sourceLineage |-> Number(l, l[i].lineage),
                      target |-> l[i].target, targetLineage |-> Number(l, l[i].targetLineage),
                      nth |-> l[i].traversal]
           f == [j \in P |-> say(j)]
<1>1. IsSequence(l) /\ Len(l) \in Nat
  BY SequenceIs DEF LogFits
<1>2. /\ Of(l, K) \in SUBSET Nat /\ IsFiniteSet(Of(l, K))
      /\ \A i \in Of(l, K) : i \in 1..Len(l) /\ l[i].kind = "failure_edge_traversed" /\ i < Len(l) + 1
  <2>1. /\ Of(l, K) \in SUBSET Nat /\ IsFiniteSet(Of(l, K))
        /\ \A i : i \in Of(l, K) <=> i \in 1..Len(l) /\ l[i].kind \in K
    BY <1>1, OfIs
  <2> QED
    BY <1>1, <2>1
<1>3. TraversalsBefore(l, Len(l) + 1, t, x) = Cardinality(P)
  <2>1. P = {j \in Of(l, K) : j < Len(l) + 1 /\ l[j].source[1] = t /\ l[j].lineage = x}
    BY <1>2
  <2> QED
    BY <2>1 DEF TraversalsBefore
<1>4. IsFiniteSet(P)
  <2>1. P \in SUBSET Of(l, K)
    OBVIOUS
  <2> HIDE DEF P
  <2> QED
    BY <1>2, <2>1, FS_Subset
<1>5. Traversed(l) = {say(i) : i \in Of(l, K)}
  BY DEF Traversed
<1>6. \A i : /\ say(i).source = l[i].source[1] /\ say(i).sourceLineage = Number(l, l[i].lineage)
             /\ say(i).nth = l[i].traversal
  OBVIOUS
<1> HIDE DEF say
<1>7. ASSUME NEW j \in P, NEW k \in P, j < k PROVE say(j) # say(k)
  <2> DEFINE upTo(z) == {i \in Of(l, K) : i < z /\ l[i].source[1] = t /\ l[i].lineage = x}
  <2>1. ASSUME NEW i \in P PROVE l[i].traversal = Cardinality(upTo(i)) + 1
    <3>1. i \in 1..Len(l) /\ l[i].kind = "failure_edge_traversed"
      BY <1>2
    <3>2. FailureEventIsValid(l, i)
      BY <3>1 DEF LogFits, RecordIsValid, EventFits
    <3>3. l[i].traversal = TraversalsBefore(l, i, l[i].source[1], l[i].lineage) + 1
      BY <3>1, <3>2 DEF FailureEventIsValid
    <3> QED
      BY <3>3 DEF TraversalsBefore
  <2>2. /\ upTo(j) \in SUBSET upTo(k) /\ j \in upTo(k) /\ j \notin upTo(j)
        /\ upTo(k) \in SUBSET Of(l, K) /\ upTo(j) \in SUBSET Of(l, K)
    BY <1>2, <1>7
  <2> HIDE DEF upTo, P
  <2>3. IsFiniteSet(upTo(j)) /\ IsFiniteSet(upTo(k))
    BY <1>2, <2>2, FS_Subset
  <2>4. Cardinality(upTo(j)) # Cardinality(upTo(k))
    BY <2>2, <2>3, FS_Subset
  <2>5. Cardinality(upTo(j)) \in Nat /\ Cardinality(upTo(k)) \in Nat
    BY <2>3, FS_CardinalityType
  <2>6. l[j].traversal # l[k].traversal
    BY <2>1, <2>4, <2>5
  <2> QED
    BY <1>6, <2>6
<1>8. f \in [P -> Q] /\ \A j \in P : f[j] = say(j)
  BY <1>5, <1>6
<1>9. ASSUME NEW j \in P, NEW k \in P, f[j] = f[k] PROVE j = k
  <2>1. j \in Nat /\ k \in Nat
    BY <1>2
  <2>2. ~(j < k) /\ ~(k < j)
    BY <1>7, <1>8, <1>9
  <2> QED
    BY <2>1, <2>2
<1>10. ASSUME NEW y \in Q PROVE \E j \in P : f[j] = y
  <2>1. PICK j \in Of(l, K) : y = say(j)
    BY <1>5
  <2>2. l[j].source[1] = t /\ Number(l, l[j].lineage) = Number(l, x)
    BY <1>6, <2>1
  <2>3. l[j].lineage \in Revisions(l)
    BY <1>2 DEF LogFits, RecordIsTyped, LineageKinds, FailureKinds
  <2>4. l[j].lineage = x
    BY <1>1, <2>2, <2>3, NumberIs
  <2>5. j \in P
    BY <2>2, <2>4
  <2> QED
    BY <1>8, <2>1, <2>5
<1> HIDE DEF f, P, Q
<1>11. f \in Injection(P, Q) /\ f \in Surjection(P, Q)
  BY <1>8, <1>9, <1>10, Zenon DEF Injection, IsInjective, Surjection
<1>12. f \in Bijection(P, Q)
  BY <1>11 DEF Bijection
<1>13. Cardinality(P) = Cardinality(Q)
  BY <1>4, <1>12, FS_Bijection DEF ExistsBijection
<1> QED
  BY <1>3, <1>13 DEF Q

\* A complete graph, with the lineages that its Tasks have from then on.
LEMMA RevisionRecorded ==
  ASSUME NEW l, LogFits(l), NEW e, NEW m, Adds(l, e, m), NEW g,
         e.kind = "graph_revision", e.graph = g, Derived!IsGraph(g), Derived!ValidGraph(g),
         \A t \in DOMAIN g :
           e.lineage[t] = IF t \in DOMAIN CurrentGraph(l) /\ CurrentGraph(l)[t] = g[t]
                          THEN l[CurrentRevision(l)].lineage[t] ELSE Len(l) + 1
  PROVE  /\ LogFits(m)
         /\ CurrentRevision(m) = Len(m) /\ CurrentGraph(m) = g
         /\ Read(m).revision = Read(l).revision + 1 /\ Read(l).revision \in Nat
         /\ Read(m).graph = g
         /\ Read(m).lineage = [t \in Tasks |->
              IF t \notin DOMAIN g THEN 0
              ELSE IF t \in DOMAIN Read(l).graph /\ Read(l).graph[t] = g[t] THEN Read(l).lineage[t]
              ELSE Read(l).revision + 1]
         /\ Read(m).attempts = Read(l).attempts /\ Read(m).context = Read(l).context
         /\ Read(m).cancelled = Read(l).cancelled /\ Read(m).traversals = Read(l).traversals
<1> DEFINE n == Len(m)
           r == CurrentRevision(l)
<1>1. /\ Prefix(l, m) /\ Len(l) \in Nat /\ n = Len(l) + 1 /\ m[n] = e
      /\ (Len(l) + 1)..n = {n}
      /\ n \in 1..(Len(l) + 1) /\ n \in 1..n
      /\ IsSequence(l) /\ IsSequence(m)
  BY OneMore
<1>2. \A kinds : NoneNew(l, m, kinds) <=> e.kind \notin kinds
  BY OneMoreKind
<1>3. DOMAIN g \subseteq Tasks
  BY DEF Derived!IsGraph
<1>4. /\ Revisions(m) = Revisions(l) \cup {n} /\ n \notin Revisions(l)
      /\ \A i \in Revisions(l) : i \in Nat /\ i \in 1..Len(l) /\ i < n
  <2>1. \A i : i \in Revisions(m) <=> i \in 1..n /\ m[i].kind = "graph_revision"
    BY <1>1, OfIs DEF Revisions
  <2>2. \A i : i \in Revisions(l) <=> i \in 1..Len(l) /\ l[i].kind = "graph_revision"
    BY <1>1, OfIs DEF Revisions
  <2>3. \A i \in 1..Len(l) : m[i] = l[i] /\ i \in Nat /\ i < n
    BY <1>1 DEF Prefix
  <2>4. \A i : i \in 1..n <=> i \in 1..Len(l) \/ i = n
    BY <1>1
  <2> HIDE DEF n
  <2> QED
    BY <1>1, <2>1, <2>2, <2>3, <2>4
<1>5. RevisionBefore(m, n) = r
  <2>1. RevisionBefore(m, n) = RevisionBefore(l, n)
    BY <1>1, BeforeStays
  <2> QED
    BY <1>1, <2>1 DEF CurrentRevision
<1>6. ASSUME NEW t \in DOMAIN CurrentGraph(l)
      PROVE  /\ r # 0 /\ m[r] = l[r] /\ GraphOf(m, r) = CurrentGraph(l) /\ CurrentGraph(l) = l[r].graph
             /\ l[r].lineage[t] \in Revisions(l) /\ l[r].lineage[t] \in 1..Len(l)
             /\ t \in Tasks => Lineages(l)[t] = Number(l, l[r].lineage[t])
  <2>1. /\ r # 0 /\ r \in 1..Len(l) /\ CurrentGraph(l) = l[r].graph
        /\ l[r].lineage[t] \in Revisions(l) /\ l[r].lineage[t] \in 1..Len(l)
        /\ Lineages(l)[t] = Number(l, l[r].lineage[t])
    BY CurrentIs
  <2>2. m[r] = l[r]
    BY <1>1, <2>1 DEF Prefix
  <2> QED
    BY <2>1, <2>2 DEF GraphOf
<1>7. ASSUME NEW t \in DOMAIN g PROVE e.lineage[t] \in Revisions(m)
  BY <1>1, <1>4, <1>6
<1>8. RecordIsTyped(m, n)
  <2> HIDE DEF n
  <2> QED
    BY <1>1, <1>7 DEF RecordIsTyped, Kinds, AttemptKinds, LineageKinds, FailureKinds
<1>9. RecordIsValid(m, n)
  <2>1. r = 0 => DOMAIN GraphOf(m, r) = {} /\ DOMAIN CurrentGraph(l) = {}
    BY NoRecord DEF GraphOf, CurrentGraph
  <2>2. r # 0 => m[r] = l[r] /\ GraphOf(m, r) = CurrentGraph(l) /\ CurrentGraph(l) = l[r].graph
    <3>1. r # 0 => r \in Revisions(l)
      BY <1>1, RevisionBeforeIs DEF CurrentRevision
    <3>2. r # 0 => m[r] = l[r]
      BY <1>1, <1>4, <3>1 DEF Prefix
    <3> QED
      BY <3>2 DEF GraphOf, CurrentGraph
  <2>3. ASSUME NEW t \in DOMAIN g
        PROVE  e.lineage[t] = IF t \in DOMAIN GraphOf(m, r) /\ m[r].graph[t] = g[t]
                              THEN m[r].lineage[t] ELSE n
    <3> HIDE DEF n, r
    <3>1. CASE r = 0
      BY <1>1, <2>1, <3>1
    <3>2. CASE r # 0
      BY <1>1, <2>2, <3>2 DEF r
    <3> QED
      BY <3>1, <3>2
  <2>4. RevisionIsValid(m, n)
    <3> HIDE DEF n, r
    <3> QED
      BY <1>1, <1>5, <2>3 DEF RevisionIsValid
  <2> HIDE DEF n
  <2> QED
    BY <1>1, <2>4 DEF RecordIsValid
<1>10. LogFits(m)
  BY <1>8, <1>9, OneMoreFits
<1>11. CurrentRevision(m) = n /\ CurrentGraph(m) = g
  <2>1. n + 1 \in Nat /\ n < n + 1 /\ n \in Nat /\ n # 0
    BY <1>1
  <2>2. n <= RevisionBefore(m, n + 1) /\ RevisionBefore(m, n + 1) \in Nat
    BY <1>1, <1>4, <2>1, RevisionBeforeIs
  <2>3. RevisionBefore(m, n + 1) # 0 => RevisionBefore(m, n + 1) < n + 1
    BY <1>1, <2>1, RevisionBeforeIs
  <2>4. CurrentRevision(m) = n
    <3> HIDE DEF n
    <3>1. RevisionBefore(m, n + 1) = n
      BY <2>1, <2>2, <2>3
    <3> QED
      BY <3>1 DEF CurrentRevision, n
  <2> HIDE DEF n
  <2> QED
    BY <1>1, <2>1, <2>4 DEF CurrentGraph, GraphOf
<1>12. Number(m, n) = Number(l, Len(l)) + 1 /\ Number(l, Len(l)) \in Nat
  <2>1. {j \in Revisions(l) : j <= Len(l)} = Revisions(l) /\ {j \in Revisions(m) : j <= n} = Revisions(m)
    BY <1>1, <1>4
  <2>2. IsFiniteSet(Revisions(l))
    BY <1>1, OfIs DEF Revisions
  <2>3. Cardinality(Revisions(m)) = Cardinality(Revisions(l)) + 1 /\ Cardinality(Revisions(l)) \in Nat
    BY <1>4, <2>2, FS_AddElement, FS_CardinalityType
  <2> QED
    BY <2>1, <2>3 DEF Number, Revisions
<1>13. ASSUME NEW t \in Tasks
       PROVE  Lineages(m)[t] = IF t \notin DOMAIN g THEN 0
                ELSE IF t \in DOMAIN CurrentGraph(l) /\ CurrentGraph(l)[t] = g[t] THEN Lineages(l)[t]
                ELSE Number(l, Len(l)) + 1
  <2>1. Lineages(m)[t] = IF t \in DOMAIN g THEN Number(m, e.lineage[t]) ELSE 0
    <3> HIDE DEF n
    <3> QED
      BY <1>1, <1>11 DEF Lineages
  <2>2. CASE t \in DOMAIN g /\ t \in DOMAIN CurrentGraph(l) /\ CurrentGraph(l)[t] = g[t]
    <3>1. e.lineage[t] = l[r].lineage[t]
      BY <2>2
    <3>2. Number(m, l[r].lineage[t]) = Number(l, l[r].lineage[t])
      BY <1>1, <1>6, <2>2, NumberStays
    <3> QED
      BY <1>6, <2>1, <2>2, <3>1, <3>2
  <2>3. CASE t \in DOMAIN g /\ ~(t \in DOMAIN CurrentGraph(l) /\ CurrentGraph(l)[t] = g[t])
    <3>1. e.lineage[t] = n
      BY <1>1, <2>3
    <3> HIDE DEF n
    <3> QED
      BY <1>12, <2>1, <2>3, <3>1
  <2>4. CASE t \notin DOMAIN g
    BY <2>1, <2>4
  <2> QED
    BY <2>2, <2>3, <2>4
<1>14. /\ Attempts(m) = Attempts(l) /\ Cancellations(m) = Cancellations(l)
       /\ Traversed(m) = Traversed(l) /\ NotedContexts(m) = NotedContexts(l)
  <2>1. /\ NoneNew(l, m, AttemptsKinds) /\ NoneNew(l, m, {"task_cancelled"})
        /\ NoneNew(l, m, {"failure_edge_traversed"}) /\ NoneNew(l, m, {"task_context_updated"})
    BY <1>2 DEF AttemptsKinds, PhaseKinds
  <2> QED
    BY <1>1, <2>1, AttemptsStay, CancellationsStay, TraversedStays, ContextsStay
<1>15. Lineages(m) = [t \in Tasks |->
              IF t \notin DOMAIN g THEN 0
              ELSE IF t \in DOMAIN CurrentGraph(l) /\ CurrentGraph(l)[t] = g[t] THEN Lineages(l)[t]
              ELSE Number(l, Len(l)) + 1]
  <2>1. Lineages(m) = [t \in Tasks |-> Lineages(m)[t]]
    BY DEF Lineages
  <2> QED
    BY <1>13, <2>1
<1>16. /\ Read(m).revision = Number(m, Len(m)) /\ Read(l).revision = Number(l, Len(l))
       /\ Read(m).graph = CurrentGraph(m) /\ Read(l).graph = CurrentGraph(l)
       /\ Read(m).lineage = Lineages(m) /\ Read(l).lineage = Lineages(l)
       /\ Read(m).attempts = Attempts(m) /\ Read(l).attempts = Attempts(l)
       /\ Read(m).cancelled = Cancellations(m) /\ Read(l).cancelled = Cancellations(l)
       /\ Read(m).traversals = Traversed(m) /\ Read(l).traversals = Traversed(l)
       /\ Read(m).context = NotedContexts(m) /\ Read(l).context = NotedContexts(l)
  BY DEF Read
<1> QED
  BY <1>10, <1>11, <1>12, <1>14, <1>15, <1>16

-----------------------------------------------------------------------------
(* What a command leaves                                                   *)

\* The log is one that the commands leave, and derived is what it says.
LogInv ==
  /\ LogFits(log)
  /\ derived = Read(log)
  /\ \A t \in Tasks : DOMAIN derived.attempts[t] \subseteq 1..MaxAttempts

Joins(l, s, m) == m = l \o s

IsStamp(stamp) == DOMAIN stamp = {"operation", "at"}

\* A command that carries a context records it at the end.
Notes(m, t, c, next) ==
  IF c = NoContext THEN next = m
  ELSE \E e : /\ Adds(m, e, next)
              /\ e.kind = "task_context_updated" /\ e.task = t
              /\ e.lineage = LineageOf(t) /\ e.text = c

LEMMA TransitionIs ==
  ASSUME IsSequence(log), NEW transition, NEW t, NEW events, IsSequence(events), NEW traversal,
         NEW c, Transition(transition, t, events, traversal, c)
  PROVE  /\ derived' = Read(log')
         /\ \E stamp, m : /\ IsStamp(stamp) /\ Joins(log, Stamped(events, stamp), m)
                          /\ Notes(m, t, c, log')
<1> DEFINE r == [kind |-> "task_context_updated", task |-> t, lineage |-> LineageOf(t), text |-> c]
           noted == IF c = NoContext THEN << >> ELSE <<r>>
<1>1. Commit(<< >>, events \o noted, Len(noted), transition, t, traversal)
  BY DEF Transition
<1> HIDE DEF noted
<1>2. PICK at : LET operation == Len(receipts) + 1
                    next == log \o Stamped(<< >>, [at |-> at])
                                \o Stamped(events \o noted, [operation |-> operation, at |-> at])
                IN  log' = next /\ derived' = Read(next)
  BY <1>1 DEF Commit
<1>3. derived' = Read(log')
  BY <1>2
<1>4. PICK stamp : stamp = [operation |-> Len(receipts) + 1, at |-> at]
  OBVIOUS
<1>5. IsStamp(stamp)
  BY <1>4 DEF IsStamp
<1>6. log' = (log \o << >>) \o Stamped(events \o noted, stamp)
  BY <1>2, <1>4, NoneStamped
<1>7. log \o << >> = log
  BY JoinedToNone
<1>8. IsSequence(noted)
  <2>1. IsSequence(<<r>>) /\ IsSequence(<< >>)
    BY OneRecord, NoRecord
  <2> QED
    BY <2>1 DEF noted
<1>9. Stamped(events \o noted, stamp) = Stamped(events, stamp) \o Stamped(noted, stamp)
  BY <1>8, StampedJoined
<1>10. IsSequence(Stamped(events, stamp)) /\ IsSequence(Stamped(noted, stamp))
  BY <1>8, StampedIs
<1>11. PICK m : m = log \o Stamped(events, stamp)
  OBVIOUS
<1>12. log' = m \o Stamped(noted, stamp)
  BY <1>6, <1>7, <1>9, <1>10, <1>11, JoinedTwice
<1>13. IsSequence(m)
  BY <1>10, <1>11, Joined
<1>14. Joins(log, Stamped(events, stamp), m)
  BY <1>11 DEF Joins
<1> HIDE <1>11
<1>15. Notes(m, t, c, log')
  <2>1. CASE c = NoContext
    <3>1. Stamped(noted, stamp) = << >>
      BY <2>1, NoneStamped DEF noted
    <3>2. m \o << >> = m
      BY <1>13, JoinedToNone
    <3> QED
      BY <1>12, <2>1, <3>1, <3>2 DEF Notes
  <2>2. CASE c # NoContext
    <3>1. noted = <<r>>
      BY <2>2 DEF noted
    <3> HIDE DEF r
    <3>2. PICK e : Stamp(r, e, stamp) /\ Adds(m, e, m \o Stamped(<<r>>, stamp))
      BY <1>13, OneStamped
    <3>3. Adds(m, e, log')
      BY <1>12, <3>1, <3>2
    <3>4. /\ e.kind = "task_context_updated" /\ e.task = t
          /\ e.lineage = LineageOf(t) /\ e.text = c
      BY <1>5, <3>2 DEF Stamp, IsStamp, r
    <3> QED
      BY <2>2, <3>3, <3>4 DEF Notes
  <2> QED
    BY <2>1, <2>2
<1> QED
  BY <1>3, <1>5, <1>14, <1>15

LEMMA OneEvent ==
  ASSUME NEW l, IsSequence(l), NEW stamp, NEW r, NEW m, Joins(l, Stamped(<<r>>, stamp), m)
  PROVE  \E e : Stamp(r, e, stamp) /\ Adds(l, e, m)
  BY OneStamped DEF Joins

LEMMA FirstEvent ==
  ASSUME NEW l, IsSequence(l), NEW stamp, NEW r, NEW s, IsSequence(s),
         NEW m, Joins(l, Stamped(<<r>> \o s, stamp), m)
  PROVE  \E e, k : /\ Stamp(r, e, stamp) /\ Adds(l, e, k) /\ IsSequence(k)
                   /\ Joins(k, Stamped(s, stamp), m)
<1>a. PICK q : q = <<r>>
  OBVIOUS
<1>1. IsSequence(q)
  BY <1>a, OneRecord
<1>2. Stamped(q \o s, stamp) = Stamped(q, stamp) \o Stamped(s, stamp)
  BY <1>1, StampedJoined
<1>b. PICK f, g : f = Stamped(q, stamp) /\ g = Stamped(s, stamp)
  OBVIOUS
<1>3. IsSequence(f) /\ IsSequence(g)
  BY <1>1, <1>b, StampedIs
<1>c. l \o (f \o g) = (l \o f) \o g
  BY <1>3, JoinedTwice
<1>4. PICK k : k = l \o f
  OBVIOUS
<1>5. m = k \o Stamped(s, stamp)
  BY <1>a, <1>2, <1>b, <1>c, <1>4, Zenon DEF Joins
<1>6. IsSequence(k)
  BY <1>3, <1>4, Joined
<1>7. PICK e : Stamp(r, e, stamp) /\ Adds(l, e, k)
  BY <1>a, <1>b, <1>4, OneStamped
<1> QED
  BY <1>5, <1>6, <1>7 DEF Joins

LEMMA StopEvents ==
  ASSUME NEW l, IsSequence(l), NEW stamp, IsStamp(stamp), NEW stop,
         IsFiniteSet(stop), \A a \in stop : a[1] \in Nat,
         \A a, b \in stop : a[1] = b[1] => a = b,
         NEW m, Joins(l, Stamped(Supersede(stop), stamp), m)
  PROVE  Stops(l, m, stop)
<1>1. "kind" \notin DOMAIN stamp /\ "attempt" \notin DOMAIN stamp
  BY DEF IsStamp
<1> QED
  BY <1>1, SupersedeStops DEF Joins

LEMMA SupersedeIsSequence ==
  ASSUME NEW stop, IsFiniteSet(stop), \A a \in stop : a[1] \in Nat,
         \A a, b \in stop : a[1] = b[1] => a = b
  PROVE  IsSequence(Supersede(stop))
<1>1. PICK n : n = Cardinality(stop)
  OBVIOUS
<1>2. n \in Nat /\ DOMAIN InOrder(stop) = 1..n
  BY <1>1, InOrderLists
<1>3. PICK f : f = Supersede(stop)
  OBVIOUS
<1>4. f = [i \in 1..n |-> [kind |-> "attempt_superseded", attempt |-> InOrder(stop)[i]]]
  BY <1>2, <1>3 DEF Supersede
<1>5. f = [i \in 1..n |-> f[i]]
  BY <1>4
<1> HIDE <1>4
<1> QED
  BY <1>2, <1>3, <1>5, FunctionIsSequence

LEMMA NotesRecorded ==
  ASSUME NEW m, LogFits(m), CurrentGraph(log) # << >>, SameRevision(log, m),
         NEW t \in DOMAIN CurrentGraph(log), NEW c, NEW next, Notes(m, t, c, next)
  PROVE  /\ LogFits(next)
         /\ Read(next).revision = Read(m).revision /\ Read(next).graph = Read(m).graph
         /\ Read(next).lineage = Read(m).lineage /\ Read(next).attempts = Read(m).attempts
         /\ Read(next).cancelled = Read(m).cancelled /\ Read(next).traversals = Read(m).traversals
         /\ Read(next).context = IF c = NoContext THEN Read(m).context
              ELSE [Read(m).context EXCEPT ![t] = [lineage |-> Read(m).lineage[t], text |-> c]]
<1>1. CASE c = NoContext
  BY <1>1 DEF Notes
<1>2. CASE c # NoContext
  <2>1. PICK e : /\ Adds(m, e, next)
                 /\ e.kind = "task_context_updated" /\ e.task = t
                 /\ e.lineage = LineageOf(t) /\ e.text = c
    BY <1>2 DEF Notes
  <2>2. t \in DOMAIN CurrentGraph(m) /\ e.lineage = m[CurrentRevision(m)].lineage[t]
    BY <2>1 DEF SameRevision, LineageOf
  <2>3. /\ LogFits(next)
         /\ Read(next).revision = Read(m).revision /\ Read(next).graph = Read(m).graph
         /\ Read(next).lineage = Read(m).lineage /\ Read(next).attempts = Read(m).attempts
         /\ Read(next).cancelled = Read(m).cancelled /\ Read(next).traversals = Read(m).traversals
         /\ Read(next).context = [Read(m).context EXCEPT
                                 ![t] = [lineage |-> Read(m).lineage[t], text |-> e.text]]
    BY <2>1, <2>2, ContextRecorded
  <2> QED
    BY <1>2, <2>1, <2>3
<1> QED
  BY <1>1, <1>2

-----------------------------------------------------------------------------
(* What derived says of the log                                            *)

LEMMA LogIs ==
  ASSUME LogInv, NEW t \in DOMAIN derived.graph
  PROVE  /\ derived.graph = CurrentGraph(log) /\ CurrentGraph(log) # << >>
         /\ IsSequence(log) /\ t \in Tasks /\ t \in DOMAIN CurrentGraph(log)
         /\ Derived!IsGraph(derived.graph) /\ Derived!ValidGraph(derived.graph)
         /\ LineageOf(t) = log[CurrentRevision(log)].lineage[t]
         /\ LineageOf(t) \in Revisions(log)
         /\ derived.lineage[t] = Number(log, LineageOf(t))
<1>1. /\ derived.graph = CurrentGraph(log) /\ derived.lineage = Lineages(log)
      /\ IsSequence(log) /\ LogFits(log)
  BY DEF LogInv, Read, LogFits
<1>2. CurrentGraph(log) # << >>
  BY <1>1, NoRecord
<1>3. LET r == CurrentRevision(log)
      IN  /\ r # 0 /\ r \in Revisions(log) /\ r \in 1..Len(log)
          /\ CurrentGraph(log) = log[r].graph
          /\ t \in Tasks /\ Derived!IsGraph(CurrentGraph(log))
          /\ log[r].lineage[t] \in Revisions(log)
          /\ Lineages(log)[t] = Number(log, log[r].lineage[t])
  BY <1>1, CurrentIs
<1>4. Derived!ValidGraph(log[CurrentRevision(log)].graph)
  <2>1. log[CurrentRevision(log)].kind = "graph_revision"
    BY <1>1, <1>3, OfIs DEF Revisions
  <2> QED
    BY <1>1, <1>3, <2>1 DEF LogFits, RecordIsValid, RevisionIsValid
<1> QED
  BY <1>1, <1>2, <1>3, <1>4 DEF LineageOf

LEMMA LastIs ==
  ASSUME NEW k \in Nat, NEW S \in SUBSET (1..k), S # {}
  PROVE  Derived!Last(S) \in S
<1>1. S \in SUBSET Nat /\ IsFiniteSet(S) /\ 0 \notin S
  <2>1. IsFiniteSet(1..k)
    BY FS_Interval
  <2>2. IsFiniteSet(S)
    BY <2>1, FS_Subset
  <2> QED
    BY <2>2
<1>2. Latest(S) \in S /\ \A y \in S : y <= Latest(S)
  BY <1>1, LatestIs
<1>3. PICK x : x = Latest(S)
  OBVIOUS
<1>4. x \in S /\ \A y \in S : y <= x
  BY <1>2, <1>3
<1> QED
  BY <1>4, Zenon DEF Derived!Last

LEMMA DerivedAttempts ==
  ASSUME LogInv, NEW t \in Tasks
  PROVE  LET k == Cardinality(Starts(log, t))
         IN  /\ k \in Nat /\ DOMAIN derived.attempts[t] = 1..k
             /\ Len(derived.attempts[t]) = k
             /\ \A n \in 1..k : /\ IsStarted(log, <<t, n>>) /\ n \in 1..MaxAttempts
                                /\ derived.attempts[t][n] = AttemptFold(log, <<t, n>>)
                                /\ derived.attempts[t][n].phase = Phase(log, <<t, n>>)
<1>1. LogFits(log) /\ derived.attempts = Attempts(log) /\ DOMAIN derived.attempts[t] \subseteq 1..MaxAttempts
  BY DEF LogInv, Read
<1>2. PICK k : k = Cardinality(Starts(log, t))
  OBVIOUS
<1>3. PICK f : f = derived.attempts[t]
  OBVIOUS
<1>4. /\ k \in Nat /\ DOMAIN f = 1..k /\ f = [n \in 1..k |-> f[n]]
      /\ \A n \in 1..k : f[n] = AttemptFold(log, <<t, n>>) /\ IsStarted(log, <<t, n>>)
  BY <1>1, <1>2, <1>3, AttemptsAre
<1>5. Len(f) = k
  BY <1>4, FunctionIsSequence
<1>6. \A n \in 1..k : n \in 1..MaxAttempts
  BY <1>1, <1>3, <1>4
<1>7. \A n \in 1..k : f[n].phase = Phase(log, <<t, n>>)
  BY <1>4 DEF AttemptFold
<1> QED
  BY <1>2, <1>3, <1>4, <1>5, <1>6, <1>7

\* The current Attempt of a Task is one of the log, in the same phase.
LEMMA CurrentIsStarted ==
  ASSUME LogInv, NEW t \in DOMAIN derived.graph, NEW A, NEW phases, Derived!In(t, phases, A),
         NEW n, n = Derived!Last(Derived!Activation(t, A))
  PROVE  /\ IsStarted(log, <<t, n>>) /\ Phase(log, <<t, n>>) \in phases
         /\ n \in DOMAIN derived.attempts[t] /\ n \in 1..MaxAttempts
         /\ derived.attempts[t][n].phase = Phase(log, <<t, n>>)
<1>1. t \in Tasks
  BY LogIs
<1>2. PICK k : k = Cardinality(Starts(log, t))
  OBVIOUS
<1>3. /\ k \in Nat /\ DOMAIN derived.attempts[t] = 1..k
      /\ \A i \in 1..k : /\ IsStarted(log, <<t, i>>) /\ i \in 1..MaxAttempts
                         /\ derived.attempts[t][i].phase = Phase(log, <<t, i>>)
  BY <1>1, <1>2, DerivedAttempts
<1>4. PICK S : S = Derived!Activation(t, A)
  OBVIOUS
<1>5. S \in SUBSET DOMAIN derived.attempts[t]
  BY <1>4 DEF Derived!Activation
<1>6. S # {} /\ derived.attempts[t][Derived!Last(S)].phase \in phases
  BY <1>4 DEF Derived!In
<1>7. n \in S
  BY <1>3, <1>4, <1>5, <1>6, LastIs
<1>8. derived.attempts[t][n].phase \in phases
  BY <1>4, <1>6
<1> QED
  BY <1>3, <1>5, <1>7, <1>8

LEMMA CountedAlike == \A S : Derived!Cardinality(S) = Cardinality(S)
  BY DEF Cardinality, Derived!Cardinality, IsFiniteSet, Derived!IsFiniteSet

LEMMA PriorIs ==
  ASSUME LogInv, NEW t \in DOMAIN derived.graph
  PROVE  Derived!PriorTraversals(t) = TraversalsBefore(log, Len(log) + 1, t, LineageOf(t))
<1>1. /\ LogFits(log) /\ derived.traversals = Traversed(log)
      /\ derived.lineage[t] = Number(log, LineageOf(t)) /\ LineageOf(t) \in Revisions(log)
  BY LogIs DEF LogInv, Read
<1>2. PICK x : x = LineageOf(t)
  OBVIOUS
<1>3. PICK l : l = log
  OBVIOUS
<1>4. TraversalsBefore(l, Len(l) + 1, t, x)
           = Cardinality({y \in Traversed(l) : y.source = t /\ y.sourceLineage = Number(l, x)})
  BY <1>1, <1>2, <1>3, TraversalsAreCounted
<1>5. PICK Q : Q = {y \in derived.traversals : y.source = t /\ y.sourceLineage = derived.lineage[t]}
  OBVIOUS
<1>6. Derived!PriorTraversals(t) = Cardinality(Q)
  BY <1>5, CountedAlike DEF Derived!PriorTraversals
<1>7. Q = {y \in Traversed(l) : y.source = t /\ y.sourceLineage = Number(l, x)}
  BY <1>1, <1>2, <1>3, <1>5
<1> QED
  BY <1>2, <1>3, <1>4, <1>6, <1>7

LEMMA StartedStays ==
  ASSUME NEW l, NEW m, Prefix(l, m), NEW a, IsStarted(l, a)
  PROVE  IsStarted(m, a)
<1>1. PICK i \in Of(l, {"attempt_started"}) : l[i].attempt[1] = a[1] /\ l[i].attempt[2] = a[2]
  BY DEF IsStarted, Ordinals, Starts
<1>2. i \in Of(m, {"attempt_started"}) /\ m[i] = l[i]
  BY OfGrows
<1> QED
  BY <1>1, <1>2 DEF IsStarted, Ordinals, Starts

LEMMA PairsAreFew ==
  ASSUME NEW S \in SUBSET (Tasks \X (1..MaxAttempts))
  PROVE  IsFiniteSet(S) /\ \A a \in S : a[1] \in Nat
<1>1. IsFiniteSet(Tasks) /\ IsFiniteSet(1..MaxAttempts) /\ Tasks \subseteq Nat
  BY GraphAssumption, FS_Interval
<1>2. IsFiniteSet(Tasks \X (1..MaxAttempts))
  BY <1>1, FS_Product
<1> QED
  BY <1>1, <1>2, FS_Subset

\* At most one Attempt of each Task is stopped.
LEMMA StandingIs ==
  ASSUME LogInv, NEW S \in SUBSET Tasks, NEW A,
         NEW stop \in SUBSET Derived!StandingIds(S, A)
  PROVE  /\ IsFiniteSet(stop) /\ \A a \in stop : a[1] \in Nat /\ IsStarted(log, a)
         /\ \A a, b \in stop : a[1] = b[1] => a = b
<1>1. \A a \in stop : a \in S \X (1..MaxAttempts) /\ a[2] \in Derived!Standing(a[1], A)
  BY DEF Derived!StandingIds
<1>2. stop \in SUBSET (Tasks \X (1..MaxAttempts))
  BY <1>1
<1>3. ASSUME NEW a \in stop PROVE IsStarted(log, a)
  <2>1. PICK t \in Tasks, n \in 1..MaxAttempts : a = <<t, n>>
    BY <1>2
  <2>2. n \in Derived!Standing(t, A)
    BY <1>1, <2>1
  <2>3. PICK k : k = Cardinality(Starts(log, t))
    OBVIOUS
  <2>4. /\ k \in Nat /\ DOMAIN derived.attempts[t] = 1..k
        /\ \A i \in 1..k : IsStarted(log, <<t, i>>)
    BY <2>3, DerivedAttempts
  <2>5. PICK P, Q : P = Derived!Active(t) /\ Q = Derived!Activation(t, A)
    OBVIOUS
  <2>6. P \in SUBSET (1..k) /\ Q \in SUBSET (1..k)
    BY <2>4, <2>5 DEF Derived!Active, Derived!Activation
  <2>7. (P # {} /\ n = Derived!Last(P)) \/ (Q # {} /\ n = Derived!Last(Q))
    BY <2>2, <2>5 DEF Derived!Standing
  <2>8. n \in 1..k
    BY <2>4, <2>6, <2>7, LastIs
  <2> QED
    BY <2>1, <2>4, <2>8
<1>4. ASSUME NEW a \in stop, NEW b \in stop, a[1] = b[1] PROVE a = b
  <2>1. a[2] \in Derived!Standing(a[1], A) /\ b[2] \in Derived!Standing(a[1], A)
    BY <1>1, <1>4
  <2>2. a[2] = b[2]
    BY <2>1 DEF Derived!Standing
  <2> QED
    BY <1>2, <1>4, <2>2
<1> QED
  BY <1>2, <1>3, <1>4, PairsAreFew

-----------------------------------------------------------------------------
(* The commands are those of TaskGraph                                     *)

LEMMA TransitionLeaves ==
  ASSUME LogInv, NEW t \in DOMAIN derived.graph, NEW c, NEW m, LogFits(m),
         SameRevision(log, m), Read(m).context = Read(log).context,
         \A u \in Tasks : DOMAIN Read(m).attempts[u] \subseteq 1..MaxAttempts,
         derived' = Read(log'), Notes(m, t, c, log')
  PROVE  /\ LogInv'
         /\ derived'.revision = derived.revision /\ derived'.graph = derived.graph
         /\ derived'.lineage = derived.lineage
         /\ derived'.attempts = Read(m).attempts /\ derived'.cancelled = Read(m).cancelled
         /\ derived'.traversals = Read(m).traversals
         /\ Derived!UpdateContext(t, c)
<1>1. PICK next : next = log'
  OBVIOUS
<1>2. CurrentGraph(log) # << >> /\ t \in DOMAIN CurrentGraph(log)
  BY LogIs
<1>3. /\ LogFits(next)
      /\ Read(next).revision = Read(m).revision /\ Read(next).graph = Read(m).graph
      /\ Read(next).lineage = Read(m).lineage /\ Read(next).attempts = Read(m).attempts
      /\ Read(next).cancelled = Read(m).cancelled /\ Read(next).traversals = Read(m).traversals
      /\ Read(next).context = IF c = NoContext THEN Read(m).context
           ELSE [Read(m).context EXCEPT ![t] = [lineage |-> Read(m).lineage[t], text |-> c]]
  BY <1>1, <1>2, NotesRecorded
<1>4. derived = Read(log) /\ derived' = Read(next)
  BY <1>1 DEF LogInv
<1>5. /\ derived'.revision = derived.revision /\ derived'.graph = derived.graph
      /\ derived'.lineage = derived.lineage
      /\ derived'.attempts = Read(m).attempts /\ derived'.cancelled = Read(m).cancelled
      /\ derived'.traversals = Read(m).traversals
  BY <1>3, <1>4 DEF SameRevision
<1>6. derived'.context = IF c = NoContext THEN derived.context
           ELSE [derived.context EXCEPT ![t] = [lineage |-> derived.lineage[t], text |-> c]]
  BY <1>3, <1>4 DEF SameRevision
<1>7. Derived!UpdateContext(t, c)
  BY <1>6 DEF Derived!UpdateContext
<1>8. LogInv'
  BY <1>1, <1>3, <1>4, <1>5 DEF LogInv
<1> QED
  BY <1>5, <1>7, <1>8

LEMMA RecordContextImplements ==
  ASSUME LogInv, NEW t \in DOMAIN derived.graph, NEW c \in Contexts \cup {NoContext},
         RecordContext(t, c)
  PROVE  /\ LogInv'
         /\ Derived!RecordContext(t, c) \/ UNCHANGED Derived!vars
         /\ Len(log') = Len(log) + 1 /\ log'[Len(log')].kind = "task_context_updated"
<1>1. IsSequence(log) /\ LogFits(log) /\ IsSequence(<< >>) /\ CurrentGraph(log) # << >>
  BY LogIs, NoRecord DEF LogInv
<1>2. c # NoContext /\ Transition("context_updated", t, << >>, << >>, c)
  BY DEF RecordContext
<1>3. /\ derived' = Read(log')
      /\ \E stamp, m : /\ IsStamp(stamp) /\ Joins(log, Stamped(<< >>, stamp), m)
                       /\ Notes(m, t, c, log')
  BY <1>1, <1>2, TransitionIs
<1>4. Notes(log, t, c, log')
  <2>1. PICK stamp, m : Joins(log, Stamped(<< >>, stamp), m) /\ Notes(m, t, c, log')
    BY <1>3
  <2>2. m = log
    BY <1>1, <2>1, NoneStamped, JoinedToNone DEF Joins
  <2> QED
    BY <2>1, <2>2
<1>5. SameRevision(log, log)
  BY DEF SameRevision
<1>6. \A u \in Tasks : DOMAIN Read(log).attempts[u] \subseteq 1..MaxAttempts
  BY DEF LogInv
<1>7. PICK l : l = log
  OBVIOUS
<1>8. /\ LogInv'
      /\ derived'.revision = derived.revision /\ derived'.graph = derived.graph
      /\ derived'.lineage = derived.lineage
      /\ derived'.attempts = Read(l).attempts /\ derived'.cancelled = Read(l).cancelled
      /\ derived'.traversals = Read(l).traversals
      /\ Derived!UpdateContext(t, c)
  BY <1>1, <1>3, <1>4, <1>5, <1>6, <1>7, TransitionLeaves
<1>9. derived = Read(l)
  BY <1>7 DEF LogInv
<1>10. Derived!RecordContext(t, c) \/ UNCHANGED Derived!vars
  <2>1. CASE derived.context[t] # [lineage |-> derived.lineage[t], text |-> c]
    BY <1>2, <1>8, <1>9, <2>1 DEF Derived!RecordContext
  <2>2. CASE derived.context[t] = [lineage |-> derived.lineage[t], text |-> c]
    <3>1. derived'.context = [derived.context EXCEPT ![t] = derived.context[t]]
      BY <1>2, <1>8, <2>2 DEF Derived!UpdateContext
    <3>2. PICK f : f = derived.context
      OBVIOUS
    <3>3. f = [u \in Tasks |-> f[u]]
      BY <3>2, <1>7, <1>9 DEF Read, NotedContexts
    <3>4. [f EXCEPT ![t] = f[t]] = f
      BY <3>3
    <3>5. derived'.context = derived.context
      BY <3>1, <3>2, <3>4
    <3> QED
      BY <1>8, <1>9, <3>5 DEF Derived!vars
  <2> QED
    BY <2>1, <2>2
<1>11. PICK e : Adds(log, e, log') /\ e.kind = "task_context_updated"
  BY <1>2, <1>4 DEF Notes
<1>12. PICK next : next = log'
  OBVIOUS
<1>13. Len(next) = Len(l) + 1 /\ next[Len(next)] = e
  BY <1>1, <1>7, <1>11, <1>12, OneMore
<1> QED
  BY <1>7, <1>8, <1>10, <1>11, <1>12, <1>13

\* SetPhase changes the phase of one Attempt, and keeps the others.
LEMMA PhaseSet ==
  ASSUME NEW f, NEW t \in Tasks, f = [u \in Tasks |-> f[u]], NEW n \in DOMAIN f[t], NEW p,
         NEW q, f[t][n] = [f[t][n] EXCEPT !.phase = q], p # q, "phase" \in DOMAIN f[t][n]
  PROVE  /\ [f EXCEPT ![t][n].phase = p] # f
         /\ \A u \in Tasks : DOMAIN [f EXCEPT ![t][n].phase = p][u] = DOMAIN f[u]
<1>1. PICK g : g = [f EXCEPT ![t][n].phase = p]
  OBVIOUS
<1>2. g[t] = [f[t] EXCEPT ![n].phase = p] /\ \A u \in Tasks : u # t => g[u] = f[u]
  BY <1>1
<1>3. g[t][n].phase = p /\ f[t][n].phase = q
  BY <1>2
<1> QED
  BY <1>1, <1>2, <1>3

\* Block, resume and completion, the first event of a command.
LEMMA MoveIs ==
  ASSUME LogInv, NEW t \in DOMAIN derived.graph, NEW A, A = Derived!Accepted,
         NEW from, Derived!In(t, {from}, A),
         NEW e, NEW m, Adds(log, e, m), NEW p, IsMove(e, Current(t), from, p)
  PROVE  /\ LogFits(m) /\ SameRevision(log, m)
         /\ Read(m).context = Read(log).context /\ Read(m).cancelled = Read(log).cancelled
         /\ Read(m).traversals = Read(log).traversals
         /\ IsStarted(log, Current(t)) /\ Phase(m, Current(t)) = p
         /\ Fold(log, Current(t), "attempt_completed") = 0
         /\ Read(m).attempts = Derived!SetPhase(t, Derived!Last(Derived!Activation(t, A)), p)
         /\ Read(m).attempts # derived.attempts
         /\ \A u \in Tasks : DOMAIN Read(m).attempts[u] \subseteq 1..MaxAttempts
<1>1. PICK n : n = Derived!Last(Derived!Activation(t, A))
  OBVIOUS
<1>2. PICK a : a = <<t, n>>
  OBVIOUS
<1>3. a = Current(t) /\ a[1] = t /\ a[2] = n
  BY <1>1, <1>2 DEF Current
<1>4. /\ IsStarted(log, <<t, n>>) /\ Phase(log, <<t, n>>) \in {from}
      /\ n \in DOMAIN derived.attempts[t] /\ n \in 1..MaxAttempts
      /\ derived.attempts[t][n].phase = Phase(log, <<t, n>>)
  BY <1>1, CurrentIsStarted
<1>5. IsStarted(log, a) /\ Phase(log, a) = from /\ derived.attempts[t][n].phase = from
  BY <1>2, <1>4
<1>6. PICK l : l = log
  OBVIOUS
<1>7. LogFits(l) /\ CurrentGraph(l) # << >> /\ Adds(l, e, m) /\ IsStarted(l, a)
  BY <1>3, <1>5, <1>6, LogIs DEF LogInv
<1>8. IsMove(e, a, Phase(l, a), p)
  BY <1>3, <1>5, <1>6
<1>9. /\ LogFits(m) /\ Phase(m, a) = p
      /\ Read(m).context = Read(l).context
      /\ Read(m).cancelled = Read(l).cancelled /\ Read(m).traversals = Read(l).traversals
      /\ Read(m).attempts = [Read(l).attempts EXCEPT ![a[1]][a[2]].phase = p]
  <2> HIDE <1>6
  <2> QED
    BY <1>7, <1>8, MoveRecorded
<1>10. SameRevision(l, m)
  <2>1. e.kind # "graph_revision"
    BY <1>8 DEF IsMove
  <2> QED
    BY <1>7, <2>1, OneMoreRevision
<1>11. Fold(l, a, "attempt_completed") = 0
  <2>1. Phase(l, a) \in {"in_progress", "blocked"}
    BY <1>8 DEF IsMove
  <2> QED
    BY <1>7, <2>1, PhaseIs
<1>12. derived.attempts = Read(l).attempts /\ derived.attempts = Attempts(l)
  BY <1>6 DEF LogInv, Read
<1>13. PICK f : f = derived.attempts
  OBVIOUS
<1>14. Read(m).attempts = [f EXCEPT ![t][n].phase = p]
  BY <1>3, <1>9, <1>12, <1>13
<1>15. Read(m).attempts = Derived!SetPhase(t, n, p)
  BY <1>13, <1>14 DEF Derived!SetPhase
<1>16. t \in Tasks
  BY LogIs
<1>17. f[t][n] = AttemptFold(l, a)
  <2>1. n \in 1..Cardinality(Starts(log, t))
    BY <1>4, <1>16, DerivedAttempts
  <2> QED
    BY <1>2, <1>6, <1>13, <1>16, <2>1, DerivedAttempts
<1>18. f[t][n] = [f[t][n] EXCEPT !.phase = from] /\ "phase" \in DOMAIN f[t][n]
  <2>1. AttemptFold(l, a) = [AttemptFold(l, a) EXCEPT !.phase = Phase(l, a)]
        /\ "phase" \in DOMAIN AttemptFold(l, a)
    BY DEF AttemptFold
  <2> QED
    BY <1>5, <1>6, <1>17, <2>1
<1>19. p # from
  BY <1>5, <1>6, <1>8 DEF IsMove
<1>20. f = [u \in Tasks |-> f[u]] /\ n \in DOMAIN f[t] /\ \A u \in Tasks : DOMAIN f[u] \subseteq 1..MaxAttempts
  BY <1>4, <1>12, <1>13 DEF Attempts, LogInv
<1>21. /\ [f EXCEPT ![t][n].phase = p] # f
       /\ \A u \in Tasks : DOMAIN [f EXCEPT ![t][n].phase = p][u] = DOMAIN f[u]
  BY <1>16, <1>18, <1>19, <1>20, PhaseSet
<1>22. Read(m).attempts # derived.attempts
  BY <1>13, <1>14, <1>21
<1>23. \A u \in Tasks : DOMAIN Read(m).attempts[u] \subseteq 1..MaxAttempts
  BY <1>14, <1>20, <1>21
<1> QED
  BY <1>1, <1>3, <1>5, <1>6, <1>9, <1>10, <1>11, <1>15, <1>22, <1>23

\* A command that records one move, and its context.
LEMMA OneMove ==
  ASSUME LogInv, NEW t \in DOMAIN derived.graph, NEW A, A = Derived!Accepted,
         NEW from, Derived!In(t, {from}, A), NEW r, NEW p,
         \A e, stamp : IsStamp(stamp) /\ Stamp(r, e, stamp) => IsMove(e, Current(t), from, p),
         NEW transition, NEW traversal, NEW c, Transition(transition, t, <<r>>, traversal, c)
  PROVE  /\ LogInv'
         /\ derived'.attempts = Derived!SetPhase(t, Derived!Last(Derived!Activation(t, A)), p)
         /\ derived'.attempts # derived.attempts
         /\ Derived!UpdateContext(t, c)
         /\ derived'.revision = derived.revision /\ derived'.graph = derived.graph
         /\ derived'.lineage = derived.lineage
         /\ derived'.cancelled = derived.cancelled /\ derived'.traversals = derived.traversals
<1>1. IsSequence(log) /\ IsSequence(<<r>>) /\ derived = Read(log)
  BY LogIs, OneRecord DEF LogInv
<1>2. /\ derived' = Read(log')
      /\ \E stamp, m : /\ IsStamp(stamp) /\ Joins(log, Stamped(<<r>>, stamp), m)
                       /\ Notes(m, t, c, log')
  BY <1>1, TransitionIs
<1>3. PICK stamp, m : /\ IsStamp(stamp) /\ Joins(log, Stamped(<<r>>, stamp), m)
                      /\ Notes(m, t, c, log')
  BY <1>2
<1>4. PICK e : Stamp(r, e, stamp) /\ Adds(log, e, m)
  BY <1>1, <1>3, OneEvent
<1>5. IsMove(e, Current(t), from, p)
  BY <1>3, <1>4
<1>6. /\ LogFits(m) /\ SameRevision(log, m)
      /\ Read(m).context = Read(log).context /\ Read(m).cancelled = Read(log).cancelled
      /\ Read(m).traversals = Read(log).traversals
      /\ Read(m).attempts = Derived!SetPhase(t, Derived!Last(Derived!Activation(t, A)), p)
      /\ Read(m).attempts # derived.attempts
      /\ \A u \in Tasks : DOMAIN Read(m).attempts[u] \subseteq 1..MaxAttempts
  BY <1>4, <1>5, MoveIs
<1>7. /\ LogInv'
      /\ derived'.revision = derived.revision /\ derived'.graph = derived.graph
      /\ derived'.lineage = derived.lineage
      /\ derived'.attempts = Read(m).attempts /\ derived'.cancelled = Read(m).cancelled
      /\ derived'.traversals = Read(m).traversals
      /\ Derived!UpdateContext(t, c)
  BY <1>2, <1>3, <1>6, TransitionLeaves
<1>8. derived.cancelled = Read(log).cancelled /\ derived.traversals = Read(log).traversals
  BY <1>1
<1> QED
  BY <1>6, <1>7, <1>8

LEMMA BlockImplements ==
  ASSUME LogInv, NEW t \in DOMAIN derived.graph, NEW w, NEW c, Block(t, w, c)
  PROVE  LogInv' /\ Derived!Block(t, w, c) /\ derived' # derived
<1>1. PICK A : A = Derived!Accepted
  OBVIOUS
<1>2. PICK r : r = [kind |-> "attempt_blocked", attempt |-> Current(t)]
  OBVIOUS
<1>3. /\ Derived!In(t, {"in_progress"}, A) /\ Derived!MayMove(w, t, A)
      /\ Transition("block", t, <<r>>, << >>, c)
  BY <1>1, <1>2 DEF Block, Moves
<1>4. \A e, stamp : IsStamp(stamp) /\ Stamp(r, e, stamp) => IsMove(e, Current(t), "in_progress", "blocked")
  BY <1>2 DEF IsStamp, Stamp, IsMove
<1>5. /\ LogInv'
      /\ derived'.attempts = Derived!SetPhase(t, Derived!Last(Derived!Activation(t, A)), "blocked")
      /\ derived'.attempts # derived.attempts
      /\ Derived!UpdateContext(t, c)
      /\ derived'.revision = derived.revision /\ derived'.graph = derived.graph
      /\ derived'.lineage = derived.lineage
      /\ derived'.cancelled = derived.cancelled /\ derived'.traversals = derived.traversals
  BY <1>1, <1>3, <1>4, OneMove
<1> QED
  BY <1>1, <1>3, <1>5 DEF Derived!Block

LEMMA ResumeImplements ==
  ASSUME LogInv, NEW t \in DOMAIN derived.graph, NEW w, NEW c, Resume(t, w, c)
  PROVE  LogInv' /\ Derived!Resume(t, w, c) /\ derived' # derived
<1>1. PICK A : A = Derived!Accepted
  OBVIOUS
<1>2. PICK r : r = [kind |-> "attempt_resumed", attempt |-> Current(t)]
  OBVIOUS
<1>3. /\ Derived!In(t, {"blocked"}, A) /\ Derived!MayMove(w, t, A) /\ ~Derived!Occupied(w, A)
      /\ Transition("resume", t, <<r>>, << >>, c)
  BY <1>1, <1>2 DEF Resume, Moves
<1>4. \A e, stamp : IsStamp(stamp) /\ Stamp(r, e, stamp) => IsMove(e, Current(t), "blocked", "in_progress")
  BY <1>2 DEF IsStamp, Stamp, IsMove
<1>5. /\ LogInv'
      /\ derived'.attempts = Derived!SetPhase(t, Derived!Last(Derived!Activation(t, A)), "in_progress")
      /\ derived'.attempts # derived.attempts
      /\ Derived!UpdateContext(t, c)
      /\ derived'.revision = derived.revision /\ derived'.graph = derived.graph
      /\ derived'.lineage = derived.lineage
      /\ derived'.cancelled = derived.cancelled /\ derived'.traversals = derived.traversals
  BY <1>1, <1>3, <1>4, OneMove
<1> QED
  BY <1>1, <1>3, <1>5 DEF Derived!Resume

LEMMA AchieveImplements ==
  ASSUME LogInv, NEW t \in DOMAIN derived.graph, NEW w, NEW c, Achieve(t, w, c)
  PROVE  LogInv' /\ Derived!Achieve(t, w, c) /\ derived' # derived
<1>1. PICK A : A = Derived!Accepted
  OBVIOUS
<1>2. PICK r : r = [kind |-> "attempt_completed", attempt |-> Current(t), outcome |-> "goal_achieved"]
  OBVIOUS
<1>3. /\ Derived!In(t, {"in_progress"}, A) /\ Derived!MayMove(w, t, A)
      /\ Transition("goal_achieved", t, <<r>>, << >>, c)
  BY <1>1, <1>2 DEF Achieve, Moves, Completed
<1>4. \A e, stamp : IsStamp(stamp) /\ Stamp(r, e, stamp) =>
                      IsMove(e, Current(t), "in_progress", "goal_achieved")
  BY <1>2 DEF IsStamp, Stamp, IsMove
<1>5. /\ LogInv'
      /\ derived'.attempts = Derived!SetPhase(t, Derived!Last(Derived!Activation(t, A)), "goal_achieved")
      /\ derived'.attempts # derived.attempts
      /\ Derived!UpdateContext(t, c)
      /\ derived'.revision = derived.revision /\ derived'.graph = derived.graph
      /\ derived'.lineage = derived.lineage
      /\ derived'.cancelled = derived.cancelled /\ derived'.traversals = derived.traversals
  BY <1>1, <1>3, <1>4, OneMove
<1> QED
  BY <1>1, <1>3, <1>5 DEF Derived!Achieve

LEMMA ClaimImplements ==
  ASSUME LogInv, NEW t \in DOMAIN derived.graph, NEW w, NEW c, Claim(t, w, c)
  PROVE  LogInv' /\ Derived!Claim(t, w, c) /\ derived' # derived
<1>1. PICK A : A = Derived!Accepted
  OBVIOUS
<1>2. PICK k : k = Cardinality(Starts(log, t))
  OBVIOUS
<1>a. PICK demand, inputs : demand = Derived!Demand(t) /\ inputs = Derived!Inputs(t, A)
  OBVIOUS
<1>3. PICK r : r = [kind |-> "attempt_started", attempt |-> <<t, k + 1>>,
                    revision |-> CurrentRevision(log), lineage |-> LineageOf(t),
                    demand |-> demand, inputs |-> inputs, worker |-> w]
  OBVIOUS
<1>4. /\ k + 1 <= MaxAttempts /\ Derived!Ready(t, A) /\ Derived!MayMove(w, t, A)
      /\ ~Derived!Occupied(w, A)
      /\ Transition("claim", t, <<r>>, << >>, c)
  BY <1>1, <1>2, <1>a, <1>3 DEF Claim, NextOrdinal
<1>5. /\ IsSequence(log) /\ IsSequence(<<r>>) /\ derived = Read(log) /\ t \in Tasks
      /\ LogFits(log) /\ t \in DOMAIN CurrentGraph(log) /\ CurrentGraph(log) # << >>
      /\ LineageOf(t) = log[CurrentRevision(log)].lineage[t] /\ derived.graph = CurrentGraph(log)
  BY LogIs, OneRecord DEF LogInv
<1>6. /\ derived' = Read(log')
      /\ \E stamp, m : /\ IsStamp(stamp) /\ Joins(log, Stamped(<<r>>, stamp), m)
                       /\ Notes(m, t, c, log')
  BY <1>4, <1>5, TransitionIs
<1>7. PICK stamp, m : /\ IsStamp(stamp) /\ Joins(log, Stamped(<<r>>, stamp), m)
                      /\ Notes(m, t, c, log')
  BY <1>6
<1>8. PICK e : Stamp(r, e, stamp) /\ Adds(log, e, m)
  BY <1>5, <1>7, OneEvent
<1>9. /\ e.kind = "attempt_started" /\ e.attempt = <<t, k + 1>>
      /\ e.revision = CurrentRevision(log) /\ e.lineage = LineageOf(t)
      /\ e.demand = demand /\ e.inputs = inputs /\ e.worker = w
  BY <1>3, <1>7, <1>8 DEF Stamp, IsStamp
<1>10. w = CurrentGraph(log)[t].assignee
  BY <1>4, <1>5 DEF Derived!MayMove
<1>11. PICK l : l = log
  OBVIOUS
<1>12. /\ LogFits(m)
       /\ Read(m).context = Read(l).context
       /\ Read(m).cancelled = Read(l).cancelled /\ Read(m).traversals = Read(l).traversals
       /\ Read(m).attempts = [Read(l).attempts EXCEPT ![t] = Append(@,
            [lineage |-> Read(l).lineage[t], demand |-> e.demand, inputs |-> e.inputs,
             worker |-> e.worker, phase |-> "in_progress", superseded |-> FALSE])]
  <2>1. /\ LogFits(l) /\ t \in DOMAIN CurrentGraph(l) /\ Adds(l, e, m)
        /\ e.kind = "attempt_started" /\ e.attempt = <<t, Cardinality(Starts(l, t)) + 1>>
        /\ e.revision = CurrentRevision(l) /\ e.lineage = l[CurrentRevision(l)].lineage[t]
        /\ e.worker = CurrentGraph(l)[t].assignee
    BY <1>2, <1>5, <1>8, <1>9, <1>10, <1>11
  <2> HIDE <1>11
  <2> QED
    BY <2>1, StartRecorded, SMTT(60)
<1>13. SameRevision(log, m)
  BY <1>5, <1>8, <1>9, OneMoreRevision
<1>14. PICK f : f = derived.attempts[t]
  OBVIOUS
<1>15. /\ k \in Nat /\ DOMAIN f = 1..k /\ Len(f) = k
  BY <1>2, <1>5, <1>14, DerivedAttempts
<1>16. PICK x : x = [lineage |-> derived.lineage[t], demand |-> demand, inputs |-> inputs,
                     worker |-> w, phase |-> "in_progress", superseded |-> FALSE]
  OBVIOUS
<1>17. Read(m).attempts = [derived.attempts EXCEPT ![t] = Append(f, x)]
  BY <1>5, <1>9, <1>11, <1>12, <1>14, <1>16
<1>18. Append(f, x) = [i \in 1..(k + 1) |-> IF i = k + 1 THEN x ELSE f[i]]
  <2>1. f = [i \in 1..k |-> f[i]]
    BY <1>2, <1>5, <1>14, AttemptsAre DEF Read
  <2> QED
    BY <1>15, <2>1, AppendIs
<1>19. DOMAIN Append(f, x) = 1..(k + 1) /\ Append(f, x) # f
  BY <1>15, <1>18
<1>20. derived.attempts = [u \in Tasks |-> derived.attempts[u]]
       /\ \A u \in Tasks : DOMAIN derived.attempts[u] \subseteq 1..MaxAttempts
  BY <1>5 DEF Read, Attempts, LogInv
<1>21. \A u \in Tasks : DOMAIN Read(m).attempts[u] \subseteq 1..MaxAttempts
  <2>1. 1..(k + 1) \subseteq 1..MaxAttempts
    BY <1>4, <1>15, GraphAssumption
  <2> QED
    BY <1>17, <1>19, <1>20, <2>1
<1>22. Read(m).attempts # derived.attempts
  BY <1>5, <1>14, <1>17, <1>19, <1>20
<1>23. /\ LogInv'
       /\ derived'.revision = derived.revision /\ derived'.graph = derived.graph
       /\ derived'.lineage = derived.lineage
       /\ derived'.attempts = Read(m).attempts /\ derived'.cancelled = Read(m).cancelled
       /\ derived'.traversals = Read(m).traversals
       /\ Derived!UpdateContext(t, c)
  BY <1>5, <1>6, <1>7, <1>11, <1>12, <1>13, <1>21, TransitionLeaves
<1>24. derived'.cancelled = derived.cancelled /\ derived'.traversals = derived.traversals
  BY <1>5, <1>11, <1>12, <1>23
<1>25. Len(derived.attempts[t]) < MaxAttempts
  BY <1>4, <1>14, <1>15, GraphAssumption
<1>26. derived'.attempts = [derived.attempts EXCEPT ![t] = Append(@,
           [lineage |-> derived.lineage[t], demand |-> Derived!Demand(t), inputs |-> Derived!Inputs(t, A),
            worker |-> w, phase |-> "in_progress", superseded |-> FALSE])]
  BY <1>a, <1>14, <1>16, <1>17, <1>23
<1>27. Derived!Claim(t, w, c)
  BY <1>1, <1>4, <1>23, <1>24, <1>25, <1>26 DEF Derived!Claim
<1> QED
  BY <1>22, <1>23, <1>27

\* The first event of a failure leaves its Attempt failed, with no edge followed
\* or given up yet.
LEMMA FailedIs ==
  ASSUME LogInv, NEW t \in DOMAIN derived.graph, NEW A, A = Derived!Accepted,
         NEW from, Derived!In(t, {from}, A),
         NEW e, NEW m, Adds(log, e, m), IsMove(e, Current(t), from, "goal_failed")
  PROVE  /\ JustFailed(m, Current(t), t) /\ Fold(m, Current(t), "attempt_completed") # 0
         /\ \A x : TraversalsBefore(m, Len(m) + 1, t, x) = TraversalsBefore(log, Len(log) + 1, t, x)
<1>1. PICK a : a = Current(t)
  OBVIOUS
<1>2. PICK l : l = log
  OBVIOUS
<1>3. /\ LogFits(m) /\ SameRevision(log, m) /\ IsStarted(log, Current(t))
      /\ Fold(log, Current(t), "attempt_completed") = 0
  BY MoveIs
<1>4. /\ LogFits(l) /\ Adds(l, e, m) /\ IsStarted(l, a) /\ Fold(l, a, "attempt_completed") = 0
      /\ IsMove(e, a, from, "goal_failed")
      /\ t \in DOMAIN CurrentGraph(m) /\ a[1] = t
  BY <1>1, <1>2, <1>3, LogIs DEF LogInv, SameRevision, Current
<1> HIDE <1>2
<1>5. e.kind = "attempt_completed" /\ e.attempt = a /\ e.outcome = "goal_failed"
  BY <1>4 DEF IsMove
<1>6. /\ Prefix(l, m) /\ Len(l) \in Nat /\ Len(m) = Len(l) + 1 /\ m[Len(m)] = e
      /\ Len(m) \in 1..Len(m) /\ IsSequence(l) /\ IsSequence(m)
  BY <1>4, OneMore
<1>7. IsStarted(m, a)
  BY <1>4, <1>6, StartedStays
<1>8. NoneNew(l, m, FailureKinds) /\ NoneNew(l, m, {"failure_edge_traversed"})
  BY <1>4, <1>5, OneMoreKind DEF FailureKinds
<1>9. \A i \in Of(m, FailureKinds) : m[i].source # a
  <2>1. \A i \in Of(l, FailureKinds) : l[i].source # a
    BY <1>4, NotFailed
  <2>2. Of(m, FailureKinds) = Of(l, FailureKinds) /\ \A i \in Of(l, FailureKinds) : m[i] = l[i]
    BY <1>6, <1>8, OfStays
  <2> QED
    BY <2>1, <2>2
<1>10. PICK n : n = Len(m)
  OBVIOUS
<1>11. n \in Of(m, {"attempt_completed"}) /\ m[n].attempt = a /\ m[n].outcome = "goal_failed"
  BY <1>5, <1>6, <1>10, OfIs
<1>12. Fold(m, a, "attempt_completed") # 0
  <2>1. Len(m) # 0 /\ m[Len(m)].kind = "attempt_completed" /\ m[Len(m)].attempt = a
    BY <1>5, <1>6
  <2> QED
    BY <1>6, <2>1, FoldIsLast
<1>13. ASSUME NEW x
       PROVE  TraversalsBefore(m, Len(m) + 1, t, x) = TraversalsBefore(l, Len(l) + 1, t, x)
  <2> DEFINE K == {"failure_edge_traversed"}
  <2>1. Of(m, K) = Of(l, K) /\ \A i \in Of(l, K) : m[i] = l[i]
    BY <1>6, <1>8, OfStays
  <2>2. \A i \in Of(l, K) : i < Len(m) + 1 /\ i < Len(l) + 1
    BY <1>6, OfIs
  <2>3. {j \in Of(m, K) : j < Len(m) + 1 /\ m[j].source[1] = t /\ m[j].lineage = x}
          = {j \in Of(l, K) : j < Len(l) + 1 /\ l[j].source[1] = t /\ l[j].lineage = x}
    BY <2>1, <2>2
  <2> QED
    BY <2>3 DEF TraversalsBefore
<1>14. JustFailed(m, a, t)
  BY <1>4, <1>7, <1>9, <1>11 DEF JustFailed
<1> QED
  BY <1>1, <1>2, <1>12, <1>13, <1>14

\* An Attempt that has failed, and an edge that is given up.
WithPhase(f, t, n, p) == [f EXCEPT ![t][n].phase = p]

LEMMA PhaseTwice ==
  ASSUME NEW f, NEW t, NEW n, NEW p, NEW q
  PROVE  WithPhase(WithPhase(f, t, n, p), t, n, q) = WithPhase(f, t, n, q)
  BY DEF WithPhase

LEMMA PriorIsNat ==
  ASSUME NEW l, IsSequence(l), NEW i, NEW t, NEW x
  PROVE  TraversalsBefore(l, i, t, x) \in Nat
<1>1. PICK S : S = {j \in Of(l, {"failure_edge_traversed"}) : j < i /\ l[j].source[1] = t /\ l[j].lineage = x}
  OBVIOUS
<1>2. S \in SUBSET Of(l, {"failure_edge_traversed"})
  BY <1>1
<1>3. IsFiniteSet(S)
  BY <1>2, PlacesAre
<1>4. Cardinality(S) \in Nat
  BY <1>3, FS_CardinalityType
<1> QED
  BY <1>1, <1>4 DEF TraversalsBefore

LEMMA FailWithoutEdgeImplements ==
  ASSUME LogInv, NEW t \in DOMAIN derived.graph, NEW w, NEW c, Moves(t, w, "in_progress"),
         derived.graph[t].target = NoTask,
         Transition("goal_failed", t, Completed(t, "goal_failed"), << >>, c)
  PROVE  LogInv' /\ Derived!FailWithoutRepair(t, w, c) /\ derived' # derived
<1>1. PICK A : A = Derived!Accepted
  OBVIOUS
<1>2. PICK r : r = [kind |-> "attempt_completed", attempt |-> Current(t), outcome |-> "goal_failed"]
  OBVIOUS
<1>3. /\ Derived!In(t, {"in_progress"}, A) /\ Derived!MayMove(w, t, A)
      /\ Transition("goal_failed", t, <<r>>, << >>, c)
  BY <1>1, <1>2 DEF Moves, Completed
<1>4. \A e, stamp : IsStamp(stamp) /\ Stamp(r, e, stamp) =>
                      IsMove(e, Current(t), "in_progress", "goal_failed")
  BY <1>2 DEF IsStamp, Stamp, IsMove
<1>5. /\ LogInv'
      /\ derived'.attempts = Derived!SetPhase(t, Derived!Last(Derived!Activation(t, A)), "goal_failed")
      /\ derived'.attempts # derived.attempts
      /\ Derived!UpdateContext(t, c)
      /\ derived'.revision = derived.revision /\ derived'.graph = derived.graph
      /\ derived'.lineage = derived.lineage
      /\ derived'.cancelled = derived.cancelled /\ derived'.traversals = derived.traversals
  BY <1>1, <1>3, <1>4, OneMove
<1> QED
  BY <1>1, <1>3, <1>5 DEF Derived!FailWithoutRepair

SameDomains(f, g) == \A u \in Tasks : DOMAIN f[u] = DOMAIN g[u]

\* Setting the phase of the current Attempt to another one changes derived.
LEMMA PhaseChanges ==
  ASSUME LogInv, NEW t \in DOMAIN derived.graph, NEW A, NEW phases, Derived!In(t, phases, A),
         NEW p, p \notin phases
  PROVE  LET x == Derived!SetPhase(t, Derived!Last(Derived!Activation(t, A)), p)
         IN  x # derived.attempts /\ SameDomains(x, derived.attempts)
<1>n. PICK n : n = Derived!Last(Derived!Activation(t, A))
  OBVIOUS
<1>1. t \in Tasks
  BY LogIs
<1>2. PICK f : f = derived.attempts
  OBVIOUS
<1>3. n \in DOMAIN f[t] /\ f[t][n].phase \in phases /\ n \in 1..Cardinality(Starts(log, t))
  <2>1. /\ Phase(log, <<t, n>>) \in phases /\ n \in DOMAIN derived.attempts[t]
        /\ derived.attempts[t][n].phase = Phase(log, <<t, n>>)
    BY <1>n, CurrentIsStarted
  <2> QED
    BY <1>1, <1>2, <2>1, DerivedAttempts
<1>4. f[t][n] = AttemptFold(log, <<t, n>>)
  BY <1>1, <1>2, <1>3, DerivedAttempts
<1>q. PICK q : q = f[t][n].phase
  OBVIOUS
<1>5. f[t][n] = [f[t][n] EXCEPT !.phase = q] /\ "phase" \in DOMAIN f[t][n]
  <2>1. PICK a : a = <<t, n>>
    OBVIOUS
  <2>2. /\ AttemptFold(log, a) = [AttemptFold(log, a) EXCEPT !.phase = Phase(log, a)]
        /\ "phase" \in DOMAIN AttemptFold(log, a)
    BY DEF AttemptFold
  <2> QED
    BY <1>4, <1>q, <2>1, <2>2
<1>6. f = [u \in Tasks |-> f[u]]
  BY <1>2 DEF LogInv, Read, Attempts
<1>7. /\ [f EXCEPT ![t][n].phase = p] # f
      /\ \A u \in Tasks : DOMAIN [f EXCEPT ![t][n].phase = p][u] = DOMAIN f[u]
  <2>1. p # q
    BY <1>3, <1>q
  <2> QED
    BY <1>1, <1>3, <1>5, <1>6, <2>1, PhaseSet
<1>9. Derived!SetPhase(t, n, p) = [f EXCEPT ![t][n].phase = p]
  BY <1>2 DEF Derived!SetPhase
<1> QED
  BY <1>n, <1>2, <1>7, <1>9 DEF SameDomains

\* The failure edge of the Task is given up.
GivesUp(d, t) ==
  /\ d.kind = "failure_edge_exhausted" /\ d.source = Current(t) /\ d.lineage = LineageOf(t)
  /\ d.target = derived.graph[t].target
  /\ d.traversals = TraversalsBefore(log, Len(log) + 1, t, LineageOf(t))

\* A log with the revision and the contexts of this one, and other Attempts.
Leaves(m, f) ==
  /\ LogFits(m) /\ SameRevision(log, m) /\ Read(m).context = Read(log).context
  /\ Read(m).attempts = f /\ f # derived.attempts
  /\ \A u \in Tasks : DOMAIN f[u] \subseteq 1..MaxAttempts

\* The log when the Attempt has failed and no edge is followed yet.
HasFailed(k, t, A) ==
  /\ LogFits(k) /\ SameRevision(log, k)
  /\ Read(k).context = Read(log).context /\ Read(k).cancelled = Read(log).cancelled
  /\ Read(k).traversals = Read(log).traversals
  /\ Read(k).attempts = Derived!SetPhase(t, Derived!Last(Derived!Activation(t, A)), "goal_failed")
  /\ JustFailed(k, Current(t), t) /\ Fold(k, Current(t), "attempt_completed") # 0
  /\ \A x : TraversalsBefore(k, Len(k) + 1, t, x) = TraversalsBefore(log, Len(log) + 1, t, x)

LEMMA HasFailedIs ==
  ASSUME LogInv, NEW t \in DOMAIN derived.graph, NEW A, A = Derived!Accepted,
         NEW from, Derived!In(t, {from}, A),
         NEW e, NEW k, Adds(log, e, k), IsMove(e, Current(t), from, "goal_failed")
  PROVE  HasFailed(k, t, A)
<1>1. /\ LogFits(k) /\ SameRevision(log, k)
      /\ Read(k).context = Read(log).context /\ Read(k).cancelled = Read(log).cancelled
      /\ Read(k).traversals = Read(log).traversals
      /\ Read(k).attempts = Derived!SetPhase(t, Derived!Last(Derived!Activation(t, A)), "goal_failed")
  <2>1. PICK p : p = "goal_failed"
    OBVIOUS
  <2>2. IsMove(e, Current(t), from, p)
    BY <2>1
  <2>3. /\ LogFits(k) /\ SameRevision(log, k)
        /\ Read(k).context = Read(log).context /\ Read(k).cancelled = Read(log).cancelled
        /\ Read(k).traversals = Read(log).traversals
        /\ IsStarted(log, Current(t)) /\ Phase(k, Current(t)) = p
        /\ Fold(log, Current(t), "attempt_completed") = 0
        /\ Read(k).attempts = Derived!SetPhase(t, Derived!Last(Derived!Activation(t, A)), p)
        /\ Read(k).attempts # derived.attempts
        /\ \A u \in Tasks : DOMAIN Read(k).attempts[u] \subseteq 1..MaxAttempts
    BY <2>2, MoveIs
  <2> QED
    BY <2>1, <2>3
<1>2. /\ JustFailed(k, Current(t), t) /\ Fold(k, Current(t), "attempt_completed") # 0
      /\ \A x : TraversalsBefore(k, Len(k) + 1, t, x) = TraversalsBefore(log, Len(log) + 1, t, x)
  BY FailedIs
<1> QED
  BY <1>1, <1>2 DEF HasFailed

\* A failure whose edge is given up.
LEMMA GivenUp ==
  ASSUME LogInv, NEW t \in DOMAIN derived.graph, NEW A, A = Derived!Accepted,
         NEW from, Derived!In(t, {from}, A),
         NEW e, NEW k, Adds(log, e, k), IsMove(e, Current(t), from, "goal_failed"),
         NEW d, NEW m, Adds(k, d, m), GivesUp(d, t)
  PROVE  /\ Leaves(m, Derived!SetPhase(t, Derived!Last(Derived!Activation(t, A)), "exhausted"))
         /\ Read(m).traversals = Read(log).traversals
         /\ Read(m).cancelled = Read(log).cancelled
<1>1. PICK a : a = Current(t)
  OBVIOUS
<1>n. PICK n : n = Derived!Last(Derived!Activation(t, A))
  OBVIOUS
<1>2. a[1] = t /\ a[2] = n
  BY <1>1, <1>n DEF Current
<1>3. PICK g : g = Read(k).attempts
  OBVIOUS
<1>f. HasFailed(k, t, A)
  BY HasFailedIs
<1>4. /\ LogFits(k) /\ SameRevision(log, k)
      /\ Read(k).context = Read(log).context /\ Read(k).cancelled = Read(log).cancelled
      /\ Read(k).traversals = Read(log).traversals
      /\ Read(k).attempts = Derived!SetPhase(t, Derived!Last(Derived!Activation(t, A)), "goal_failed")
  BY <1>f DEF HasFailed
<1>5. /\ JustFailed(k, a, t) /\ Fold(k, a, "attempt_completed") # 0
      /\ \A x : TraversalsBefore(k, Len(k) + 1, t, x) = TraversalsBefore(log, Len(log) + 1, t, x)
  BY <1>1, <1>f DEF HasFailed
<1>6. /\ LineageOf(t) = log[CurrentRevision(log)].lineage[t] /\ derived.graph = CurrentGraph(log)
      /\ derived = Read(log)
  BY LogIs DEF LogInv
<1>7. /\ d.lineage = k[CurrentRevision(k)].lineage[t] /\ d.target = CurrentGraph(k)[t].target
      /\ d.traversals = TraversalsBefore(k, Len(k) + 1, t, d.lineage)
      /\ d.source = a /\ d.kind = "failure_edge_exhausted"
  BY <1>1, <1>4, <1>5, <1>6 DEF SameRevision, GivesUp
<1>8. /\ LogFits(m) /\ SameRevision(k, m)
      /\ Read(m).context = Read(k).context /\ Read(m).traversals = Read(k).traversals
      /\ Read(m).cancelled = Read(k).cancelled
      /\ Read(m).attempts = [Read(k).attempts EXCEPT ![t][a[2]].phase = "exhausted"]
  <2>1. /\ LogFits(k) /\ Adds(k, d, m) /\ JustFailed(k, a, t)
        /\ Fold(k, a, "attempt_completed") # 0
        /\ d.kind = "failure_edge_exhausted" /\ d.source = a
        /\ d.lineage = k[CurrentRevision(k)].lineage[t] /\ d.target = CurrentGraph(k)[t].target
        /\ d.traversals = TraversalsBefore(k, Len(k) + 1, t, d.lineage)
    BY <1>4, <1>5, <1>7
  <2> QED
    BY <2>1, ExhaustedRecorded
<1>9. PICK f : f = derived.attempts
  OBVIOUS
<1>10. g = WithPhase(f, t, n, "goal_failed")
  BY <1>n, <1>3, <1>4, <1>9 DEF Derived!SetPhase, WithPhase
<1>11. PICK h : h = Read(m).attempts
  OBVIOUS
<1>12. h = WithPhase(g, t, n, "exhausted")
  BY <1>2, <1>3, <1>8, <1>11 DEF WithPhase
<1>13. h = WithPhase(f, t, n, "exhausted")
  BY <1>10, <1>12, PhaseTwice
<1>14. Read(m).attempts = Derived!SetPhase(t, n, "exhausted")
  BY <1>9, <1>11, <1>13 DEF Derived!SetPhase, WithPhase
<1>15. /\ Derived!SetPhase(t, n, "exhausted") # derived.attempts
       /\ \A u \in Tasks : DOMAIN Derived!SetPhase(t, n, "exhausted")[u] = DOMAIN derived.attempts[u]
  <2>1. PICK p, phases : p = "exhausted" /\ phases = {from}
    OBVIOUS
  <2>2. p \notin phases /\ Derived!In(t, phases, A)
    BY <2>1 DEF IsMove
  <2>3. LET x == Derived!SetPhase(t, Derived!Last(Derived!Activation(t, A)), p)
        IN  x # derived.attempts /\ SameDomains(x, derived.attempts)
    BY <2>2, PhaseChanges
  <2> QED
    BY <1>n, <2>1, <2>3 DEF SameDomains
<1>16. \A u \in Tasks : DOMAIN Read(m).attempts[u] \subseteq 1..MaxAttempts
  BY <1>14, <1>15 DEF LogInv
<1>17. PICK l : l = log
  OBVIOUS
<1>18. SameRevision(l, m)
  BY <1>4, <1>8, <1>17, SameRevisionTwice
<1> QED
  BY <1>n, <1>4, <1>8, <1>14, <1>15, <1>16, <1>17, <1>18 DEF Leaves

\* A command that records a failure and that its edge is given up.
LEMMA MoveAndGiveUp ==
  ASSUME LogInv, NEW t \in DOMAIN derived.graph, NEW A, A = Derived!Accepted,
         NEW from, Derived!In(t, {from}, A), NEW r, NEW q,
         \A e, stamp : IsStamp(stamp) /\ Stamp(r, e, stamp) => IsMove(e, Current(t), from, "goal_failed"),
         \A d, stamp : IsStamp(stamp) /\ Stamp(q, d, stamp) => GivesUp(d, t),
         NEW transition, NEW traversal, NEW c, Transition(transition, t, <<r>> \o <<q>>, traversal, c)
  PROVE  /\ LogInv'
         /\ derived'.attempts
              = Derived!SetPhase(t, Derived!Last(Derived!Activation(t, A)), "exhausted")
         /\ derived'.attempts # derived.attempts
         /\ Derived!UpdateContext(t, c)
         /\ derived'.revision = derived.revision /\ derived'.graph = derived.graph
         /\ derived'.lineage = derived.lineage
         /\ derived'.cancelled = derived.cancelled /\ derived'.traversals = derived.traversals
<1>1. IsSequence(log) /\ derived = Read(log)
  BY LogIs DEF LogInv
<1>2. PICK last : last = <<q>>
  OBVIOUS
<1>3. PICK events : events = <<r>> \o last
  OBVIOUS
<1>4. IsSequence(last) /\ IsSequence(events)
  <2>1. IsSequence(<<r>>) /\ IsSequence(last)
    BY <1>2, OneRecord
  <2> QED
    BY <1>3, <2>1, Joined
<1>5. /\ derived' = Read(log')
      /\ \E stamp, m : /\ IsStamp(stamp) /\ Joins(log, Stamped(events, stamp), m)
                       /\ Notes(m, t, c, log')
  <2>1. Transition(transition, t, events, traversal, c)
    BY <1>2, <1>3
  <2> QED
    BY <1>1, <1>4, <2>1, TransitionIs
<1>6. PICK stamp, m : /\ IsStamp(stamp) /\ Joins(log, Stamped(events, stamp), m)
                      /\ Notes(m, t, c, log')
  BY <1>5
<1>7. PICK e, k : /\ Stamp(r, e, stamp) /\ Adds(log, e, k) /\ IsSequence(k)
                  /\ Joins(k, Stamped(last, stamp), m)
  <2>1. Joins(log, Stamped(<<r>> \o last, stamp), m)
    BY <1>3, <1>6
  <2> QED
    BY <1>1, <1>4, <2>1, FirstEvent
<1>8. PICK d : Stamp(q, d, stamp) /\ Adds(k, d, m)
  <2>1. Joins(k, Stamped(<<q>>, stamp), m)
    BY <1>2, <1>7
  <2> QED
    BY <1>7, <2>1, OneEvent
<1>9. IsMove(e, Current(t), from, "goal_failed") /\ GivesUp(d, t)
  BY <1>6, <1>7, <1>8
<1>10. /\ Leaves(m, Derived!SetPhase(t, Derived!Last(Derived!Activation(t, A)), "exhausted"))
       /\ Read(m).traversals = Read(log).traversals
       /\ Read(m).cancelled = Read(log).cancelled
  <2>1. Adds(log, e, k) /\ Adds(k, d, m)
    BY <1>7, <1>8
  <2> QED
    BY <1>9, <2>1, GivenUp
<1>11. /\ LogInv'
       /\ derived'.revision = derived.revision /\ derived'.graph = derived.graph
       /\ derived'.lineage = derived.lineage
       /\ derived'.attempts = Read(m).attempts /\ derived'.cancelled = Read(m).cancelled
       /\ derived'.traversals = Read(m).traversals
       /\ Derived!UpdateContext(t, c)
  <2>1. derived' = Read(log') /\ Notes(m, t, c, log')
    BY <1>5, <1>6
  <2>2. /\ LogFits(m) /\ SameRevision(log, m) /\ Read(m).context = Read(log).context
        /\ \A u \in Tasks : DOMAIN Read(m).attempts[u] \subseteq 1..MaxAttempts
    BY <1>10 DEF Leaves
  <2> QED
    BY <2>1, <2>2, TransitionLeaves
<1>12. derived'.cancelled = derived.cancelled /\ derived'.traversals = derived.traversals
  BY <1>1, <1>10, <1>11
<1> QED
  BY <1>10, <1>11, <1>12 DEF Leaves

LEMMA GiveUpImplements ==
  ASSUME LogInv, NEW t \in DOMAIN derived.graph, NEW w, NEW c, Moves(t, w, "in_progress"),
         derived.graph[t].target # NoTask,
         NEW prior, prior = TraversalsBefore(log, Len(log) + 1, t, LineageOf(t)),
         prior >= derived.graph[t].limit \/ Derived!IsCancelled(derived.graph[t].target),
         Transition("goal_failed", t, Completed(t, "goal_failed") \o
           <<[kind |-> "failure_edge_exhausted", source |-> Current(t), lineage |-> LineageOf(t),
              target |-> derived.graph[t].target, traversals |-> prior]>>, << >>, c)
  PROVE  LogInv' /\ Derived!FailWithoutRepair(t, w, c) /\ derived' # derived
<1>1. PICK A : A = Derived!Accepted
  OBVIOUS
<1>2. PICK r : r = [kind |-> "attempt_completed", attempt |-> Current(t), outcome |-> "goal_failed"]
  OBVIOUS
<1>3. PICK q : q = [kind |-> "failure_edge_exhausted", source |-> Current(t), lineage |-> LineageOf(t),
                    target |-> derived.graph[t].target, traversals |-> prior]
  OBVIOUS
<1>4. /\ Derived!In(t, {"in_progress"}, A) /\ Derived!MayMove(w, t, A)
      /\ Transition("goal_failed", t, <<r>> \o <<q>>, << >>, c)
  BY <1>1, <1>2, <1>3 DEF Moves, Completed
<1>5. \A e, stamp : IsStamp(stamp) /\ Stamp(r, e, stamp) =>
                      IsMove(e, Current(t), "in_progress", "goal_failed")
  BY <1>2 DEF IsStamp, Stamp, IsMove
<1>6. \A d, stamp : IsStamp(stamp) /\ Stamp(q, d, stamp) => GivesUp(d, t)
  BY <1>3 DEF IsStamp, Stamp, GivesUp
<1>7. /\ LogInv'
      /\ derived'.attempts
           = Derived!SetPhase(t, Derived!Last(Derived!Activation(t, A)), "exhausted")
      /\ derived'.attempts # derived.attempts
      /\ Derived!UpdateContext(t, c)
      /\ derived'.revision = derived.revision /\ derived'.graph = derived.graph
      /\ derived'.lineage = derived.lineage
      /\ derived'.cancelled = derived.cancelled /\ derived'.traversals = derived.traversals
  BY <1>1, <1>4, <1>5, <1>6, MoveAndGiveUp
<1>8. ~Derived!MayRepair(t) \/ Derived!IsCancelled(derived.graph[t].target)
  <2>1. prior = Derived!PriorTraversals(t) /\ prior \in Nat
    <3>1. Derived!PriorTraversals(t) = TraversalsBefore(log, Len(log) + 1, t, LineageOf(t))
      BY PriorIs
    <3>2. \A i, x : TraversalsBefore(log, i, t, x) \in Nat
      BY LogIs, PriorIsNat
    <3> QED
      BY <3>1, <3>2
  <2>2. derived.graph[t].limit \in Nat
    BY LogIs, GraphAssumption DEF Derived!ValidGraph
  <2> QED
    BY <2>1, <2>2 DEF Derived!MayRepair
<1> QED
  BY <1>1, <1>4, <1>7, <1>8 DEF Derived!FailWithoutRepair

\* Superseding changes no phase and no number of Attempts.
LEMMA SupersedeKeeps ==
  ASSUME NEW f, NEW stop
  PROVE  /\ SameDomains(Derived!Supersede(f, stop), f)
         /\ \A t \in Tasks : \A n \in DOMAIN f[t] :
              Derived!Supersede(f, stop)[t][n].phase = f[t][n].phase
  BY DEF SameDomains, Derived!Supersede

\* The failure edge of the Task is followed.
FollowsEdge(d, t) ==
  /\ d.kind = "failure_edge_traversed" /\ d.source = Current(t) /\ d.lineage = LineageOf(t)
  /\ d.target = derived.graph[t].target /\ d.targetLineage = LineageOf(derived.graph[t].target)
  /\ d.traversal = TraversalsBefore(log, Len(log) + 1, t, LineageOf(t)) + 1

TraversalOf(t) ==
  [source |-> t, sourceLineage |-> derived.lineage[t], target |-> derived.graph[t].target,
   targetLineage |-> derived.lineage[derived.graph[t].target],
   nth |-> Derived!PriorTraversals(t) + 1]

\* A failure whose edge is followed.
LEMMA EdgeFollowed ==
  ASSUME LogInv, NEW t \in DOMAIN derived.graph, NEW A, A = Derived!Accepted,
         NEW from, Derived!In(t, {from}, A),
         derived.graph[t].target \in DOMAIN derived.graph, Derived!MayRepair(t),
         NEW e, NEW k, Adds(log, e, k), IsMove(e, Current(t), from, "goal_failed"),
         NEW d, NEW x, Adds(k, d, x), FollowsEdge(d, t)
  PROVE  /\ LogFits(x) /\ SameRevision(log, x) /\ Prefix(log, x)
         /\ Read(x).context = Read(log).context
         /\ Read(x).attempts = Derived!SetPhase(t, Derived!Last(Derived!Activation(t, A)), "goal_failed")
         /\ Read(x).cancelled = Read(log).cancelled
         /\ Read(x).traversals = Read(log).traversals \cup {TraversalOf(t)}
<1>1. PICK a : a = Current(t)
  OBVIOUS
<1>2. PICK target : target = derived.graph[t].target
  OBVIOUS
<1>f. HasFailed(k, t, A)
  BY HasFailedIs
<1>3. /\ LogFits(k) /\ SameRevision(log, k)
      /\ Read(k).context = Read(log).context /\ Read(k).cancelled = Read(log).cancelled
      /\ Read(k).traversals = Read(log).traversals
      /\ Read(k).attempts = Derived!SetPhase(t, Derived!Last(Derived!Activation(t, A)), "goal_failed")
  BY <1>f DEF HasFailed
<1>4. /\ JustFailed(k, a, t)
      /\ \A y : TraversalsBefore(k, Len(k) + 1, t, y) = TraversalsBefore(log, Len(log) + 1, t, y)
  BY <1>1, <1>f DEF HasFailed
<1>5. /\ LineageOf(t) = log[CurrentRevision(log)].lineage[t] /\ derived.graph = CurrentGraph(log)
      /\ LineageOf(target) = log[CurrentRevision(log)].lineage[target]
      /\ derived = Read(log) /\ LogFits(log) /\ IsSequence(log)
      /\ target \in DOMAIN derived.graph
  BY <1>2, LogIs DEF LogInv
<1>6. PICK prior : prior = TraversalsBefore(log, Len(log) + 1, t, LineageOf(t))
  OBVIOUS
<1>7. prior = Derived!PriorTraversals(t) /\ prior \in Nat
  <2>1. Derived!PriorTraversals(t) = TraversalsBefore(log, Len(log) + 1, t, LineageOf(t))
    BY PriorIs
  <2>2. \A i, y : TraversalsBefore(log, i, t, y) \in Nat
    BY <1>5, PriorIsNat
  <2> QED
    BY <1>6, <2>1, <2>2
<1>8. derived.graph[t].limit \in Nat
  <2>1. derived.graph[t].target # NoTask
    BY LogIs, GraphAssumption DEF Derived!IsGraph
  <2> QED
    BY <2>1, LogIs, GraphAssumption DEF Derived!ValidGraph
<1>9. prior + 1 <= CurrentGraph(k)[t].limit
  BY <1>3, <1>5, <1>7, <1>8 DEF Derived!MayRepair, SameRevision
<1>10. /\ d.kind = "failure_edge_traversed" /\ d.source = a
       /\ d.lineage = LineageOf(t) /\ d.target = target /\ d.targetLineage = LineageOf(target)
       /\ d.traversal = prior + 1
  BY <1>1, <1>2, <1>6 DEF FollowsEdge
<1>11. /\ d.lineage = k[CurrentRevision(k)].lineage[t] /\ d.target = CurrentGraph(k)[t].target
       /\ d.target \in DOMAIN CurrentGraph(k)
       /\ d.targetLineage = k[CurrentRevision(k)].lineage[d.target]
       /\ d.traversal = TraversalsBefore(k, Len(k) + 1, t, d.lineage) + 1
       /\ d.traversal <= CurrentGraph(k)[t].limit
  BY <1>2, <1>3, <1>4, <1>5, <1>6, <1>9, <1>10 DEF SameRevision
<1>12. /\ LogFits(x) /\ SameRevision(k, x)
       /\ Read(x).context = Read(k).context /\ Read(x).attempts = Read(k).attempts
       /\ Read(x).cancelled = Read(k).cancelled
       /\ Read(x).traversals = Read(k).traversals \cup
            {[source |-> t, sourceLineage |-> Read(k).lineage[t], target |-> d.target,
              targetLineage |-> Read(k).lineage[d.target], nth |-> d.traversal]}
  <2>1. /\ LogFits(k) /\ Adds(k, d, x) /\ JustFailed(k, a, t)
        /\ d.kind = "failure_edge_traversed" /\ d.source = a
        /\ d.lineage = k[CurrentRevision(k)].lineage[t] /\ d.target = CurrentGraph(k)[t].target
        /\ d.target \in DOMAIN CurrentGraph(k)
        /\ d.targetLineage = k[CurrentRevision(k)].lineage[d.target]
        /\ d.traversal = TraversalsBefore(k, Len(k) + 1, t, d.lineage) + 1
        /\ d.traversal <= CurrentGraph(k)[t].limit
    BY <1>3, <1>4, <1>10, <1>11
  <2> QED
    BY <2>1, TraversalRecorded
<1>13. Read(x).traversals = Read(log).traversals \cup {TraversalOf(t)}
  BY <1>2, <1>3, <1>5, <1>7, <1>10, <1>12 DEF SameRevision, TraversalOf
<1>14. PICK l : l = log
  OBVIOUS
<1>15. SameRevision(l, x)
  BY <1>3, <1>12, <1>14, SameRevisionTwice
<1>16. Prefix(l, x)
  <2>1. LogFits(l) /\ Adds(l, e, k)
    BY <1>5, <1>14
  <2>2. Prefix(l, k) /\ Prefix(k, x)
    BY <1>3, <2>1, OneMore
  <2> QED
    BY <2>2, SequenceIs DEF Prefix
<1> QED
  BY <1>3, <1>12, <1>13, <1>14, <1>15, <1>16

\* Attempts that a command may supersede.
Stoppable(stop) ==
  /\ IsFiniteSet(stop) /\ \A a \in stop : a[1] \in Nat /\ IsStarted(log, a)
  /\ \A a, b \in stop : a[1] = b[1] => a = b

LEMMA StopsLeave ==
  ASSUME LogInv, NEW t \in DOMAIN derived.graph,
         NEW x, LogFits(x), SameRevision(log, x), Prefix(log, x),
         Read(x).context = Read(log).context,
         NEW stop, Stoppable(stop), NEW stamp, IsStamp(stamp),
         NEW m, Joins(x, Stamped(Supersede(stop), stamp), m)
  PROVE  /\ LogFits(m) /\ SameRevision(log, m)
         /\ Read(m).context = Read(log).context
         /\ Read(m).cancelled = Read(x).cancelled /\ Read(m).traversals = Read(x).traversals
         /\ Read(m).attempts = Derived!Supersede(Read(x).attempts, stop)
<1>1. /\ IsFiniteSet(stop) /\ (\A a \in stop : a[1] \in Nat)
      /\ \A a, b \in stop : a[1] = b[1] => a = b
  BY DEF Stoppable
<1>2. IsSequence(x)
  BY DEF LogFits
<1>3. Stops(x, m, stop)
  BY <1>1, <1>2, StopEvents
<1>4. \A a \in stop : IsStarted(x, a)
  <2>1. PICK l : l = log
    OBVIOUS
  <2>2. ASSUME NEW a \in stop PROVE IsStarted(x, a)
    <3>1. IsStarted(l, a) /\ Prefix(l, x)
      BY <2>1 DEF Stoppable
    <3> QED
      BY <3>1, StartedStays
  <2> QED
    BY <2>2
<1>5. CurrentGraph(x) # << >>
  BY LogIs DEF SameRevision
<1>6. /\ LogFits(m)
      /\ Read(m).revision = Read(x).revision /\ Read(m).graph = Read(x).graph
      /\ Read(m).lineage = Read(x).lineage /\ Read(m).context = Read(x).context
      /\ Read(m).cancelled = Read(x).cancelled /\ Read(m).traversals = Read(x).traversals
      /\ CurrentRevision(m) = CurrentRevision(x) /\ CurrentGraph(m) = CurrentGraph(x)
      /\ m[CurrentRevision(x)] = x[CurrentRevision(x)]
      /\ Read(m).attempts = Derived!Supersede(Read(x).attempts, stop)
  BY <1>3, <1>4, <1>5, StopsRecorded
<1>7. PICK l : l = log
  OBVIOUS
<1>8. SameRevision(l, m)
  <2>1. SameRevision(l, x) /\ SameRevision(x, m)
    BY <1>6, <1>7 DEF SameRevision
  <2> QED
    BY <2>1, SameRevisionTwice
<1> QED
  BY <1>6, <1>7, <1>8

\* A command that records a failure, that its edge is followed, and what that
\* supersedes.
LEMMA MoveAndRepair ==
  ASSUME LogInv, NEW t \in DOMAIN derived.graph, NEW A, A = Derived!Accepted,
         NEW from, Derived!In(t, {from}, A),
         derived.graph[t].target \in DOMAIN derived.graph, Derived!MayRepair(t),
         NEW r, NEW q,
         \A e, stamp : IsStamp(stamp) /\ Stamp(r, e, stamp) => IsMove(e, Current(t), from, "goal_failed"),
         \A d, stamp : IsStamp(stamp) /\ Stamp(q, d, stamp) => FollowsEdge(d, t),
         NEW stop, Stoppable(stop),
         NEW transition, NEW traversal, NEW c,
         Transition(transition, t, (<<r>> \o <<q>>) \o Supersede(stop), traversal, c)
  PROVE  /\ LogInv'
         /\ derived'.attempts
              = Derived!Supersede(
                  Derived!SetPhase(t, Derived!Last(Derived!Activation(t, A)), "goal_failed"), stop)
         /\ derived'.attempts # derived.attempts
         /\ Derived!UpdateContext(t, c)
         /\ derived'.revision = derived.revision /\ derived'.graph = derived.graph
         /\ derived'.lineage = derived.lineage
         /\ derived'.cancelled = derived.cancelled
         /\ derived'.traversals = derived.traversals \cup {TraversalOf(t)}
<1>1. IsSequence(log) /\ derived = Read(log) /\ t \in Tasks
  BY LogIs DEF LogInv
<1>2. PICK first, second, third : /\ first = <<r>> /\ second = <<q>>
                                  /\ third = Supersede(stop)
  OBVIOUS
<1>3. IsSequence(first) /\ IsSequence(second) /\ IsSequence(third)
  BY <1>2, OneRecord, SupersedeIsSequence DEF Stoppable
<1>4. PICK rest, events : rest = second \o third /\ events = first \o rest
  OBVIOUS
<1>5. IsSequence(rest) /\ IsSequence(events) /\ events = (first \o second) \o third
  <2>1. IsSequence(rest)
    BY <1>3, <1>4, Joined
  <2>2. IsSequence(events)
    BY <1>3, <1>4, <2>1, Joined
  <2>3. first \o (second \o third) = (first \o second) \o third
    BY <1>3, JoinedTwice
  <2> QED
    BY <1>4, <2>1, <2>2, <2>3
<1>6. /\ derived' = Read(log')
      /\ \E stamp, m : /\ IsStamp(stamp) /\ Joins(log, Stamped(events, stamp), m)
                       /\ Notes(m, t, c, log')
  <2>1. Transition(transition, t, events, traversal, c)
    BY <1>2, <1>5
  <2> QED
    BY <1>1, <1>5, <2>1, TransitionIs
<1>7. PICK stamp, m : /\ IsStamp(stamp) /\ Joins(log, Stamped(events, stamp), m)
                      /\ Notes(m, t, c, log')
  BY <1>6
<1>8. PICK e, k : /\ Stamp(r, e, stamp) /\ Adds(log, e, k) /\ IsSequence(k)
                  /\ Joins(k, Stamped(rest, stamp), m)
  <2>1. Joins(log, Stamped(<<r>> \o rest, stamp), m)
    BY <1>2, <1>4, <1>7
  <2> QED
    BY <1>1, <1>5, <2>1, FirstEvent
<1>9. PICK d, x : /\ Stamp(q, d, stamp) /\ Adds(k, d, x) /\ IsSequence(x)
                  /\ Joins(x, Stamped(third, stamp), m)
  <2>1. Joins(k, Stamped(<<q>> \o third, stamp), m)
    BY <1>2, <1>4, <1>8
  <2> QED
    BY <1>3, <1>8, <2>1, FirstEvent
<1>10. IsMove(e, Current(t), from, "goal_failed") /\ FollowsEdge(d, t)
  BY <1>7, <1>8, <1>9
<1>11. /\ LogFits(x) /\ SameRevision(log, x) /\ Prefix(log, x)
       /\ Read(x).context = Read(log).context
       /\ Read(x).attempts = Derived!SetPhase(t, Derived!Last(Derived!Activation(t, A)), "goal_failed")
       /\ Read(x).cancelled = Read(log).cancelled
       /\ Read(x).traversals = Read(log).traversals \cup {TraversalOf(t)}
  <2>1. Adds(log, e, k) /\ Adds(k, d, x)
    BY <1>8, <1>9
  <2> QED
    BY <1>10, <2>1, EdgeFollowed
<1>12. /\ LogFits(m) /\ SameRevision(log, m)
       /\ Read(m).context = Read(log).context
       /\ Read(m).cancelled = Read(x).cancelled /\ Read(m).traversals = Read(x).traversals
       /\ Read(m).attempts = Derived!Supersede(Read(x).attempts, stop)
  <2>1. IsStamp(stamp) /\ Joins(x, Stamped(Supersede(stop), stamp), m)
    BY <1>2, <1>7, <1>9
  <2>2. /\ LogFits(x) /\ SameRevision(log, x) /\ Prefix(log, x)
        /\ Read(x).context = Read(log).context
    BY <1>11
  <2> QED
    BY <2>1, <2>2, StopsLeave
<1>13. PICK f, g, n : /\ f = Read(x).attempts /\ g = Derived!Supersede(f, stop)
                      /\ n = Derived!Last(Derived!Activation(t, A))
  OBVIOUS
<1>14. f # derived.attempts /\ SameDomains(f, derived.attempts)
  <2>1. PICK p, phases : p = "goal_failed" /\ phases = {from}
    OBVIOUS
  <2>2. p \notin phases /\ Derived!In(t, phases, A)
    BY <1>10, <2>1 DEF IsMove
  <2>3. LET y == Derived!SetPhase(t, Derived!Last(Derived!Activation(t, A)), p)
        IN  y # derived.attempts /\ SameDomains(y, derived.attempts)
    BY <2>2, PhaseChanges
  <2> QED
    BY <1>11, <1>13, <2>1, <2>3
<1>15. /\ n \in DOMAIN derived.attempts[t] /\ derived.attempts[t][n].phase = from
       /\ f[t][n].phase = "goal_failed"
  <2>1. /\ IsStarted(log, <<t, n>>) /\ Phase(log, <<t, n>>) \in {from}
        /\ n \in DOMAIN derived.attempts[t] /\ n \in 1..MaxAttempts
        /\ derived.attempts[t][n].phase = Phase(log, <<t, n>>)
    BY <1>13, CurrentIsStarted
  <2>2. f[t][n].phase = "goal_failed"
    <3>1. PICK y : y = derived.attempts
      OBVIOUS
    <3>2. f = [y EXCEPT ![t][n].phase = "goal_failed"]
      BY <1>11, <1>13, <3>1 DEF Derived!SetPhase
    <3>3. y = [u \in Tasks |-> y[u]] /\ n \in DOMAIN y[t] /\ n \in 1..Cardinality(Starts(log, t))
      BY <1>1, <2>1, <3>1, DerivedAttempts DEF Read, Attempts
    <3>4. y[t][n] = AttemptFold(log, <<t, n>>)
      BY <1>1, <3>1, <3>3, DerivedAttempts
    <3>5. y[t][n] = [y[t][n] EXCEPT !.phase = y[t][n].phase] /\ "phase" \in DOMAIN y[t][n]
      BY <3>4 DEF AttemptFold
    <3> QED
      BY <1>1, <3>2, <3>3, <3>5
  <2> QED
    BY <2>1, <2>2
<1>16. g # derived.attempts /\ \A u \in Tasks : DOMAIN g[u] \subseteq 1..MaxAttempts
  <2>1. SameDomains(g, f) /\ \A u \in Tasks : \A i \in DOMAIN f[u] : g[u][i].phase = f[u][i].phase
    BY <1>13, SupersedeKeeps
  <2>2. n \in DOMAIN f[t]
    BY <1>1, <1>14, <1>15 DEF SameDomains
  <2>3. g[t][n].phase = "goal_failed"
    BY <1>1, <1>15, <2>1, <2>2
  <2>4. from # "goal_failed"
    BY <1>10 DEF IsMove
  <2>5. \A u \in Tasks : DOMAIN g[u] \subseteq 1..MaxAttempts
    BY <1>14, <2>1 DEF SameDomains, LogInv
  <2> QED
    BY <1>15, <2>3, <2>4, <2>5
<1>17. /\ LogInv'
       /\ derived'.revision = derived.revision /\ derived'.graph = derived.graph
       /\ derived'.lineage = derived.lineage
       /\ derived'.attempts = Read(m).attempts /\ derived'.cancelled = Read(m).cancelled
       /\ derived'.traversals = Read(m).traversals
       /\ Derived!UpdateContext(t, c)
  <2>1. derived' = Read(log') /\ Notes(m, t, c, log')
    BY <1>6, <1>7
  <2>2. /\ LogFits(m) /\ SameRevision(log, m) /\ Read(m).context = Read(log).context
        /\ \A u \in Tasks : DOMAIN Read(m).attempts[u] \subseteq 1..MaxAttempts
    BY <1>12, <1>13, <1>16
  <2> QED
    BY <2>1, <2>2, TransitionLeaves
<1> QED
  BY <1>1, <1>11, <1>12, <1>13, <1>16, <1>17

\* A failure edge goes to a Task of the graph.
LEMMA TargetIsTask ==
  ASSUME NEW g, Derived!IsGraph(g), Derived!ValidGraph(g), NEW t \in DOMAIN g, g[t].target # NoTask
  PROVE  g[t].target \in DOMAIN g
<1>1. /\ g[t].target \in {t} \cup Derived!Ancestors(t, g)
      /\ g[t].needs \subseteq DOMAIN g /\ \A v \in DOMAIN g : g[v].needs \subseteq DOMAIN g
  BY DEF Derived!ValidGraph
<1>2. DOMAIN g \in SUBSET Tasks
  BY DEF Derived!IsGraph
<1>3. ASSUME NEW u \in Derived!Ancestors(t, g) PROVE u \in DOMAIN g
  <2>1. \A S \in SUBSET Tasks :
          /\ g[t].needs \subseteq S
          /\ \A v \in S \cap DOMAIN g : g[v].needs \subseteq S
          => u \in S
    BY <1>3 DEF Derived!Ancestors
  <2> QED
    BY <1>1, <1>2, <2>1
<1> QED
  BY <1>1, <1>3

LEMMA ClosureIsOfTasks == \A seed, g : Derived!ReverseClosure(seed, g) \in SUBSET Tasks
  BY DEF Derived!ReverseClosure

LEMMA StandingStops ==
  ASSUME LogInv, NEW S \in SUBSET Tasks, NEW A,
         NEW stop \in SUBSET Derived!StandingIds(S, A)
  PROVE  Stoppable(stop)
<1>1. /\ IsFiniteSet(stop) /\ \A a \in stop : a[1] \in Nat /\ IsStarted(log, a)
      /\ \A a, b \in stop : a[1] = b[1] => a = b
  BY StandingIs
<1> QED
  BY <1>1 DEF Stoppable

LEMMA FailWithRepairImplements ==
  ASSUME LogInv, NEW t \in DOMAIN derived.graph, NEW w, NEW c, FailWithRepair(t, w, c)
  PROVE  LogInv' /\ Derived!FailWithRepair(t, w, c) /\ derived' # derived
<1>1. PICK A : A = Derived!Accepted
  OBVIOUS
<1>2. PICK edge, prior : /\ edge = derived.graph[t].target
                         /\ prior = TraversalsBefore(log, Len(log) + 1, t, LineageOf(t))
  OBVIOUS
<1>3. PICK behind, stop :
        /\ behind = Derived!StandingIds(Derived!ReverseClosure({edge}, derived.graph), A)
        /\ stop = behind \ {Current(t)}
  OBVIOUS
<1>4. PICK r : r = [kind |-> "attempt_completed", attempt |-> Current(t), outcome |-> "goal_failed"]
  OBVIOUS
<1>5. PICK q : q = [kind |-> "failure_edge_traversed", source |-> Current(t),
                    lineage |-> LineageOf(t), target |-> edge,
                    targetLineage |-> LineageOf(edge), traversal |-> prior + 1]
  OBVIOUS
<1>6. PICK traversal : traversal = <<t, edge, prior + 1>>
  OBVIOUS
<1>7. /\ Derived!In(t, {"in_progress"}, A) /\ Derived!MayMove(w, t, A)
      /\ edge # NoTask /\ prior < derived.graph[t].limit /\ ~Derived!IsCancelled(edge)
      /\ Transition("goal_failed", t, (<<r>> \o <<q>>) \o Supersede(stop), traversal, c)
  BY <1>1, <1>2, <1>3, <1>4, <1>5, <1>6 DEF FailWithRepair, Moves, Completed
<1>8. derived.graph[t].target \in DOMAIN derived.graph
  BY <1>2, <1>7, LogIs, TargetIsTask
<1>9. prior = Derived!PriorTraversals(t)
  BY <1>2, PriorIs
<1>10. Derived!MayRepair(t)
  BY <1>7, <1>9 DEF Derived!MayRepair
<1>11. \A e, stamp : IsStamp(stamp) /\ Stamp(r, e, stamp) =>
                       IsMove(e, Current(t), "in_progress", "goal_failed")
  BY <1>4 DEF IsStamp, Stamp, IsMove
<1>12. \A d, stamp : IsStamp(stamp) /\ Stamp(q, d, stamp) => FollowsEdge(d, t)
  BY <1>2, <1>5 DEF IsStamp, Stamp, FollowsEdge
<1>13. Stoppable(stop)
  <2>1. PICK S : S = Derived!ReverseClosure({edge}, derived.graph)
    OBVIOUS
  <2>2. S \in SUBSET Tasks
    BY <2>1, ClosureIsOfTasks
  <2>3. stop \in SUBSET Derived!StandingIds(S, A)
    BY <1>3, <2>1
  <2> QED
    BY <2>2, <2>3, StandingStops
<1>14. /\ LogInv'
       /\ derived'.attempts
            = Derived!Supersede(
                Derived!SetPhase(t, Derived!Last(Derived!Activation(t, A)), "goal_failed"), stop)
       /\ derived'.attempts # derived.attempts
       /\ Derived!UpdateContext(t, c)
       /\ derived'.revision = derived.revision /\ derived'.graph = derived.graph
       /\ derived'.lineage = derived.lineage
       /\ derived'.cancelled = derived.cancelled
       /\ derived'.traversals = derived.traversals \cup {TraversalOf(t)}
  <2>1. Transition("goal_failed", t, (<<r>> \o <<q>>) \o Supersede(stop), traversal, c)
    BY <1>7
  <2>2. Derived!In(t, {"in_progress"}, A)
    BY <1>7
  <2> QED
    BY <1>1, <1>8, <1>10, <1>11, <1>12, <1>13, <2>1, <2>2, MoveAndRepair
<1>15. stop = Derived!StandingIds(Derived!ReverseClosure({edge}, derived.graph), A)
                \ {<<t, Derived!Last(Derived!Activation(t, A))>>}
  BY <1>1, <1>3 DEF Current
<1> QED
  BY <1>1, <1>2, <1>7, <1>10, <1>14, <1>15 DEF Derived!FailWithRepair, TraversalOf

Underway(t, A) == Derived!In(t, {"in_progress", "blocked"}, A)

\* The Task is cancelled, with its current Attempt if that is under way.
Cancels(e, t, A) ==
  /\ e.kind = "task_cancelled" /\ e.task = t /\ e.lineage = LineageOf(t)
  /\ e.attempt = IF Underway(t, A) THEN Current(t) ELSE << >>

AttemptsCancelled(t, A) ==
  IF Underway(t, A) THEN Derived!SetPhase(t, Derived!Last(Derived!Activation(t, A)), "cancelled")
  ELSE derived.attempts

LEMMA CancelOnly ==
  ASSUME LogInv, NEW t \in DOMAIN derived.graph, NEW A, A = Derived!Accepted,
         NEW e, NEW x, Adds(log, e, x), Cancels(e, t, A)
  PROVE  /\ LogFits(x) /\ SameRevision(log, x) /\ Prefix(log, x)
         /\ Read(x).context = Read(log).context /\ Read(x).traversals = Read(log).traversals
         /\ Read(x).cancelled = Read(log).cancelled \cup {<<t, derived.lineage[t]>>}
         /\ Read(x).attempts = AttemptsCancelled(t, A)
<1>1. PICK l : l = log
  OBVIOUS
<1>2. PICK n : n = Derived!Last(Derived!Activation(t, A))
  OBVIOUS
<1>3. Current(t) = <<t, n>> /\ <<t, n>> # << >>
  BY <1>2 DEF Current
<1>4. /\ LogFits(l) /\ t \in DOMAIN CurrentGraph(l) /\ Adds(l, e, x)
      /\ e.kind = "task_cancelled" /\ e.task = t /\ e.lineage = l[CurrentRevision(l)].lineage[t]
  BY <1>1, LogIs DEF LogInv, Cancels
<1>5. /\ Underway(t, A) => e.attempt = <<t, n>>
      /\ ~Underway(t, A) => e.attempt = << >>
  BY <1>3 DEF Cancels
<1>6. Underway(t, A) => /\ IsStarted(l, e.attempt) /\ e.attempt[1] = t /\ e.attempt[2] = n
                        /\ Phase(l, e.attempt) \in {"in_progress", "blocked"}
  <2>1. CASE Underway(t, A)
    <3>1. PICK phases : phases = {"in_progress", "blocked"}
      OBVIOUS
    <3>2. Derived!In(t, phases, A)
      BY <2>1, <3>1 DEF Underway
    <3>3. /\ IsStarted(log, <<t, n>>) /\ Phase(log, <<t, n>>) \in phases
          /\ n \in DOMAIN derived.attempts[t] /\ n \in 1..MaxAttempts
          /\ derived.attempts[t][n].phase = Phase(log, <<t, n>>)
      BY <1>2, <3>2, CurrentIsStarted
    <3> QED
      BY <1>1, <1>5, <2>1, <3>1, <3>3
  <2> QED
    BY <2>1
<1>7. /\ LogFits(x) /\ SameRevision(l, x)
      /\ Read(x).context = Read(l).context /\ Read(x).traversals = Read(l).traversals
      /\ Read(x).cancelled = Read(l).cancelled \cup {<<t, Read(l).lineage[t]>>}
      /\ e.attempt = << >> => Read(x).attempts = Read(l).attempts
      /\ e.attempt # << >> =>
           Read(x).attempts = [Read(l).attempts EXCEPT ![t][e.attempt[2]].phase = "cancelled"]
  <2>1. \/ e.attempt = << >>
        \/ /\ IsStarted(l, e.attempt) /\ e.attempt[1] = t
           /\ Phase(l, e.attempt) \in {"in_progress", "blocked"}
    BY <1>5, <1>6
  <2> QED
    BY <1>4, <2>1, CancelRecorded
<1>8. Prefix(l, x)
  BY <1>4, OneMore
<1>9. derived = Read(l)
  BY <1>1 DEF LogInv
<1>10. Read(x).attempts = AttemptsCancelled(t, A)
  <2>1. CASE Underway(t, A)
    <3>1. PICK f : f = derived.attempts
      OBVIOUS
    <3>2. Read(x).attempts = [f EXCEPT ![t][n].phase = "cancelled"]
      BY <1>3, <1>5, <1>6, <1>7, <1>9, <2>1, <3>1
    <3> QED
      BY <1>2, <2>1, <3>1, <3>2 DEF AttemptsCancelled, Derived!SetPhase
  <2>2. CASE ~Underway(t, A)
    BY <1>5, <1>7, <1>9, <2>2 DEF AttemptsCancelled
  <2> QED
    BY <2>1, <2>2
<1> QED
  BY <1>1, <1>7, <1>8, <1>9, <1>10

LEMMA CancelledDomains ==
  ASSUME LogInv, NEW t \in DOMAIN derived.graph, NEW A
  PROVE  SameDomains(AttemptsCancelled(t, A), derived.attempts)
<1>1. CASE Underway(t, A)
  <2>1. PICK p, phases : p = "cancelled" /\ phases = {"in_progress", "blocked"}
    OBVIOUS
  <2>2. p \notin phases /\ Derived!In(t, phases, A)
    BY <1>1, <2>1 DEF Underway
  <2>3. LET y == Derived!SetPhase(t, Derived!Last(Derived!Activation(t, A)), p)
        IN  y # derived.attempts /\ SameDomains(y, derived.attempts)
    BY <2>2, PhaseChanges
  <2> QED
    BY <1>1, <2>1, <2>3 DEF AttemptsCancelled
<1>2. CASE ~Underway(t, A)
  BY <1>2 DEF AttemptsCancelled, SameDomains
<1> QED
  BY <1>1, <1>2

\* A command that records a cancellation, and what that supersedes.
LEMMA CancelAndStop ==
  ASSUME LogInv, NEW t \in DOMAIN derived.graph, NEW A, A = Derived!Accepted, NEW r,
         \A e, stamp : IsStamp(stamp) /\ Stamp(r, e, stamp) => Cancels(e, t, A),
         NEW stop, Stoppable(stop),
         NEW transition, NEW traversal, NEW c,
         Transition(transition, t, <<r>> \o Supersede(stop), traversal, c)
  PROVE  /\ LogInv'
         /\ derived'.attempts = Derived!Supersede(AttemptsCancelled(t, A), stop)
         /\ Derived!UpdateContext(t, c)
         /\ derived'.revision = derived.revision /\ derived'.graph = derived.graph
         /\ derived'.lineage = derived.lineage
         /\ derived'.cancelled = derived.cancelled \cup {<<t, derived.lineage[t]>>}
         /\ derived'.traversals = derived.traversals
<1>1. IsSequence(log) /\ derived = Read(log) /\ t \in Tasks
  BY LogIs DEF LogInv
<1>2. PICK first, second, events : /\ first = <<r>> /\ second = Supersede(stop)
                                   /\ events = first \o second
  OBVIOUS
<1>3. IsSequence(second) /\ IsSequence(events)
  <2>1. IsSequence(first) /\ IsSequence(second)
    BY <1>2, OneRecord, SupersedeIsSequence DEF Stoppable
  <2> QED
    BY <1>2, <2>1, Joined
<1>4. /\ derived' = Read(log')
      /\ \E stamp, m : /\ IsStamp(stamp) /\ Joins(log, Stamped(events, stamp), m)
                       /\ Notes(m, t, c, log')
  <2>1. Transition(transition, t, events, traversal, c)
    BY <1>2
  <2> QED
    BY <1>1, <1>3, <2>1, TransitionIs
<1>5. PICK stamp, m : /\ IsStamp(stamp) /\ Joins(log, Stamped(events, stamp), m)
                      /\ Notes(m, t, c, log')
  BY <1>4
<1>6. PICK e, x : /\ Stamp(r, e, stamp) /\ Adds(log, e, x) /\ IsSequence(x)
                  /\ Joins(x, Stamped(second, stamp), m)
  <2>1. Joins(log, Stamped(<<r>> \o second, stamp), m)
    BY <1>2, <1>5
  <2> QED
    BY <1>1, <1>3, <2>1, FirstEvent
<1>7. Cancels(e, t, A)
  BY <1>5, <1>6
<1>8. /\ LogFits(x) /\ SameRevision(log, x) /\ Prefix(log, x)
      /\ Read(x).context = Read(log).context /\ Read(x).traversals = Read(log).traversals
      /\ Read(x).cancelled = Read(log).cancelled \cup {<<t, derived.lineage[t]>>}
      /\ Read(x).attempts = AttemptsCancelled(t, A)
  BY <1>6, <1>7, CancelOnly
<1>9. /\ LogFits(m) /\ SameRevision(log, m)
      /\ Read(m).context = Read(log).context
      /\ Read(m).cancelled = Read(x).cancelled /\ Read(m).traversals = Read(x).traversals
      /\ Read(m).attempts = Derived!Supersede(Read(x).attempts, stop)
  <2>1. IsStamp(stamp) /\ Joins(x, Stamped(Supersede(stop), stamp), m)
    BY <1>2, <1>5, <1>6
  <2>2. /\ LogFits(x) /\ SameRevision(log, x) /\ Prefix(log, x)
        /\ Read(x).context = Read(log).context
    BY <1>8
  <2> QED
    BY <2>1, <2>2, StopsLeave
<1>10. \A u \in Tasks : DOMAIN Read(m).attempts[u] \subseteq 1..MaxAttempts
  <2>1. PICK f, g : f = AttemptsCancelled(t, A) /\ g = Derived!Supersede(f, stop)
    OBVIOUS
  <2>2. SameDomains(f, derived.attempts) /\ SameDomains(g, f)
    BY <2>1, CancelledDomains, SupersedeKeeps
  <2>3. Read(m).attempts = g
    BY <1>8, <1>9, <2>1
  <2> QED
    BY <2>2, <2>3 DEF SameDomains, LogInv
<1>11. /\ LogInv'
       /\ derived'.revision = derived.revision /\ derived'.graph = derived.graph
       /\ derived'.lineage = derived.lineage
       /\ derived'.attempts = Read(m).attempts /\ derived'.cancelled = Read(m).cancelled
       /\ derived'.traversals = Read(m).traversals
       /\ Derived!UpdateContext(t, c)
  <2>1. derived' = Read(log') /\ Notes(m, t, c, log')
    BY <1>4, <1>5
  <2>2. LogFits(m) /\ SameRevision(log, m) /\ Read(m).context = Read(log).context
    BY <1>9
  <2> QED
    BY <1>10, <2>1, <2>2, TransitionLeaves
<1> QED
  BY <1>1, <1>8, <1>9, <1>11

LEMMA LastActive ==
  ASSUME LogInv, NEW u \in Tasks, Derived!Active(u) # {}
  PROVE  Derived!Last(Derived!Active(u)) \in 1..MaxAttempts
<1>1. PICK k, P : k = Cardinality(Starts(log, u)) /\ P = Derived!Active(u)
  OBVIOUS
<1>2. k \in Nat /\ DOMAIN derived.attempts[u] = 1..k /\ \A i \in 1..k : i \in 1..MaxAttempts
  BY <1>1, DerivedAttempts
<1>3. P \in SUBSET (1..k)
  BY <1>1, <1>2 DEF Derived!Active
<1>4. Derived!Last(P) \in P
  BY <1>1, <1>2, <1>3, LastIs
<1> QED
  BY <1>1, <1>2, <1>3, <1>4

LEMMA ActiveStops ==
  ASSUME LogInv, NEW T \in SUBSET Tasks,
         NEW stop \in SUBSET {<<u, Derived!Last(Derived!Active(u))>> :
                              u \in {v \in T : Derived!Active(v) # {}}}
  PROVE  Stoppable(stop)
<1>1. PICK A : A = Derived!Accepted
  OBVIOUS
<1>2. ASSUME NEW a \in stop PROVE a \in Derived!StandingIds(T, A)
  <2>1. PICK u \in T : Derived!Active(u) # {} /\ a = <<u, Derived!Last(Derived!Active(u))>>
    OBVIOUS
  <2>2. PICK n : n = Derived!Last(Derived!Active(u))
    OBVIOUS
  <2>3. n \in 1..MaxAttempts
    BY <2>1, <2>2, LastActive
  <2>4. n \in Derived!Standing(u, A)
    BY <2>1, <2>2 DEF Derived!Standing
  <2> QED
    BY <2>1, <2>2, <2>3, <2>4 DEF Derived!StandingIds
<1>3. stop \in SUBSET Derived!StandingIds(T, A)
  BY <1>2
<1> QED
  BY <1>3, StandingStops

LEMMA CancelImplements ==
  ASSUME LogInv, NEW t \in DOMAIN derived.graph, NEW w, NEW c, Cancel(t, w, c)
  PROVE  LogInv' /\ Derived!Cancel(t, w, c) /\ derived' # derived
<1>1. PICK A : A = Derived!Accepted
  OBVIOUS
<1>2. PICK own : own = IF Underway(t, A) THEN {Current(t)} ELSE {}
  OBVIOUS
<1>3. PICK T : T = Derived!ReverseClosure({t}, derived.graph)
  OBVIOUS
<1>4. PICK stop : stop = {<<u, Derived!Last(Derived!Active(u))>> :
                            u \in {v \in T : Derived!Active(v) # {}}} \ own
  OBVIOUS
<1>5. PICK r : r = [kind |-> "task_cancelled", task |-> t, lineage |-> LineageOf(t),
                    attempt |-> IF own = {} THEN << >> ELSE Current(t)]
  OBVIOUS
<1>6. /\ Derived!Waiting(t, A) \/ Derived!Ready(t, A) \/ own # {}
      /\ w = Leader \/ Derived!MayMove(w, t, A)
      /\ Transition("cancel", t, <<r>> \o Supersede(stop), << >>, c)
  BY <1>1, <1>2, <1>3, <1>4, <1>5 DEF Cancel, Underway
<1>7. own # {} <=> Underway(t, A)
  BY <1>2
<1>8. \A e, stamp : IsStamp(stamp) /\ Stamp(r, e, stamp) => Cancels(e, t, A)
  BY <1>5, <1>7 DEF IsStamp, Stamp, Cancels
<1>9. T \in SUBSET Tasks
  BY <1>3, ClosureIsOfTasks
<1>10. \A u \in T : Derived!Active(u) # {} => Derived!Last(Derived!Active(u)) \in 1..MaxAttempts
  BY <1>9, LastActive
<1>11. Stoppable(stop)
  BY <1>4, <1>9, ActiveStops
<1>12. /\ LogInv'
       /\ derived'.attempts = Derived!Supersede(AttemptsCancelled(t, A), stop)
       /\ Derived!UpdateContext(t, c)
       /\ derived'.revision = derived.revision /\ derived'.graph = derived.graph
       /\ derived'.lineage = derived.lineage
       /\ derived'.cancelled = derived.cancelled \cup {<<t, derived.lineage[t]>>}
       /\ derived'.traversals = derived.traversals
  <2>1. Transition("cancel", t, <<r>> \o Supersede(stop), << >>, c)
    BY <1>6
  <2> QED
    BY <1>1, <1>8, <1>11, <2>1, CancelAndStop
<1>13. stop = {a \in T \X (1..MaxAttempts) :
                 Derived!Active(a[1]) # {} /\ a[2] = Derived!Last(Derived!Active(a[1]))} \ own
  <2>1. PICK act, last : /\ act = [u \in T |-> Derived!Active(u)]
                         /\ last = [u \in T |-> Derived!Last(Derived!Active(u))]
    OBVIOUS
  <2>2. \A u \in T : act[u] # {} => last[u] \in 1..MaxAttempts
    BY <1>10, <2>1
  <2>3. stop = {<<u, last[u]>> : u \in {v \in T : act[v] # {}}} \ own
    BY <1>4, <2>1
  <2>4. {a \in T \X (1..MaxAttempts) : act[a[1]] # {} /\ a[2] = last[a[1]]}
          = {<<u, last[u]>> : u \in {v \in T : act[v] # {}}}
    BY <2>2
  <2> QED
    BY <2>1, <2>3, <2>4
<1>14. <<t, derived.lineage[t]>> \notin derived.cancelled
  <2>1. ~Derived!IsCancelled(t)
    BY <1>6, <1>7 DEF Derived!Waiting, Derived!Ready, Derived!Released, Underway, Derived!In,
                      Derived!Activation
  <2> QED
    BY <2>1 DEF Derived!IsCancelled
<1>15. own = IF Derived!In(t, {"in_progress", "blocked"}, A)
             THEN {<<t, Derived!Last(Derived!Activation(t, A))>>} ELSE {}
  BY <1>1, <1>2 DEF Underway, Current
<1>16. derived'.attempts = Derived!Supersede(
          IF own # {} THEN Derived!SetPhase(t, Derived!Last(Derived!Activation(t, A)), "cancelled")
          ELSE derived.attempts, stop)
  BY <1>7, <1>12 DEF AttemptsCancelled
<1>17. Derived!Cancel(t, w, c)
  BY <1>1, <1>3, <1>6, <1>12, <1>13, <1>15, <1>16 DEF Derived!Cancel
<1> QED
  BY <1>12, <1>14, <1>17

LEMMA ApplyGraphImplements ==
  ASSUME LogInv, NEW g \in Graphs, ApplyGraph(g)
  PROVE  LogInv' /\ Derived!ApplyGraph(g) /\ derived' # derived
<1>1. PICK A, S, stop : /\ A = Derived!Accepted /\ S = Derived!Affected(g)
                        /\ stop = Derived!StandingIds(S, A)
  OBVIOUS
<1>2. PICK lineage : lineage = [t \in DOMAIN g |->
                       IF t \in DOMAIN derived.graph /\ derived.graph[t] = g[t]
                       THEN log[CurrentRevision(log)].lineage[t] ELSE Len(log) + 1]
  OBVIOUS
<1>3. PICK r : r = [kind |-> "graph_revision", graph |-> g, lineage |-> lineage]
  OBVIOUS
<1>4. /\ derived.revision < MaxRevisions /\ Derived!ValidGraph(g)
      /\ Commit(<<r>>, Supersede(stop), 0, "apply", NoTask, << >>)
  BY <1>1, <1>2, <1>3 DEF ApplyGraph
<1>5. PICK at : LET next == log \o Stamped(<<r>>, [at |-> at])
                                \o Stamped(Supersede(stop), [operation |-> Len(receipts) + 1, at |-> at])
                IN  log' = next /\ derived' = Read(next)
  BY <1>4 DEF Commit
<1>6. PICK one, stamp, l, m : /\ one = [at |-> at] /\ stamp = [operation |-> Len(receipts) + 1, at |-> at]
                              /\ l = log /\ m = log'
  OBVIOUS
<1>7. PICK k : k = l \o Stamped(<<r>>, one)
  OBVIOUS
<1>8. derived' = Read(m) /\ Joins(k, Stamped(Supersede(stop), stamp), m)
  BY <1>5, <1>6, <1>7 DEF Joins
<1>9. /\ LogFits(l) /\ IsSequence(l) /\ derived = Read(l) /\ derived.graph = CurrentGraph(l)
  BY <1>6 DEF LogInv, LogFits, Read
<1>10. PICK e : Stamp(r, e, one) /\ Adds(l, e, k)
  <2>1. PICK e : Stamp(r, e, one) /\ Adds(l, e, l \o Stamped(<<r>>, one))
    BY <1>9, OneStamped
  <2> QED
    BY <1>7, <2>1
<1>11. e.kind = "graph_revision" /\ e.graph = g /\ e.lineage = lineage
  BY <1>3, <1>6, <1>10 DEF Stamp
<1>12. \A t \in DOMAIN g :
         e.lineage[t] = IF t \in DOMAIN CurrentGraph(l) /\ CurrentGraph(l)[t] = g[t]
                        THEN l[CurrentRevision(l)].lineage[t] ELSE Len(l) + 1
  BY <1>2, <1>6, <1>9, <1>11
<1>13. Derived!IsGraph(g) /\ g # << >>
  BY <1>4, GraphAssumption, NoRecord DEF Derived!ValidGraph
<1>14. /\ LogFits(k)
       /\ CurrentRevision(k) = Len(k) /\ CurrentGraph(k) = g
       /\ Read(k).revision = Read(l).revision + 1 /\ Read(l).revision \in Nat
       /\ Read(k).graph = g
       /\ Read(k).lineage = [t \in Tasks |->
            IF t \notin DOMAIN g THEN 0
            ELSE IF t \in DOMAIN Read(l).graph /\ Read(l).graph[t] = g[t] THEN Read(l).lineage[t]
            ELSE Read(l).revision + 1]
       /\ Read(k).attempts = Read(l).attempts /\ Read(k).context = Read(l).context
       /\ Read(k).cancelled = Read(l).cancelled /\ Read(k).traversals = Read(l).traversals
  <2>1. /\ LogFits(l) /\ Adds(l, e, k) /\ e.kind = "graph_revision" /\ e.graph = g
        /\ Derived!IsGraph(g) /\ Derived!ValidGraph(g)
    BY <1>4, <1>9, <1>10, <1>11, <1>13
  <2> QED
    BY <1>12, <2>1, RevisionRecorded
<1>15. Stoppable(stop)
  <2>1. S \in SUBSET Tasks
    BY <1>1, ClosureIsOfTasks DEF Derived!Affected
  <2>2. stop \in SUBSET Derived!StandingIds(S, A)
    BY <1>1
  <2> QED
    BY <2>1, <2>2, StandingStops
<1>16. Stops(k, m, stop) /\ \A a \in stop : IsStarted(k, a)
  <2>1. /\ IsFiniteSet(stop) /\ (\A a \in stop : a[1] \in Nat)
        /\ \A a, b \in stop : a[1] = b[1] => a = b
    BY <1>15 DEF Stoppable
  <2>2. IsStamp(stamp)
    BY <1>6 DEF IsStamp
  <2>3. IsSequence(k)
    BY <1>14 DEF LogFits
  <2>4. Stops(k, m, stop)
    BY <1>8, <2>1, <2>2, <2>3, StopEvents
  <2>5. Prefix(l, k)
    BY <1>9, <1>10, OneMore
  <2>6. ASSUME NEW a \in stop PROVE IsStarted(k, a)
    <3>1. IsStarted(l, a)
      BY <1>6, <1>15 DEF Stoppable
    <3> QED
      BY <2>5, <3>1, StartedStays
  <2> QED
    BY <2>4, <2>6
<1>17. /\ LogFits(m)
       /\ Read(m).revision = Read(k).revision /\ Read(m).graph = Read(k).graph
       /\ Read(m).lineage = Read(k).lineage /\ Read(m).context = Read(k).context
       /\ Read(m).cancelled = Read(k).cancelled /\ Read(m).traversals = Read(k).traversals
       /\ CurrentRevision(m) = CurrentRevision(k) /\ CurrentGraph(m) = CurrentGraph(k)
       /\ m[CurrentRevision(k)] = k[CurrentRevision(k)]
       /\ Read(m).attempts = Derived!Supersede(Read(k).attempts, stop)
  <2>1. LogFits(k) /\ CurrentGraph(k) # << >>
    BY <1>13, <1>14
  <2> QED
    BY <1>16, <2>1, StopsRecorded
<1>18. /\ derived'.revision = derived.revision + 1 /\ derived.revision \in Nat
       /\ derived'.graph = g /\ derived'.lineage = Derived!NextLineage(g)
       /\ derived'.attempts = Derived!Supersede(derived.attempts, stop)
       /\ derived'.cancelled = derived.cancelled /\ derived'.traversals = derived.traversals
       /\ derived'.context = derived.context
  <2>1. Read(k).lineage = Derived!NextLineage(g)
    BY <1>9, <1>14 DEF Derived!NextLineage
  <2> QED
    BY <1>8, <1>9, <1>14, <1>17, <2>1
<1>19. \A u \in Tasks : DOMAIN derived'.attempts[u] \subseteq 1..MaxAttempts
  <2>1. PICK f, h : f = derived.attempts /\ h = derived'.attempts
    OBVIOUS
  <2>2. SameDomains(h, f)
    BY <1>18, <2>1, SupersedeKeeps
  <2> QED
    BY <2>1, <2>2 DEF SameDomains, LogInv
<1>20. LogInv'
  BY <1>6, <1>8, <1>17, <1>19 DEF LogInv
<1>21. Derived!ApplyGraph(g)
  BY <1>1, <1>4, <1>18 DEF Derived!ApplyGraph
<1>22. derived' # derived
  BY <1>18
<1> QED
  BY <1>20, <1>21, <1>22

LEMMA FailWithoutRepairImplements ==
  ASSUME LogInv, NEW t \in DOMAIN derived.graph, NEW w, NEW c, FailWithoutRepair(t, w, c)
  PROVE  LogInv' /\ Derived!FailWithoutRepair(t, w, c) /\ derived' # derived
<1>1. Moves(t, w, "in_progress")
  BY DEF FailWithoutRepair
<1>2. CASE /\ derived.graph[t].target = NoTask
           /\ Transition("goal_failed", t, Completed(t, "goal_failed"), << >>, c)
  BY <1>1, <1>2, FailWithoutEdgeImplements
<1>3. ASSUME derived.graph[t].target # NoTask,
             NEW prior, prior = TraversalsBefore(log, Len(log) + 1, t, LineageOf(t)),
             prior >= derived.graph[t].limit \/ Derived!IsCancelled(derived.graph[t].target),
             Transition("goal_failed", t, Completed(t, "goal_failed") \o
               <<[kind |-> "failure_edge_exhausted", source |-> Current(t), lineage |-> LineageOf(t),
                  target |-> derived.graph[t].target, traversals |-> prior]>>, << >>, c)
      PROVE  LogInv' /\ Derived!FailWithoutRepair(t, w, c) /\ derived' # derived
  BY <1>1, <1>3, GiveUpImplements
<1>4. CASE /\ derived.graph[t].target # NoTask
           /\ LET edge == derived.graph[t].target
                  prior == TraversalsBefore(log, Len(log) + 1, t, LineageOf(t))
              IN  /\ prior >= derived.graph[t].limit \/ Derived!IsCancelled(edge)
                  /\ Transition("goal_failed", t, Completed(t, "goal_failed") \o
                       <<[kind |-> "failure_edge_exhausted", source |-> Current(t),
                          lineage |-> LineageOf(t), target |-> edge, traversals |-> prior]>>, << >>, c)
  BY <1>3, <1>4
<1> QED
  BY <1>2, <1>4 DEF FailWithoutRepair

-----------------------------------------------------------------------------
(* Every behaviour                                                         *)

\* A step is a command of TaskGraph, or notes a context again.
LogStep ==
  \/ Derived!Next /\ derived' # derived
  \/ /\ [Derived!Next]_Derived!vars
     /\ Len(log') = Len(log) + 1 /\ log'[Len(log')].kind = "task_context_updated"

LEMMA StepImplements ==
  ASSUME LogInv, Next
  PROVE  LogInv' /\ LogStep
<1>1. ASSUME NEW g \in Graphs, ApplyGraph(g) PROVE LogInv' /\ LogStep
  BY <1>1, ApplyGraphImplements DEF LogStep, Derived!Next
<1>2. ASSUME NEW t \in DOMAIN derived.graph, NEW c \in Contexts \cup {NoContext},
             RecordContext(t, c)
      PROVE  LogInv' /\ LogStep
  <2>1. /\ LogInv'
        /\ Derived!RecordContext(t, c) \/ UNCHANGED Derived!vars
        /\ Len(log') = Len(log) + 1 /\ log'[Len(log')].kind = "task_context_updated"
    BY <1>2, RecordContextImplements
  <2>2. Derived!RecordContext(t, c) => Derived!Next
    BY DEF Derived!Next
  <2> QED
    BY <2>1, <2>2 DEF LogStep
<1>3. ASSUME NEW t \in DOMAIN derived.graph, NEW c \in Contexts \cup {NoContext},
             NEW w, w = Leader \/ w \in Workers, Cancel(t, w, c)
      PROVE  LogInv' /\ LogStep
  <2>1. LogInv' /\ Derived!Cancel(t, w, c) /\ derived' # derived
    BY <1>3, CancelImplements
  <2>2. Derived!Next
    BY <1>3, <2>1 DEF Derived!Next
  <2> QED
    BY <2>1, <2>2 DEF LogStep
<1>4. ASSUME NEW t \in DOMAIN derived.graph, NEW c \in Contexts \cup {NoContext}, NEW w \in Workers,
             \/ Claim(t, w, c) \/ Block(t, w, c) \/ Resume(t, w, c) \/ Achieve(t, w, c)
             \/ FailWithoutRepair(t, w, c) \/ FailWithRepair(t, w, c)
      PROVE  LogInv' /\ LogStep
  <2>1. /\ LogInv' /\ derived' # derived
        /\ \/ Derived!Claim(t, w, c) \/ Derived!Block(t, w, c) \/ Derived!Resume(t, w, c)
           \/ Derived!Achieve(t, w, c) \/ Derived!FailWithoutRepair(t, w, c)
           \/ Derived!FailWithRepair(t, w, c)
    <3>1. CASE Claim(t, w, c)
      BY <3>1, ClaimImplements
    <3>2. CASE Block(t, w, c)
      BY <3>2, BlockImplements
    <3>3. CASE Resume(t, w, c)
      BY <3>3, ResumeImplements
    <3>4. CASE Achieve(t, w, c)
      BY <3>4, AchieveImplements
    <3>5. CASE FailWithoutRepair(t, w, c)
      BY <3>5, FailWithoutRepairImplements
    <3>6. CASE FailWithRepair(t, w, c)
      BY <3>6, FailWithRepairImplements
    <3> QED
      BY <1>4, <3>1, <3>2, <3>3, <3>4, <3>5, <3>6
  <2>2. Derived!Next
    BY <2>1 DEF Derived!Next
  <2> QED
    BY <2>1, <2>2 DEF LogStep
<1>5. \/ \E g \in Graphs : ApplyGraph(g)
      \/ \E t \in DOMAIN derived.graph, c \in Contexts \cup {NoContext} :
           \/ RecordContext(t, c)
           \/ \E w : (w = Leader \/ w \in Workers) /\ Cancel(t, w, c)
           \/ \E w \in Workers :
                \/ Claim(t, w, c) \/ Block(t, w, c) \/ Resume(t, w, c) \/ Achieve(t, w, c)
                \/ FailWithoutRepair(t, w, c) \/ FailWithRepair(t, w, c)
  BY Zenon DEF Next
<1> QED
  BY <1>1, <1>2, <1>3, <1>4, <1>5

LEMMA NothingRead ==
  /\ LogFits(<< >>)
  /\ Read(<< >>) = [revision |-> 0, graph |-> << >>, lineage |-> [t \in Tasks |-> 0],
                    attempts |-> [t \in Tasks |-> << >>], cancelled |-> {}, traversals |-> {},
                    context |-> [t \in Tasks |-> [lineage |-> 0, text |-> NoContext]]]
<1>1. PICK l : l = << >>
  OBVIOUS
<1>2. IsSequence(l) /\ Len(l) = 0 /\ DOMAIN l = {}
  BY <1>1, NoRecord
<1>3. \A kinds : Of(l, kinds) = {}
  BY <1>2 DEF Of
<1>4. Cardinality({}) = 0 /\ 1..0 = {}
  BY FS_EmptySet
<1>5. \A t : Starts(l, t) = {} /\ Ordinals(l, t) = {}
  BY <1>3 DEF Starts, Ordinals
<1>6. LogFits(l)
  BY <1>2, <1>4, <1>5 DEF LogFits
<1>7. \A i : Number(l, i) = 0
  BY <1>3, <1>4 DEF Number
<1>8. CurrentGraph(l) = << >> /\ DOMAIN CurrentGraph(l) = {}
  <2>1. {j \in Of(l, {"graph_revision"}) : j < Len(l) + 1} = {}
    BY <1>3
  <2>2. CurrentRevision(l) = 0
    BY <2>1 DEF CurrentRevision, RevisionBefore, Latest
  <2> QED
    BY <2>2, NoRecord DEF CurrentGraph, GraphOf
<1>9. Lineages(l) = [t \in Tasks |-> 0]
  BY <1>8 DEF Lineages
<1>10. Attempts(l) = [t \in Tasks |-> << >>]
  <2>1. \A t : [n \in Ordinals(l, t) |-> AttemptFold(l, <<t, n>>)] = << >>
    BY <1>5
  <2> QED
    BY <2>1 DEF Attempts
<1>11. Cancellations(l) = {} /\ Traversed(l) = {}
  BY <1>3 DEF Cancellations, Traversed
<1>12. NotedContexts(l) = [t \in Tasks |-> [lineage |-> 0, text |-> NoContext]]
  <2>1. \A t : Latest({j \in Of(l, {"task_context_updated"}) : l[j].task = t}) = 0
    BY <1>3 DEF Latest
  <2> QED
    BY <2>1 DEF NotedContexts
<1>13. Number(l, Len(l)) = 0
  BY <1>7
<1>14. Read(l) = [revision |-> 0, graph |-> << >>, lineage |-> [t \in Tasks |-> 0],
                  attempts |-> [t \in Tasks |-> << >>], cancelled |-> {}, traversals |-> {},
                  context |-> [t \in Tasks |-> [lineage |-> 0, text |-> NoContext]]]
  BY <1>8, <1>9, <1>10, <1>11, <1>12, <1>13 DEF Read
<1> QED
  BY <1>1, <1>6, <1>14

LEMMA StartImplements == Init => LogInv /\ Derived!Init
<1> SUFFICES ASSUME Init PROVE LogInv /\ Derived!Init
  OBVIOUS
<1>1. log = << >> /\ derived = Read(<< >>)
  BY DEF Init
<1>2. derived = [revision |-> 0, graph |-> << >>, lineage |-> [t \in Tasks |-> 0],
                 attempts |-> [t \in Tasks |-> << >>], cancelled |-> {}, traversals |-> {},
                 context |-> [t \in Tasks |-> [lineage |-> 0, text |-> NoContext]]]
  BY <1>1, NothingRead
<1>3. Derived!Init
  BY <1>2 DEF Derived!Init
<1>4. \A t \in Tasks : DOMAIN derived.attempts[t] = {}
  BY <1>2, NoRecord
<1> QED
  BY <1>1, <1>3, <1>4, NothingRead DEF LogInv

-----------------------------------------------------------------------------
(* Receipts                                                                *)

\* Every event is of an operation with a receipt, and replays of the operations
\* are answered with their receipts.
ReceiptInv ==
  /\ IsSequence(receipts)
  /\ \A i \in 1..Len(log) : log[i].kind # "graph_revision" => log[i].operation \in 1..Len(receipts)
  /\ \A k \in 1..Len(receipts) : ReceiptIsValid(log, k, receipts[k])

LEMMA BeginningIs ==
  ASSUME NEW l, IsSequence(l), NEW n \in 0..Len(l)
  PROVE  /\ SubSeq(l, 1, n) = [i \in 1..n |-> l[i]]
         /\ SubSeq(l, 1, Len(l)) = l
<1>1. PICK S : l \in Seq(S)
  BY DEF IsSequence
<1>2. Len(l) \in Nat /\ n \in Nat /\ n <= Len(l)
  BY <1>1
<1>3. \A j \in 0..Len(l) : SubSeq(l, 1, j) = [i \in 1..j |-> l[i]]
  <2> TAKE j \in 0..Len(l)
  <2>1. SubSeq(l, 1, j) \in Seq(S) /\ Len(SubSeq(l, 1, j)) = j
        /\ \A i \in 1..j : SubSeq(l, 1, j)[i] = l[i]
    BY <1>1, <1>2
  <2>2. SubSeq(l, 1, j) = [i \in 1..j |-> SubSeq(l, 1, j)[i]]
    BY <2>1
  <2> QED
    BY <2>1, <2>2
<1>4. l = [i \in 1..Len(l) |-> l[i]]
  BY SequenceIsFunction
<1> QED
  BY <1>2, <1>3, <1>4

LEMMA FirstIs ==
  ASSUME NEW S \in SUBSET Nat, S # {}
  PROVE  Min(S) \in S /\ \A y \in S : Min(S) <= y
<1>1. IsWellFoundedOn(OpToRel(<, Nat), Nat)
  BY NatLessThanWellFounded
<1>2. PICK x \in S : \A y \in S : ~(<<y, x>> \in OpToRel(<, Nat))
  BY <1>1, WFMin
<1>3. ASSUME NEW y \in S PROVE x <= y
  <2>1. x \in Nat /\ y \in Nat
    OBVIOUS
  <2>2. ~(y < x)
    BY <1>2, <2>1 DEF OpToRel
  <2> QED
    BY <2>1, <2>2
<1>4. PICK z : z = Min(S)
  OBVIOUS
<1>5. z \in S /\ \A y \in S : z <= y
  BY <1>3, <1>4, Zenon DEF Min
<1> QED
  BY <1>4, <1>5

\* What comes after an operation does not change what it is replayed from.
LEMMA ReplayStays ==
  ASSUME NEW l, NEW m, Prefix(l, m), NEW k, NEW receipt,
         \A i \in (Len(l) + 1)..Len(m) : m[i].kind # "graph_revision" => m[i].operation # k,
         ReceiptIsValid(l, k, receipt)
  PROVE  ReceiptIsValid(m, k, receipt)
<1>1. /\ IsSequence(l) /\ IsSequence(m) /\ Len(l) \in Nat /\ Len(m) \in Nat /\ Len(l) <= Len(m)
      /\ DOMAIN l = 1..Len(l) /\ DOMAIN m = 1..Len(m)
      /\ \A i \in 1..Len(l) : m[i] = l[i]
  BY SequenceIs DEF Prefix
<1>2. EventsOf(m, k) = EventsOf(l, k)
  <2>1. \A i \in 1..Len(m) : i \in 1..Len(l) \/ i \in (Len(l) + 1)..Len(m)
    BY <1>1
  <2> QED
    BY <1>1, <2>1 DEF EventsOf
<1>3. PICK n, s : n = EndOf(l, k, receipt) /\ s = SubSeq(l, 1, n)
  OBVIOUS
<1>4. EndOf(m, k, receipt) = n
  BY <1>2, <1>3 DEF EndOf
<1>5. \A i \in EventsOf(l, k) : i \in 1..Len(l)
  BY <1>1 DEF EventsOf
<1>6. n \in 0..Len(l)
  <2>1. PICK S : S = EventsOf(l, k) \cup IF receipt.kind = "graph_applied" THEN {receipt.revision} ELSE {}
    OBVIOUS
  <2>2. receipt.kind = "graph_applied" => receipt.revision \in 1..Len(l)
    BY <1>1, OfIs DEF ReceiptIsValid
  <2>3. S \in SUBSET (1..Len(l))
    BY <1>5, <2>1, <2>2
  <2>4. IsFiniteSet(1..Len(l))
    BY <1>1, FS_Interval
  <2>5. S \in SUBSET Nat /\ IsFiniteSet(S) /\ 0 \notin S
    <3>1. IsFiniteSet(S)
      BY <2>3, <2>4, FS_Subset
    <3>2. \A i \in S : i \in Nat /\ i # 0
      BY <1>1, <2>3
    <3> QED
      BY <3>1, <3>2
  <2>6. (S # {} => Latest(S) \in S) /\ (S = {} => Latest(S) = 0)
    BY <2>5, LatestIs DEF Latest
  <2>7. n = Latest(S)
    BY <1>3, <2>1 DEF EndOf
  <2>8. n = 0 \/ n \in S
    BY <2>6, <2>7
  <2>9. \A i \in S : i \in 0..Len(l)
    BY <1>1, <2>3
  <2> QED
    BY <1>1, <2>8, <2>9
<1>7. SubSeq(m, 1, n) = s
  <2>1. n \in 0..Len(m)
    BY <1>1, <1>6
  <2>2. SubSeq(m, 1, n) = [i \in 1..n |-> m[i]]
    BY <1>1, <2>1, BeginningIs
  <2>3. SubSeq(l, 1, n) = [i \in 1..n |-> l[i]]
    BY <1>1, <1>6, BeginningIs
  <2>4. \A i \in 1..n : m[i] = l[i]
    BY <1>1, <1>6
  <2> QED
    BY <1>3, <2>2, <2>3, <2>4
<1>8. ResultOf(m, k, receipt) = ResultOf(l, k, receipt)
  <2>1. PICK E : E = EventsOf(l, k)
    OBVIOUS
  <2>2. PICK F, G : /\ F = E \cap Of(l, {"failure_edge_traversed"})
                    /\ G = E \cap Of(m, {"failure_edge_traversed"})
    OBVIOUS
  <2>3. F = G
    BY <1>1, <1>5, <2>1, <2>2, OfIs
  <2>4. receipt.kind # "graph_applied" => E # {}
    <3>1. receipt.kind # "graph_applied" => receipt.kind = "task_transitioned"
      BY DEF ReceiptIsValid, ResultOf, Transitioned
    <3> QED
      BY <2>1, <3>1 DEF ReceiptIsValid
  <2>5. E # {} => m[Min(E)] = l[Min(E)]
    BY <1>1, <1>5, <2>1, FirstIs
  <2>6. F # {} => m[Min(F)] = l[Min(F)]
    <3>1. F \in SUBSET Nat
      BY <1>1, <1>5, <2>1, <2>2
    <3>2. F # {} => Min(F) \in 1..Len(l)
      BY <1>5, <2>1, <2>2, <3>1, FirstIs
    <3> QED
      BY <1>1, <3>2
  <2>7. CASE receipt.kind = "graph_applied"
    BY <1>3, <1>4, <1>7, <2>7 DEF ResultOf
  <2>8. CASE receipt.kind # "graph_applied"
    <3> DEFINE traversal(x, S) == IF S = {} THEN << >>
                            ELSE LET e == x[Min(S)] IN <<e.source[1], e.target, e.traversal>>
               answer(x, S, y) == Transitioned(TransitionOf(x[Min(E)]), TaskOf(x[Min(E)]),
                                               traversal(x, S), y, Read(y))
    <3>1. ResultOf(m, k, receipt) = answer(m, G, s)
      BY <1>2, <1>4, <1>7, <2>1, <2>2, <2>8 DEF ResultOf
    <3>2. ResultOf(l, k, receipt) = answer(l, F, s)
      BY <1>3, <2>1, <2>2, <2>8 DEF ResultOf
    <3>3. traversal(m, G) = traversal(l, F)
      BY <2>3, <2>6
    <3>4. m[Min(E)] = l[Min(E)]
      BY <2>4, <2>5, <2>8
    <3> HIDE DEF traversal
    <3> QED
      BY <3>1, <3>2, <3>3, <3>4
  <2> QED
    BY <2>7, <2>8
<1>9. receipt.kind = "graph_applied" => receipt.revision \in Of(m, {"graph_revision"})
  <2>1. \A i \in Of(l, {"graph_revision"}) : i \in Of(m, {"graph_revision"})
    BY <1>1, OfIs
  <2> QED
    BY <2>1 DEF ReceiptIsValid
<1> QED
  BY <1>2, <1>8, <1>9 DEF ReceiptIsValid

\* The log and the receipts go on together.
LEMMA ReceiptsGrow ==
  ASSUME ReceiptInv, NEW m, m = log', Prefix(log, m), NEW receipt,
         receipts' = Append(receipts, receipt),
         \A i \in (Len(log) + 1)..Len(m) :
           m[i].kind # "graph_revision" => m[i].operation = Len(receipts) + 1,
         ReceiptIsValid(m, Len(receipts) + 1, receipt)
  PROVE  ReceiptInv'
<1>1. PICK l, n : l = log /\ n = Len(receipts)
  OBVIOUS
<1>2. PICK old, new : old = receipts /\ new = receipts'
  OBVIOUS
<1>3. /\ IsSequence(old) /\ n = Len(old) /\ n \in Nat
      /\ \A i \in 1..Len(l) : l[i].kind # "graph_revision" => l[i].operation \in 1..n
      /\ \A k \in 1..n : ReceiptIsValid(l, k, old[k])
  <2>1. IsSequence(old) /\ n = Len(old)
    BY <1>1, <1>2 DEF ReceiptInv
  <2>2. n \in Nat
    BY <2>1, SequenceIs
  <2> QED
    BY <1>1, <1>2, <2>1, <2>2 DEF ReceiptInv
<1>4. /\ IsSequence(new) /\ Len(new) = n + 1 /\ new[n + 1] = receipt
      /\ \A k \in 1..n : new[k] = old[k]
  <2>1. PICK S : old \in Seq(S)
    BY <1>3 DEF IsSequence
  <2>2. old \in Seq(S \cup {receipt})
    BY <2>1, SequenceOfMore
  <2>3. new = Append(old, receipt)
    BY <1>2
  <2>4. /\ new \in Seq(S \cup {receipt}) /\ Len(new) = n + 1 /\ new[n + 1] = receipt
        /\ \A k \in 1..n : new[k] = old[k]
    BY <1>3, <2>2, <2>3
  <2> QED
    BY <2>4 DEF IsSequence
<1>5. /\ IsSequence(l) /\ IsSequence(m) /\ Len(l) \in Nat /\ Len(m) \in Nat
      /\ \A i \in 1..Len(m) : i \in 1..Len(l) \/ i \in (Len(l) + 1)..Len(m)
      /\ \A i \in 1..Len(l) : m[i] = l[i]
  <2>1. /\ IsSequence(l) /\ IsSequence(m) /\ Len(l) \in Nat /\ Len(m) \in Nat
        /\ \A i \in 1..Len(l) : m[i] = l[i]
    BY <1>1, SequenceIs DEF Prefix
  <2> QED
    BY <2>1
<1>6. \A i \in 1..Len(m) : m[i].kind # "graph_revision" => m[i].operation \in 1..(n + 1)
  BY <1>1, <1>3, <1>5
<1>7. ASSUME NEW k \in 1..(n + 1) PROVE ReceiptIsValid(m, k, new[k])
  <2>1. CASE k = n + 1
    BY <1>1, <1>4, <2>1
  <2>2. CASE k # n + 1
    <3>1. k \in 1..n
      BY <1>3, <2>2
    <3>2. \A i \in (Len(l) + 1)..Len(m) : m[i].kind # "graph_revision" => m[i].operation # k
      BY <1>1, <2>2
    <3>3. Prefix(l, m) /\ ReceiptIsValid(l, k, old[k])
      BY <1>1, <1>3, <3>1
    <3>4. ReceiptIsValid(m, k, old[k])
      BY <3>2, <3>3, ReplayStays
    <3> QED
      BY <1>4, <3>1, <3>4
  <2> QED
    BY <2>1, <2>2
<1> QED
  BY <1>2, <1>4, <1>6, <1>7 DEF ReceiptInv

\* A record with the fields of an event.
Becomes(r, e) == \E stamp : IsStamp(stamp) /\ Stamp(r, e, stamp)

\* The records of a command from which its result can be told.
Says(records, transition, t, traversal) ==
  /\ IsSequence(records) /\ 1 \in 1..Len(records)
  /\ \A e : Becomes(records[1], e) => TransitionOf(e) = transition /\ TaskOf(e) = t
  /\ \A i \in 1..Len(records) : \A e : Becomes(records[i], e) => e.kind # "graph_revision"
  /\ \/ /\ traversal = << >>
        /\ \A i \in 1..Len(records) : \A e :
             Becomes(records[i], e) => e.kind # "failure_edge_traversed"
     \/ \E f \in 1..Len(records) :
          \A i \in 1..Len(records) : \A e : Becomes(records[i], e) =>
            /\ e.kind = "failure_edge_traversed" <=> i = f
            /\ i = f => traversal = <<e.source[1], e.target, e.traversal>>

\* Records that a result does not show.
SayNothing(records) ==
  /\ IsSequence(records)
  /\ \A i \in 1..Len(records) : \A e :
       Becomes(records[i], e) => e.kind \notin {"graph_revision", "failure_edge_traversed"}

LEMMA EventsRecorded ==
  ASSUME NEW l, IsSequence(l), NEW records, IsSequence(records), NEW stamp, IsStamp(stamp),
         NEW m, Joins(l, Stamped(records, stamp), m)
  PROVE  /\ Prefix(l, m) /\ Len(m) = Len(l) + Len(records)
         /\ Len(l) \in Nat /\ Len(records) \in Nat
         /\ \A i \in 1..Len(records) :
              Becomes(records[i], m[Len(l) + i]) /\ m[Len(l) + i].operation = stamp.operation
         /\ \A i \in (Len(l) + 1)..Len(m) : i - Len(l) \in 1..Len(records)
<1>1. PICK s : s = Stamped(records, stamp)
  OBVIOUS
<1>2. /\ IsSequence(s) /\ Len(s) = Len(records)
      /\ \A i \in 1..Len(s) : s[i] = WithFields(records[i], stamp)
  BY <1>1, StampedIs
<1>3. Len(l) \in Nat /\ Len(records) \in Nat
  BY SequenceIs
<1>4. m = l \o s
  BY <1>1 DEF Joins
<1>5. Prefix(l, m)
  BY <1>2, <1>4, JoinedGoesOn
<1>6. Len(m) = Len(l) + Len(s) /\ \A i \in 1..Len(s) : m[Len(l) + i] = s[i]
  <2>1. Len(l \o s) = Len(l) + Len(s) /\ \A i \in 1..Len(s) : (l \o s)[Len(l) + i] = s[i]
    BY <1>2, Joined
  <2> QED
    BY <1>4, <2>1
<1>7. ASSUME NEW r PROVE Becomes(r, WithFields(r, stamp)) /\ WithFields(r, stamp).operation = stamp.operation
  <2>1. PICK e : e = WithFields(r, stamp)
    OBVIOUS
  <2>2. Stamp(r, e, stamp)
    BY <2>1 DEF Stamp, WithFields
  <2>3. e.operation = stamp.operation
    BY <2>2 DEF Stamp, IsStamp
  <2> QED
    BY <2>1, <2>2, <2>3 DEF Becomes
<1>8. \A i \in (Len(l) + 1)..Len(m) : i - Len(l) \in 1..Len(records)
  BY <1>2, <1>3, <1>6
<1>9. ASSUME NEW i \in 1..Len(records)
      PROVE  Becomes(records[i], m[Len(l) + i]) /\ m[Len(l) + i].operation = stamp.operation
  <2>1. m[Len(l) + i] = WithFields(records[i], stamp)
    BY <1>2, <1>6
  <2> QED
    BY <1>7, <2>1
<1> QED
  BY <1>2, <1>3, <1>5, <1>6, <1>8, <1>9

\* A command about a Task is replayed as it was answered.
LEMMA EventsAnswer ==
  ASSUME NEW l, IsSequence(l), NEW records, NEW stamp, IsStamp(stamp),
         NEW m, Joins(l, Stamped(records, stamp), m),
         NEW transition, NEW t, NEW traversal, Says(records, transition, t, traversal),
         \A i \in 1..Len(l) : l[i].kind # "graph_revision" => l[i].operation # stamp.operation
  PROVE  ReceiptIsValid(m, stamp.operation, Transitioned(transition, t, traversal, m, Read(m)))
<1>1. PICK n, k, j : n = Len(l) /\ k = Len(records) /\ j = stamp.operation
  OBVIOUS
<1>2. /\ Prefix(l, m) /\ Len(m) = n + k /\ n \in Nat /\ k \in Nat /\ 1 \in 1..k
      /\ \A i \in 1..k : Becomes(records[i], m[n + i]) /\ m[n + i].operation = j
      /\ \A i \in (n + 1)..(n + k) : i - n \in 1..k
  <2>1. IsSequence(records) /\ 1 \in 1..k
    BY <1>1 DEF Says
  <2>2. /\ Prefix(l, m) /\ Len(m) = Len(l) + Len(records)
        /\ Len(l) \in Nat /\ Len(records) \in Nat
        /\ \A i \in 1..Len(records) :
             Becomes(records[i], m[Len(l) + i]) /\ m[Len(l) + i].operation = stamp.operation
        /\ \A i \in (Len(l) + 1)..Len(m) : i - Len(l) \in 1..Len(records)
    BY <2>1, EventsRecorded
  <2> QED
    BY <1>1, <2>1, <2>2
<1>3. /\ IsSequence(m) /\ DOMAIN m = 1..(n + k) /\ \A i \in 1..n : m[i] = l[i]
  BY <1>1, <1>2, SequenceIs DEF Prefix
<1>4. \A i \in (n + 1)..(n + k) :
        /\ i = n + (i - n) /\ i - n \in 1..k
        /\ m[i].kind # "graph_revision" /\ m[i].operation = j
  <2> TAKE i \in (n + 1)..(n + k)
  <2>1. i = n + (i - n) /\ i - n \in 1..k
    BY <1>2
  <2>2. Becomes(records[i - n], m[i]) /\ m[i].operation = j
    BY <1>2, <2>1
  <2>3. m[i].kind # "graph_revision"
    BY <1>1, <2>1, <2>2 DEF Says
  <2> QED
    BY <2>1, <2>2, <2>3
<1>5. EventsOf(m, j) = (n + 1)..(n + k)
  <2>1. \A i \in 1..n : m[i].kind # "graph_revision" => m[i].operation # j
    BY <1>1, <1>3
  <2>2. \A i \in 1..(n + k) : i \in 1..n \/ i \in (n + 1)..(n + k)
    BY <1>2
  <2>3. \A i \in (n + 1)..(n + k) : i \in 1..(n + k)
    BY <1>2
  <2> QED
    BY <1>3, <1>4, <2>1, <2>2, <2>3 DEF EventsOf
<1>6. PICK E : E = EventsOf(m, j)
  OBVIOUS
<1>7. E \in SUBSET Nat /\ IsFiniteSet(E) /\ 0 \notin E /\ n + 1 \in E /\ n + k \in E
      /\ \A i \in E : n + 1 <= i /\ i <= n + k
  <2>1. IsFiniteSet((n + 1)..(n + k))
    BY <1>2, FS_Interval
  <2>2. \A i \in (n + 1)..(n + k) : i \in Nat /\ i # 0 /\ n + 1 <= i /\ i <= n + k
    BY <1>2
  <2>3. n + 1 \in (n + 1)..(n + k) /\ n + k \in (n + 1)..(n + k)
    BY <1>2
  <2> QED
    BY <1>5, <1>6, <2>1, <2>2, <2>3
<1>8. Latest(E) = n + k
  BY <1>7, LatestIs
<1>9. Min(E) = n + 1
  <2>1. Min(E) \in E /\ Min(E) <= n + 1
    BY <1>7, FirstIs
  <2>2. Min(E) \in Nat /\ n + 1 <= Min(E)
    BY <1>7, <2>1
  <2> QED
    BY <1>2, <2>1, <2>2
<1>10. TransitionOf(m[n + 1]) = transition /\ TaskOf(m[n + 1]) = t
  BY <1>2 DEF Says
<1>11. PICK F : F = E \cap Of(m, {"failure_edge_traversed"})
  OBVIOUS
<1>12. \A i : i \in F <=> i \in E /\ m[i].kind = "failure_edge_traversed"
  BY <1>3, <1>5, <1>6, <1>11 DEF Of, EventsOf
<1>13. traversal = IF F = {} THEN << >>
                   ELSE LET e == m[Min(F)] IN <<e.source[1], e.target, e.traversal>>
  <2>1. CASE /\ traversal = << >>
             /\ \A i \in 1..Len(records) : \A e :
                  Becomes(records[i], e) => e.kind # "failure_edge_traversed"
    <3>1. \A i \in E : m[i].kind # "failure_edge_traversed"
      <4> TAKE i \in E
      <4>1. i = n + (i - n) /\ i - n \in 1..k
        BY <1>4, <1>5, <1>6
      <4>2. Becomes(records[i - n], m[i])
        BY <1>2, <4>1
      <4> QED
        BY <1>1, <2>1, <4>1, <4>2
    <3>2. F = {}
      BY <1>12, <3>1
    <3> QED
      BY <2>1, <3>2
  <2>2. CASE \E f \in 1..Len(records) :
               \A i \in 1..Len(records) : \A e : Becomes(records[i], e) =>
                 /\ e.kind = "failure_edge_traversed" <=> i = f
                 /\ i = f => traversal = <<e.source[1], e.target, e.traversal>>
    <3>1. PICK f \in 1..k :
            \A i \in 1..k : \A e : Becomes(records[i], e) =>
              /\ e.kind = "failure_edge_traversed" <=> i = f
              /\ i = f => traversal = <<e.source[1], e.target, e.traversal>>
      BY <1>1, <2>2
    <3>2. \A i \in E : m[i].kind = "failure_edge_traversed" <=> i - n = f
      <4> TAKE i \in E
      <4>1. i = n + (i - n) /\ i - n \in 1..k
        BY <1>4, <1>5, <1>6
      <4>2. Becomes(records[i - n], m[i])
        BY <1>2, <4>1
      <4> QED
        BY <3>1, <4>1, <4>2
    <3>3. F = {n + f}
      <4>1. n + f \in E /\ (n + f) - n = f
        BY <1>2, <1>5, <1>6
      <4>2. \A i \in E : i - n = f => i = n + f
        BY <1>2, <1>7
      <4> QED
        BY <1>12, <3>2, <4>1, <4>2
    <3>4. n + f \in Nat
      BY <1>2
    <3>5. Min({n + f}) = n + f
      BY <3>4, FirstIs
    <3>6. Becomes(records[f], m[n + f])
      BY <1>2
    <3>7. traversal = <<m[n + f].source[1], m[n + f].target, m[n + f].traversal>>
      BY <3>1, <3>6
    <3> QED
      BY <3>3, <3>5, <3>7
  <2> QED
    BY <2>1, <2>2 DEF Says
<1>14. PICK receipt : receipt = Transitioned(transition, t, traversal, m, Read(m))
  OBVIOUS
<1>15. receipt.kind = "task_transitioned"
  BY <1>14 DEF Transitioned
<1>16. EndOf(m, j, receipt) = n + k
  <2>1. E \cup {} = E
    OBVIOUS
  <2> QED
    BY <1>6, <1>8, <1>15, <2>1 DEF EndOf
<1>17. SubSeq(m, 1, n + k) = m
  <2>1. SubSeq(m, 1, Len(m)) = m
    <3>1. Len(m) \in 0..Len(m)
      BY <1>2
    <3> QED
      BY <1>3, <3>1, BeginningIs
  <2> QED
    BY <1>2, <2>1
<1>18. ResultOf(m, j, receipt) = receipt
  <2> DEFINE told == IF F = {} THEN << >>
                     ELSE LET e == m[Min(F)] IN <<e.source[1], e.target, e.traversal>>
  <2>1. ResultOf(m, j, receipt)
          = Transitioned(TransitionOf(m[n + 1]), TaskOf(m[n + 1]), told, m, Read(m))
    BY <1>6, <1>9, <1>11, <1>15, <1>16, <1>17 DEF ResultOf
  <2>2. told = traversal
    BY <1>13
  <2> HIDE DEF told
  <2> QED
    BY <1>10, <1>14, <2>1, <2>2
<1>19. ReceiptIsValid(m, j, receipt)
  BY <1>6, <1>7, <1>15, <1>18 DEF ReceiptIsValid
<1> QED
  BY <1>1, <1>14, <1>19

\* The same for a command that applies a graph.
LEMMA GraphAnswers ==
  ASSUME NEW l, NEW k, Prefix(l, k), Len(k) = Len(l) + 1, k[Len(k)].kind = "graph_revision",
         NEW records, SayNothing(records), NEW stamp, IsStamp(stamp),
         NEW m, Joins(k, Stamped(records, stamp), m), CurrentRevision(m) = Len(k),
         \A i \in 1..Len(l) : l[i].kind # "graph_revision" => l[i].operation # stamp.operation
  PROVE  /\ ReceiptIsValid(m, stamp.operation, Applied(m, Read(m)))
         /\ \A i \in (Len(l) + 1)..Len(m) :
              m[i].kind # "graph_revision" => m[i].operation = stamp.operation
<1>1. PICK n, s, j : n = Len(k) /\ s = Len(records) /\ j = stamp.operation
  OBVIOUS
<1>2. /\ Prefix(k, m) /\ Len(m) = n + s /\ n \in Nat /\ s \in Nat /\ Len(l) \in Nat
      /\ \A i \in 1..s : Becomes(records[i], m[n + i]) /\ m[n + i].operation = j
      /\ \A i \in (n + 1)..(n + s) : i - n \in 1..s
  <2>1. IsSequence(records) /\ IsSequence(k)
    BY DEF SayNothing, Prefix
  <2>2. /\ Prefix(k, m) /\ Len(m) = Len(k) + Len(records)
        /\ Len(k) \in Nat /\ Len(records) \in Nat
        /\ \A i \in 1..Len(records) :
             Becomes(records[i], m[Len(k) + i]) /\ m[Len(k) + i].operation = stamp.operation
        /\ \A i \in (Len(k) + 1)..Len(m) : i - Len(k) \in 1..Len(records)
    BY <2>1, EventsRecorded
  <2>3. Len(l) \in Nat
    BY SequenceIs DEF Prefix
  <2> QED
    BY <1>1, <2>2, <2>3
<1>3. /\ IsSequence(m) /\ DOMAIN m = 1..(n + s) /\ n = Len(l) + 1
      /\ \A i \in 1..n : m[i] = k[i]
      /\ m[n].kind = "graph_revision" /\ \A i \in 1..Len(l) : m[i] = l[i]
  <2>1. IsSequence(m) /\ DOMAIN m = 1..(n + s) /\ \A i \in 1..n : m[i] = k[i]
    BY <1>1, <1>2, SequenceIs DEF Prefix
  <2>2. n \in 1..n /\ \A i \in 1..Len(l) : i \in 1..n
    BY <1>1, <1>2
  <2>3. \A i \in 1..Len(l) : k[i] = l[i]
    BY DEF Prefix
  <2> QED
    BY <1>1, <2>1, <2>2, <2>3
<1>4. \A i \in (n + 1)..(n + s) : m[i].operation = j
  <2> TAKE i \in (n + 1)..(n + s)
  <2>1. i = n + (i - n) /\ i - n \in 1..s
    BY <1>2
  <2> QED
    BY <1>2, <2>1
<1>5. \A i \in (Len(l) + 1)..Len(m) : m[i].kind # "graph_revision" => m[i].operation = j
  <2>1. \A i \in (Len(l) + 1)..Len(m) : i = n \/ i \in (n + 1)..(n + s)
    BY <1>2, <1>3
  <2> QED
    BY <1>3, <1>4, <2>1
<1>6. PICK S : S = EventsOf(m, j) \cup {n}
  OBVIOUS
<1>7. ASSUME NEW i \in S PROVE i \in n..(n + s)
  <2>1. CASE i = n
    BY <1>2, <2>1
  <2>2. CASE i \in EventsOf(m, j)
    <3>1. i \in 1..(n + s) /\ m[i].kind # "graph_revision" /\ m[i].operation = j
      BY <1>3, <2>2 DEF EventsOf
    <3>2. i \notin 1..Len(l)
      BY <1>1, <1>3, <3>1
    <3> QED
      BY <1>2, <1>3, <3>1, <3>2
  <2> QED
    BY <1>6, <2>1, <2>2
<1>8. n + s \in S
  <2>1. CASE s = 0
    BY <1>2, <1>6, <2>1
  <2>2. CASE s # 0
    <3>1. s \in 1..s /\ n + s \in (n + 1)..(n + s) /\ n + s \in 1..(n + s)
      BY <1>2, <2>2
    <3>2. Becomes(records[s], m[n + s])
      BY <1>2, <3>1
    <3>3. m[n + s].kind # "graph_revision"
      BY <1>1, <3>1, <3>2 DEF SayNothing
    <3> QED
      BY <1>3, <1>4, <1>6, <3>1, <3>3 DEF EventsOf
  <2> QED
    BY <2>1, <2>2
<1>9. Latest(S) = n + s
  <2>1. \A i \in S : i \in Nat /\ i # 0 /\ i <= n + s
    BY <1>2, <1>3, <1>7
  <2>2. IsFiniteSet(n..(n + s))
    BY <1>2, FS_Interval
  <2>3. IsFiniteSet(S)
    <3>1. S \in SUBSET (n..(n + s))
      BY <1>7
    <3> QED
      BY <2>2, <3>1, FS_Subset
  <2>4. S \in SUBSET Nat /\ 0 \notin S
    BY <2>1
  <2> QED
    BY <1>8, <2>1, <2>3, <2>4, LatestIs
<1>10. PICK receipt : receipt = Applied(m, Read(m))
  OBVIOUS
<1>11. receipt.kind = "graph_applied" /\ receipt.revision = n
  BY <1>1, <1>10 DEF Applied
<1>12. EndOf(m, j, receipt) = n + s
  BY <1>6, <1>9, <1>11 DEF EndOf
<1>13. SubSeq(m, 1, n + s) = m
  <2>1. Len(m) \in 0..Len(m)
    BY <1>2
  <2> QED
    BY <1>2, <1>3, <2>1, BeginningIs
<1>14. ResultOf(m, j, receipt) = receipt
  BY <1>10, <1>11, <1>12, <1>13 DEF ResultOf
<1>15. n \in Of(m, {"graph_revision"})
  <2>1. n \in 1..(n + s)
    BY <1>2, <1>3
  <2> QED
    BY <1>3, <2>1 DEF Of
<1>16. ReceiptIsValid(m, j, receipt)
  BY <1>11, <1>14, <1>15 DEF ReceiptIsValid
<1> QED
  BY <1>1, <1>5, <1>10, <1>16

LEMMA SaysOne ==
  ASSUME NEW r, NEW transition, NEW t,
         \A e, stamp : IsStamp(stamp) /\ Stamp(r, e, stamp) =>
           /\ TransitionOf(e) = transition /\ TaskOf(e) = t
           /\ e.kind \notin {"graph_revision", "failure_edge_traversed"}
  PROVE  Says(<<r>>, transition, t, << >>)
<1>1. PICK s : s = <<r>>
  OBVIOUS
<1>2. IsSequence(s) /\ Len(s) = 1 /\ s[1] = r /\ 1..1 = {1}
  BY <1>1, OneRecord
<1>3. \A e : Becomes(r, e) => /\ TransitionOf(e) = transition /\ TaskOf(e) = t
                              /\ e.kind \notin {"graph_revision", "failure_edge_traversed"}
  BY DEF Becomes
<1>4. \A i \in 1..Len(s) : s[i] = r
  BY <1>2
<1>5. Says(s, transition, t, << >>)
  BY <1>2, <1>3, <1>4 DEF Says
<1> QED
  BY <1>1, <1>5

\* The records of a command that are followed by others.
LEMMA RecordsJoined ==
  ASSUME NEW a, IsSequence(a), NEW b, IsSequence(b)
  PROVE  /\ IsSequence(a \o b) /\ Len(a) \in Nat /\ Len(b) \in Nat
         /\ \A i \in 1..Len(a) : i \in 1..Len(a \o b) /\ (a \o b)[i] = a[i]
         /\ \A i \in 1..Len(a \o b) : i \notin 1..Len(a) =>
              /\ i = Len(a) + (i - Len(a)) /\ i - Len(a) \in 1..Len(b)
              /\ (a \o b)[i] = b[i - Len(a)]
<1>1. Len(a) \in Nat /\ Len(b) \in Nat
  BY SequenceIs
<1>2. /\ IsSequence(a \o b) /\ Len(a \o b) = Len(a) + Len(b)
      /\ \A i \in 1..Len(a) : (a \o b)[i] = a[i]
      /\ \A i \in 1..(Len(a) + Len(b)) : i \notin 1..Len(a) =>
           i - Len(a) \in 1..Len(b) /\ (a \o b)[i] = b[i - Len(a)]
  BY Joined
<1>3. \A i \in 1..Len(a) : i \in 1..(Len(a) + Len(b))
  BY <1>1
<1>4. \A i \in 1..(Len(a) + Len(b)) : i = Len(a) + (i - Len(a))
  BY <1>1
<1> QED
  BY <1>1, <1>2, <1>3, <1>4

LEMMA SaysMore ==
  ASSUME NEW a, NEW b, NEW transition, NEW t, NEW traversal,
         Says(a, transition, t, traversal), SayNothing(b)
  PROVE  Says(a \o b, transition, t, traversal)
<1>1. PICK c : c = a \o b
  OBVIOUS
<1>2. IsSequence(a) /\ IsSequence(b) /\ 1 \in 1..Len(a)
  BY DEF Says, SayNothing
<1>3. /\ IsSequence(c)
      /\ \A i \in 1..Len(a) : i \in 1..Len(c) /\ c[i] = a[i]
      /\ \A i \in 1..Len(c) : i \notin 1..Len(a) =>
           i - Len(a) \in 1..Len(b) /\ c[i] = b[i - Len(a)]
  BY <1>1, <1>2, RecordsJoined
<1>4. c[1] = a[1] /\ 1 \in 1..Len(c)
  BY <1>2, <1>3
<1>5. \A i \in 1..Len(c) : i \notin 1..Len(a) => \A e :
        Becomes(c[i], e) => e.kind \notin {"graph_revision", "failure_edge_traversed"}
  BY <1>3 DEF SayNothing
<1>6. \A i \in 1..Len(c) : \A e : Becomes(c[i], e) => e.kind # "graph_revision"
  BY <1>3, <1>5 DEF Says
<1>7. \A e : Becomes(c[1], e) => TransitionOf(e) = transition /\ TaskOf(e) = t
  BY <1>4 DEF Says
<1>8. CASE /\ traversal = << >>
           /\ \A i \in 1..Len(a) : \A e : Becomes(a[i], e) => e.kind # "failure_edge_traversed"
  <2>1. \A i \in 1..Len(c) : \A e : Becomes(c[i], e) => e.kind # "failure_edge_traversed"
    BY <1>3, <1>5, <1>8
  <2>2. Says(c, transition, t, traversal)
    BY <1>3, <1>4, <1>6, <1>7, <1>8, <2>1 DEF Says
  <2> QED
    BY <1>1, <2>2
<1>9. CASE \E f \in 1..Len(a) :
             \A i \in 1..Len(a) : \A e : Becomes(a[i], e) =>
               /\ e.kind = "failure_edge_traversed" <=> i = f
               /\ i = f => traversal = <<e.source[1], e.target, e.traversal>>
  <2>1. PICK f \in 1..Len(a) :
             \A i \in 1..Len(a) : \A e : Becomes(a[i], e) =>
               /\ e.kind = "failure_edge_traversed" <=> i = f
               /\ i = f => traversal = <<e.source[1], e.target, e.traversal>>
    BY <1>9
  <2>2. f \in 1..Len(c)
    BY <1>3
  <2>3. ASSUME NEW i \in 1..Len(c), NEW e, Becomes(c[i], e)
        PROVE  /\ e.kind = "failure_edge_traversed" <=> i = f
               /\ i = f => traversal = <<e.source[1], e.target, e.traversal>>
    <3>1. CASE i \in 1..Len(a)
      BY <1>3, <2>1, <2>3, <3>1
    <3>2. CASE i \notin 1..Len(a)
      BY <1>5, <2>3, <3>2
    <3> QED
      BY <3>1, <3>2
  <2>4. Says(c, transition, t, traversal)
    BY <1>3, <1>4, <1>6, <1>7, <2>2, <2>3 DEF Says
  <2> QED
    BY <1>1, <2>4
<1> QED
  BY <1>8, <1>9 DEF Says

LEMMA SaysFollowed ==
  ASSUME NEW r, NEW q, NEW transition, NEW t, Says(<<r>>, transition, t, << >>), NEW traversal,
         \A e, stamp : IsStamp(stamp) /\ Stamp(q, e, stamp) =>
           /\ e.kind = "failure_edge_traversed"
           /\ traversal = <<e.source[1], e.target, e.traversal>>
  PROVE  Says(<<r>> \o <<q>>, transition, t, traversal)
<1>1. PICK a, b : a = <<r>> /\ b = <<q>>
  OBVIOUS
<1>2. PICK c : c = a \o b
  OBVIOUS
<1>3. IsSequence(a) /\ Len(a) = 1 /\ a[1] = r /\ IsSequence(b) /\ Len(b) = 1 /\ b[1] = q
  BY <1>1, OneRecord
<1>4. IsSequence(c) /\ Len(c) = 2 /\ c[1] = r /\ c[2] = q
  <2>1. /\ IsSequence(c) /\ Len(c) = Len(a) + Len(b)
        /\ \A i \in 1..Len(a) : c[i] = a[i]
        /\ \A i \in 1..Len(b) : c[Len(a) + i] = b[i]
    <3>1. /\ IsSequence(a \o b) /\ Len(a \o b) = Len(a) + Len(b)
          /\ \A i \in 1..Len(a) : (a \o b)[i] = a[i]
          /\ \A i \in 1..Len(b) : (a \o b)[Len(a) + i] = b[i]
      BY <1>3, Joined
    <3> QED
      BY <1>2, <3>1
  <2>2. 1 \in 1..1 /\ 1 + 1 = 2
    OBVIOUS
  <2> QED
    BY <1>3, <2>1, <2>2
<1>5. \A e : Becomes(r, e) => /\ TransitionOf(e) = transition /\ TaskOf(e) = t
                              /\ e.kind # "graph_revision" /\ e.kind # "failure_edge_traversed"
  <2>1. Says(a, transition, t, << >>)
    BY <1>1
  <2>2. 1 \in 1..Len(a) /\ 1..Len(a) = {1}
    BY <1>3
  <2>3. \A e : Becomes(r, e) => /\ TransitionOf(e) = transition /\ TaskOf(e) = t
                                /\ e.kind # "graph_revision"
    BY <1>3, <2>1, <2>2 DEF Says
  <2>4. ASSUME NEW e, Becomes(r, e) PROVE e.kind # "failure_edge_traversed"
    <3>1. CASE \A i \in 1..Len(a) : \A x : Becomes(a[i], x) => x.kind # "failure_edge_traversed"
      BY <1>3, <2>2, <2>4, <3>1
    <3>2. CASE \E f \in 1..Len(a) :
                 \A i \in 1..Len(a) : \A x : Becomes(a[i], x) =>
                   /\ x.kind = "failure_edge_traversed" <=> i = f
                   /\ i = f => << >> = <<x.source[1], x.target, x.traversal>>
      <4>1. << >> = <<e.source[1], e.target, e.traversal>>
        BY <1>3, <2>2, <2>4, <3>2
      <4> QED
        BY <4>1
    <3> QED
      BY <2>1, <3>1, <3>2 DEF Says
  <2> QED
    BY <2>3, <2>4
<1>6. \A e : Becomes(q, e) => /\ e.kind = "failure_edge_traversed"
                              /\ traversal = <<e.source[1], e.target, e.traversal>>
  BY DEF Becomes
<1>7. 1..Len(c) = {1, 2}
  BY <1>4
<1>8. \A i \in 1..Len(c) : \A e : Becomes(c[i], e) =>
        /\ e.kind = "failure_edge_traversed" <=> i = 2
        /\ i = 2 => traversal = <<e.source[1], e.target, e.traversal>>
  BY <1>4, <1>5, <1>6, <1>7
<1>9. \A i \in 1..Len(c) : \A e : Becomes(c[i], e) => e.kind # "graph_revision"
  BY <1>4, <1>5, <1>6, <1>7
<1>10. 2 \in 1..Len(c) /\ 1 \in 1..Len(c)
  BY <1>7
<1>11. Says(c, transition, t, traversal)
  BY <1>4, <1>5, <1>8, <1>9, <1>10 DEF Says
<1> QED
  BY <1>1, <1>2, <1>11

LEMMA SupersedeSaysNothing ==
  ASSUME NEW stop, Stoppable(stop)
  PROVE  SayNothing(Supersede(stop))
<1>1. IsFiniteSet(stop) /\ (\A a \in stop : a[1] \in Nat) /\ \A a, b \in stop : a[1] = b[1] => a = b
  BY DEF Stoppable
<1>2. PICK s : s = Supersede(stop)
  OBVIOUS
<1>3. IsSequence(s) /\ DOMAIN s = 1..Len(s)
  BY <1>1, <1>2, SupersedeIsSequence, SequenceIs
<1>4. ASSUME NEW i \in DOMAIN s, NEW e, Becomes(s[i], e) PROVE e.kind = "attempt_superseded"
  <2>1. s[i] = [kind |-> "attempt_superseded", attempt |-> InOrder(stop)[i]]
    BY <1>2 DEF Supersede
  <2>2. PICK a : a = InOrder(stop)[i]
    OBVIOUS
  <2>3. PICK stamp : IsStamp(stamp) /\ Stamp(s[i], e, stamp)
    BY <1>4 DEF Becomes
  <2>4. s[i] = [kind |-> "attempt_superseded", attempt |-> a]
    BY <2>1, <2>2
  <2> QED
    BY <2>3, <2>4 DEF Stamp, IsStamp
<1>5. SayNothing(s)
  BY <1>3, <1>4 DEF SayNothing
<1> QED
  BY <1>2, <1>5

\* A command about a Task whose own events, or else its context, say its result.
LEMMA TransitionAnswers ==
  ASSUME LogInv, ReceiptInv, NEW t \in Tasks, NEW events, NEW transition, NEW traversal, NEW c,
         Transition(transition, t, events, traversal, c),
         \/ Says(events, transition, t, traversal)
         \/ /\ events = << >> /\ c # NoContext
            /\ transition = "context_updated" /\ traversal = << >>
  PROVE  ReceiptInv'
<1> DEFINE r == [kind |-> "task_context_updated", task |-> t, lineage |-> LineageOf(t), text |-> c]
           noted == IF c = NoContext THEN << >> ELSE <<r>>
<1>1. Commit(<< >>, events \o noted, Len(noted), transition, t, traversal)
  BY DEF Transition
<1>2. \A e, stamp : IsStamp(stamp) /\ Stamp(r, e, stamp) =>
        /\ TransitionOf(e) = "context_updated" /\ TaskOf(e) = t
        /\ e.kind \notin {"graph_revision", "failure_edge_traversed"}
  <2> SUFFICES ASSUME NEW e, NEW stamp, IsStamp(stamp), Stamp(r, e, stamp)
               PROVE  /\ TransitionOf(e) = "context_updated" /\ TaskOf(e) = t
                      /\ e.kind \notin {"graph_revision", "failure_edge_traversed"}
    OBVIOUS
  <2>1. e.kind = "task_context_updated" /\ e.task = t
    BY DEF IsStamp, Stamp
  <2> QED
    BY <2>1 DEF TransitionOf, TaskOf
<1> HIDE DEF r
<1>3. Says(<<r>>, "context_updated", t, << >>)
  BY <1>2, SaysOne
<1>4. SayNothing(noted)
  <2>1. CASE c = NoContext
    <3>1. noted = << >> /\ 1..0 = {}
      BY <2>1
    <3> HIDE DEF noted
    <3> QED
      BY <3>1, NoRecord DEF SayNothing
  <2>2. CASE c # NoContext
    <3>1. IsSequence(<<r>>) /\ Len(<<r>>) = 1 /\ <<r>>[1] = r /\ 1..1 = {1}
      BY OneRecord
    <3>2. \A e : Becomes(r, e) => e.kind \notin {"graph_revision", "failure_edge_traversed"}
      BY <1>2 DEF Becomes
    <3>3. PICK s : s = <<r>>
      OBVIOUS
    <3>4. SayNothing(s)
      BY <3>1, <3>2, <3>3 DEF SayNothing
    <3> QED
      BY <2>2, <3>3, <3>4
  <2> QED
    BY <2>1, <2>2
<1>5. PICK records : records = events \o noted
  OBVIOUS
<1>6. Says(records, transition, t, traversal)
  <2>1. CASE Says(events, transition, t, traversal)
    <3> HIDE DEF noted
    <3> QED
      BY <1>4, <1>5, <2>1, SaysMore
  <2>2. CASE /\ events = << >> /\ c # NoContext
             /\ transition = "context_updated" /\ traversal = << >>
    <3>1. noted = <<r>>
      BY <2>2
    <3>2. << >> \o <<r>> = <<r>>
      BY OneRecord, JoinedToNone
    <3>3. records = <<r>>
      BY <1>5, <2>2, <3>1, <3>2
    <3> QED
      BY <1>3, <2>2, <3>3
  <2> QED
    BY <2>1, <2>2
<1> HIDE DEF noted
<1>7. PICK at : LET operation == Len(receipts) + 1
                    next == log \o Stamped(<< >>, [at |-> at])
                                \o Stamped(records, [operation |-> operation, at |-> at])
                IN  /\ log' = next
                    /\ receipts' = Append(receipts, Result(transition, t, traversal, next, Read(next)))
  BY <1>1, <1>5 DEF Commit
<1>8. PICK stamp : stamp = [operation |-> Len(receipts) + 1, at |-> at]
  OBVIOUS
<1>9. IsStamp(stamp) /\ stamp.operation = Len(receipts) + 1
  BY <1>8 DEF IsStamp
<1>10. IsSequence(log) /\ IsSequence(records)
  BY <1>6 DEF LogInv, LogFits, Says
<1>11. PICK m : m = log'
  OBVIOUS
<1>12. Joins(log, Stamped(records, stamp), m)
  <2>1. log \o Stamped(<< >>, [at |-> at]) = log
    BY <1>10, NoneStamped, JoinedToNone
  <2> QED
    BY <1>7, <1>8, <1>11, <2>1 DEF Joins
<1>13. PICK receipt : receipt = Transitioned(transition, t, traversal, m, Read(m))
  OBVIOUS
<1>14. receipts' = Append(receipts, receipt)
  <2>1. t # NoTask
    BY GraphAssumption
  <2> QED
    BY <1>7, <1>11, <1>13, <2>1 DEF Result
<1>15. \A i \in 1..Len(log) : log[i].kind # "graph_revision" => log[i].operation # stamp.operation
  <2>1. Len(receipts) \in Nat
    BY SequenceIs DEF ReceiptInv
  <2>2. Len(receipts) + 1 \notin 1..Len(receipts)
    BY <2>1
  <2> QED
    BY <1>9, <2>2 DEF ReceiptInv
<1>16. PICK l : l = log
  OBVIOUS
<1>17. ReceiptIsValid(m, stamp.operation, receipt)
  <2>1. /\ IsSequence(l) /\ Joins(l, Stamped(records, stamp), m)
        /\ \A i \in 1..Len(l) : l[i].kind # "graph_revision" => l[i].operation # stamp.operation
    BY <1>10, <1>12, <1>15, <1>16
  <2>2. ReceiptIsValid(m, stamp.operation, Transitioned(transition, t, traversal, m, Read(m)))
    BY <1>6, <1>9, <2>1, EventsAnswer
  <2> QED
    BY <1>13, <2>2
<1>18. /\ Prefix(l, m)
       /\ \A i \in (Len(l) + 1)..Len(m) : m[i].operation = stamp.operation
  <2>1. IsSequence(l) /\ Joins(l, Stamped(records, stamp), m)
    BY <1>10, <1>12, <1>16
  <2>2. /\ Prefix(l, m) /\ Len(l) \in Nat /\ Len(m) = Len(l) + Len(records)
        /\ Len(records) \in Nat
        /\ \A i \in 1..Len(records) : m[Len(l) + i].operation = stamp.operation
        /\ \A i \in (Len(l) + 1)..Len(m) : i - Len(l) \in 1..Len(records)
    BY <1>9, <1>10, <2>1, EventsRecorded
  <2>3. \A i \in (Len(l) + 1)..Len(m) : i = Len(l) + (i - Len(l))
    BY <2>2
  <2> QED
    BY <2>2, <2>3
<1> QED
  BY <1>9, <1>11, <1>14, <1>16, <1>17, <1>18, ReceiptsGrow

\* Nothing else than a stamped graph is recorded before what is superseded.
LEMMA ApplyGraphAnswers ==
  ASSUME LogInv, ReceiptInv, NEW g \in Graphs, ApplyGraph(g)
  PROVE  ReceiptInv'
<1>1. PICK S, stop : S = Derived!Affected(g) /\ stop = Derived!StandingIds(S, Derived!Accepted)
  OBVIOUS
<1>2. PICK lineage : lineage = [t \in DOMAIN g |->
                       IF t \in DOMAIN derived.graph /\ derived.graph[t] = g[t]
                       THEN log[CurrentRevision(log)].lineage[t] ELSE Len(log) + 1]
  OBVIOUS
<1>3. PICK r : r = [kind |-> "graph_revision", graph |-> g, lineage |-> lineage]
  OBVIOUS
<1>4. Commit(<<r>>, Supersede(stop), 0, "apply", NoTask, << >>)
  BY <1>1, <1>2, <1>3 DEF ApplyGraph
<1>5. SayNothing(Supersede(stop))
  <2>1. S \in SUBSET Tasks
    BY <1>1, ClosureIsOfTasks DEF Derived!Affected
  <2>2. stop \in SUBSET Derived!StandingIds(S, Derived!Accepted)
    BY <1>1
  <2>3. Stoppable(stop)
    BY <2>1, <2>2, StandingStops
  <2> QED
    BY <2>3, SupersedeSaysNothing
<1>6. PICK records : records = Supersede(stop)
  OBVIOUS
<1>7. PICK at : LET next == log \o Stamped(<<r>>, [at |-> at])
                                \o Stamped(records, [operation |-> Len(receipts) + 1, at |-> at])
                IN  /\ log' = next
                    /\ receipts' = Append(receipts, Result("apply", NoTask, << >>, next, Read(next)))
  BY <1>4, <1>6 DEF Commit
<1>8. PICK one, stamp, l, m : /\ one = [at |-> at] /\ stamp = [operation |-> Len(receipts) + 1, at |-> at]
                              /\ l = log /\ m = log'
  OBVIOUS
<1>9. PICK k : k = l \o Stamped(<<r>>, one)
  OBVIOUS
<1>10. Joins(k, Stamped(records, stamp), m)
  BY <1>7, <1>8, <1>9 DEF Joins
<1>11. receipts' = Append(receipts, Applied(m, Read(m)))
  BY <1>7, <1>8 DEF Result
<1>12. IsStamp(stamp) /\ stamp.operation = Len(receipts) + 1
  BY <1>8 DEF IsStamp
<1>13. LogFits(l) /\ IsSequence(l)
  BY <1>8 DEF LogInv, LogFits
<1>14. PICK e : Stamp(r, e, one) /\ Adds(l, e, k)
  <2>1. PICK e : Stamp(r, e, one) /\ Adds(l, e, l \o Stamped(<<r>>, one))
    BY <1>13, OneStamped
  <2> QED
    BY <1>9, <2>1
<1>15. e.kind = "graph_revision"
  BY <1>3, <1>8, <1>14 DEF Stamp
<1>16. /\ Prefix(l, k) /\ Len(l) \in Nat /\ Len(k) = Len(l) + 1 /\ k[Len(k)] = e
       /\ IsSequence(k) /\ \A i \in 1..Len(l) : k[i] = l[i]
  <2>1. Prefix(l, k) /\ Len(l) \in Nat /\ Len(k) = Len(l) + 1 /\ k[Len(k)] = e /\ IsSequence(k)
    BY <1>13, <1>14, OneMore
  <2> QED
    BY <2>1 DEF Prefix
<1>17. IsSequence(records) /\ SayNothing(records)
  BY <1>5, <1>6 DEF SayNothing
<1>18. /\ Prefix(k, m) /\ Len(m) = Len(k) + Len(records) /\ Len(records) \in Nat
       /\ \A i \in 1..Len(records) : Becomes(records[i], m[Len(k) + i])
       /\ \A i \in (Len(k) + 1)..Len(m) : i - Len(k) \in 1..Len(records)
  <2>1. /\ Prefix(k, m) /\ Len(m) = Len(k) + Len(records)
        /\ Len(k) \in Nat /\ Len(records) \in Nat
        /\ \A i \in 1..Len(records) :
             Becomes(records[i], m[Len(k) + i]) /\ m[Len(k) + i].operation = stamp.operation
        /\ \A i \in (Len(k) + 1)..Len(m) : i - Len(k) \in 1..Len(records)
    BY <1>10, <1>12, <1>16, <1>17, EventsRecorded
  <2> QED
    BY <2>1
<1>19. NoneNew(k, m, {"graph_revision"})
  <2>1. ASSUME NEW i \in (Len(k) + 1)..Len(m) PROVE m[i].kind # "graph_revision"
    <3>1. i = Len(k) + (i - Len(k)) /\ i - Len(k) \in 1..Len(records)
      BY <1>16, <1>18
    <3>2. Becomes(records[i - Len(k)], m[i])
      BY <1>18, <3>1
    <3> QED
      BY <1>17, <3>1, <3>2 DEF SayNothing
  <2> QED
    BY <2>1 DEF NoneNew
<1>20. CurrentRevision(m) = Len(k)
  <2>1. IsSequence(m) /\ Len(m) \in Nat /\ Len(k) \in Nat /\ Len(k) <= Len(m)
        /\ m[Len(k)] = k[Len(k)] /\ Len(k) \in 1..Len(m)
    <3>1. Len(k) \in 1..Len(k)
      BY <1>16
    <3> QED
      BY <1>16, <1>18, <3>1 DEF Prefix
  <2>2. Len(k) \in Revisions(m)
    BY <1>15, <1>16, <2>1, OfIs DEF Revisions
  <2>3. ASSUME NEW i \in Revisions(m) PROVE i \in Nat /\ i <= Len(k)
    <3>1. i \in 1..Len(m) /\ m[i].kind = "graph_revision"
      BY <2>1, OfIs DEF Revisions
    <3>2. i \notin (Len(k) + 1)..Len(m)
      BY <1>19, <3>1 DEF NoneNew
    <3> QED
      BY <2>1, <3>1, <3>2
  <2>4. PICK P : P = {i \in Revisions(m) : i < Len(m) + 1}
    OBVIOUS
  <2>5. P \in SUBSET Of(m, {"graph_revision"}) /\ Len(k) \in P
    BY <2>1, <2>2, <2>4 DEF Revisions
  <2>6. Latest(P) \in P /\ \A y \in P : y <= Latest(P)
    BY <2>1, <2>5, PlacesAre, ZenonT(60)
  <2>7. Latest(P) \in Nat /\ Latest(P) <= Len(k) /\ Len(k) <= Latest(P)
    BY <2>3, <2>4, <2>5, <2>6
  <2>8. CurrentRevision(m) = Latest(P)
    BY <2>4 DEF CurrentRevision, RevisionBefore, Revisions
  <2> QED
    BY <2>1, <2>7, <2>8
<1>21. \A i \in 1..Len(l) : l[i].kind # "graph_revision" => l[i].operation # stamp.operation
  <2>1. Len(receipts) \in Nat
    BY SequenceIs DEF ReceiptInv
  <2>2. Len(receipts) + 1 \notin 1..Len(receipts)
    BY <2>1
  <2> QED
    BY <1>8, <1>12, <2>2 DEF ReceiptInv
<1>22. /\ ReceiptIsValid(m, stamp.operation, Applied(m, Read(m)))
       /\ \A i \in (Len(l) + 1)..Len(m) :
            m[i].kind # "graph_revision" => m[i].operation = stamp.operation
  <2>1. Prefix(l, k) /\ Len(k) = Len(l) + 1 /\ k[Len(k)].kind = "graph_revision"
    BY <1>15, <1>16
  <2> QED
    BY <1>10, <1>12, <1>17, <1>20, <1>21, <2>1, GraphAnswers
<1>23. Prefix(l, m)
  <2>1. IsSequence(l) /\ IsSequence(m) /\ Len(m) \in Nat /\ Len(k) <= Len(m)
        /\ \A i \in 1..Len(k) : m[i] = k[i]
    BY <1>13, <1>18, SequenceIs DEF Prefix
  <2>2. \A i \in 1..Len(l) : i \in 1..Len(k)
    BY <1>16
  <2>3. Len(l) <= Len(m)
    BY <1>16, <2>1
  <2> QED
    BY <1>16, <2>1, <2>2, <2>3 DEF Prefix
<1>24. PICK receipt : receipt = Applied(m, Read(m))
  OBVIOUS
<1> QED
  BY <1>8, <1>11, <1>12, <1>22, <1>23, <1>24, ReceiptsGrow

AttemptRecords == {"attempt_started", "attempt_blocked", "attempt_resumed", "attempt_completed"}

LEMMA AttemptSays ==
  ASSUME NEW t, NEW r, NEW transition,
         \A e, stamp : IsStamp(stamp) /\ Stamp(r, e, stamp) =>
           e.kind \in AttemptRecords /\ e.attempt[1] = t /\ TransitionOf(e) = transition
  PROVE  Says(<<r>>, transition, t, << >>)
<1>1. \A e, stamp : IsStamp(stamp) /\ Stamp(r, e, stamp) =>
        /\ TransitionOf(e) = transition /\ TaskOf(e) = t
        /\ e.kind \notin {"graph_revision", "failure_edge_traversed"}
  BY DEF AttemptRecords, TaskOf
<1> QED
  BY <1>1, SaysOne

LEMMA StepAnswers ==
  ASSUME LogInv, ReceiptInv, Next
  PROVE  ReceiptInv'
<1>1. ASSUME NEW g \in Graphs, ApplyGraph(g) PROVE ReceiptInv'
  BY <1>1, ApplyGraphAnswers
<1>2. ASSUME NEW t \in DOMAIN derived.graph, NEW c, RecordContext(t, c) PROVE ReceiptInv'
  <2>1. t \in Tasks
    BY <1>2, LogIs
  <2>2. c # NoContext /\ Transition("context_updated", t, << >>, << >>, c)
    BY <1>2 DEF RecordContext
  <2> QED
    BY <2>1, <2>2, TransitionAnswers
<1>3. ASSUME NEW t \in DOMAIN derived.graph, NEW c, NEW transition, NEW traversal, NEW records,
             Says(records, transition, t, traversal),
             Transition(transition, t, records, traversal, c)
      PROVE  ReceiptInv'
  <2>1. t \in Tasks
    BY <1>3, LogIs
  <2> QED
    BY <1>3, <2>1, TransitionAnswers
<1>4. ASSUME NEW t \in DOMAIN derived.graph, NEW c, NEW w, Cancel(t, w, c) PROVE ReceiptInv'
  <2>1. PICK A, own, r, stop :
          /\ A = Derived!Accepted
          /\ own = IF Derived!In(t, {"in_progress", "blocked"}, A) THEN {Current(t)} ELSE {}
          /\ r = [kind |-> "task_cancelled", task |-> t, lineage |-> LineageOf(t),
                  attempt |-> IF own = {} THEN << >> ELSE Current(t)]
          /\ stop = {<<u, Derived!Last(Derived!Active(u))>> :
                       u \in {v \in Derived!ReverseClosure({t}, derived.graph) :
                                Derived!Active(v) # {}}} \ own
    OBVIOUS
  <2>2. Transition("cancel", t, <<r>> \o Supersede(stop), << >>, c)
    BY <1>4, <2>1 DEF Cancel
  <2>3. Stoppable(stop)
    <3>1. Derived!ReverseClosure({t}, derived.graph) \in SUBSET Tasks
      BY ClosureIsOfTasks
    <3> QED
      BY <2>1, <3>1, ActiveStops
  <2>4. \A e, stamp : IsStamp(stamp) /\ Stamp(r, e, stamp) =>
          /\ TransitionOf(e) = "cancel" /\ TaskOf(e) = t
          /\ e.kind \notin {"graph_revision", "failure_edge_traversed"}
    <3> SUFFICES ASSUME NEW e, NEW stamp, IsStamp(stamp), Stamp(r, e, stamp)
                 PROVE  /\ TransitionOf(e) = "cancel" /\ TaskOf(e) = t
                        /\ e.kind \notin {"graph_revision", "failure_edge_traversed"}
      OBVIOUS
    <3>1. e.kind = "task_cancelled" /\ e.task = t
      BY <2>1 DEF IsStamp, Stamp
    <3> QED
      BY <3>1 DEF TransitionOf, TaskOf
  <2>5. Says(<<r>>, "cancel", t, << >>)
    BY <2>4, SaysOne
  <2>6. PICK records : records = <<r>> \o Supersede(stop)
    OBVIOUS
  <2>7. Says(records, "cancel", t, << >>)
    BY <2>3, <2>5, <2>6, SupersedeSaysNothing, SaysMore
  <2> QED
    BY <1>3, <2>2, <2>6, <2>7
<1>5. ASSUME NEW t \in DOMAIN derived.graph, NEW c, NEW w, Claim(t, w, c) PROVE ReceiptInv'
  <2>1. PICK a, x, y, z, d : /\ a = <<t, NextOrdinal(t)>> /\ x = CurrentRevision(log)
                             /\ y = Derived!Demand(t) /\ z = Derived!Inputs(t, Derived!Accepted)
                             /\ d = LineageOf(t)
    OBVIOUS
  <2>2. PICK r : r = [kind |-> "attempt_started", attempt |-> a, revision |-> x, lineage |-> d,
                      demand |-> y, inputs |-> z, worker |-> w]
    OBVIOUS
  <2>3. Transition("claim", t, <<r>>, << >>, c)
    BY <1>5, <2>1, <2>2 DEF Claim
  <2>4. \A e, stamp : IsStamp(stamp) /\ Stamp(r, e, stamp) =>
          e.kind = "attempt_started" /\ e.attempt = a
    BY <2>2 DEF IsStamp, Stamp
  <2>5. \A e, stamp : IsStamp(stamp) /\ Stamp(r, e, stamp) =>
          e.kind \in AttemptRecords /\ e.attempt[1] = t /\ TransitionOf(e) = "claim"
    BY <2>1, <2>4 DEF TransitionOf, AttemptRecords
  <2>6. PICK records : records = <<r>>
    OBVIOUS
  <2>7. Says(records, "claim", t, << >>)
    BY <2>5, <2>6, AttemptSays
  <2> QED
    BY <1>3, <2>3, <2>6, <2>7
<1>6. ASSUME NEW t \in DOMAIN derived.graph, NEW c, NEW w, Block(t, w, c) PROVE ReceiptInv'
  <2>1. PICK r : r = [kind |-> "attempt_blocked", attempt |-> Current(t)]
    OBVIOUS
  <2>2. Transition("block", t, <<r>>, << >>, c)
    BY <1>6, <2>1 DEF Block
  <2>3. \A e, stamp : IsStamp(stamp) /\ Stamp(r, e, stamp) =>
          e.kind = "attempt_blocked" /\ e.attempt = Current(t)
    BY <2>1 DEF IsStamp, Stamp
  <2>4. \A e, stamp : IsStamp(stamp) /\ Stamp(r, e, stamp) =>
          e.kind \in AttemptRecords /\ e.attempt[1] = t /\ TransitionOf(e) = "block"
    BY <2>3 DEF TransitionOf, AttemptRecords, Current
  <2>5. PICK records : records = <<r>>
    OBVIOUS
  <2>6. Says(records, "block", t, << >>)
    BY <2>4, <2>5, AttemptSays
  <2> QED
    BY <1>3, <2>2, <2>5, <2>6
<1>7. ASSUME NEW t \in DOMAIN derived.graph, NEW c, NEW w, Resume(t, w, c) PROVE ReceiptInv'
  <2>1. PICK r : r = [kind |-> "attempt_resumed", attempt |-> Current(t)]
    OBVIOUS
  <2>2. Transition("resume", t, <<r>>, << >>, c)
    BY <1>7, <2>1 DEF Resume
  <2>3. \A e, stamp : IsStamp(stamp) /\ Stamp(r, e, stamp) =>
          e.kind = "attempt_resumed" /\ e.attempt = Current(t)
    BY <2>1 DEF IsStamp, Stamp
  <2>4. \A e, stamp : IsStamp(stamp) /\ Stamp(r, e, stamp) =>
          e.kind \in AttemptRecords /\ e.attempt[1] = t /\ TransitionOf(e) = "resume"
    BY <2>3 DEF TransitionOf, AttemptRecords, Current
  <2>5. PICK records : records = <<r>>
    OBVIOUS
  <2>6. Says(records, "resume", t, << >>)
    BY <2>4, <2>5, AttemptSays
  <2> QED
    BY <1>3, <2>2, <2>5, <2>6
<1>8. ASSUME NEW t \in DOMAIN derived.graph, NEW outcome
      PROVE  Says(Completed(t, outcome), outcome, t, << >>)
  <2>1. PICK r : r = [kind |-> "attempt_completed", attempt |-> Current(t), outcome |-> outcome]
    OBVIOUS
  <2>2. \A e, stamp : IsStamp(stamp) /\ Stamp(r, e, stamp) =>
          e.kind = "attempt_completed" /\ e.attempt = Current(t) /\ e.outcome = outcome
    BY <2>1 DEF IsStamp, Stamp
  <2>3. \A e, stamp : IsStamp(stamp) /\ Stamp(r, e, stamp) =>
          e.kind \in AttemptRecords /\ e.attempt[1] = t /\ TransitionOf(e) = outcome
    BY <2>2 DEF TransitionOf, AttemptRecords, Current
  <2>4. Completed(t, outcome) = <<r>>
    BY <2>1 DEF Completed
  <2>5. Says(<<r>>, outcome, t, << >>)
    BY <2>3, AttemptSays
  <2> QED
    BY <2>4, <2>5
<1>9. ASSUME NEW t \in DOMAIN derived.graph, NEW c, NEW w, Achieve(t, w, c) PROVE ReceiptInv'
  <2>1. PICK o : o = "goal_achieved"
    OBVIOUS
  <2>2. Transition(o, t, Completed(t, o), << >>, c)
    BY <1>9, <2>1 DEF Achieve
  <2> QED
    BY <1>3, <1>8, <2>2
<1>10. ASSUME NEW t \in DOMAIN derived.graph, NEW c, NEW w, FailWithoutRepair(t, w, c)
       PROVE  ReceiptInv'
  <2>1. PICK o, q : /\ o = "goal_failed"
                    /\ q = [kind |-> "failure_edge_exhausted", source |-> Current(t),
                            lineage |-> LineageOf(t), target |-> derived.graph[t].target,
                            traversals |-> TraversalsBefore(log, Len(log) + 1, t, LineageOf(t))]
    OBVIOUS
  <2>2. \/ Transition(o, t, Completed(t, o), << >>, c)
        \/ Transition(o, t, Completed(t, o) \o <<q>>, << >>, c)
    BY <1>10, <2>1 DEF FailWithoutRepair
  <2>3. CASE Transition(o, t, Completed(t, o), << >>, c)
    BY <1>3, <1>8, <2>3
  <2>4. CASE Transition(o, t, Completed(t, o) \o <<q>>, << >>, c)
    <3>1. \A e : Becomes(q, e) => e.kind = "failure_edge_exhausted"
      BY <2>1 DEF Becomes, IsStamp, Stamp
    <3>2. PICK s : s = <<q>>
      OBVIOUS
    <3>3. IsSequence(s) /\ Len(s) = 1 /\ s[1] = q /\ 1..1 = {1}
      BY <3>2, OneRecord
    <3>4. SayNothing(s)
      BY <3>1, <3>3 DEF SayNothing
    <3>5. Says(Completed(t, o), o, t, << >>)
      BY <1>8
    <3>6. PICK records : records = Completed(t, o) \o s
      OBVIOUS
    <3>7. Says(records, o, t, << >>)
      BY <3>4, <3>5, <3>6, SaysMore
    <3> QED
      BY <1>3, <2>4, <3>2, <3>6, <3>7
  <2> QED
    BY <2>2, <2>3, <2>4
<1>11. ASSUME NEW t \in DOMAIN derived.graph, NEW c, NEW w, FailWithRepair(t, w, c)
       PROVE  ReceiptInv'
  <2>1. PICK A, edge, prior : /\ A = Derived!Accepted /\ edge = derived.graph[t].target
                              /\ prior = TraversalsBefore(log, Len(log) + 1, t, LineageOf(t))
    OBVIOUS
  <2>2. PICK T, stop : /\ T = Derived!ReverseClosure({edge}, derived.graph)
                       /\ stop = Derived!StandingIds(T, A) \ {Current(t)}
    OBVIOUS
  <2>3. PICK r, q : /\ r = [kind |-> "attempt_completed", attempt |-> Current(t),
                            outcome |-> "goal_failed"]
                    /\ q = [kind |-> "failure_edge_traversed", source |-> Current(t),
                            lineage |-> LineageOf(t), target |-> edge,
                            targetLineage |-> LineageOf(edge), traversal |-> prior + 1]
    OBVIOUS
  <2>4. PICK o, traversal : o = "goal_failed" /\ traversal = <<t, edge, prior + 1>>
    OBVIOUS
  <2>5. Transition(o, t, (<<r>> \o <<q>>) \o Supersede(stop), traversal, c)
    BY <1>11, <2>1, <2>2, <2>3, <2>4 DEF FailWithRepair, Completed
  <2>6. Stoppable(stop)
    <3>1. T \in SUBSET Tasks /\ stop \in SUBSET Derived!StandingIds(T, A)
      BY <2>2, ClosureIsOfTasks
    <3> QED
      BY <3>1, StandingStops
  <2>7. Says(<<r>>, o, t, << >>)
    BY <1>8, <2>3, <2>4 DEF Completed
  <2>8. \A e, stamp : IsStamp(stamp) /\ Stamp(q, e, stamp) =>
          /\ e.kind = "failure_edge_traversed"
          /\ e.source = Current(t) /\ e.target = edge /\ e.traversal = prior + 1
    BY <2>3 DEF IsStamp, Stamp
  <2>9. \A e, stamp : IsStamp(stamp) /\ Stamp(q, e, stamp) =>
          /\ e.kind = "failure_edge_traversed"
          /\ traversal = <<e.source[1], e.target, e.traversal>>
    BY <2>4, <2>8 DEF Current
  <2>10. PICK two : two = <<r>> \o <<q>>
    OBVIOUS
  <2>11. Says(two, o, t, traversal)
    <3>1. Says(<<r>> \o <<q>>, o, t, traversal)
      BY <2>7, <2>9, SaysFollowed
    <3> QED
      BY <2>10, <3>1
  <2>12. PICK records : records = two \o Supersede(stop)
    OBVIOUS
  <2>13. Says(records, o, t, traversal)
    BY <2>6, <2>11, <2>12, SupersedeSaysNothing, SaysMore
  <2>14. Transition(o, t, records, traversal, c)
    BY <2>5, <2>10, <2>12
  <2> QED
    BY <1>3, <2>13, <2>14
<1>12. \/ \E g \in Graphs : ApplyGraph(g)
       \/ \E t \in DOMAIN derived.graph, c \in Contexts \cup {NoContext} :
            \/ RecordContext(t, c)
            \/ \E w : Cancel(t, w, c)
            \/ \E w \in Workers :
                 \/ Claim(t, w, c) \/ Block(t, w, c) \/ Resume(t, w, c) \/ Achieve(t, w, c)
                 \/ FailWithoutRepair(t, w, c) \/ FailWithRepair(t, w, c)
  BY Zenon DEF Next
<1> QED
  BY <1>1, <1>2, <1>4, <1>5, <1>6, <1>7, <1>9, <1>10, <1>11, <1>12

-----------------------------------------------------------------------------
(* What a person is shown of an Attempt                                    *)

\* A set that has 0, and the successor of each number it has, has them all:
\* the finite intervals 0..n are ordered by inclusion, which is well founded.
LEMMA Induction ==
  ASSUME NEW S, 0 \in S, \A n \in Nat : n \in S => n + 1 \in S
  PROVE  Nat \subseteq S
<1> SUFFICES ASSUME NEW k \in Nat, k \notin S PROVE FALSE
  OBVIOUS
<1>1. IsWellFoundedOn(OpToRel(<, Nat), Nat)
  BY NatLessThanWellFounded
<1>2. PICK x \in Nat \ S : \A y \in Nat \ S : ~(<<y, x>> \in OpToRel(<, Nat))
  <2> DEFINE T == Nat \ S
  <2>1. T \subseteq Nat /\ T # {}
    OBVIOUS
  <2> HIDE DEF T
  <2>2. PICK x \in T : \A y \in T : ~(<<y, x>> \in OpToRel(<, Nat))
    BY <1>1, <2>1, WFMin
  <2> QED
    BY <2>2 DEF T
<1>a. x \in Nat /\ x # 0
  OBVIOUS
<1>3. x - 1 \in Nat /\ x - 1 < x /\ x = (x - 1) + 1
  BY <1>a
<1>4. x - 1 \in S
  BY <1>2, <1>3 DEF OpToRel
<1> QED
  BY <1>2, <1>3, <1>4

\* The times of an Attempt, place by place, up to the place n.
IsTiming(f, l, a, n) ==
  f = [i \in 0..n |-> IF i = 0 THEN NoTimes
                      ELSE IF i \in EventsOfAttempt(l, a) THEN Follow(l, f[i - 1], i)
                      ELSE f[i - 1]]

LEMMA TimingExists ==
  ASSUME NEW l, NEW a, NEW k \in Nat
  PROVE  \E f : IsTiming(f, l, a, k)
<1> DEFINE Q == {n \in Nat : \E f : IsTiming(f, l, a, n)}
<1>1. 0 \in Q
  <2> DEFINE f == [i \in 0..0 |-> NoTimes]
  <2>1. f = [i \in 0..0 |-> IF i = 0 THEN NoTimes
                            ELSE IF i \in EventsOfAttempt(l, a) THEN Follow(l, f[i - 1], i)
                            ELSE f[i - 1]]
    OBVIOUS
  <2> HIDE DEF f
  <2>2. IsTiming(f, l, a, 0)
    BY <2>1 DEF IsTiming
  <2> QED
    BY <2>2
<1>2. ASSUME NEW n \in Nat, n \in Q PROVE n + 1 \in Q
  <2>1. PICK f : IsTiming(f, l, a, n)
    BY <1>2
  <2>2. PICK last : last = IF n + 1 \in EventsOfAttempt(l, a) THEN Follow(l, f[n], n + 1) ELSE f[n]
    OBVIOUS
  <2>3. \A i \in 0..n : f[i] = IF i = 0 THEN NoTimes
                               ELSE IF i \in EventsOfAttempt(l, a) THEN Follow(l, f[i - 1], i)
                               ELSE f[i - 1]
    BY <2>1 DEF IsTiming
  <2> DEFINE g == [i \in 0..(n + 1) |-> IF i = n + 1 THEN last ELSE f[i]]
  <2>4. g = [i \in 0..(n + 1) |-> g[i]] /\ g[n + 1] = last /\ \A i \in 0..n : g[i] = f[i]
    OBVIOUS
  <2> HIDE DEF g
  <2>5. ASSUME NEW i \in 0..(n + 1)
        PROVE  g[i] = IF i = 0 THEN NoTimes
                      ELSE IF i \in EventsOfAttempt(l, a) THEN Follow(l, g[i - 1], i)
                      ELSE g[i - 1]
    <3>1. CASE i = n + 1
      <4>1. i # 0 /\ i - 1 = n /\ n \in 0..n
        BY <3>1
      <4>2. g[i] = last /\ g[i - 1] = f[n]
        BY <2>4, <3>1, <4>1
      <4> QED
        BY <2>2, <3>1, <4>1, <4>2
    <3>2. CASE i # n + 1
      <4>1. i \in 0..n /\ (i # 0 => i - 1 \in 0..n)
        BY <3>2
      <4>2. g[i] = f[i] /\ (i # 0 => g[i - 1] = f[i - 1])
        BY <2>4, <4>1
      <4> QED
        BY <2>3, <4>1, <4>2
    <3> QED
      BY <3>1, <3>2
  <2>6. IsTiming(g, l, a, n + 1)
    BY <2>4, <2>5 DEF IsTiming
  <2> QED
    BY <2>6
<1> HIDE DEF Q
<1>3. Nat \subseteq Q
  BY <1>1, <1>2, Induction
<1> QED
  BY <1>3 DEF Q

LEMMA TimesAre ==
  ASSUME NEW l, IsSequence(l), NEW a
  PROVE  \E f : /\ IsTiming(f, l, a, Len(l)) /\ Times(l, a) = f[Len(l)]
                /\ f[0] = NoTimes
                /\ \A i \in 1..Len(l) : f[i] = IF i \in EventsOfAttempt(l, a)
                                               THEN Follow(l, f[i - 1], i) ELSE f[i - 1]
<1> DEFINE f == CHOOSE h : IsTiming(h, l, a, Len(l))
<1>1. Len(l) \in Nat
  BY SequenceIs
<1>2. IsTiming(f, l, a, Len(l))
  BY <1>1, TimingExists
<1>3. Times(l, a) = f[Len(l)]
  BY DEF Times, IsTiming
<1> HIDE DEF f
<1>4. /\ f[0] = NoTimes
      /\ \A i \in 1..Len(l) : f[i] = IF i \in EventsOfAttempt(l, a)
                                     THEN Follow(l, f[i - 1], i) ELSE f[i - 1]
  BY <1>1, <1>2 DEF IsTiming
<1> QED
  BY <1>2, <1>3, <1>4


LEMMA Appended ==
  ASSUME NEW s, IsSequence(s), NEW e
  PROVE  /\ IsSequence(Append(s, e)) /\ Len(s) \in Nat /\ Len(Append(s, e)) = Len(s) + 1
         /\ Append(s, e)[Len(s) + 1] = e /\ \A i \in 1..Len(s) : Append(s, e)[i] = s[i]
<1>1. PICK S : s \in Seq(S)
  BY DEF IsSequence
<1>2. s \in Seq(S \cup {e})
  BY <1>1, SequenceOfMore
<1>3. /\ Append(s, e) \in Seq(S \cup {e}) /\ Len(Append(s, e)) = Len(s) + 1 /\ Len(s) \in Nat
      /\ Append(s, e)[Len(s) + 1] = e /\ \A i \in 1..Len(s) : Append(s, e)[i] = s[i]
  BY <1>2
<1> QED
  BY <1>3 DEF IsSequence

\* The states of an Attempt so far: closed ones without a gap, then the last.
TimesFit(x) ==
  /\ x = [known |-> x.known, state |-> x.state, since |-> x.since, ended |-> x.ended,
          segments |-> x.segments]
  /\ x.state \in {"in_progress", "blocked"} /\ x.ended \in {"no"} \cup Endings
  /\ IsSequence(x.segments)
  /\ x.since = 0 => Len(x.segments) = 0
  /\ Len(x.segments) = 0 => x.state = "in_progress" /\ x.ended = "no"
  /\ Len(x.segments) # 0 =>
       /\ x.segments[1].state = "in_progress"
       /\ x.segments[Len(x.segments)].to = x.since
       /\ x.ended = "no" <=> x.segments[Len(x.segments)].state # x.state
  /\ \A i \in 1..Len(x.segments) :
       x.segments[i].to # 0 /\ x.segments[i].to >= x.segments[i].from
  /\ \A i \in 2..Len(x.segments) :
       /\ x.segments[i - 1].to = x.segments[i].from
       /\ x.segments[i - 1].state # x.segments[i].state

\* One more state goes on record.
LEMMA OneMoreState ==
  ASSUME NEW x, TimesFit(x), x.ended = "no", NEW at
  PROVE  LET s == Append(x.segments, [state |-> x.state, from |-> x.since, to |-> at])
         IN  /\ IsSequence(s) /\ Len(s) \in Nat /\ Len(s) # 0 /\ s[1].state = "in_progress"
             /\ s[Len(s)].to = at /\ s[Len(s)].state = x.state
             /\ \A i \in 1..(Len(s) - 1) : s[i].to # 0 /\ s[i].to >= s[i].from
             /\ s[Len(s)].from = x.since
             /\ \A i \in 2..Len(s) : s[i - 1].to = s[i].from /\ s[i - 1].state # s[i].state
<1>1. PICK q, e : q = x.segments /\ e = [state |-> x.state, from |-> x.since, to |-> at]
  OBVIOUS
<1>2. e.state = x.state /\ e.from = x.since /\ e.to = at
  BY <1>1
<1>3. PICK s, n : s = Append(q, e) /\ n = Len(q)
  OBVIOUS
<1>4. /\ IsSequence(s) /\ n \in Nat /\ Len(s) = n + 1 /\ s[n + 1] = e
      /\ \A i \in 1..n : s[i] = q[i]
  BY <1>1, <1>3, Appended DEF TimesFit
<1>5. /\ n = 0 => x.state = "in_progress"
      /\ n # 0 => q[1].state = "in_progress" /\ q[n].to = x.since /\ q[n].state # x.state
      /\ \A i \in 1..n : q[i].to # 0 /\ q[i].to >= q[i].from
      /\ \A i \in 2..n : q[i - 1].to = q[i].from /\ q[i - 1].state # q[i].state
  BY <1>1, <1>3 DEF TimesFit
<1>6. s[1].state = "in_progress"
  <2>1. CASE n = 0
    BY <1>2, <1>4, <1>5, <2>1
  <2>2. CASE n # 0
    BY <1>4, <1>5, <2>2
  <2> QED
    BY <2>1, <2>2
<1>7. ASSUME NEW i \in 2..(n + 1)
      PROVE  s[i - 1].to = s[i].from /\ s[i - 1].state # s[i].state
  <2>1. CASE i = n + 1
    <3>1. i - 1 = n /\ n # 0 /\ n \in 1..n
      BY <1>4, <2>1
    <3>2. s[i - 1] = q[n] /\ s[i] = e
      BY <1>4, <2>1, <3>1
    <3> QED
      BY <1>2, <1>5, <3>1, <3>2
  <2>2. CASE i # n + 1
    <3>1. i \in 2..n /\ i \in 1..n /\ i - 1 \in 1..n
      BY <1>4, <2>2
    <3> QED
      BY <1>4, <1>5, <3>1
  <2> QED
    BY <2>1, <2>2
<1>8. (n + 1) - 1 = n /\ n + 1 \in Nat /\ n + 1 # 0
  BY <1>4
<1> QED
  BY <1>1, <1>2, <1>3, <1>4, <1>5, <1>6, <1>7, <1>8

LEMMA TimesFollow ==
  ASSUME NEW l, NEW x, TimesFit(x), NEW i, l[i].kind \in Endings \cup
           {"attempt_started", "attempt_blocked", "attempt_resumed"}
  PROVE  TimesFit(Follow(l, x, i))
<1>1. PICK kind, at : kind = l[i].kind /\ at = KnownAt(l, i)
  OBVIOUS
<1>2. PICK known, state, since, ended, segments :
        /\ known = x.known /\ state = x.state /\ since = x.since /\ ended = x.ended
        /\ segments = x.segments
  OBVIOUS
<1>3. x = [known |-> known, state |-> state, since |-> since, ended |-> ended,
           segments |-> segments]
  BY <1>2 DEF TimesFit
<1>4. TimesFit([x EXCEPT !.known = FALSE])
  <2>a. PICK no : no = FALSE
    OBVIOUS
  <2>2. PICK y : y = [x EXCEPT !.known = no]
    OBVIOUS
  <2>1. y = [known |-> no, state |-> state, since |-> since, ended |-> ended,
             segments |-> segments]
    BY <1>3, <2>2
  <2>3. /\ y = [known |-> y.known, state |-> y.state, since |-> y.since, ended |-> y.ended,
               segments |-> y.segments]
        /\ y.state = x.state /\ y.since = x.since /\ y.ended = x.ended /\ y.segments = x.segments
    BY <1>2, <2>1
  <2>4. TimesFit(y)
    BY <2>3 DEF TimesFit
  <2> QED
    BY <2>a, <2>2, <2>4
<1>5. ASSUME ended = "no", Follows(x, kind, at) PROVE TimesFit(Moved(x, kind, at))
  <2>1. /\ at # 0 /\ at >= since /\ (kind = "attempt_started" <=> since = 0)
        /\ kind \in {"attempt_blocked", "attempt_completed"} => state = "in_progress"
        /\ kind = "attempt_resumed" => state = "blocked"
    BY <1>2, <1>5 DEF Follows
  <2>2. PICK y : y = Moved(x, kind, at)
    OBVIOUS
  <2>3. CASE kind = "attempt_started"
    <3>1. y = [known |-> known, state |-> state, since |-> at, ended |-> ended,
               segments |-> segments]
      BY <1>3, <2>2, <2>3 DEF Moved
    <3>2. /\ y = [known |-> y.known, state |-> y.state, since |-> y.since, ended |-> y.ended,
                 segments |-> y.segments]
          /\ y.state = x.state /\ y.since = at /\ y.ended = x.ended /\ y.segments = x.segments
      BY <1>2, <3>1
    <3>3. Len(x.segments) = 0
      BY <1>2, <2>1, <2>3 DEF TimesFit
    <3>4. TimesFit(y)
      BY <2>1, <3>2, <3>3 DEF TimesFit
    <3> QED
      BY <2>2, <3>4
  <2>4. ASSUME NEW after, NEW over,
               y = [known |-> known, state |-> after, since |-> at, ended |-> over,
                    segments |-> Append(segments, [state |-> state, from |-> since, to |-> at])],
               after \in {"in_progress", "blocked"}, over \in {"no"} \cup Endings,
               over = "no" <=> after # state
        PROVE  TimesFit(y)
    <3>1. PICK s : s = Append(x.segments, [state |-> x.state, from |-> x.since, to |-> at])
      OBVIOUS
    <3>2. /\ IsSequence(s) /\ Len(s) \in Nat /\ Len(s) # 0 /\ s[1].state = "in_progress"
          /\ s[Len(s)].to = at /\ s[Len(s)].state = state
          /\ \A j \in 1..(Len(s) - 1) : s[j].to # 0 /\ s[j].to >= s[j].from
          /\ s[Len(s)].from = since
          /\ \A j \in 2..Len(s) : s[j - 1].to = s[j].from /\ s[j - 1].state # s[j].state
      <4>1. x.ended = "no"
        BY <1>2, <1>5
      <4>2. /\ IsSequence(s) /\ Len(s) \in Nat /\ Len(s) # 0 /\ s[1].state = "in_progress"
            /\ s[Len(s)].to = at /\ s[Len(s)].state = x.state
            /\ \A j \in 1..(Len(s) - 1) : s[j].to # 0 /\ s[j].to >= s[j].from
            /\ s[Len(s)].from = x.since
            /\ \A j \in 2..Len(s) : s[j - 1].to = s[j].from /\ s[j - 1].state # s[j].state
        BY <3>1, <4>1, OneMoreState
      <4> QED
        BY <1>2, <4>2
    <3>3. \A j \in 1..Len(s) : s[j].to # 0 /\ s[j].to >= s[j].from
      <4>1. \A j \in 1..Len(s) : j \in 1..(Len(s) - 1) \/ j = Len(s)
        BY <3>2
      <4> QED
        BY <2>1, <3>2, <4>1
    <3>4. /\ y = [known |-> y.known, state |-> y.state, since |-> y.since, ended |-> y.ended,
                 segments |-> y.segments]
          /\ y.state = after /\ y.since = at /\ y.ended = over /\ y.segments = s
      BY <1>2, <2>4, <3>1
    <3>5. y.state \in {"in_progress", "blocked"} /\ y.ended \in {"no"} \cup Endings /\ y.since # 0
      BY <2>1, <2>4, <3>4
    <3>6. y.ended = "no" <=> s[Len(s)].state # y.state
      BY <2>4, <3>2, <3>4
    <3>7. /\ IsSequence(y.segments) /\ Len(y.segments) # 0 /\ y.segments[1].state = "in_progress"
          /\ y.segments[Len(y.segments)].to = y.since
          /\ y.ended = "no" <=> y.segments[Len(y.segments)].state # y.state
          /\ \A j \in 1..Len(y.segments) :
               y.segments[j].to # 0 /\ y.segments[j].to >= y.segments[j].from
          /\ \A j \in 2..Len(y.segments) :
               /\ y.segments[j - 1].to = y.segments[j].from
               /\ y.segments[j - 1].state # y.segments[j].state
      BY <3>2, <3>3, <3>4, <3>6
    <3> QED
      BY <3>4, <3>5, <3>7, Zenon DEF TimesFit
  <2>5. CASE kind = "attempt_blocked"
    <3>1. y = [known |-> known, state |-> "blocked", since |-> at, ended |-> ended,
               segments |-> Append(segments, [state |-> state, from |-> since, to |-> at])]
      BY <1>3, <2>2, <2>5 DEF Moved, Close
    <3> QED
      BY <1>5, <2>1, <2>2, <2>4, <2>5, <3>1
  <2>6. CASE kind = "attempt_resumed"
    <3>1. y = [known |-> known, state |-> "in_progress", since |-> at, ended |-> ended,
               segments |-> Append(segments, [state |-> state, from |-> since, to |-> at])]
      BY <1>3, <2>2, <2>6 DEF Moved, Close
    <3> QED
      BY <1>5, <2>1, <2>2, <2>4, <2>6, <3>1
  <2>7. CASE kind \in Endings
    <3>1. y = [known |-> known, state |-> state, since |-> at, ended |-> kind,
               segments |-> Append(segments, [state |-> state, from |-> since, to |-> at])]
      BY <1>3, <2>2, <2>7 DEF Moved, Close, Endings
    <3>2. state \in {"in_progress", "blocked"} /\ kind # "no"
      BY <1>2, <2>7 DEF TimesFit, Endings
    <3> QED
      BY <2>2, <2>4, <2>7, <3>1, <3>2
  <2> QED
    BY <1>1, <2>3, <2>5, <2>6, <2>7
<1>6. \/ Follow(l, x, i) = x
      \/ Follow(l, x, i) = [x EXCEPT !.known = FALSE]
      \/ /\ ended = "no" /\ Follows(x, kind, at)
         /\ Follow(l, x, i) = Moved(x, kind, at)
  BY <1>1, <1>2 DEF Follow
<1> QED
  BY <1>4, <1>5, <1>6


LEMMA TimesHold ==
  ASSUME NEW l, IsSequence(l), NEW a
  PROVE  TimesFit(Times(l, a))
<1>1. PICK f : /\ Times(l, a) = f[Len(l)] /\ f[0] = NoTimes
               /\ \A i \in 1..Len(l) : f[i] = IF i \in EventsOfAttempt(l, a)
                                              THEN Follow(l, f[i - 1], i) ELSE f[i - 1]
  BY TimesAre
<1> DEFINE Q == {n \in Nat : n <= Len(l) => TimesFit(f[n])}
<1>2. Len(l) \in Nat
  BY SequenceIs
<1>3. 0 \in Q
  <2>1. TimesFit(NoTimes)
    <3>1. PICK s : s = << >>
      OBVIOUS
    <3>2. IsSequence(s) /\ Len(s) = 0 /\ 1..0 = {} /\ 2..0 = {}
      BY <3>1, NoRecord
    <3>3. PICK x : x = NoTimes
      OBVIOUS
    <3>4. /\ x = [known |-> x.known, state |-> x.state, since |-> x.since, ended |-> x.ended,
                 segments |-> x.segments]
          /\ x.state = "in_progress" /\ x.ended = "no" /\ x.segments = s
      BY <3>1, <3>3 DEF NoTimes
    <3>5. TimesFit(x)
      BY <3>2, <3>4 DEF TimesFit
    <3> QED
      BY <3>3, <3>5
  <2> QED
    BY <1>1, <2>1
<1>4. ASSUME NEW n \in Nat, n \in Q PROVE n + 1 \in Q
  <2> SUFFICES ASSUME n + 1 <= Len(l) PROVE TimesFit(f[n + 1])
    OBVIOUS
  <2>1. n + 1 \in 1..Len(l) /\ n <= Len(l) /\ (n + 1) - 1 = n
    BY <1>2
  <2>2. TimesFit(f[n])
    BY <1>4, <2>1
  <2>3. f[n + 1] = IF n + 1 \in EventsOfAttempt(l, a) THEN Follow(l, f[n], n + 1) ELSE f[n]
    BY <1>1, <2>1
  <2>4. n + 1 \in EventsOfAttempt(l, a) =>
          l[n + 1].kind \in Endings \cup {"attempt_started", "attempt_blocked", "attempt_resumed"}
    BY DEF EventsOfAttempt, Of
  <2>5. n + 1 \in EventsOfAttempt(l, a) => TimesFit(Follow(l, f[n], n + 1))
    BY <2>2, <2>4, TimesFollow
  <2> QED
    BY <2>2, <2>3, <2>5
<1> HIDE DEF Q
<1>5. Nat \subseteq Q
  BY <1>3, <1>4, Induction
<1>6. Len(l) \in Q /\ Len(l) <= Len(l)
  BY <1>2, <1>5
<1> QED
  BY <1>1, <1>6 DEF Q

\* Whatever the log says, the states of an Attempt that are shown are such as
\* the parser asks for.
LEMMA TimelineFits ==
  ASSUME IsSequence(log), NEW a
  PROVE  IsTimeline(a)
<1>1. PICK x, state : x = Times(log, a) /\ state = AttemptState(a)
  OBVIOUS
<1>2. TimesFit(x)
  BY <1>1, TimesHold
<1>3. PICK s : s = Timeline(a)
  OBVIOUS
<1> DEFINE ending == [no |-> x.state, attempt_completed |-> "completed",
                      attempt_superseded |-> "superseded", task_cancelled |-> "cancelled"]
           open == state \in {"in_progress", "blocked"}
<1>4. s = IF ~x.known \/ x.since = 0 \/ state # ending[x.ended] THEN << >>
          ELSE IF x.ended = "no" THEN Close(x, x.state, 0).segments
          ELSE x.segments
  BY <1>1, <1>3 DEF Timeline
<1> SUFFICES ASSUME s # << >>
             PROVE  /\ s[1].state = "in_progress"
                    /\ \A i \in DOMAIN s : s[i].to # 0 => s[i].to >= s[i].from
                    /\ \A i \in 2..Len(s) : s[i - 1].to = s[i].from /\ s[i - 1].state # s[i].state
                    /\ (s[Len(s)].to = 0) = open
                    /\ open => s[Len(s)].state = state
  BY <1>1, <1>3 DEF IsTimeline
<1>5. x.since # 0 /\ state = ending[x.ended]
  BY <1>4
<1>6. CASE x.ended = "no"
  <2>1. s = Close(x, x.state, 0).segments
    BY <1>4, <1>6
  <2>2. PICK z : z = 0
    OBVIOUS
  <2>3. PICK q : q = Append(x.segments, [state |-> x.state, from |-> x.since, to |-> z])
    OBVIOUS
  <2>4. s = q
    <3>1. PICK known, st, since, ended, segments :
            /\ known = x.known /\ st = x.state /\ since = x.since /\ ended = x.ended
            /\ segments = x.segments
      OBVIOUS
    <3>2. x = [known |-> known, state |-> st, since |-> since, ended |-> ended,
               segments |-> segments]
      BY <1>2, <3>1 DEF TimesFit
    <3>3. Close(x, st, z).segments = Append(segments, [state |-> st, from |-> since, to |-> z])
      BY <3>2 DEF Close
    <3> QED
      BY <2>1, <2>2, <2>3, <3>1, <3>3
  <2>5. /\ IsSequence(q) /\ Len(q) \in Nat /\ Len(q) # 0 /\ q[1].state = "in_progress"
        /\ q[Len(q)].to = z /\ q[Len(q)].state = x.state
        /\ \A i \in 1..(Len(q) - 1) : q[i].to # 0 /\ q[i].to >= q[i].from
        /\ \A i \in 2..Len(q) : q[i - 1].to = q[i].from /\ q[i - 1].state # q[i].state
    BY <1>2, <1>6, <2>3, OneMoreState
  <2>6. ASSUME NEW i \in DOMAIN q, q[i].to # 0 PROVE q[i].to >= q[i].from
    <3>1. i \in 1..Len(q)
      BY <2>5, SequenceIs
    <3>2. i # Len(q)
      BY <2>2, <2>5, <2>6
    <3>3. i \in 1..(Len(q) - 1)
      BY <2>5, <3>1, <3>2
    <3> QED
      BY <2>5, <3>3
  <2>7. state = x.state /\ open
    BY <1>2, <1>5, <1>6 DEF TimesFit
  <2> HIDE DEF open
  <2> QED
    BY <2>2, <2>4, <2>5, <2>6, <2>7
<1>7. CASE x.ended # "no"
  <2>1. s = x.segments
    BY <1>4, <1>7
  <2>2. state \in {"completed", "superseded", "cancelled"} /\ ~open
    BY <1>2, <1>5, <1>7 DEF TimesFit, Endings
  <2>3. IsSequence(s) /\ Len(s) # 0
    BY <1>2, <1>7, <2>1 DEF TimesFit
  <2>4. /\ s[1].state = "in_progress" /\ s[Len(s)].to = x.since
        /\ \A i \in 1..Len(s) : s[i].to # 0 /\ s[i].to >= s[i].from
        /\ \A i \in 2..Len(s) : s[i - 1].to = s[i].from /\ s[i - 1].state # s[i].state
    BY <1>2, <2>1, <2>3 DEF TimesFit
  <2>5. DOMAIN s = 1..Len(s)
    BY <2>3, SequenceIs
  <2>6. (s[Len(s)].to = 0) = open
    BY <1>5, <2>2, <2>4
  <2> HIDE DEF open
  <2> QED
    BY <2>2, <2>4, <2>5, <2>6
<1> QED
  BY <1>6, <1>7


-----------------------------------------------------------------------------
(* What a person is shown of the graph                                     *)

\* A Task has the definition that it had where its lineage began.
LEMMA LineageMeans ==
  ASSUME NEW l, LogFits(l), NEW r \in Revisions(l), NEW t \in DOMAIN l[r].graph
  PROVE  LET x == l[r].lineage[t]
         IN  x \in Revisions(l) /\ t \in DOMAIN l[x].graph /\ l[x].graph[t] = l[r].graph[t]
<1> DEFINE Means(q, u) == LET x == l[q].lineage[u]
                          IN  /\ x \in Revisions(l) /\ u \in DOMAIN l[x].graph
                              /\ l[x].graph[u] = l[q].graph[u]
           Bad == {q \in Revisions(l) : \E u \in DOMAIN l[q].graph : ~Means(q, u)}
<1>1. IsSequence(l)
  BY DEF LogFits
<1>2. Revisions(l) \in SUBSET Nat /\ 0 \notin Revisions(l)
      /\ \A i \in Revisions(l) : i \in 1..Len(l) /\ l[i].kind = "graph_revision"
  BY <1>1, OfIs DEF Revisions
<1>3. Bad = {}
  <2> SUFFICES ASSUME Bad # {} PROVE FALSE
    OBVIOUS
  <2>1. Bad \in SUBSET Nat
    BY <1>2
  <2> HIDE DEF Bad
  <2>2. PICK q : q = Min(Bad)
    OBVIOUS
  <2>3. q \in Bad /\ \A y \in Bad : q <= y
    BY <2>1, <2>2, FirstIs
  <2>4. PICK u \in DOMAIN l[q].graph : ~Means(q, u)
    BY <2>3 DEF Bad
  <2>5. q \in Revisions(l) /\ q \in Nat
    BY <1>2, <2>3 DEF Bad
  <2> DEFINE p == RevisionBefore(l, q)
  <2>6. l[q].lineage[u] = IF u \in DOMAIN GraphOf(l, p) /\ l[p].graph[u] = l[q].graph[u]
                          THEN l[p].lineage[u] ELSE q
    BY <1>2, <2>5 DEF LogFits, RecordIsValid, RevisionIsValid
  <2>7. /\ p # 0 => p \in Revisions(l) /\ p < q
        /\ p = 0 => DOMAIN GraphOf(l, p) = {}
        /\ p # 0 => GraphOf(l, p) = l[p].graph
    BY <1>1, <2>5, RevisionBeforeIs, NoRecord
  <2> HIDE DEF p
  <2>8. CASE u \in DOMAIN GraphOf(l, p) /\ l[p].graph[u] = l[q].graph[u]
    <3>1. p # 0 /\ p \in Revisions(l) /\ p < q /\ u \in DOMAIN l[p].graph
      BY <2>7, <2>8
    <3>2. p \notin Bad
      BY <1>2, <2>3, <2>5, <3>1
    <3>3. Means(p, u)
      BY <3>1, <3>2 DEF Bad
    <3> QED
      BY <2>4, <2>6, <2>8, <3>3
  <2>9. CASE ~(u \in DOMAIN GraphOf(l, p) /\ l[p].graph[u] = l[q].graph[u])
    <3>1. l[q].lineage[u] = q
      BY <2>6, <2>9
    <3> QED
      BY <2>4, <2>5, <3>1
  <2> QED
    BY <2>8, <2>9
<1>4. Means(r, t)
  BY <1>3
<1> QED
  BY <1>4

\* A failure edge is never followed more often than it may be.
LEMMA TraversalsFit ==
  ASSUME LogInv, NEW t \in DOMAIN derived.graph, derived.graph[t].target # NoTask
  PROVE  IsFailureEdge(t)
<1>1. PICK l, limit, x, c : /\ l = log /\ limit = derived.graph[t].limit
                            /\ x = LineageOf(t) /\ c = CurrentRevision(log)
  OBVIOUS
<1>2. /\ limit \in 1..MaxTraversals /\ derived.graph = CurrentGraph(l)
      /\ CurrentGraph(l) # << >> /\ x = l[c].lineage[t] /\ t \in DOMAIN CurrentGraph(l)
      /\ LogFits(l) /\ IsSequence(l)
  <2>1. /\ derived.graph = CurrentGraph(log) /\ CurrentGraph(log) # << >> /\ IsSequence(log)
        /\ t \in DOMAIN CurrentGraph(log) /\ Derived!ValidGraph(derived.graph)
        /\ LineageOf(t) = log[CurrentRevision(log)].lineage[t]
    BY LogIs
  <2>2. derived.graph[t].limit \in 1..MaxTraversals
    BY <2>1 DEF Derived!ValidGraph
  <2> QED
    BY <1>1, <2>1, <2>2 DEF LogInv
<1>3. c \in Revisions(l) /\ CurrentGraph(l) = l[c].graph
  BY <1>1, <1>2, CurrentIs
<1>4. limit \in Nat /\ limit = l[c].graph[t].limit /\ t \in DOMAIN l[c].graph
  <2>1. MaxTraversals \in Nat
    BY GraphAssumption
  <2> QED
    BY <1>1, <1>2, <1>3, <2>1
<1> DEFINE P(n) == {j \in Of(l, {"failure_edge_traversed"}) :
                      j < n /\ l[j].source[1] = t /\ l[j].lineage = x}
           E == {i \in Of(l, {"failure_edge_traversed"}) :
                   /\ l[i].source[1] = t /\ l[i].lineage = x
                   /\ l[i].target = derived.graph[t].target}
<1>5. Len(l) \in Nat
  BY <1>2, SequenceIs
<1>6. \A n : P(n) \in SUBSET Of(l, {"failure_edge_traversed"})
  OBVIOUS
<1>7. E \in SUBSET P(Len(l) + 1)
  <2>1. \A i \in Of(l, {"failure_edge_traversed"}) : i \in 1..Len(l)
    BY <1>2, OfIs
  <2>2. \A i \in 1..Len(l) : i < Len(l) + 1
    BY <1>5
  <2> QED
    BY <2>1, <2>2
<1>8. EdgeTraversals(t) = Cardinality(E)
  BY <1>1 DEF EdgeTraversals
<1>9. \A n : TraversalsBefore(l, n, t, x) = Cardinality(P(n))
  BY DEF TraversalsBefore
<1> HIDE DEF P, E
<1>10. \A n : IsFiniteSet(P(n))
  <2> TAKE n
  <2>1. P(n) \in SUBSET Of(l, {"failure_edge_traversed"})
    BY <1>6
  <2> QED
    BY <1>2, <2>1, PlacesAre
<1>11. PICK S : S = P(Len(l) + 1)
  OBVIOUS
<1>12. Cardinality(S) \in Nat /\ Cardinality(S) <= limit
  <2>1. CASE S = {}
    BY <1>4, <2>1, FS_EmptySet
  <2>2. CASE S # {}
    <3>1. PICK j : j = Latest(S)
      OBVIOUS
    <3>2. S \in SUBSET Of(l, {"failure_edge_traversed"})
      BY <1>6, <1>11
    <3>3. S \in SUBSET Nat /\ j \in S /\ \A y \in S : y <= j
      <4>1. PICK T : T = S
        OBVIOUS
      <4>2. T \in SUBSET Of(l, {"failure_edge_traversed"}) /\ T # {}
        BY <2>2, <3>2, <4>1
      <4>3. /\ T \in SUBSET Nat /\ IsFiniteSet(T) /\ 0 \notin T
            /\ Latest(T) \in Nat /\ (Latest(T) # 0 <=> T # {}) /\ (T # {} => Latest(T) \in T)
            /\ \A y \in T : y <= Latest(T)
            /\ \A y \in T : (\A z \in T : z <= y) => Latest(T) = y
        BY <1>2, <4>2, PlacesAre
      <4> QED
        BY <3>1, <4>1, <4>2, <4>3
    <3>4. j \in 1..Len(l) /\ l[j].kind = "failure_edge_traversed"
      BY <1>2, <3>2, <3>3, OfIs
    <3>5. l[j].source[1] = t /\ l[j].lineage = x
      BY <1>11, <3>3 DEF P
    <3>6. PICK r : r = RevisionBefore(l, j)
      OBVIOUS
    <3>7. /\ IsOfLineage(l, j, t) /\ r # 0
          /\ l[j].traversal = TraversalsBefore(l, j, t, x) + 1
          /\ l[j].traversal <= l[r].graph[t].limit
      <4>1. EventFits(l, j)
        BY <1>2, <3>4 DEF LogFits, RecordIsValid
      <4>2. r # 0 /\ FailureEventIsValid(l, j)
        BY <3>4, <3>6, <4>1 DEF EventFits
      <4> QED
        BY <3>4, <3>5, <3>6, <4>2 DEF FailureEventIsValid
    <3>8. r \in Revisions(l) /\ t \in DOMAIN l[r].graph /\ x = l[r].lineage[t]
      <4>1. r \in Revisions(l) /\ GraphOf(l, r) = l[r].graph
        BY <1>2, <3>3, <3>6, <3>7, RevisionBeforeIs
      <4> QED
        BY <3>5, <3>6, <3>7, <4>1 DEF IsOfLineage
    <3>9. l[r].graph[t] = l[c].graph[t]
      <4>1. l[x].graph[t] = l[r].graph[t]
        BY <1>2, <3>8, LineageMeans
      <4>2. l[x].graph[t] = l[c].graph[t]
        BY <1>2, <1>3, <1>4, LineageMeans
      <4> QED
        BY <4>1, <4>2
    <3>10. S = P(j) \cup {j} /\ j \notin P(j)
      <4>1. \A i \in S : i # j => i < j
        BY <3>3
      <4>2. \A i \in Nat : i < j => i < Len(l) + 1
        BY <1>5, <3>4
      <4>3. \A i \in Of(l, {"failure_edge_traversed"}) : i \in Nat
        BY <1>2, OfIs
      <4>4. \A i, n : i \in P(n) <=>
              i \in Of(l, {"failure_edge_traversed"}) /\ i < n /\ l[i].source[1] = t
              /\ l[i].lineage = x
        BY DEF P
      <4>5. \A i : i \in S <=> i \in P(Len(l) + 1)
        BY <1>11
      <4>6. ~(j < j) /\ j \in Nat
        BY <3>3
      <4>7. j \notin P(j)
        BY <4>4, <4>6
      <4>8. \A i : i \in S => i \in P(j) \/ i = j
        BY <4>1, <4>4, <4>5
      <4>9. \A i : i \in P(j) => i \in S
        BY <4>2, <4>3, <4>4, <4>5
      <4> QED
        BY <3>3, <4>7, <4>8, <4>9
    <3>11. Cardinality(P(j)) \in Nat /\ Cardinality(S) = Cardinality(P(j)) + 1
      <4>1. IsFiniteSet(P(j))
        BY <1>10
      <4>2. PICK T : T = P(j)
        OBVIOUS
      <4>3. IsFiniteSet(T) /\ j \notin T /\ S = T \cup {j}
        BY <3>10, <4>1, <4>2
      <4>4. Cardinality(T) \in Nat /\ Cardinality(T \cup {j}) = Cardinality(T) + 1
        BY <4>3, FS_CardinalityType, FS_AddElement
      <4> QED
        BY <4>2, <4>3, <4>4
    <3>12. Cardinality(S) = l[j].traversal
      BY <1>9, <3>7, <3>11
    <3> QED
      BY <1>4, <3>7, <3>9, <3>11, <3>12
  <2> QED
    BY <2>1, <2>2
<1>13. Cardinality(E) \in Nat /\ Cardinality(E) <= Cardinality(S)
  <2>1. IsFiniteSet(S) /\ E \in SUBSET S
    BY <1>7, <1>10, <1>11
  <2> QED
    BY <2>1, FS_Subset, FS_CardinalityType
<1>14. EdgeTraversals(t) \in 0..limit
  BY <1>4, <1>8, <1>12, <1>13
<1> QED
  BY <1>1, <1>2, <1>14 DEF IsFailureEdge


LEMMA PhaseIsTyped ==
  ASSUME NEW l, LogFits(l), NEW a
  PROVE  Phase(l, a) \in Derived!Phases
<1>1. PICK c, x, b, r : /\ c = Fold(l, a, "attempt_completed") /\ x = Fold(l, a, "task_cancelled")
                        /\ b = Fold(l, a, "attempt_blocked") /\ r = Fold(l, a, "attempt_resumed")
  OBVIOUS
<1>2. IsSequence(l)
  BY DEF LogFits
<1>3. c # 0 => c \in 1..Len(l) /\ l[c].kind = "attempt_completed"
  <2>1. c # 0 => c \in Of(l, {"attempt_completed"})
    BY <1>1, <1>2, FoldIs
  <2> QED
    BY <1>2, <2>1, OfIs
<1>4. c # 0 => l[c].outcome \in {"goal_achieved", "goal_failed"}
  BY <1>3 DEF LogFits, RecordIsTyped
<1> DEFINE exhausted == \E i \in Of(l, {"failure_edge_exhausted"}) : l[i].source = a
<1>5. Phase(l, a) = IF c # 0 THEN IF exhausted THEN "exhausted" ELSE l[c].outcome
                    ELSE IF x # 0 THEN "cancelled"
                    ELSE IF b > r THEN "blocked"
                    ELSE "in_progress"
  BY <1>1, Zenon DEF Phase
<1> HIDE DEF exhausted
<1> QED
  BY <1>4, <1>5 DEF Derived!Phases

\* What is before a prerequisite is before the Task.
LEMMA AncestorsAre ==
  ASSUME NEW g, Derived!IsGraph(g), Derived!ValidGraph(g), NEW t \in DOMAIN g
  PROVE  /\ g[t].needs \subseteq DOMAIN g /\ g[t].needs \subseteq Derived!Ancestors(t, g)
         /\ \A p \in g[t].needs : Derived!Ancestors(p, g) \subseteq Derived!Ancestors(t, g)
<1>1. g[t].needs \subseteq DOMAIN g /\ DOMAIN g \subseteq Tasks
  BY DEF Derived!ValidGraph, Derived!IsGraph
<1>2. g[t].needs \subseteq Derived!Ancestors(t, g)
  BY <1>1 DEF Derived!Ancestors
<1>3. ASSUME NEW p \in g[t].needs, NEW u \in Derived!Ancestors(p, g)
      PROVE  u \in Derived!Ancestors(t, g)
  <2>1. p \in DOMAIN g /\ u \in Tasks
    BY <1>1, <1>3 DEF Derived!Ancestors
  <2> SUFFICES ASSUME NEW S \in SUBSET Tasks, g[t].needs \subseteq S,
                      \A v \in S \cap DOMAIN g : g[v].needs \subseteq S
               PROVE  u \in S
    BY <2>1 DEF Derived!Ancestors
  <2>2. g[p].needs \subseteq S
    BY <1>3, <2>1
  <2> QED
    BY <1>3, <2>2 DEF Derived!Ancestors
<1> QED
  BY <1>1, <1>2, <1>3

\* A current Attempt that is achieved is accepted: with it the accepted ones
\* support themselves still.
LEMMA AchievedIsAccepted ==
  ASSUME LogInv, NEW t \in DOMAIN derived.graph,
         NEW n \in Derived!Activation(t, Derived!Accepted),
         derived.attempts[t][n].phase = "goal_achieved"
  PROVE  <<t, n>> \in Derived!Accepted
<1>1. PICK A, all : /\ A = Derived!Accepted
                    /\ all = {a \in Derived!Ids : Derived!Eligible(a)
                                                  /\ Derived!At(a).phase = "goal_achieved"}
  OBVIOUS
<1> DEFINE Supports(S) == \A a \in S : \A p \in derived.graph[a[1]].needs :
                            <<p, Derived!At(a).inputs[p]>> \in S
<1>2. A = UNION {S \in SUBSET all : Supports(S)}
  BY <1>1 DEF Derived!Accepted
<1>3. A \in SUBSET all /\ Supports(A)
  <2>1. A \in SUBSET all
    BY <1>2
  <2>2. ASSUME NEW a \in A, NEW p \in derived.graph[a[1]].needs
        PROVE  <<p, Derived!At(a).inputs[p]>> \in A
    <3>1. PICK S \in SUBSET all : Supports(S) /\ a \in S
      BY <1>2
    <3>2. <<p, Derived!At(a).inputs[p]>> \in S
      BY <3>1
    <3> QED
      BY <1>2, <3>1, <3>2
  <2> QED
    BY <2>1, <2>2
<1>4. /\ n \in DOMAIN derived.attempts[t] /\ Derived!Released(t, A) /\ Derived!Eligible(<<t, n>>)
      /\ derived.attempts[t][n].inputs = Derived!Inputs(t, A)
  BY <1>1 DEF Derived!Activation
<1>5. t \in Tasks /\ derived.graph[t].needs \subseteq Tasks
  BY LogIs DEF Derived!ValidGraph, Derived!IsGraph
<1>6. n \in 1..MaxAttempts
  BY <1>4, <1>5, DerivedAttempts
<1>7. Derived!At(<<t, n>>) = derived.attempts[t][n]
  BY DEF Derived!At
<1>8. <<t, n>> \in all
  BY <1>1, <1>4, <1>5, <1>6, <1>7 DEF Derived!Ids
<1>9. ASSUME NEW p \in derived.graph[t].needs
      PROVE  <<p, Derived!At(<<t, n>>).inputs[p]>> \in A
  <2>1. \E m \in 1..MaxAttempts : <<p, m>> \in A
    BY <1>4 DEF Derived!Released
  <2>2. <<p, Derived!AcceptedOf(p, A)>> \in A
    BY <2>1, Zenon DEF Derived!AcceptedOf
  <2>3. Derived!Inputs(t, A)[p] = Derived!AcceptedOf(p, A)
    BY <1>5 DEF Derived!Inputs
  <2> QED
    BY <1>4, <1>7, <2>2, <2>3
<1>10. PICK S : S = A \cup {<<t, n>>}
  OBVIOUS
<1>11. S \in SUBSET all /\ Supports(S)
  <2>1. \A p \in derived.graph[<<t, n>>[1]].needs : <<p, Derived!At(<<t, n>>).inputs[p]>> \in S
    BY <1>9, <1>10
  <2>2. \A a \in A : \A p \in derived.graph[a[1]].needs : <<p, Derived!At(a).inputs[p]>> \in S
    BY <1>3, <1>10
  <2> QED
    BY <1>3, <1>8, <1>10, <2>1, <2>2
<1> HIDE DEF Supports
<1>12. <<t, n>> \in A
  BY <1>2, <1>10, <1>11
<1> QED
  BY <1>1, <1>12


\* The phase of the current Attempt of a Task.
LEMMA CurrentPhase ==
  ASSUME LogInv, NEW t \in DOMAIN derived.graph, NEW A, Derived!Activation(t, A) # {},
         NEW n, n = Derived!Last(Derived!Activation(t, A))
  PROVE  /\ n \in Derived!Activation(t, A) /\ n \in 1..MaxAttempts
         /\ derived.attempts[t][n].phase \in
              {"in_progress", "blocked", "goal_achieved", "goal_failed", "exhausted"}
<1>1. PICK k, S : k = Cardinality(Starts(log, t)) /\ S = Derived!Activation(t, A)
  OBVIOUS
<1>2. t \in Tasks /\ LogFits(log)
  BY LogIs DEF LogInv
<1>3. /\ k \in Nat /\ DOMAIN derived.attempts[t] = 1..k
      /\ \A i \in 1..k : /\ i \in 1..MaxAttempts
                         /\ derived.attempts[t][i].phase = Phase(log, <<t, i>>)
  BY <1>1, <1>2, DerivedAttempts
<1>4. S \in SUBSET (1..k)
  BY <1>1, <1>3 DEF Derived!Activation
<1>5. n \in S
  BY <1>1, <1>3, <1>4, LastIs
<1>6. derived.attempts[t][n].phase \in Derived!Phases
  BY <1>2, <1>3, <1>4, <1>5, PhaseIsTyped, ZenonT(60)
<1>7. derived.attempts[t][n].phase # "cancelled"
  BY <1>1, <1>5, ZenonT(60) DEF Derived!Activation, Derived!Eligible, Derived!At
<1> QED
  BY <1>1, <1>3, <1>4, <1>5, <1>6, <1>7 DEF Derived!Phases

\* The states of a Task, one by one.
LEMMA StateIs ==
  ASSUME LogInv, NEW t \in DOMAIN derived.graph
  PROVE  LET A == Derived!Accepted
             s == Derived!State(t)
         IN  /\ s = "cancelled" <=> Derived!IsCancelled(t)
             /\ s = "dependency_failed" <=> Derived!DependencyFailed(t, A)
             /\ s = "dependency_waiting" <=> Derived!Waiting(t, A)
             /\ s \in {"goal_failed", "exhausted"} => Derived!Failed(t, A)
             /\ s = "goal_achieved" => \E n \in 1..MaxAttempts : <<t, n>> \in A
<1>1. PICK A, s : A = Derived!Accepted /\ s = Derived!State(t)
  OBVIOUS
<1> DEFINE gone == Derived!IsCancelled(t)
           failed == Derived!DependencyFailed(t, A)
           waiting == Derived!Waiting(t, A)
           ready == Derived!Ready(t, A)
           n == Derived!Last(Derived!Activation(t, A))
<1>2. s = CASE gone -> "cancelled" [] failed -> "dependency_failed"
            [] waiting -> "dependency_waiting" [] ready -> "ready"
            [] OTHER -> derived.attempts[t][n].phase
  BY <1>1, Zenon DEF Derived!State
<1>3. /\ gone => ~failed /\ ~waiting /\ ~ready
      /\ failed => ~waiting /\ ~ready
      /\ waiting => ~ready
  BY DEF Derived!DependencyFailed, Derived!Waiting, Derived!Ready, Derived!Released
<1>4. ~gone /\ ~failed /\ ~waiting /\ ~ready => Derived!Activation(t, A) # {}
  BY DEF Derived!Waiting, Derived!Ready
<1>5. Derived!Activation(t, A) # {} =>
        /\ n \in Derived!Activation(t, A) /\ n \in 1..MaxAttempts
        /\ derived.attempts[t][n].phase \in
             {"in_progress", "blocked", "goal_achieved", "goal_failed", "exhausted"}
  BY CurrentPhase
<1>6. Derived!Activation(t, A) # {} /\ derived.attempts[t][n].phase = "goal_achieved"
        => <<t, n>> \in A
  BY <1>1, <1>5, AchievedIsAccepted
<1>7. Derived!Activation(t, A) # {}
        /\ derived.attempts[t][n].phase \in {"goal_failed", "exhausted"}
        => Derived!Failed(t, A)
  BY DEF Derived!Failed, Derived!In
<1> HIDE DEF gone, failed, waiting, ready, n
<1>8. /\ gone => s = "cancelled"
      /\ failed => s = "dependency_failed"
      /\ waiting => s = "dependency_waiting"
      /\ ready => s = "ready"
      /\ ~gone /\ ~failed /\ ~waiting /\ ~ready => s = derived.attempts[t][n].phase
  BY <1>2, <1>3
<1>9. /\ s = "cancelled" <=> gone
      /\ s = "dependency_failed" <=> failed
      /\ s = "dependency_waiting" <=> waiting
      /\ s \in {"goal_failed", "exhausted"} => Derived!Failed(t, A)
      /\ s = "goal_achieved" => \E i \in 1..MaxAttempts : <<t, i>> \in A
  BY <1>3, <1>4, <1>5, <1>6, <1>7, <1>8
<1> USE DEF gone, failed, waiting
<1> QED
  BY <1>1, <1>9

\* A Task waits for a prerequisite that may still be achieved.
LEMMA WaitsForOne ==
  ASSUME LogInv, NEW t \in DOMAIN derived.graph
  PROVE  (Derived!State(t) = "dependency_waiting") = (WaitsFor(t) # {})
<1>1. CASE Derived!State(t) # "dependency_waiting"
  BY <1>1 DEF WaitsFor
<1>2. ASSUME Derived!State(t) = "dependency_waiting"
      PROVE  WaitsFor(t) # {}
  <2>1. PICK A : A = Derived!Accepted
    OBVIOUS
  <2>2. Derived!Waiting(t, A)
    BY <1>2, <2>1, StateIs
  <2>3. /\ ~Derived!Released(t, A) /\ ~Derived!IsCancelled(t)
        /\ \A u \in Derived!Ancestors(t, derived.graph) :
             ~Derived!IsCancelled(u) /\ ~Derived!Failed(u, A)
    BY <2>2 DEF Derived!Waiting, Derived!DependencyFailed
  <2>4. PICK p \in derived.graph[t].needs : ~\E n \in 1..MaxAttempts : <<p, n>> \in A
    BY <2>3 DEF Derived!Released
  <2>5. /\ p \in DOMAIN derived.graph /\ p \in Derived!Ancestors(t, derived.graph)
        /\ Derived!Ancestors(p, derived.graph) \subseteq Derived!Ancestors(t, derived.graph)
    BY LogIs, AncestorsAre
  <2>6. ~Derived!IsCancelled(p) /\ ~Derived!Failed(p, A)
    BY <2>3, <2>5
  <2>7. ~Derived!DependencyFailed(p, A)
    BY <2>3, <2>5 DEF Derived!DependencyFailed
  <2>8. LET s == Derived!State(p)
        IN  /\ s = "cancelled" <=> Derived!IsCancelled(p)
            /\ s = "dependency_failed" <=> Derived!DependencyFailed(p, A)
            /\ s \in {"goal_failed", "exhausted"} => Derived!Failed(p, A)
            /\ s = "goal_achieved" => \E n \in 1..MaxAttempts : <<p, n>> \in A
    BY <2>1, <2>5, StateIs
  <2>9. Derived!State(p) \notin {"goal_achieved", "goal_failed", "exhausted",
                                 "dependency_failed", "cancelled"}
    BY <2>4, <2>6, <2>7, <2>8
  <2> QED
    BY <1>2, <2>9 DEF WaitsFor
<1> QED
  BY <1>1, <1>2

\* The Attempt that is shown beside the state of a Task is one it started.
LEMMA DisplayIsStarted ==
  ASSUME LogInv, NEW t \in DOMAIN derived.graph
  PROVE  DisplayAttempt(t) <= Cardinality(Starts(log, t))
<1>1. PICK k, A : k = Cardinality(Starts(log, t)) /\ A = Derived!Accepted
  OBVIOUS
<1>2. t \in Tasks
  BY LogIs
<1>3. k \in Nat /\ DOMAIN derived.attempts[t] = 1..k /\ Len(derived.attempts[t]) = k
  BY <1>1, <1>2, DerivedAttempts
<1>4. PICK S : S = Derived!Activation(t, A)
  OBVIOUS
<1>5. S \in SUBSET (1..k)
  BY <1>3, <1>4 DEF Derived!Activation
<1>6. S # {} => Derived!Last(S) \in 1..k
  BY <1>3, <1>5, LastIs
<1>7. DisplayAttempt(t) = IF S # {} THEN Derived!Last(S) ELSE k
  BY <1>1, <1>3, <1>4 DEF DisplayAttempt
<1> QED
  BY <1>1, <1>3, <1>6, <1>7

\* There is a graph to show whenever the log is one the commands leave.
LEMMA LogIsShown == LogInv => ViewIsShown
<1> SUFFICES ASSUME LogInv, NEW t \in DOMAIN derived.graph
             PROVE  /\ IsNode(t)
                    /\ derived.graph[t].target # NoTask => IsFailureEdge(t)
                    /\ derived.graph[t].needs \cup ({derived.graph[t].target} \ {NoTask})
                         \subseteq DOMAIN derived.graph
  BY DEF ViewIsShown, IsSource
<1>1. IsNode(t)
  <2>1. IsSequence(log)
    BY LogIs
  <2> QED
    BY <2>1, WaitsForOne, DisplayIsStarted, TimelineFits DEF IsNode
<1>2. derived.graph[t].target # NoTask => IsFailureEdge(t)
  BY TraversalsFit
<1>3. Derived!IsGraph(derived.graph) /\ Derived!ValidGraph(derived.graph)
  BY LogIs
<1>4. derived.graph[t].needs \subseteq DOMAIN derived.graph
  BY <1>3, AncestorsAre
<1>5. derived.graph[t].target # NoTask => derived.graph[t].target \in DOMAIN derived.graph
  BY <1>3, TargetIsTask
<1> QED
  BY <1>1, <1>2, <1>4, <1>5


-----------------------------------------------------------------------------
(* The order of the records of an Attempt                                  *)

\* What happens to an Attempt after its start.
TurnKinds == AttemptKinds \cup {"task_cancelled"}

IsTurn(e) == e.kind \in TurnKinds /\ e.attempt # << >>

\* The last event of a kind that an Attempt has before a place, 0 without one.
LastBefore(l, i, kind, a) == Latest(Earlier(l, i, kind, a))

\* An Attempt is completed or cancelled once, and superseded once; only what is
\* completed is superseded after its end; blocked and resumed take turns, and
\* what is blocked is not completed.
MayCome(l, i, kind, a) ==
  /\ LastBefore(l, i, "attempt_superseded", a) = 0
  /\ LastBefore(l, i, "task_cancelled", a) = 0
  /\ kind # "attempt_superseded" => LastBefore(l, i, "attempt_completed", a) = 0
  /\ kind \in {"attempt_blocked", "attempt_completed"} =>
       ~(LastBefore(l, i, "attempt_blocked", a) > LastBefore(l, i, "attempt_resumed", a))
  /\ kind = "attempt_resumed" =>
       LastBefore(l, i, "attempt_blocked", a) > LastBefore(l, i, "attempt_resumed", a)

InTurn(l, i) == IsTurn(l[i]) => MayCome(l, i, l[i].kind, l[i].attempt)

TurnsAreTaken(l) == IsSequence(l) /\ \A i \in 1..Len(l) : InTurn(l, i)

TimesInv ==
  /\ clock \in Nat
  /\ TurnsAreTaken(log)
  /\ \A i \in 1..Len(log) : log[i].at \in Nat

LEMMA LastBeforeIs ==
  ASSUME NEW l, IsSequence(l), NEW i \in Nat, NEW kind, NEW a
  PROVE  /\ LastBefore(l, i, kind, a) \in Nat
         /\ LastBefore(l, i, kind, a) = 0 <=> Earlier(l, i, kind, a) = {}
         /\ LastBefore(l, i, kind, a) # 0 =>
              /\ LastBefore(l, i, kind, a) \in 1..Len(l) /\ LastBefore(l, i, kind, a) < i
              /\ l[LastBefore(l, i, kind, a)].kind = kind
              /\ l[LastBefore(l, i, kind, a)].attempt = a
         /\ \A j \in 1..Len(l) : j < i /\ l[j].kind = kind /\ l[j].attempt = a =>
              j <= LastBefore(l, i, kind, a) /\ LastBefore(l, i, kind, a) # 0
<1>1. PICK S : S = Earlier(l, i, kind, a)
  OBVIOUS
<1>2. \A j : j \in S <=> j \in 1..Len(l) /\ l[j].kind = kind /\ j < i /\ l[j].attempt = a
  <2>1. \A j : j \in Of(l, {kind}) <=> j \in 1..Len(l) /\ l[j].kind = kind
    BY OfIs
  <2> QED
    BY <1>1, <2>1 DEF Earlier
<1>3. S \in SUBSET Of(l, {kind})
  BY <1>1 DEF Earlier
<1>4. PICK x : x = Latest(S)
  OBVIOUS
<1>5. x \in Nat /\ (x # 0 <=> S # {}) /\ (S # {} => x \in S) /\ \A y \in S : y <= x
  BY <1>3, <1>4, PlacesAre
<1>6. LastBefore(l, i, kind, a) = x
  BY <1>1, <1>4 DEF LastBefore
<1> QED
  BY <1>1, <1>2, <1>5, <1>6

\* At the end of a log it is what is folded.
LEMMA LastBeforeEnd ==
  ASSUME NEW l, IsSequence(l), NEW kind, NEW a
  PROVE  LastBefore(l, Len(l) + 1, kind, a) = Fold(l, a, kind)
<1>1. Len(l) \in Nat
  BY SequenceIs
<1>2. \A j \in Of(l, {kind}) : j < Len(l) + 1
  <2>1. \A j \in Of(l, {kind}) : j \in 1..Len(l)
    BY OfIs
  <2> QED
    BY <1>1, <2>1
<1>3. Earlier(l, Len(l) + 1, kind, a) = {j \in Of(l, {kind}) : l[j].attempt = a}
  BY <1>2 DEF Earlier
<1> QED
  BY <1>3 DEF LastBefore, Fold

\* Records that are about other Attempts, or of another kind, do not count.
LEMMA LastBeforeStays ==
  ASSUME NEW l, NEW m, Prefix(l, m), NEW i \in (Len(l) + 1)..Len(m), NEW kind, NEW a,
         \A j \in (Len(l) + 1)..Len(m) : j < i => ~(m[j].kind = kind /\ m[j].attempt = a)
  PROVE  LastBefore(m, i, kind, a) = Fold(l, a, kind)
<1>1. IsSequence(l) /\ IsSequence(m) /\ Len(l) \in Nat /\ Len(m) \in Nat /\ Len(l) <= Len(m)
  BY SequenceIs DEF Prefix
<1>2. \A j \in 1..Len(m) : j \in 1..Len(l) \/ j \in (Len(l) + 1)..Len(m)
  BY <1>1
<1>3. \A j : j \in Of(m, {kind}) <=> j \in 1..Len(m) /\ m[j].kind = kind
  BY <1>1, OfIs
<1>4. \A j : j \in Of(l, {kind}) <=> j \in 1..Len(l) /\ l[j].kind = kind
  BY <1>1, OfIs
<1>5. 1..Len(l) \subseteq 1..Len(m) /\ \A j \in 1..Len(l) : m[j] = l[j] /\ j < i
  BY <1>1 DEF Prefix
<1>6. \A j : j \in Of(m, {kind}) /\ j < i /\ m[j].attempt = a
             <=> j \in Of(l, {kind}) /\ l[j].attempt = a
  BY <1>2, <1>3, <1>4, <1>5
<1>7. Earlier(m, i, kind, a) = {j \in Of(l, {kind}) : l[j].attempt = a}
  BY <1>6 DEF Earlier
<1> QED
  BY <1>7 DEF LastBefore, Fold

LEMMA TurnsStay ==
  ASSUME NEW l, NEW m, Prefix(l, m), NEW i \in 1..Len(l), InTurn(l, i)
  PROVE  InTurn(m, i)
<1>1. m[i] = l[i] /\ i \in 1..(Len(l) + 1)
  BY SequenceIs DEF Prefix
<1>2. \A kind, a : Earlier(m, i, kind, a) = Earlier(l, i, kind, a)
  BY <1>1, BeforeStays
<1>3. \A kind, a : LastBefore(m, i, kind, a) = LastBefore(l, i, kind, a)
  BY <1>2 DEF LastBefore
<1> QED
  BY <1>1, <1>3 DEF InTurn, MayCome


\* The records of a command that are turns of these Attempts, one of each.
TurnsFit(l, records, S) ==
  /\ IsSequence(records)
  /\ \A i \in 1..Len(records) : \A e : Becomes(records[i], e) /\ IsTurn(e) =>
       e.attempt \in S /\ MayCome(l, Len(l) + 1, e.kind, e.attempt)
  /\ \A i, j \in 1..Len(records) : i # j => \A e, f :
       Becomes(records[i], e) /\ IsTurn(e) /\ Becomes(records[j], f) /\ IsTurn(f) =>
         e.attempt # f.attempt

LEMMA TimesRecorded ==
  ASSUME NEW l, IsSequence(l), NEW records, IsSequence(records), NEW stamp, "at" \in DOMAIN stamp,
         NEW m, Joins(l, Stamped(records, stamp), m)
  PROVE  \A i \in (Len(l) + 1)..Len(m) : m[i].at = stamp.at
<1>1. PICK s : s = Stamped(records, stamp)
  OBVIOUS
<1>2. /\ IsSequence(s) /\ Len(s) = Len(records)
      /\ \A i \in 1..Len(s) : s[i] = WithFields(records[i], stamp)
  BY <1>1, StampedIs
<1>3. Len(l) \in Nat /\ Len(s) \in Nat
  BY <1>2, SequenceIs
<1>4. m = l \o s
  BY <1>1 DEF Joins
<1>5. Len(m) = Len(l) + Len(s) /\ \A i \in 1..Len(s) : m[Len(l) + i] = s[i]
  <2>1. Len(l \o s) = Len(l) + Len(s) /\ \A i \in 1..Len(s) : (l \o s)[Len(l) + i] = s[i]
    BY <1>2, Joined
  <2> QED
    BY <1>4, <2>1
<1>6. \A r : WithFields(r, stamp).at = stamp.at
  BY DEF WithFields
<1> SUFFICES ASSUME NEW i \in (Len(l) + 1)..Len(m) PROVE m[i].at = stamp.at
  OBVIOUS
<1>7. i = Len(l) + (i - Len(l)) /\ i - Len(l) \in 1..Len(s)
  BY <1>3, <1>5
<1>8. m[i] = WithFields(records[i - Len(l)], stamp)
  BY <1>2, <1>5, <1>7
<1> QED
  BY <1>6, <1>8

LEMMA TurnsRecorded ==
  ASSUME NEW l, TurnsAreTaken(l), NEW records, NEW S, TurnsFit(l, records, S),
         NEW stamp, IsStamp(stamp), NEW m, Joins(l, Stamped(records, stamp), m)
  PROVE  TurnsAreTaken(m)
<1>1. IsSequence(l) /\ IsSequence(records)
  BY DEF TurnsAreTaken, TurnsFit
<1>2. /\ Prefix(l, m) /\ Len(l) \in Nat
      /\ \A i \in 1..Len(records) : Becomes(records[i], m[Len(l) + i])
      /\ \A i \in (Len(l) + 1)..Len(m) : i - Len(l) \in 1..Len(records)
  <2>1. /\ Prefix(l, m) /\ Len(m) = Len(l) + Len(records)
        /\ Len(l) \in Nat /\ Len(records) \in Nat
        /\ \A i \in 1..Len(records) :
             Becomes(records[i], m[Len(l) + i]) /\ m[Len(l) + i].operation = stamp.operation
        /\ \A i \in (Len(l) + 1)..Len(m) : i - Len(l) \in 1..Len(records)
    BY <1>1, EventsRecorded
  <2> QED
    BY <2>1
<1>3. IsSequence(m) /\ Len(m) \in Nat
  BY <1>2, SequenceIs DEF Prefix
<1>4. ASSUME NEW i \in (Len(l) + 1)..Len(m)
      PROVE  i - Len(l) \in 1..Len(records) /\ Becomes(records[i - Len(l)], m[i])
  <2>1. i = Len(l) + (i - Len(l)) /\ i - Len(l) \in 1..Len(records)
    BY <1>2, <1>3
  <2> QED
    BY <1>2, <2>1
<1>5. ASSUME NEW i \in (Len(l) + 1)..Len(m), IsTurn(m[i]) PROVE MayCome(m, i, m[i].kind, m[i].attempt)
  <2>1. PICK kind, a : kind = m[i].kind /\ a = m[i].attempt
    OBVIOUS
  <2>2. a # << >>
    BY <1>5, <2>1 DEF IsTurn
  <2>3. MayCome(l, Len(l) + 1, kind, a)
    BY <1>4, <1>5, <2>1 DEF TurnsFit
  <2>4. ASSUME NEW j \in (Len(l) + 1)..Len(m), j < i, m[j].kind \in TurnKinds
        PROVE  m[j].attempt # a
    <3> SUFFICES ASSUME m[j].attempt = a PROVE FALSE
      OBVIOUS
    <3>1. IsTurn(m[j])
      BY <2>2, <2>4 DEF IsTurn
    <3>2. i - Len(l) # j - Len(l)
      BY <1>2, <1>3, <2>4
    <3>3. Becomes(records[i - Len(l)], m[i]) /\ Becomes(records[j - Len(l)], m[j])
      BY <1>4
    <3>4. i - Len(l) \in 1..Len(records) /\ j - Len(l) \in 1..Len(records)
      BY <1>4
    <3> QED
      BY <1>5, <2>1, <3>1, <3>2, <3>3, <3>4 DEF TurnsFit
  <2>5. ASSUME NEW k \in TurnKinds
        PROVE  LastBefore(m, i, k, a) = LastBefore(l, Len(l) + 1, k, a)
    <3>1. \A j \in (Len(l) + 1)..Len(m) : j < i => ~(m[j].kind = k /\ m[j].attempt = a)
      BY <2>4
    <3>2. LastBefore(m, i, k, a) = Fold(l, a, k)
      BY <1>2, <3>1, LastBeforeStays
    <3> QED
      BY <1>1, <3>2, LastBeforeEnd
  <2>6. /\ LastBefore(m, i, "attempt_superseded", a) = LastBefore(l, Len(l) + 1, "attempt_superseded", a)
        /\ LastBefore(m, i, "task_cancelled", a) = LastBefore(l, Len(l) + 1, "task_cancelled", a)
        /\ LastBefore(m, i, "attempt_completed", a) = LastBefore(l, Len(l) + 1, "attempt_completed", a)
        /\ LastBefore(m, i, "attempt_blocked", a) = LastBefore(l, Len(l) + 1, "attempt_blocked", a)
        /\ LastBefore(m, i, "attempt_resumed", a) = LastBefore(l, Len(l) + 1, "attempt_resumed", a)
    BY <2>5 DEF TurnKinds, AttemptKinds
  <2>7. MayCome(m, i, kind, a)
    BY <2>3, <2>6 DEF MayCome
  <2> QED
    BY <2>1, <2>7
<1>6. ASSUME NEW i \in 1..Len(m) PROVE InTurn(m, i)
  <2>1. CASE i \in 1..Len(l)
    <3>1. InTurn(l, i)
      BY <2>1 DEF TurnsAreTaken
    <3> QED
      BY <1>2, <2>1, <3>1, TurnsStay
  <2>2. CASE i \notin 1..Len(l)
    <3>1. i \in (Len(l) + 1)..Len(m)
      BY <1>2, <1>3, <2>2
    <3> QED
      BY <1>5, <3>1 DEF InTurn
  <2> QED
    BY <2>1, <2>2
<1> QED
  BY <1>3, <1>6 DEF TurnsAreTaken

LEMMA NoTurn == \A l : TurnsFit(l, << >>, {})
<1>1. PICK s : s = << >>
  OBVIOUS
<1>2. IsSequence(s) /\ Len(s) = 0 /\ 1..0 = {}
  BY <1>1, NoRecord
<1>3. \A l : TurnsFit(l, s, {})
  BY <1>2 DEF TurnsFit
<1> QED
  BY <1>1, <1>3

LEMMA OneTurn ==
  ASSUME NEW l, NEW r, NEW S,
         \A e, stamp : IsStamp(stamp) /\ Stamp(r, e, stamp) /\ IsTurn(e) =>
           e.attempt \in S /\ MayCome(l, Len(l) + 1, e.kind, e.attempt)
  PROVE  TurnsFit(l, <<r>>, S)
<1>1. PICK s : s = <<r>>
  OBVIOUS
<1>2. IsSequence(s) /\ Len(s) = 1 /\ s[1] = r /\ 1..1 = {1}
  BY <1>1, OneRecord
<1>3. \A e : Becomes(r, e) /\ IsTurn(e) =>
        e.attempt \in S /\ MayCome(l, Len(l) + 1, e.kind, e.attempt)
  BY DEF Becomes
<1>4. TurnsFit(l, s, S)
  BY <1>2, <1>3 DEF TurnsFit
<1> QED
  BY <1>1, <1>4

LEMMA TurnsJoined ==
  ASSUME NEW l, NEW a, NEW b, NEW S, NEW T, TurnsFit(l, a, S), TurnsFit(l, b, T), S \cap T = {}
  PROVE  TurnsFit(l, a \o b, S \cup T)
<1>1. PICK c : c = a \o b
  OBVIOUS
<1>2. IsSequence(a) /\ IsSequence(b)
  BY DEF TurnsFit
<1>3. /\ IsSequence(c) /\ Len(a) \in Nat /\ Len(c) \in Nat
      /\ \A i \in 1..Len(a) : i \in 1..Len(c) /\ c[i] = a[i]
      /\ \A i \in 1..Len(c) : i \notin 1..Len(a) =>
           i - Len(a) \in 1..Len(b) /\ c[i] = b[i - Len(a)]
  <2>1. /\ IsSequence(c) /\ Len(a) \in Nat
        /\ \A i \in 1..Len(a) : i \in 1..Len(c) /\ c[i] = a[i]
        /\ \A i \in 1..Len(c) : i \notin 1..Len(a) =>
             i - Len(a) \in 1..Len(b) /\ c[i] = b[i - Len(a)]
    <3>1. /\ IsSequence(a \o b) /\ Len(a) \in Nat /\ Len(b) \in Nat
          /\ \A i \in 1..Len(a) : i \in 1..Len(a \o b) /\ (a \o b)[i] = a[i]
          /\ \A i \in 1..Len(a \o b) : i \notin 1..Len(a) =>
               /\ i = Len(a) + (i - Len(a)) /\ i - Len(a) \in 1..Len(b)
               /\ (a \o b)[i] = b[i - Len(a)]
      BY <1>2, RecordsJoined
    <3> QED
      BY <1>1, <3>1
  <2>2. Len(c) \in Nat
    BY <2>1, SequenceIs
  <2> QED
    BY <2>1, <2>2
<1>4. ASSUME NEW i \in 1..Len(c), NEW e, Becomes(c[i], e), IsTurn(e)
      PROVE  /\ MayCome(l, Len(l) + 1, e.kind, e.attempt)
             /\ i \in 1..Len(a) => e.attempt \in S
             /\ i \notin 1..Len(a) => e.attempt \in T
  <2>1. CASE i \in 1..Len(a)
    BY <1>3, <1>4, <2>1 DEF TurnsFit
  <2>2. CASE i \notin 1..Len(a)
    BY <1>3, <1>4, <2>2 DEF TurnsFit
  <2> QED
    BY <2>1, <2>2
<1>5. ASSUME NEW i \in 1..Len(c), NEW j \in 1..Len(c), i # j, NEW e, NEW f,
             Becomes(c[i], e), IsTurn(e), Becomes(c[j], f), IsTurn(f)
      PROVE  e.attempt # f.attempt
  <2>1. CASE i \in 1..Len(a) /\ j \in 1..Len(a)
    BY <1>3, <1>5, <2>1 DEF TurnsFit
  <2>2. CASE i \notin 1..Len(a) /\ j \notin 1..Len(a)
    <3>1. i - Len(a) # j - Len(a)
      BY <1>3, <1>5
    <3>2. /\ i - Len(a) \in 1..Len(b) /\ c[i] = b[i - Len(a)]
          /\ j - Len(a) \in 1..Len(b) /\ c[j] = b[j - Len(a)]
      BY <1>3, <2>2
    <3> QED
      BY <1>5, <3>1, <3>2 DEF TurnsFit
  <2>3. CASE ~(i \in 1..Len(a) <=> j \in 1..Len(a))
    BY <1>4, <1>5, <2>3
  <2> QED
    BY <2>1, <2>2, <2>3
<1>6. TurnsFit(l, c, S \cup T)
  BY <1>3, <1>4, <1>5 DEF TurnsFit
<1> QED
  BY <1>1, <1>6


\* What is superseded is neither cancelled nor superseded before.
MayStop(l, stop) ==
  /\ Stoppable(stop)
  /\ \A a \in stop : Fold(l, a, "attempt_superseded") = 0 /\ Fold(l, a, "task_cancelled") = 0

LEMMA SupersedeTurns ==
  ASSUME NEW l, IsSequence(l), NEW stop, MayStop(l, stop)
  PROVE  TurnsFit(l, Supersede(stop), stop)
<1>1. IsFiniteSet(stop) /\ (\A a \in stop : a[1] \in Nat) /\ \A a, b \in stop : a[1] = b[1] => a = b
  BY DEF Stoppable, MayStop
<1>2. PICK s : s = Supersede(stop)
  OBVIOUS
<1>3. IsSequence(s) /\ DOMAIN s = 1..Len(s)
  BY <1>1, <1>2, SupersedeIsSequence, SequenceIs
<1>4. PICK q, n : q = InOrder(stop) /\ n = Cardinality(stop)
  OBVIOUS
<1>5. /\ DOMAIN q = 1..n /\ \A i \in 1..n : q[i] \in stop
      /\ \A i, j \in 1..n : q[i] = q[j] => i = j
  BY <1>1, <1>4, InOrderLists
<1>6. DOMAIN s = DOMAIN q /\ \A i \in DOMAIN s : s[i] = [kind |-> "attempt_superseded", attempt |-> q[i]]
  BY <1>2, <1>4 DEF Supersede
<1>7. ASSUME NEW i \in 1..Len(s), NEW e, Becomes(s[i], e)
      PROVE  e.kind = "attempt_superseded" /\ e.attempt = q[i] /\ i \in 1..n
  <2>1. PICK stamp : IsStamp(stamp) /\ Stamp(s[i], e, stamp)
    BY <1>7 DEF Becomes
  <2>2. PICK a : a = q[i]
    OBVIOUS
  <2>3. s[i] = [kind |-> "attempt_superseded", attempt |-> a] /\ i \in 1..n
    BY <1>3, <1>5, <1>6, <2>2
  <2> QED
    BY <2>1, <2>2, <2>3 DEF Stamp, IsStamp
<1>8. ASSUME NEW a \in stop, NEW k, k = "attempt_superseded" PROVE MayCome(l, Len(l) + 1, k, a)
  <2>1. Fold(l, a, "attempt_superseded") = 0 /\ Fold(l, a, "task_cancelled") = 0
    BY DEF MayStop
  <2>2. /\ LastBefore(l, Len(l) + 1, "attempt_superseded", a) = 0
        /\ LastBefore(l, Len(l) + 1, "task_cancelled", a) = 0
    BY <2>1, LastBeforeEnd
  <2> QED
    BY <1>8, <2>2 DEF MayCome
<1>9. \A i \in 1..Len(s) : \A e : Becomes(s[i], e) /\ IsTurn(e) =>
        e.attempt \in stop /\ MayCome(l, Len(l) + 1, e.kind, e.attempt)
  BY <1>5, <1>7, <1>8
<1>10. \A i, j \in 1..Len(s) : i # j => \A e, f :
         Becomes(s[i], e) /\ IsTurn(e) /\ Becomes(s[j], f) /\ IsTurn(f) => e.attempt # f.attempt
  BY <1>5, <1>7
<1>11. TurnsFit(l, s, stop)
  BY <1>3, <1>9, <1>10 DEF TurnsFit
<1> QED
  BY <1>2, <1>11

\* What is completed is not cancelled, and what is cancelled is not superseded.
LEMMA EndsExclude ==
  ASSUME NEW l, TurnsAreTaken(l), NEW a, a # << >>, Fold(l, a, "task_cancelled") # 0
  PROVE  Fold(l, a, "attempt_completed") = 0 /\ Fold(l, a, "attempt_superseded") = 0
<1>1. IsSequence(l) /\ Len(l) \in Nat
  BY SequenceIs DEF TurnsAreTaken
<1>2. ASSUME NEW kind \in TurnKinds, NEW i, i = Fold(l, a, kind), i # 0
      PROVE  /\ i \in 1..Len(l) /\ l[i].kind = kind /\ l[i].attempt = a
             /\ MayCome(l, i, kind, a)
  <2>1. i \in Of(l, {kind}) /\ l[i].attempt = a
    BY <1>1, <1>2, FoldIs
  <2>2. i \in 1..Len(l) /\ l[i].kind = kind
    BY <1>1, <2>1, OfIs
  <2>3. IsTurn(l[i])
    BY <2>1, <2>2 DEF IsTurn
  <2> QED
    BY <2>1, <2>2, <2>3 DEF TurnsAreTaken, InTurn
<1>3. PICK x : x = Fold(l, a, "task_cancelled")
  OBVIOUS
<1>4. x \in 1..Len(l) /\ l[x].kind = "task_cancelled" /\ l[x].attempt = a /\ MayCome(l, x, "task_cancelled", a)
  BY <1>2, <1>3 DEF TurnKinds
<1>5. ASSUME NEW kind \in {"attempt_completed", "attempt_superseded"}, Fold(l, a, kind) # 0
      PROVE  FALSE
  <2>1. PICK i : i = Fold(l, a, kind)
    OBVIOUS
  <2>2. i \in 1..Len(l) /\ l[i].kind = kind /\ l[i].attempt = a /\ MayCome(l, i, kind, a)
    BY <1>2, <1>5, <2>1 DEF TurnKinds, AttemptKinds
  <2>3. LastBefore(l, x, kind, a) = 0 /\ LastBefore(l, i, "task_cancelled", a) = 0
    BY <1>4, <1>5, <2>2 DEF MayCome
  <2>4. i # x
    BY <1>4, <1>5, <2>2
  <2>5. CASE i < x
    <3>1. \A j \in 1..Len(l) : j < x /\ l[j].kind = kind /\ l[j].attempt = a =>
            LastBefore(l, x, kind, a) # 0
      <4>1. x \in Nat
        BY <1>4, <2>2
      <4> QED
        BY <1>1, <4>1, LastBeforeIs
    <3>2. LastBefore(l, x, kind, a) # 0
      BY <1>4, <2>2, <2>5, <3>1
    <3> QED
      BY <2>3, <3>2
  <2>6. CASE x < i
    <3>1. \A j \in 1..Len(l) : j < i /\ l[j].kind = "task_cancelled" /\ l[j].attempt = a =>
            LastBefore(l, i, "task_cancelled", a) # 0
      <4>1. i \in Nat
        BY <1>4, <2>2
      <4> QED
        BY <1>1, <4>1, LastBeforeIs
    <3>2. LastBefore(l, i, "task_cancelled", a) # 0
      BY <1>4, <2>2, <2>6, <3>1
    <3> QED
      BY <2>3, <3>2
  <2> QED
    BY <1>1, <1>4, <2>2, <2>4, <2>5, <2>6
<1> QED
  BY <1>5


LEMMA TimesGoOn ==
  ASSUME NEW l, IsSequence(l), NEW records, IsSequence(records), NEW stamp, IsStamp(stamp),
         NEW m, Joins(l, Stamped(records, stamp), m), \A i \in 1..Len(l) : l[i].at \in Nat,
         stamp.at \in Nat
  PROVE  \A i \in 1..Len(m) : m[i].at \in Nat
<1>1. Prefix(l, m)
  BY EventsRecorded
<1>2. \A i \in (Len(l) + 1)..Len(m) : m[i].at = stamp.at
  <2>1. "at" \in DOMAIN stamp
    BY DEF IsStamp
  <2> QED
    BY <2>1, TimesRecorded
<1>3. \A i \in 1..Len(m) : i \in 1..Len(l) \/ i \in (Len(l) + 1)..Len(m)
  BY <1>1, SequenceIs DEF Prefix
<1>4. \A i \in 1..Len(l) : m[i] = l[i]
  BY <1>1 DEF Prefix
<1> QED
  BY <1>2, <1>3, <1>4

LEMMA SupersededIs ==
  ASSUME NEW l, NEW a
  PROVE  AttemptFold(l, a).superseded <=> Fold(l, a, "attempt_superseded") # 0
<1>1. PICK b \in BOOLEAN : b <=> Fold(l, a, "attempt_superseded") # 0
  OBVIOUS
<1>2. PICK s : s = (Fold(l, a, "attempt_superseded") # 0)
  OBVIOUS
<1>3. s = b
  BY <1>1, <1>2
<1>4. PICK x, d, i, w, p : AttemptFold(l, a) = [lineage |-> x, demand |-> d, inputs |-> i, worker |-> w,
                                               phase |-> p, superseded |-> s]
  BY <1>2 DEF AttemptFold
<1>5. AttemptFold(l, a).superseded = s
  BY <1>4
<1> QED
  BY <1>1, <1>3, <1>5

\* What stands is neither cancelled nor superseded.
LEMMA StandingMayStop ==
  ASSUME LogInv, TimesInv, NEW S \in SUBSET Tasks, NEW A,
         NEW stop \in SUBSET Derived!StandingIds(S, A)
  PROVE  MayStop(log, stop)
<1>1. Stoppable(stop)
  BY StandingStops
<1>2. ASSUME NEW a \in stop
      PROVE  Fold(log, a, "attempt_superseded") = 0 /\ Fold(log, a, "task_cancelled") = 0
  <2>1. PICK t \in S, n \in 1..MaxAttempts : a = <<t, n>> /\ n \in Derived!Standing(t, A)
    BY DEF Derived!StandingIds
  <2>2. t \in Tasks
    OBVIOUS
  <2>3. PICK k : k = Cardinality(Starts(log, t))
    OBVIOUS
  <2>4. /\ k \in Nat /\ DOMAIN derived.attempts[t] = 1..k
        /\ \A i \in 1..k : derived.attempts[t][i] = AttemptFold(log, <<t, i>>)
        /\ \A i \in 1..k : derived.attempts[t][i].phase = Phase(log, <<t, i>>)
    BY <2>2, <2>3, DerivedAttempts
  <2>5. PICK P, Q : P = Derived!Active(t) /\ Q = Derived!Activation(t, A)
    OBVIOUS
  <2>6. P \in SUBSET (1..k) /\ Q \in SUBSET (1..k)
    BY <2>4, <2>5 DEF Derived!Active, Derived!Activation
  <2>7. (P # {} /\ n = Derived!Last(P)) \/ (Q # {} /\ n = Derived!Last(Q))
    BY <2>1, <2>5 DEF Derived!Standing
  <2>8. n \in P \/ n \in Q
    BY <2>4, <2>6, <2>7, LastIs
  <2>9. n \in 1..k
    BY <2>6, <2>8
  <2>10. /\ ~derived.attempts[t][n].superseded
         /\ derived.attempts[t][n].phase # "cancelled"
    <3>1. CASE n \in P
      BY <2>5, <3>1 DEF Derived!Active
    <3>2. CASE n \in Q
      BY <2>5, <3>2 DEF Derived!Activation, Derived!Eligible, Derived!At
    <3> QED
      BY <2>8, <3>1, <3>2
  <2>11. Fold(log, a, "attempt_superseded") = 0
    <3>1. derived.attempts[t][n] = AttemptFold(log, a)
      BY <2>1, <2>4, <2>9
    <3>2. AttemptFold(log, a).superseded <=> Fold(log, a, "attempt_superseded") # 0
      BY SupersededIs
    <3> QED
      BY <2>10, <3>1, <3>2
  <2>12. Phase(log, a) # "cancelled"
    BY <2>1, <2>4, <2>9, <2>10
  <2>13. Fold(log, a, "task_cancelled") # 0 => Fold(log, a, "attempt_completed") = 0
    <3>1. TurnsAreTaken(log) /\ a # << >>
      BY <2>1 DEF TimesInv
    <3> QED
      BY <3>1, EndsExclude
  <2>14. Fold(log, a, "task_cancelled") # 0 => Phase(log, a) = "cancelled"
    BY <2>13 DEF Phase
  <2> QED
    BY <2>11, <2>12, <2>14
<1> QED
  BY <1>1, <1>2 DEF MayStop

\* What may come of the current Attempt of a Task that is under way.
LEMMA CurrentMayCome ==
  ASSUME LogInv, TimesInv, NEW t \in DOMAIN derived.graph, NEW A, NEW phases, Derived!In(t, phases, A),
         phases \subseteq {"in_progress", "blocked"}
  PROVE  LET a == <<t, Derived!Last(Derived!Activation(t, A))>>
         IN  /\ MayCome(log, Len(log) + 1, "task_cancelled", a)
             /\ "blocked" \notin phases => /\ MayCome(log, Len(log) + 1, "attempt_blocked", a)
                                           /\ MayCome(log, Len(log) + 1, "attempt_completed", a)
             /\ "in_progress" \notin phases => MayCome(log, Len(log) + 1, "attempt_resumed", a)
<1>1. PICK n : n = Derived!Last(Derived!Activation(t, A))
  OBVIOUS
<1>2. PICK a : a = <<t, n>>
  OBVIOUS
<1>3. Phase(log, a) \in phases
  BY <1>1, <1>2, CurrentIsStarted
<1>4. t \in Tasks /\ IsSequence(log) /\ LogFits(log)
  BY LogIs DEF LogInv
<1>5. PICK k : k = Cardinality(Starts(log, t))
  OBVIOUS
<1>6. /\ k \in Nat /\ DOMAIN derived.attempts[t] = 1..k
      /\ \A i \in 1..k : derived.attempts[t][i] = AttemptFold(log, <<t, i>>)
  BY <1>4, <1>5, DerivedAttempts
<1>7. n \in Derived!Activation(t, A)
  <2>1. PICK Q : Q = Derived!Activation(t, A)
    OBVIOUS
  <2>2. Q # {} /\ Q \in SUBSET (1..k)
    BY <1>6, <2>1 DEF Derived!In, Derived!Activation
  <2> QED
    BY <1>1, <1>6, <2>1, <2>2, LastIs
<1>8. n \in 1..k /\ ~derived.attempts[t][n].superseded
  BY <1>6, <1>7 DEF Derived!Activation, Derived!Eligible, Derived!At
<1>9. Fold(log, a, "attempt_superseded") = 0
  <2>1. derived.attempts[t][n] = AttemptFold(log, a)
    BY <1>2, <1>6, <1>8
  <2>2. AttemptFold(log, a).superseded <=> Fold(log, a, "attempt_superseded") # 0
    BY SupersededIs
  <2> QED
    BY <1>8, <2>1, <2>2
<1>10. /\ Fold(log, a, "attempt_completed") = 0 /\ Fold(log, a, "task_cancelled") = 0
       /\ "in_progress" \notin phases => Fold(log, a, "attempt_blocked") > Fold(log, a, "attempt_resumed")
       /\ "blocked" \notin phases => ~(Fold(log, a, "attempt_blocked") > Fold(log, a, "attempt_resumed"))
  <2>1. /\ Phase(log, a) \in {"in_progress", "blocked"} =>
              Fold(log, a, "attempt_completed") = 0 /\ Fold(log, a, "task_cancelled") = 0
        /\ Phase(log, a) = "blocked" => Fold(log, a, "attempt_blocked") > Fold(log, a, "attempt_resumed")
        /\ Phase(log, a) = "in_progress" => ~(Fold(log, a, "attempt_blocked") > Fold(log, a, "attempt_resumed"))
    BY <1>4, PhaseIs
  <2>2. Phase(log, a) \in {"in_progress", "blocked"}
    BY <1>3
  <2> QED
    BY <1>3, <2>1, <2>2
<1>11. \A kind : LastBefore(log, Len(log) + 1, kind, a) = Fold(log, a, kind)
  BY <1>4, LastBeforeEnd
<1>12. /\ MayCome(log, Len(log) + 1, "task_cancelled", a)
       /\ "blocked" \notin phases => /\ MayCome(log, Len(log) + 1, "attempt_blocked", a)
                                     /\ MayCome(log, Len(log) + 1, "attempt_completed", a)
       /\ "in_progress" \notin phases => MayCome(log, Len(log) + 1, "attempt_resumed", a)
  BY <1>9, <1>10, <1>11 DEF MayCome
<1> QED
  BY <1>1, <1>2, <1>12

LEMMA TransitionTurns ==
  ASSUME LogInv, TimesInv, NEW t, NEW events, NEW transition, NEW traversal, NEW c,
         Transition(transition, t, events, traversal, c), NEW S, TurnsFit(log, events, S)
  PROVE  TimesInv'
<1> DEFINE r == [kind |-> "task_context_updated", task |-> t, lineage |-> LineageOf(t), text |-> c]
           noted == IF c = NoContext THEN << >> ELSE <<r>>
<1>1. Commit(<< >>, events \o noted, Len(noted), transition, t, traversal)
  BY DEF Transition
<1>2. PICK l : l = log
  OBVIOUS
<1>3. IsSequence(l) /\ TurnsAreTaken(l) /\ clock \in Nat /\ \A i \in 1..Len(l) : l[i].at \in Nat
  BY <1>2 DEF LogInv, LogFits, TimesInv
<1>4. TurnsFit(l, noted, {})
  <2>1. \A e, stamp : IsStamp(stamp) /\ Stamp(r, e, stamp) => e.kind = "task_context_updated"
    BY DEF IsStamp, Stamp
  <2> HIDE DEF r
  <2>2. \A e, stamp : IsStamp(stamp) /\ Stamp(r, e, stamp) => ~IsTurn(e)
    BY <2>1 DEF IsTurn, TurnKinds, AttemptKinds
  <2>3. TurnsFit(l, <<r>>, {})
    BY <2>2, OneTurn
  <2> QED
    BY <2>3, NoTurn
<1>5. PICK records : records = events \o noted
  OBVIOUS
<1> HIDE DEF noted
<1>6. TurnsFit(l, records, S \cup {})
  BY <1>2, <1>4, <1>5, TurnsJoined
<1>7. PICK at \in 0..(clock + 1) :
        /\ clock' = at
        /\ log' = log \o Stamped(<< >>, [at |-> at])
                      \o Stamped(records, [operation |-> Len(receipts) + 1, at |-> at])
  BY <1>1, <1>5 DEF Commit
<1>8. PICK stamp : stamp = [operation |-> Len(receipts) + 1, at |-> at]
  OBVIOUS
<1>9. IsStamp(stamp) /\ stamp.at = at /\ "at" \in DOMAIN stamp /\ at \in Nat
  BY <1>3, <1>7, <1>8 DEF IsStamp
<1>10. PICK m : m = log'
  OBVIOUS
<1>11. Joins(l, Stamped(records, stamp), m)
  <2>1. log \o Stamped(<< >>, [at |-> at]) = log
    BY <1>2, <1>3, NoneStamped, JoinedToNone
  <2> QED
    BY <1>2, <1>7, <1>8, <1>10, <2>1 DEF Joins
<1>12. TurnsAreTaken(m)
  BY <1>3, <1>6, <1>9, <1>11, TurnsRecorded
<1>13. \A i \in 1..Len(m) : m[i].at \in Nat
  BY <1>3, <1>6, <1>9, <1>11, TimesGoOn DEF TurnsFit
<1> QED
  BY <1>7, <1>9, <1>10, <1>12, <1>13 DEF TimesInv


LEMMA ApplyGraphTurns ==
  ASSUME LogInv, TimesInv, NEW g \in Graphs, ApplyGraph(g)
  PROVE  TimesInv'
<1>1. PICK S, stop : S = Derived!Affected(g) /\ stop = Derived!StandingIds(S, Derived!Accepted)
  OBVIOUS
<1>2. PICK lineage : lineage = [t \in DOMAIN g |->
                       IF t \in DOMAIN derived.graph /\ derived.graph[t] = g[t]
                       THEN log[CurrentRevision(log)].lineage[t] ELSE Len(log) + 1]
  OBVIOUS
<1>3. PICK r : r = [kind |-> "graph_revision", graph |-> g, lineage |-> lineage]
  OBVIOUS
<1>4. Commit(<<r>>, Supersede(stop), 0, "apply", NoTask, << >>)
  BY <1>1, <1>2, <1>3 DEF ApplyGraph
<1>5. MayStop(log, stop)
  <2>1. S \in SUBSET Tasks
    BY <1>1, ClosureIsOfTasks DEF Derived!Affected
  <2>2. stop \in SUBSET Derived!StandingIds(S, Derived!Accepted)
    BY <1>1
  <2> QED
    BY <2>1, <2>2, StandingMayStop
<1>6. PICK records : records = Supersede(stop)
  OBVIOUS
<1>7. PICK at \in 0..(clock + 1) :
        /\ clock' = at
        /\ log' = log \o Stamped(<<r>>, [at |-> at])
                      \o Stamped(records, [operation |-> Len(receipts) + 1, at |-> at])
  BY <1>4, <1>6 DEF Commit
<1>8. PICK one, stamp, l, m : /\ one = [at |-> at] /\ stamp = [operation |-> Len(receipts) + 1, at |-> at]
                              /\ l = log /\ m = log'
  OBVIOUS
<1>9. PICK k : k = l \o Stamped(<<r>>, one)
  OBVIOUS
<1>10. Joins(k, Stamped(records, stamp), m)
  BY <1>7, <1>8, <1>9 DEF Joins
<1>11. LogFits(l) /\ IsSequence(l) /\ TurnsAreTaken(l) /\ clock \in Nat /\ \A i \in 1..Len(l) : l[i].at \in Nat
  BY <1>8 DEF LogInv, LogFits, TimesInv
<1>12. IsStamp(stamp) /\ stamp.at = at /\ at \in Nat
  BY <1>7, <1>8, <1>11 DEF IsStamp
<1>13. PICK e : Stamp(r, e, one) /\ Adds(l, e, k)
  <2>1. PICK e : Stamp(r, e, one) /\ Adds(l, e, l \o Stamped(<<r>>, one))
    BY <1>11, OneStamped
  <2> QED
    BY <1>9, <2>1
<1>14. e.kind = "graph_revision" /\ e.at = at
  BY <1>3, <1>8, <1>13 DEF Stamp
<1>15. /\ Prefix(l, k) /\ Len(l) \in Nat /\ Len(k) = Len(l) + 1 /\ k[Len(k)] = e /\ IsSequence(k)
  BY <1>11, <1>13, OneMore
<1>16. \A i \in 1..Len(k) : i \in 1..Len(l) \/ i = Len(k)
  BY <1>15
<1>17. TurnsAreTaken(k)
  <2>1. ~IsTurn(k[Len(k)])
    BY <1>14, <1>15 DEF IsTurn, TurnKinds, AttemptKinds
  <2>2. InTurn(k, Len(k))
    BY <2>1 DEF InTurn
  <2>3. ASSUME NEW i \in 1..Len(l) PROVE InTurn(k, i)
    <3>1. InTurn(l, i)
      BY <1>11 DEF TurnsAreTaken
    <3> QED
      BY <1>15, <3>1, TurnsStay
  <2> QED
    BY <1>15, <1>16, <2>2, <2>3 DEF TurnsAreTaken
<1>18. \A i \in 1..Len(k) : k[i].at \in Nat
  <2>1. \A i \in 1..Len(l) : k[i] = l[i]
    BY <1>15 DEF Prefix
  <2> QED
    BY <1>11, <1>12, <1>14, <1>15, <1>16, <2>1
<1>19. MayStop(k, stop)
  <2>1. ASSUME NEW a, NEW kind \in TurnKinds PROVE Fold(k, a, kind) = Fold(l, a, kind)
    <3>1. \A i \in (Len(l) + 1)..Len(k) : i = Len(k)
      BY <1>15
    <3>2. NoneNewOf(l, k, {kind}, a)
      BY <1>14, <1>15, <2>1, <3>1 DEF NoneNewOf, TurnKinds, AttemptKinds
    <3> QED
      BY <1>15, <3>2, FoldStays
  <2>2. \A a : /\ Fold(k, a, "attempt_superseded") = Fold(l, a, "attempt_superseded")
               /\ Fold(k, a, "task_cancelled") = Fold(l, a, "task_cancelled")
    BY <2>1 DEF TurnKinds, AttemptKinds
  <2> QED
    BY <1>5, <1>8, <2>2 DEF MayStop, Stoppable
<1>20. TurnsFit(k, records, stop)
  BY <1>6, <1>15, <1>19, SupersedeTurns
<1>21. TurnsAreTaken(m)
  BY <1>10, <1>12, <1>17, <1>20, TurnsRecorded
<1>22. \A i \in 1..Len(m) : m[i].at \in Nat
  BY <1>10, <1>12, <1>15, <1>18, <1>20, TimesGoOn DEF TurnsFit
<1> QED
  BY <1>7, <1>8, <1>12, <1>21, <1>22 DEF TimesInv

\* One event of the current Attempt.
LEMMA CurrentTurn ==
  ASSUME NEW kind, NEW r, NEW a, MayCome(log, Len(log) + 1, kind, a),
         \A e, stamp : IsStamp(stamp) /\ Stamp(r, e, stamp) => e.kind = kind /\ e.attempt = a
  PROVE  TurnsFit(log, <<r>>, {a})
<1>1. PICK l : l = log
  OBVIOUS
<1>2. \A e, stamp : IsStamp(stamp) /\ Stamp(r, e, stamp) /\ IsTurn(e) =>
           e.attempt \in {a} /\ MayCome(l, Len(l) + 1, e.kind, e.attempt)
  BY <1>1
<1>3. TurnsFit(l, <<r>>, {a})
  BY <1>2, OneTurn, Zenon
<1> QED
  BY <1>1, <1>3

\* A record that is about no Attempt, or begins one.
LEMMA NoTurnOfThis ==
  ASSUME NEW r, \A e, stamp : IsStamp(stamp) /\ Stamp(r, e, stamp) => ~IsTurn(e)
  PROVE  TurnsFit(log, <<r>>, {})
<1>1. PICK l : l = log
  OBVIOUS
<1>2. TurnsFit(l, <<r>>, {})
  BY OneTurn
<1> QED
  BY <1>1, <1>2

LEMMA CancelTurns ==
  ASSUME LogInv, TimesInv, NEW t \in DOMAIN derived.graph, NEW w, NEW c, Cancel(t, w, c)
  PROVE  TimesInv'
<1>1. PICK A, own, r, stop :
        /\ A = Derived!Accepted
        /\ own = IF Derived!In(t, {"in_progress", "blocked"}, A) THEN {Current(t)} ELSE {}
        /\ r = [kind |-> "task_cancelled", task |-> t, lineage |-> LineageOf(t),
                attempt |-> IF own = {} THEN << >> ELSE Current(t)]
        /\ stop = {<<u, Derived!Last(Derived!Active(u))>> :
                     u \in {v \in Derived!ReverseClosure({t}, derived.graph) :
                              Derived!Active(v) # {}}} \ own
  OBVIOUS
<1>2. Transition("cancel", t, <<r>> \o Supersede(stop), << >>, c)
  BY <1>1 DEF Cancel
<1>3. MayStop(log, stop)
  <2>1. PICK T : T = Derived!ReverseClosure({t}, derived.graph)
    OBVIOUS
  <2>2. T \in SUBSET Tasks
    BY <2>1, ClosureIsOfTasks
  <2>3. ASSUME NEW a \in stop PROVE a \in Derived!StandingIds(T, A)
    <3>1. PICK u \in T : Derived!Active(u) # {} /\ a = <<u, Derived!Last(Derived!Active(u))>>
      BY <1>1, <2>1
    <3>2. PICK n : n = Derived!Last(Derived!Active(u))
      OBVIOUS
    <3>3. n \in 1..MaxAttempts
      BY <2>2, <3>1, <3>2, LastActive
    <3>4. n \in Derived!Standing(u, A)
      BY <3>1, <3>2 DEF Derived!Standing
    <3> QED
      BY <3>1, <3>2, <3>3, <3>4 DEF Derived!StandingIds
  <2>4. stop \in SUBSET Derived!StandingIds(T, A)
    BY <2>3
  <2> QED
    BY <2>2, <2>4, StandingMayStop
<1>4. TurnsFit(log, <<r>>, own)
  <2>1. CASE Derived!In(t, {"in_progress", "blocked"}, A)
    <3>1. PICK a : a = Current(t)
      OBVIOUS
    <3>2. own = {a} /\ \A e, stamp : IsStamp(stamp) /\ Stamp(r, e, stamp) =>
                         e.kind = "task_cancelled" /\ e.attempt = a
      BY <1>1, <2>1, <3>1 DEF IsStamp, Stamp
    <3>3. MayCome(log, Len(log) + 1, "task_cancelled", a)
      BY <1>1, <2>1, <3>1, CurrentMayCome DEF Current
    <3> QED
      BY <3>2, <3>3, CurrentTurn
  <2>2. CASE ~Derived!In(t, {"in_progress", "blocked"}, A)
    <3>1. own = {} /\ \A e, stamp : IsStamp(stamp) /\ Stamp(r, e, stamp) => e.attempt = << >>
      BY <1>1, <2>2 DEF IsStamp, Stamp
    <3> QED
      BY <3>1, NoTurnOfThis DEF IsTurn
  <2> QED
    BY <2>1, <2>2
<1>5. TurnsFit(log, Supersede(stop), stop)
  <2>1. IsSequence(log)
    BY DEF LogInv, LogFits
  <2> QED
    BY <1>3, <2>1, SupersedeTurns
<1>6. own \cap stop = {}
  BY <1>1
<1>7. PICK records : records = <<r>> \o Supersede(stop)
  OBVIOUS
<1>8. TurnsFit(log, records, own \cup stop)
  BY <1>4, <1>5, <1>6, <1>7, TurnsJoined
<1> QED
  BY <1>2, <1>7, <1>8, TransitionTurns


LEMMA StartTurns == Init => TimesInv
<1> SUFFICES ASSUME Init PROVE TimesInv
  OBVIOUS
<1>1. PICK l : l = log
  OBVIOUS
<1>2. l = << >> /\ clock \in Nat
  BY <1>1 DEF Init
<1>3. IsSequence(l) /\ Len(l) = 0 /\ 1..0 = {}
  BY <1>2, NoRecord
<1>4. TurnsAreTaken(l) /\ \A i \in 1..Len(l) : l[i].at \in Nat
  BY <1>3 DEF TurnsAreTaken
<1> QED
  BY <1>1, <1>2, <1>4 DEF TimesInv

\* Each command records what is next for the Attempts that it moves or stops.
LEMMA StepTurns ==
  ASSUME LogInv, TimesInv, Next
  PROVE  TimesInv'
<1>1. ASSUME NEW g \in Graphs, ApplyGraph(g) PROVE TimesInv'
  BY <1>1, ApplyGraphTurns
<1>2. ASSUME NEW t \in DOMAIN derived.graph, NEW c, RecordContext(t, c) PROVE TimesInv'
  <2>1. Transition("context_updated", t, << >>, << >>, c)
    BY <1>2 DEF RecordContext
  <2> QED
    BY <2>1, NoTurn, TransitionTurns
<1>3. ASSUME NEW t \in DOMAIN derived.graph, NEW c, NEW w, Cancel(t, w, c) PROVE TimesInv'
  BY <1>3, CancelTurns
<1>4. ASSUME NEW t \in DOMAIN derived.graph, NEW c, NEW w, Claim(t, w, c) PROVE TimesInv'
  <2>1. PICK a, x, y, z, d : /\ a = <<t, NextOrdinal(t)>> /\ x = CurrentRevision(log)
                             /\ y = Derived!Demand(t) /\ z = Derived!Inputs(t, Derived!Accepted)
                             /\ d = LineageOf(t)
    OBVIOUS
  <2>2. PICK r : r = [kind |-> "attempt_started", attempt |-> a, revision |-> x, lineage |-> d,
                      demand |-> y, inputs |-> z, worker |-> w]
    OBVIOUS
  <2>3. Transition("claim", t, <<r>>, << >>, c)
    BY <1>4, <2>1, <2>2 DEF Claim
  <2>4. \A e, stamp : IsStamp(stamp) /\ Stamp(r, e, stamp) => e.kind = "attempt_started"
    BY <2>2 DEF IsStamp, Stamp
  <2>5. \A e, stamp : IsStamp(stamp) /\ Stamp(r, e, stamp) => ~IsTurn(e)
    BY <2>4 DEF IsTurn, TurnKinds, AttemptKinds
  <2>6. PICK records : records = <<r>>
    OBVIOUS
  <2>7. TurnsFit(log, records, {})
    BY <2>5, <2>6, NoTurnOfThis
  <2> QED
    BY <2>3, <2>6, <2>7, TransitionTurns
<1>5. ASSUME NEW t \in DOMAIN derived.graph, NEW w, NEW phase \in {"in_progress", "blocked"},
             Moves(t, w, phase)
      PROVE  /\ MayCome(log, Len(log) + 1, "task_cancelled", Current(t))
             /\ phase = "in_progress" => /\ MayCome(log, Len(log) + 1, "attempt_blocked", Current(t))
                                         /\ MayCome(log, Len(log) + 1, "attempt_completed", Current(t))
             /\ phase = "blocked" => MayCome(log, Len(log) + 1, "attempt_resumed", Current(t))
  <2>1. PICK A, phases : A = Derived!Accepted /\ phases = {phase}
    OBVIOUS
  <2>2. Derived!In(t, phases, A) /\ phases \subseteq {"in_progress", "blocked"}
    BY <1>5, <2>1 DEF Moves
  <2>3. PICK a : a = <<t, Derived!Last(Derived!Activation(t, A))>>
    OBVIOUS
  <2>4. /\ MayCome(log, Len(log) + 1, "task_cancelled", a)
        /\ "blocked" \notin phases => /\ MayCome(log, Len(log) + 1, "attempt_blocked", a)
                                      /\ MayCome(log, Len(log) + 1, "attempt_completed", a)
        /\ "in_progress" \notin phases => MayCome(log, Len(log) + 1, "attempt_resumed", a)
    BY <2>2, <2>3, CurrentMayCome
  <2>5. Current(t) = a
    BY <2>1, <2>3 DEF Current
  <2> QED
    BY <2>1, <2>4, <2>5
<1>6. ASSUME NEW t \in DOMAIN derived.graph, NEW c, NEW w, Block(t, w, c) PROVE TimesInv'
  <2>1. PICK r, a : a = Current(t) /\ r = [kind |-> "attempt_blocked", attempt |-> a]
    OBVIOUS
  <2>2. Transition("block", t, <<r>>, << >>, c)
    BY <1>6, <2>1 DEF Block
  <2>3. \A e, stamp : IsStamp(stamp) /\ Stamp(r, e, stamp) =>
          e.kind = "attempt_blocked" /\ e.attempt = a
    BY <2>1 DEF IsStamp, Stamp
  <2>4. MayCome(log, Len(log) + 1, "attempt_blocked", a)
    BY <1>5, <1>6, <2>1 DEF Block
  <2>5. TurnsFit(log, <<r>>, {a})
    BY <2>3, <2>4, CurrentTurn
  <2> QED
    BY <2>2, <2>5, TransitionTurns
<1>7. ASSUME NEW t \in DOMAIN derived.graph, NEW c, NEW w, Resume(t, w, c) PROVE TimesInv'
  <2>1. PICK r, a : a = Current(t) /\ r = [kind |-> "attempt_resumed", attempt |-> a]
    OBVIOUS
  <2>2. Transition("resume", t, <<r>>, << >>, c)
    BY <1>7, <2>1 DEF Resume
  <2>3. \A e, stamp : IsStamp(stamp) /\ Stamp(r, e, stamp) =>
          e.kind = "attempt_resumed" /\ e.attempt = a
    BY <2>1 DEF IsStamp, Stamp
  <2>4. MayCome(log, Len(log) + 1, "attempt_resumed", a)
    BY <1>5, <1>7, <2>1 DEF Resume
  <2>5. TurnsFit(log, <<r>>, {a})
    BY <2>3, <2>4, CurrentTurn
  <2> QED
    BY <2>2, <2>5, TransitionTurns
<1>8. ASSUME NEW t \in DOMAIN derived.graph, NEW w, Moves(t, w, "in_progress"), NEW outcome
      PROVE  TurnsFit(log, Completed(t, outcome), {Current(t)})
  <2>1. PICK r, a : /\ a = Current(t)
                    /\ r = [kind |-> "attempt_completed", attempt |-> a, outcome |-> outcome]
    OBVIOUS
  <2>2. Completed(t, outcome) = <<r>>
    BY <2>1 DEF Completed
  <2>3. \A e, stamp : IsStamp(stamp) /\ Stamp(r, e, stamp) =>
          e.kind = "attempt_completed" /\ e.attempt = a
    BY <2>1 DEF IsStamp, Stamp
  <2>4. MayCome(log, Len(log) + 1, "attempt_completed", a)
    BY <1>5, <1>8, <2>1
  <2>5. TurnsFit(log, <<r>>, {a})
    BY <2>3, <2>4, CurrentTurn
  <2> QED
    BY <2>1, <2>2, <2>5
<1>9. ASSUME NEW t \in DOMAIN derived.graph, NEW c, NEW w, Achieve(t, w, c) PROVE TimesInv'
  <2>1. /\ Moves(t, w, "in_progress")
        /\ Transition("goal_achieved", t, Completed(t, "goal_achieved"), << >>, c)
    BY <1>9 DEF Achieve
  <2>2. TurnsFit(log, Completed(t, "goal_achieved"), {Current(t)})
    BY <1>8, <2>1
  <2> QED
    BY <2>1, <2>2, TransitionTurns
<1>10. ASSUME NEW t \in DOMAIN derived.graph, NEW c, NEW w, FailWithoutRepair(t, w, c)
       PROVE  TimesInv'
  <2>1. PICK o, q : /\ o = "goal_failed"
                    /\ q = [kind |-> "failure_edge_exhausted", source |-> Current(t),
                            lineage |-> LineageOf(t), target |-> derived.graph[t].target,
                            traversals |-> TraversalsBefore(log, Len(log) + 1, t, LineageOf(t))]
    OBVIOUS
  <2>2. /\ Moves(t, w, "in_progress")
        /\ \/ Transition(o, t, Completed(t, o), << >>, c)
           \/ Transition(o, t, Completed(t, o) \o <<q>>, << >>, c)
    BY <1>10, <2>1 DEF FailWithoutRepair
  <2>3. TurnsFit(log, Completed(t, o), {Current(t)})
    BY <1>8, <2>2
  <2>4. CASE Transition(o, t, Completed(t, o), << >>, c)
    BY <2>3, <2>4, TransitionTurns
  <2>5. CASE Transition(o, t, Completed(t, o) \o <<q>>, << >>, c)
    <3>1. \A e, stamp : IsStamp(stamp) /\ Stamp(q, e, stamp) => e.kind = "failure_edge_exhausted"
      BY <2>1 DEF IsStamp, Stamp
    <3>2. \A e, stamp : IsStamp(stamp) /\ Stamp(q, e, stamp) => ~IsTurn(e)
      BY <3>1 DEF IsTurn, TurnKinds, AttemptKinds
    <3>3. TurnsFit(log, <<q>>, {})
      BY <3>2, NoTurnOfThis
    <3>4. PICK records : records = Completed(t, o) \o <<q>>
      OBVIOUS
    <3>5. TurnsFit(log, records, {Current(t)} \cup {})
      BY <2>3, <3>3, <3>4, TurnsJoined
    <3> QED
      BY <2>5, <3>4, <3>5, TransitionTurns
  <2> QED
    BY <2>2, <2>4, <2>5
<1>11. ASSUME NEW t \in DOMAIN derived.graph, NEW c, NEW w, FailWithRepair(t, w, c)
       PROVE  TimesInv'
  <2>1. PICK A, edge, prior : /\ A = Derived!Accepted /\ edge = derived.graph[t].target
                              /\ prior = TraversalsBefore(log, Len(log) + 1, t, LineageOf(t))
    OBVIOUS
  <2>2. PICK T, stop, own : /\ T = Derived!ReverseClosure({edge}, derived.graph) /\ own = {Current(t)}
                            /\ stop = Derived!StandingIds(T, A) \ own
    OBVIOUS
  <2>3. PICK q : q = [kind |-> "failure_edge_traversed", source |-> Current(t),
                      lineage |-> LineageOf(t), target |-> edge,
                      targetLineage |-> LineageOf(edge), traversal |-> prior + 1]
    OBVIOUS
  <2>4. PICK o, traversal : o = "goal_failed" /\ traversal = <<t, edge, prior + 1>>
    OBVIOUS
  <2>5. /\ Moves(t, w, "in_progress")
        /\ Transition(o, t, (Completed(t, o) \o <<q>>) \o Supersede(stop), traversal, c)
    BY <1>11, <2>1, <2>2, <2>3, <2>4 DEF FailWithRepair
  <2>6. TurnsFit(log, Supersede(stop), stop)
    <3>1. T \in SUBSET Tasks /\ stop \in SUBSET Derived!StandingIds(T, A)
      BY <2>2, ClosureIsOfTasks
    <3>2. MayStop(log, stop)
      BY <3>1, StandingMayStop
    <3>3. IsSequence(log)
      BY DEF LogInv, LogFits
    <3> QED
      BY <3>2, <3>3, SupersedeTurns
  <2>7. TurnsFit(log, Completed(t, o), own)
    BY <1>8, <2>2, <2>5
  <2>8. TurnsFit(log, <<q>>, {})
    <3>1. \A e, stamp : IsStamp(stamp) /\ Stamp(q, e, stamp) => e.kind = "failure_edge_traversed"
      BY <2>3 DEF IsStamp, Stamp
    <3>2. \A e, stamp : IsStamp(stamp) /\ Stamp(q, e, stamp) => ~IsTurn(e)
      BY <3>1 DEF IsTurn, TurnKinds, AttemptKinds
    <3> QED
      BY <3>2, NoTurnOfThis
  <2>9. PICK two : two = Completed(t, o) \o <<q>>
    OBVIOUS
  <2>10. TurnsFit(log, two, own)
    <3>1. TurnsFit(log, two, own \cup {})
      BY <2>7, <2>8, <2>9, TurnsJoined
    <3>2. own \cup {} = own
      OBVIOUS
    <3> QED
      BY <3>1, <3>2
  <2>11. PICK records : records = two \o Supersede(stop)
    OBVIOUS
  <2>12. TurnsFit(log, records, own \cup stop)
    <3>1. own \cap stop = {}
      BY <2>2
    <3> QED
      BY <2>6, <2>10, <2>11, <3>1, TurnsJoined
  <2>13. Transition(o, t, records, traversal, c)
    BY <2>5, <2>9, <2>11
  <2> QED
    BY <2>12, <2>13, TransitionTurns
<1>12. \/ \E g \in Graphs : ApplyGraph(g)
       \/ \E t \in DOMAIN derived.graph, c \in Contexts \cup {NoContext} :
            \/ RecordContext(t, c)
            \/ \E w : Cancel(t, w, c)
            \/ \E w \in Workers :
                 \/ Claim(t, w, c) \/ Block(t, w, c) \/ Resume(t, w, c) \/ Achieve(t, w, c)
                 \/ FailWithoutRepair(t, w, c) \/ FailWithRepair(t, w, c)
  BY Zenon DEF Next
<1> QED
  BY <1>1, <1>2, <1>3, <1>4, <1>6, <1>7, <1>9, <1>10, <1>11, <1>12


-----------------------------------------------------------------------------
(* The times of an Attempt                                                 *)

LEMMA NextBefore ==
  ASSUME NEW l, IsSequence(l), NEW i \in 1..Len(l), NEW kind, NEW a
  PROVE  LastBefore(l, i + 1, kind, a) =
           IF l[i].kind = kind /\ l[i].attempt = a THEN i ELSE LastBefore(l, i, kind, a)
<1>1. Len(l) \in Nat /\ i \in Nat /\ i + 1 \in Nat /\ i # 0 /\ i < i + 1
  BY SequenceIs
<1>2. CASE l[i].kind = kind /\ l[i].attempt = a
  <2>1. PICK x : x = LastBefore(l, i + 1, kind, a)
    OBVIOUS
  <2>2. /\ x \in Nat /\ (x # 0 => x < i + 1)
        /\ \A j \in 1..Len(l) : j < i + 1 /\ l[j].kind = kind /\ l[j].attempt = a => j <= x /\ x # 0
    BY <1>1, <2>1, LastBeforeIs
  <2>3. i <= x /\ x # 0
    BY <1>1, <1>2, <2>2
  <2>4. x = i
    BY <1>1, <2>2, <2>3
  <2> QED
    BY <1>2, <2>1, <2>4
<1>3. CASE ~(l[i].kind = kind /\ l[i].attempt = a)
  <2>1. \A j : j \in Of(l, {kind}) <=> j \in 1..Len(l) /\ l[j].kind = kind
    BY OfIs
  <2>2. \A j \in 1..Len(l) : j < i + 1 <=> j < i \/ j = i
    BY <1>1
  <2>3. Earlier(l, i + 1, kind, a) = Earlier(l, i, kind, a)
    BY <1>3, <2>1, <2>2 DEF Earlier
  <2> QED
    BY <1>3, <2>3 DEF LastBefore
<1> QED
  BY <1>2, <1>3

LEMMA NextIs ==
  ASSUME NEW l, IsSequence(l), NEW i \in 1..Len(l)
  PROVE  \A k, b : LastBefore(l, i + 1, k, b) =
                     IF l[i].kind = k /\ l[i].attempt = b THEN i ELSE LastBefore(l, i, k, b)
  BY NextBefore

\* An Attempt starts once: its number counts the starts before it.
LEMMA OneStart ==
  ASSUME NEW l, LogFits(l), NEW i \in 1..Len(l), l[i].kind = "attempt_started"
  PROVE  Earlier(l, i, "attempt_started", l[i].attempt) = {}
<1>1. IsSequence(l) /\ i \in Nat
  BY DEF LogFits
<1> DEFINE Before(k) == {j \in Of(l, {"attempt_started"}) :
                           j < k /\ l[j].attempt[1] = l[k].attempt[1]}
<1>2. \A k \in Of(l, {"attempt_started"}) :
        k \in 1..Len(l) /\ l[k].kind = "attempt_started"
        /\ l[k].attempt[2] = Cardinality(Before(k)) + 1
  <2>1. \A k \in Of(l, {"attempt_started"}) : k \in 1..Len(l) /\ l[k].kind = "attempt_started"
    BY <1>1, OfIs
  <2>2. \A k \in 1..Len(l) : l[k].kind = "attempt_started" => StartIsValid(l, k)
    BY DEF LogFits, RecordIsValid, EventFits
  <2> QED
    BY <2>1, <2>2 DEF StartIsValid
<1>3. \A k : IsFiniteSet(Before(k)) /\ Cardinality(Before(k)) \in Nat
  <2>1. \A k : Before(k) \in SUBSET Of(l, {"attempt_started"})
    OBVIOUS
  <2> HIDE DEF Before
  <2> QED
    BY <1>1, <2>1, PlacesAre, FS_CardinalityType
<1>4. i \in Of(l, {"attempt_started"})
  BY <1>1, OfIs
<1>a. \A k, j : j \in Before(k) <=> /\ j \in Of(l, {"attempt_started"}) /\ j < k
                                     /\ l[j].attempt[1] = l[k].attempt[1]
  OBVIOUS
<1> HIDE DEF Before
<1> SUFFICES ASSUME NEW j \in Earlier(l, i, "attempt_started", l[i].attempt) PROVE FALSE
  OBVIOUS
<1>5. j \in Of(l, {"attempt_started"}) /\ j < i /\ l[j].attempt = l[i].attempt
  BY DEF Earlier
<1>b. \A k \in Of(l, {"attempt_started"}) : k \in Nat
  BY <1>1, OfIs
<1>6. j \in Nat /\ \A k \in Nat : k < j => k < i
  BY <1>1, <1>5, <1>b
<1>7. Before(j) \subseteq Before(i) /\ j \in Before(i) /\ j \notin Before(j)
  <2>1. ASSUME NEW k \in Before(j) PROVE k \in Before(i)
    <3>1. k \in Of(l, {"attempt_started"}) /\ k < j /\ l[k].attempt[1] = l[j].attempt[1]
      BY <1>a
    <3>2. k < i
      BY <1>6, <1>b, <3>1
    <3>3. l[k].attempt[1] = l[i].attempt[1]
      BY <1>5, <3>1
    <3> QED
      BY <1>a, <3>1, <3>2, <3>3
  <2>2. j \in Before(i)
    BY <1>5, <1>a
  <2>3. ~(j < j)
    BY <1>6
  <2>4. j \notin Before(j)
    BY <1>a, <2>3
  <2> QED
    BY <2>1, <2>2, <2>4
<1>8. Before(j) \cup {j} \subseteq Before(i)
  BY <1>7
<1>9. Cardinality(Before(j) \cup {j}) = Cardinality(Before(j)) + 1
  BY <1>3, <1>7, FS_AddElement
<1>10. Cardinality(Before(j) \cup {j}) <= Cardinality(Before(i))
  BY <1>3, <1>8, FS_Subset
<1> QED
  BY <1>2, <1>3, <1>4, <1>5, <1>9, <1>10

\* What happens to an Attempt happens after its start.
LEMMA TurnIsStarted ==
  ASSUME NEW l, LogFits(l), NEW i \in 1..Len(l), IsTurn(l[i])
  PROVE  Earlier(l, i, "attempt_started", l[i].attempt) # {}
<1>1. RecordIsTyped(l, i) /\ RecordIsValid(l, i)
  BY DEF LogFits
<1>2. l[i].kind \in AttemptKinds => AttemptEventIsValid(l, i)
  BY <1>1 DEF RecordIsValid, EventFits, AttemptKinds
<1> QED
  BY <1>1, <1>2 DEF RecordIsTyped, AttemptEventIsValid, IsTurn, TurnKinds


\* How an Attempt stands before a place.
EndedBefore(l, i, a) ==
  IF LastBefore(l, i, "attempt_completed", a) # 0 THEN "attempt_completed"
  ELSE IF LastBefore(l, i, "attempt_superseded", a) # 0 THEN "attempt_superseded"
  ELSE IF LastBefore(l, i, "task_cancelled", a) # 0 THEN "task_cancelled"
  ELSE "no"

IsBlockedBefore(l, i, a) ==
  LastBefore(l, i, "attempt_blocked", a) > LastBefore(l, i, "attempt_resumed", a)

\* The times of an Attempt up to a place, when they are known.
TimesTell(l, i, a, x) ==
  /\ TimesFit(x) /\ x.known /\ x.since \in Nat
  /\ x.since # 0 => \E j \in 1..Len(l) : j < i /\ l[j].at = x.since
  /\ x.since # 0 <=> LastBefore(l, i, "attempt_started", a) # 0
  /\ x.ended = EndedBefore(l, i, a)
  /\ x.ended = "no" => x.state = IF IsBlockedBefore(l, i, a) THEN "blocked" ELSE "in_progress"

\* No time is missing, or before an earlier one, up to the end of an Attempt.
TimesGrow(l, a) ==
  \A i \in EventsOfAttempt(l, a) : Earlier(l, i, "attempt_completed", a) = {} =>
    l[i].at # 0 /\ \A j \in 1..i : ~(l[j].at > l[i].at)

EventKinds == TurnKinds \cup {"attempt_started"}

LEMMA EventsAre ==
  ASSUME NEW l, IsSequence(l), NEW i \in 1..Len(l), NEW a
  PROVE  i \in EventsOfAttempt(l, a) <=> l[i].kind \in EventKinds /\ l[i].attempt = a
<1>1. i \in Of(l, EventKinds) <=> l[i].kind \in EventKinds
  BY OfIs
<1>2. EventsOfAttempt(l, a) = {j \in Of(l, EventKinds) : l[j].attempt = a}
  <2>1. Endings \cup {"attempt_started", "attempt_blocked", "attempt_resumed"} = EventKinds
    BY DEF Endings, EventKinds, TurnKinds, AttemptKinds
  <2> QED
    BY <2>1 DEF EventsOfAttempt
<1> QED
  BY <1>1, <1>2

LEMMA TimesUntouched ==
  ASSUME NEW l, IsSequence(l), NEW i \in 1..Len(l), NEW a, i \notin EventsOfAttempt(l, a),
         NEW x, TimesTell(l, i, a, x)
  PROVE  TimesTell(l, i + 1, a, x)
<1>1. \A kind \in EventKinds : LastBefore(l, i + 1, kind, a) = LastBefore(l, i, kind, a)
  BY NextBefore, EventsAre
<1>2. /\ EndedBefore(l, i + 1, a) = EndedBefore(l, i, a)
      /\ IsBlockedBefore(l, i + 1, a) <=> IsBlockedBefore(l, i, a)
      /\ LastBefore(l, i + 1, "attempt_started", a) = LastBefore(l, i, "attempt_started", a)
  BY <1>1 DEF EndedBefore, IsBlockedBefore, EventKinds, TurnKinds, AttemptKinds
<1>3. \A j \in 1..Len(l) : j < i => j < i + 1
  BY SequenceIs
<1> QED
  BY <1>2, <1>3 DEF TimesTell

\* The time of an event up to the end of its Attempt.
LEMMA TimeIsKnown ==
  ASSUME NEW l, IsSequence(l), NEW i \in 1..Len(l), NEW a, i \in EventsOfAttempt(l, a),
         TimesGrow(l, a), \A j \in 1..Len(l) : l[j].at \in Nat,
         LastBefore(l, i, "attempt_completed", a) = 0
  PROVE  /\ KnownAt(l, i) = l[i].at /\ l[i].at \in Nat /\ l[i].at # 0
         /\ \A j \in 1..Len(l) : j < i => l[i].at >= l[j].at
<1>1. Len(l) \in Nat /\ i \in Nat
  BY SequenceIs
<1>2. Earlier(l, i, "attempt_completed", a) = {}
  BY <1>1, LastBeforeIs
<1>3. l[i].at # 0 /\ \A j \in 1..i : ~(l[j].at > l[i].at)
  BY <1>2 DEF TimesGrow
<1>4. \A j \in 1..(i - 1) : j \in 1..i
  BY <1>1
<1>5. KnownAt(l, i) = l[i].at
  BY <1>3, <1>4 DEF KnownAt
<1>6. \A j \in 1..Len(l) : j < i => j \in 1..i
  BY <1>1
<1> QED
  BY <1>3, <1>5, <1>6


\* The start of an Attempt.
LEMMA TimesStart ==
  ASSUME NEW l, LogFits(l), NEW i \in 1..Len(l), l[i].kind = "attempt_started",
         NEW a, l[i].attempt = a, TimesGrow(l, a), \A j \in 1..Len(l) : l[j].at \in Nat,
         NEW x, TimesTell(l, i, a, x)
  PROVE  TimesTell(l, i + 1, a, Follow(l, x, i))
<1>1. IsSequence(l) /\ i \in Nat /\ i # 0 /\ i < i + 1
  BY DEF LogFits
<1>2. LastBefore(l, i, "attempt_started", a) = 0
  BY <1>1, OneStart, LastBeforeIs
<1>3. /\ x.since = 0 /\ x.state = "in_progress" /\ x.ended = "no" /\ TimesFit(x)
      /\ EndedBefore(l, i, a) = "no" /\ ~IsBlockedBefore(l, i, a) /\ x.known
  BY <1>2 DEF TimesTell, TimesFit
<1>4. LastBefore(l, i, "attempt_completed", a) = 0
  BY <1>3 DEF EndedBefore
<1>5. i \in EventsOfAttempt(l, a)
  BY <1>1, EventsAre DEF EventKinds
<1>6. PICK at : at = l[i].at
  OBVIOUS
<1>7. KnownAt(l, i) = at /\ at \in Nat /\ at # 0
  BY <1>1, <1>4, <1>5, <1>6, TimeIsKnown
<1>8. PICK kind : kind = l[i].kind
  OBVIOUS
<1>9. Follows(x, kind, at)
  <2>1. at >= x.since /\ (kind = "attempt_started" <=> x.since = 0)
    BY <1>3, <1>7, <1>8
  <2> QED
    BY <1>3, <1>7, <1>8, <2>1 DEF Follows
<1>10. Follow(l, x, i) = Moved(x, kind, at)
  BY <1>3, <1>7, <1>8, <1>9 DEF Follow
<1>11. PICK y : y = Follow(l, x, i)
  OBVIOUS
<1>12. y = [x EXCEPT !.since = at]
  BY <1>8, <1>10, <1>11 DEF Moved
<1>13. y.known /\ y.since = at /\ y.ended = "no" /\ y.state = "in_progress"
  BY <1>3, <1>12 DEF TimesFit
<1>14. TimesFit(y)
  BY <1>3, <1>11, TimesFollow
<1>15. \A k \in TurnKinds : LastBefore(l, i + 1, k, a) = LastBefore(l, i, k, a)
  <2>1. \A k \in TurnKinds : l[i].kind # k
    BY DEF TurnKinds, AttemptKinds
  <2> QED
    BY <1>1, <2>1, NextBefore
<1>16. /\ EndedBefore(l, i + 1, a) = EndedBefore(l, i, a)
       /\ IsBlockedBefore(l, i + 1, a) <=> IsBlockedBefore(l, i, a)
  BY <1>15 DEF EndedBefore, IsBlockedBefore, TurnKinds, AttemptKinds
<1>17. LastBefore(l, i + 1, "attempt_started", a) = i
  <2>1. \A k, b : LastBefore(l, i + 1, k, b) =
                    IF l[i].kind = k /\ l[i].attempt = b THEN i ELSE LastBefore(l, i, k, b)
    BY <1>1, NextIs, Zenon
  <2> QED
    BY <2>1
<1>18. TimesTell(l, i + 1, a, y)
  BY <1>1, <1>3, <1>6, <1>7, <1>13, <1>14, <1>16, <1>17 DEF TimesTell
<1> QED
  BY <1>11, <1>18


\* Where one more state goes on record.
LEMMA StateCloses ==
  ASSUME NEW x, TimesFit(x), NEW state, NEW at, NEW y, y = Close(x, state, at)
  PROVE  /\ y.known = x.known /\ y.since = at /\ y.ended = x.ended /\ y.state = state
         /\ \A over, z : z = [y EXCEPT !.ended = over] =>
              z.known = x.known /\ z.since = at /\ z.ended = over /\ z.state = state
<1>1. PICK known, st, since, ended, segments :
        /\ known = x.known /\ st = x.state /\ since = x.since /\ ended = x.ended
        /\ segments = x.segments
  OBVIOUS
<1>2. x = [known |-> known, state |-> st, since |-> since, ended |-> ended, segments |-> segments]
  BY <1>1 DEF TimesFit
<1>3. PICK s : s = Append(segments, [state |-> st, from |-> since, to |-> at])
  OBVIOUS
<1>4. y = [known |-> known, state |-> state, since |-> at, ended |-> ended, segments |-> s]
  BY <1>2, <1>3 DEF Close
<1> QED
  BY <1>1, <1>4

\* What is on record when an event has moved an Attempt.
MovesTo(x, kind, at, y) ==
  /\ y.known = x.known /\ y.since = at
  /\ y.ended = IF kind \in Endings THEN kind ELSE x.ended
  /\ y.state = IF kind = "attempt_blocked" THEN "blocked"
               ELSE IF kind = "attempt_resumed" THEN "in_progress" ELSE x.state

LEMMA MovedIs ==
  ASSUME NEW x, TimesFit(x), NEW kind \in TurnKinds, NEW at
  PROVE  MovesTo(x, kind, at, Moved(x, kind, at))
<1>1. PICK y : y = Moved(x, kind, at)
  OBVIOUS
<1>2. CASE kind = "attempt_blocked"
  <2>1. y = Close(x, "blocked", at)
    BY <1>1, <1>2 DEF Moved
  <2>2. y.known = x.known /\ y.since = at /\ y.ended = x.ended /\ y.state = "blocked"
    BY <2>1, StateCloses
  <2> QED
    BY <1>1, <1>2, <2>2 DEF Endings, MovesTo
<1>3. CASE kind = "attempt_resumed"
  <2>1. y = Close(x, "in_progress", at)
    BY <1>1, <1>3 DEF Moved
  <2>2. y.known = x.known /\ y.since = at /\ y.ended = x.ended /\ y.state = "in_progress"
    BY <2>1, StateCloses
  <2> QED
    BY <1>1, <1>3, <2>2 DEF Endings, MovesTo
<1>4. CASE kind \in Endings
  <2>1. PICK z : z = Close(x, x.state, at)
    OBVIOUS
  <2>2. y = [z EXCEPT !.ended = kind]
    BY <1>1, <1>4, <2>1 DEF Moved, Endings
  <2>3. \A over, w : w = [z EXCEPT !.ended = over] =>
          w.known = x.known /\ w.since = at /\ w.ended = over /\ w.state = x.state
    BY <2>1, StateCloses
  <2>4. y.known = x.known /\ y.since = at /\ y.ended = kind /\ y.state = x.state
    BY <2>2, <2>3
  <2> QED
    BY <1>1, <1>4, <2>4 DEF Endings, MovesTo
<1> QED
  BY <1>2, <1>3, <1>4 DEF TurnKinds, AttemptKinds, Endings


IsTurnOf(l, i, kind, a) ==
  kind \in TurnKinds /\ a # << >> /\ l[i].kind = kind /\ l[i].attempt = a

\* What a turn changes of how its Attempt stands.
LEMMA TurnTells ==
  ASSUME NEW l, IsSequence(l), NEW i \in 1..Len(l), NEW kind, NEW a, IsTurnOf(l, i, kind, a),
         MayCome(l, i, kind, a)
  PROVE  /\ LastBefore(l, i + 1, "attempt_started", a) = LastBefore(l, i, "attempt_started", a)
         /\ EndedBefore(l, i + 1, a) =
              IF EndedBefore(l, i, a) = "no" /\ kind \in Endings THEN kind
              ELSE EndedBefore(l, i, a)
         /\ EndedBefore(l, i, a) # "no" =>
              EndedBefore(l, i, a) = "attempt_completed" /\ kind = "attempt_superseded"
         /\ IsBlockedBefore(l, i + 1, a) <=>
              IF kind = "attempt_blocked" THEN TRUE
              ELSE IF kind = "attempt_resumed" THEN FALSE ELSE IsBlockedBefore(l, i, a)
<1>1. \A k : LastBefore(l, i + 1, k, a) = IF kind = k THEN i ELSE LastBefore(l, i, k, a)
  <2>1. \A k, b : LastBefore(l, i + 1, k, b) =
                    IF l[i].kind = k /\ l[i].attempt = b THEN i ELSE LastBefore(l, i, k, b)
    BY NextIs, Zenon
  <2> QED
    BY <2>1 DEF IsTurnOf
<1>2. kind \in TurnKinds /\ i \in Nat /\ i # 0
  BY DEF IsTurnOf
<1>3. /\ LastBefore(l, i, "attempt_superseded", a) = 0
      /\ LastBefore(l, i, "task_cancelled", a) = 0
      /\ kind # "attempt_superseded" => LastBefore(l, i, "attempt_completed", a) = 0
  BY DEF MayCome
<1>4. LastBefore(l, i + 1, "attempt_started", a) = LastBefore(l, i, "attempt_started", a)
  BY <1>1, <1>2 DEF TurnKinds, AttemptKinds
<1>5. EndedBefore(l, i, a) = IF LastBefore(l, i, "attempt_completed", a) # 0
                             THEN "attempt_completed" ELSE "no"
  BY <1>3 DEF EndedBefore
<1>6. EndedBefore(l, i + 1, a) = IF EndedBefore(l, i, a) = "no" /\ kind \in Endings THEN kind
                                 ELSE EndedBefore(l, i, a)
  BY <1>1, <1>2, <1>3, <1>5 DEF EndedBefore, Endings, TurnKinds, AttemptKinds
<1>7. EndedBefore(l, i, a) # "no" =>
        EndedBefore(l, i, a) = "attempt_completed" /\ kind = "attempt_superseded"
  BY <1>3, <1>5
<1>8. /\ LastBefore(l, i, "attempt_blocked", a) \in Nat /\ LastBefore(l, i, "attempt_resumed", a) \in Nat
      /\ LastBefore(l, i, "attempt_blocked", a) < i /\ LastBefore(l, i, "attempt_resumed", a) < i
  BY <1>2, LastBeforeIs
<1>9. IsBlockedBefore(l, i + 1, a) <=>
        IF kind = "attempt_blocked" THEN TRUE
        ELSE IF kind = "attempt_resumed" THEN FALSE ELSE IsBlockedBefore(l, i, a)
  <2>1. CASE kind = "attempt_blocked"
    <3>1. /\ LastBefore(l, i + 1, "attempt_blocked", a) = i
          /\ LastBefore(l, i + 1, "attempt_resumed", a) = LastBefore(l, i, "attempt_resumed", a)
      BY <1>1, <2>1
    <3> QED
      BY <1>2, <1>8, <2>1, <3>1 DEF IsBlockedBefore
  <2>2. CASE kind = "attempt_resumed"
    <3>1. /\ LastBefore(l, i + 1, "attempt_resumed", a) = i
          /\ LastBefore(l, i + 1, "attempt_blocked", a) = LastBefore(l, i, "attempt_blocked", a)
      BY <1>1, <2>2
    <3> QED
      BY <1>2, <1>8, <2>2, <3>1 DEF IsBlockedBefore
  <2>3. CASE kind \notin {"attempt_blocked", "attempt_resumed"}
    BY <1>1, <2>3 DEF IsBlockedBefore
  <2> QED
    BY <2>1, <2>2, <2>3
<1> QED
  BY <1>4, <1>6, <1>7, <1>9

\* What happens to an Attempt after its start.
LEMMA TimesTurn ==
  ASSUME NEW l, LogFits(l), TurnsAreTaken(l), NEW i \in 1..Len(l), NEW kind, NEW a,
         IsTurnOf(l, i, kind, a), TimesGrow(l, a), \A j \in 1..Len(l) : l[j].at \in Nat,
         NEW x, TimesTell(l, i, a, x)
  PROVE  TimesTell(l, i + 1, a, Follow(l, x, i))
<1>1. IsSequence(l) /\ i \in Nat /\ i # 0 /\ i < i + 1
  BY DEF LogFits
<1>2. kind \in TurnKinds /\ l[i].kind = kind /\ IsTurn(l[i]) /\ l[i].attempt = a
  BY DEF IsTurnOf, IsTurn
<1>3. MayCome(l, i, kind, a)
  BY <1>2 DEF TurnsAreTaken, InTurn
<1>4. LastBefore(l, i, "attempt_started", a) # 0
  <2>1. Earlier(l, i, "attempt_started", a) # {}
    BY <1>2, TurnIsStarted
  <2> QED
    BY <1>1, <2>1, LastBeforeIs
<1>5. /\ LastBefore(l, i + 1, "attempt_started", a) = LastBefore(l, i, "attempt_started", a)
      /\ EndedBefore(l, i + 1, a) =
           IF EndedBefore(l, i, a) = "no" /\ kind \in Endings THEN kind ELSE EndedBefore(l, i, a)
      /\ EndedBefore(l, i, a) # "no" =>
           EndedBefore(l, i, a) = "attempt_completed" /\ kind = "attempt_superseded"
      /\ IsBlockedBefore(l, i + 1, a) <=>
           IF kind = "attempt_blocked" THEN TRUE
           ELSE IF kind = "attempt_resumed" THEN FALSE ELSE IsBlockedBefore(l, i, a)
  BY <1>1, <1>3, TurnTells
<1>6. /\ x.since \in Nat /\ x.since # 0 /\ \E j \in 1..Len(l) : j < i /\ l[j].at = x.since
      /\ x.known /\ x.ended = EndedBefore(l, i, a) /\ TimesFit(x)
      /\ x.ended = "no" => x.state = IF IsBlockedBefore(l, i, a) THEN "blocked" ELSE "in_progress"
  BY <1>4 DEF TimesTell
<1>7. CASE x.ended # "no"
  <2>1. Follow(l, x, i) = x /\ EndedBefore(l, i + 1, a) = x.ended
    BY <1>2, <1>5, <1>6, <1>7 DEF Follow
  <2>2. \E j \in 1..Len(l) : j < i + 1 /\ l[j].at = x.since
    BY <1>1, <1>6
  <2>3. TimesTell(l, i + 1, a, x)
    BY <1>4, <1>5, <1>6, <1>7, <2>1, <2>2 DEF TimesTell
  <2> QED
    BY <2>1, <2>3
<1>8. CASE x.ended = "no"
  <2>1. LastBefore(l, i, "attempt_completed", a) = 0
    BY <1>6, <1>8 DEF EndedBefore
  <2>2. i \in EventsOfAttempt(l, a)
    BY <1>1, <1>2, EventsAre DEF EventKinds
  <2>3. PICK at : at = l[i].at
    OBVIOUS
  <2>4. KnownAt(l, i) = at /\ at \in Nat /\ at # 0 /\ \A j \in 1..Len(l) : j < i => at >= l[j].at
    BY <1>1, <2>1, <2>2, <2>3, TimeIsKnown
  <2>5. at >= x.since
    BY <1>6, <2>4
  <2>6. /\ kind \in {"attempt_blocked", "attempt_completed"} => ~IsBlockedBefore(l, i, a)
        /\ kind = "attempt_resumed" => IsBlockedBefore(l, i, a)
    BY <1>3 DEF MayCome, IsBlockedBefore
  <2>7. Follows(x, kind, at)
    <3>1. kind # "attempt_started"
      BY <1>2 DEF TurnKinds, AttemptKinds
    <3> QED
      BY <1>6, <1>8, <2>4, <2>5, <2>6, <3>1 DEF Follows
  <2>8. PICK y : y = Follow(l, x, i)
    OBVIOUS
  <2>9. y = Moved(x, kind, at)
    BY <1>2, <1>8, <2>4, <2>7, <2>8 DEF Follow
  <2>10. /\ y.known = x.known /\ y.since = at
         /\ y.ended = IF kind \in Endings THEN kind ELSE x.ended
         /\ y.state = IF kind = "attempt_blocked" THEN "blocked"
                      ELSE IF kind = "attempt_resumed" THEN "in_progress" ELSE x.state
    <3>1. MovesTo(x, kind, at, Moved(x, kind, at))
      BY <1>2, <1>6, MovedIs
    <3> QED
      BY <2>9, <3>1, Zenon DEF MovesTo
  <2>11. TimesFit(y)
    <3>1. l[i].kind \in Endings \cup {"attempt_started", "attempt_blocked", "attempt_resumed"}
      BY <1>2 DEF TurnKinds, AttemptKinds, Endings
    <3> QED
      BY <1>6, <2>8, <3>1, TimesFollow
  <2>12. y.ended = EndedBefore(l, i + 1, a)
    BY <1>5, <1>6, <1>8, <2>10
  <2>13. y.state = IF IsBlockedBefore(l, i + 1, a) THEN "blocked" ELSE "in_progress"
    BY <1>5, <1>6, <1>8, <2>10
  <2>14. y.known /\ y.since \in Nat /\ y.since # 0
    BY <1>6, <2>4, <2>10
  <2>15. \E j \in 1..Len(l) : j < i + 1 /\ l[j].at = y.since
    BY <1>1, <2>3, <2>10
  <2>16. TimesTell(l, i + 1, a, y)
    BY <1>4, <1>5, <2>11, <2>12, <2>13, <2>14, <2>15 DEF TimesTell
  <2> QED
    BY <2>8, <2>16
<1> QED
  BY <1>7, <1>8


LEMMA NoTimeBefore ==
  ASSUME NEW l, IsSequence(l), NEW a
  PROVE  TimesTell(l, 1, a, NoTimes)
<1>1. PICK x : x = NoTimes
  OBVIOUS
<1>2. PICK s : s = << >>
  OBVIOUS
<1>3. IsSequence(s) /\ Len(s) = 0 /\ 1..0 = {} /\ 2..0 = {}
  BY <1>2, NoRecord
<1>4. /\ x = [known |-> x.known, state |-> x.state, since |-> x.since, ended |-> x.ended,
             segments |-> x.segments]
      /\ x.state = "in_progress" /\ x.ended = "no" /\ x.segments = s /\ x.since = 0 /\ x.known
  BY <1>1, <1>2 DEF NoTimes
<1>5. TimesFit(x)
  BY <1>3, <1>4 DEF TimesFit
<1>6. \A kind : LastBefore(l, 1, kind, a) = 0
  <2>1. \A i \in 1..Len(l) : ~(i < 1)
    BY SequenceIs
  <2>2. \A kind, i : i \in Of(l, {kind}) => i \in 1..Len(l)
    BY OfIs
  <2>3. \A kind : Earlier(l, 1, kind, a) = {}
    BY <2>1, <2>2 DEF Earlier
  <2> QED
    BY <2>3 DEF LastBefore, Latest
<1>7. EndedBefore(l, 1, a) = "no" /\ ~IsBlockedBefore(l, 1, a)
  BY <1>6 DEF EndedBefore, IsBlockedBefore
<1>8. TimesTell(l, 1, a, x)
  BY <1>4, <1>5, <1>6, <1>7 DEF TimesTell
<1> QED
  BY <1>1, <1>8

\* The times of an Attempt tell how it stands.
LEMMA TimesAreTold ==
  ASSUME NEW l, LogFits(l), TurnsAreTaken(l), NEW a, a # << >>, TimesGrow(l, a),
         \A j \in 1..Len(l) : l[j].at \in Nat
  PROVE  TimesTell(l, Len(l) + 1, a, Times(l, a))
<1>1. IsSequence(l) /\ Len(l) \in Nat
  BY SequenceIs DEF LogFits
<1>2. PICK f : /\ Times(l, a) = f[Len(l)] /\ f[0] = NoTimes
               /\ \A i \in 1..Len(l) : f[i] = IF i \in EventsOfAttempt(l, a)
                                              THEN Follow(l, f[i - 1], i) ELSE f[i - 1]
  BY <1>1, TimesAre
<1> DEFINE Q == {n \in Nat : n <= Len(l) => TimesTell(l, n + 1, a, f[n])}
<1>3. 0 \in Q
  <2>1. TimesTell(l, 0 + 1, a, f[0])
    BY <1>1, <1>2, NoTimeBefore
  <2> QED
    BY <2>1
<1>4. ASSUME NEW n \in Nat, n \in Q PROVE n + 1 \in Q
  <2> SUFFICES ASSUME n + 1 <= Len(l) PROVE TimesTell(l, (n + 1) + 1, a, f[n + 1])
    OBVIOUS
  <2>1. PICK i : i = n + 1
    OBVIOUS
  <2>2. i \in 1..Len(l) /\ n <= Len(l) /\ i - 1 = n
    BY <1>1, <2>1
  <2>3. PICK x : x = f[n]
    OBVIOUS
  <2>4. TimesTell(l, i, a, x)
    BY <1>4, <2>1, <2>2, <2>3
  <2>5. f[i] = IF i \in EventsOfAttempt(l, a) THEN Follow(l, x, i) ELSE x
    BY <1>2, <2>2, <2>3
  <2>6. CASE i \notin EventsOfAttempt(l, a)
    BY <1>1, <2>1, <2>2, <2>4, <2>5, <2>6, TimesUntouched
  <2>7. CASE i \in EventsOfAttempt(l, a)
    <3>1. l[i].kind \in EventKinds /\ l[i].attempt = a
      BY <1>1, <2>2, <2>7, EventsAre
    <3>2. CASE l[i].kind = "attempt_started"
      <4>1. TimesTell(l, i + 1, a, Follow(l, x, i))
        BY <2>2, <2>4, <3>1, <3>2, TimesStart
      <4> QED
        BY <2>1, <2>5, <2>7, <4>1
    <3>3. CASE l[i].kind \in TurnKinds
      <4>1. PICK kind : kind = l[i].kind
        OBVIOUS
      <4>2. IsTurnOf(l, i, kind, a)
        BY <3>1, <3>3, <4>1 DEF IsTurnOf
      <4>3. TimesTell(l, i + 1, a, Follow(l, x, i))
        BY <2>2, <2>4, <4>2, TimesTurn
      <4> QED
        BY <2>1, <2>5, <2>7, <4>3
    <3> QED
      BY <3>1, <3>2, <3>3 DEF EventKinds
  <2> QED
    BY <2>6, <2>7
<1> HIDE DEF Q
<1>5. Nat \subseteq Q
  BY <1>3, <1>4, Induction
<1>6. Len(l) \in Q /\ Len(l) <= Len(l)
  BY <1>1, <1>5
<1> QED
  BY <1>2, <1>6 DEF Q


\* The state of an Attempt is the one that its times end in.
LEMMA StateIsTold ==
  ASSUME LogInv, TimesInv, NEW t \in Tasks, NEW n \in Shown(t), NEW a, a = <<t, n>>
  PROVE  /\ EndedBefore(log, Len(log) + 1, a) = "attempt_completed" => AttemptState(a) = "completed"
         /\ EndedBefore(log, Len(log) + 1, a) = "attempt_superseded" => AttemptState(a) = "superseded"
         /\ EndedBefore(log, Len(log) + 1, a) = "task_cancelled" => AttemptState(a) = "cancelled"
         /\ EndedBefore(log, Len(log) + 1, a) = "no" =>
              AttemptState(a) = IF IsBlockedBefore(log, Len(log) + 1, a) THEN "blocked"
                                ELSE "in_progress"
         /\ LastBefore(log, Len(log) + 1, "attempt_started", a) # 0
<1>1. PICK l : l = log
  OBVIOUS
<1>2. LogFits(l) /\ IsSequence(l) /\ TurnsAreTaken(l) /\ a # << >>
  BY <1>1 DEF LogInv, TimesInv, LogFits
<1>3. PICK c, s, x, b, r :
        /\ c = Fold(l, a, "attempt_completed") /\ s = Fold(l, a, "attempt_superseded")
        /\ x = Fold(l, a, "task_cancelled")
        /\ b = Fold(l, a, "attempt_blocked") /\ r = Fold(l, a, "attempt_resumed")
  OBVIOUS
<1>4. \A kind : LastBefore(l, Len(l) + 1, kind, a) = Fold(l, a, kind)
  BY <1>2, LastBeforeEnd
<1>5. EndedBefore(l, Len(l) + 1, a) = IF c # 0 THEN "attempt_completed"
                                      ELSE IF s # 0 THEN "attempt_superseded"
                                      ELSE IF x # 0 THEN "task_cancelled" ELSE "no"
  BY <1>3, <1>4 DEF EndedBefore
<1>6. IsBlockedBefore(l, Len(l) + 1, a) <=> b > r
  BY <1>3, <1>4 DEF IsBlockedBefore
<1>7. PICK d : d = derived.attempts[t][n]
  OBVIOUS
<1>8. /\ n \in DOMAIN derived.attempts[t] /\ AttemptOf(a) = d /\ d.lineage = LineageNow(a[1])
  BY <1>7 DEF Shown, AttemptOf
<1>9. IsStarted(l, a) /\ d = AttemptFold(l, a) /\ d.phase = Phase(l, a)
  BY <1>1, <1>7, <1>8, DerivedAttempts
<1>10. d.superseded <=> s # 0
  <2>1. AttemptFold(l, a).superseded <=> s # 0
    BY <1>3, SupersededIs
  <2> QED
    BY <1>9, <2>1
<1>11. LastBefore(l, Len(l) + 1, "attempt_started", a) # 0
  <2>1. Fold(l, a, "attempt_started") \in 1..Len(l)
    BY <1>2, <1>9, StartIs
  <2> QED
    BY <1>4, <2>1
<1>12. x # 0 => c = 0 /\ s = 0
  BY <1>2, <1>3, EndsExclude
<1>13. /\ c # 0 => d.phase \in {"goal_achieved", "goal_failed", "exhausted"}
       /\ c = 0 /\ x # 0 => d.phase = "cancelled"
       /\ c = 0 /\ x = 0 => d.phase = IF b > r THEN "blocked" ELSE "in_progress"
  <2>1. c # 0 => c \in 1..Len(l) /\ l[c].kind = "attempt_completed"
    <3>1. c # 0 => c \in Of(l, {"attempt_completed"})
      BY <1>2, <1>3, FoldIs
    <3> QED
      BY <1>2, <3>1, OfIs
  <2>2. c # 0 => l[c].outcome \in {"goal_achieved", "goal_failed"}
    BY <1>2, <2>1 DEF LogFits, RecordIsTyped
  <2> DEFINE exhausted == \E i \in Of(l, {"failure_edge_exhausted"}) : l[i].source = a
  <2>3. Phase(l, a) = IF c # 0 THEN IF exhausted THEN "exhausted" ELSE l[c].outcome
                      ELSE IF x # 0 THEN "cancelled"
                      ELSE IF b > r THEN "blocked"
                      ELSE "in_progress"
    BY <1>3, Zenon DEF Phase
  <2> HIDE DEF exhausted
  <2> QED
    BY <1>9, <2>2, <2>3
<1>14. AttemptState(a) = IF d.phase \in {"goal_achieved", "goal_failed", "exhausted"} THEN "completed"
                         ELSE IF d.phase = "cancelled" THEN "cancelled"
                         ELSE IF s # 0 THEN "superseded" ELSE d.phase
  BY <1>8, <1>10, Zenon DEF AttemptState
<1> QED
  BY <1>1, <1>5, <1>6, <1>11, <1>12, <1>13, <1>14

\* The order of the records of an Attempt is why its times are known.
LEMMA LogTellsTimes ==
  ASSUME LogInv, TimesInv
  PROVE  TimesAreKnown
<1> SUFFICES ASSUME NEW t \in DOMAIN derived.graph, NEW n \in Shown(t), TimesGrow(log, <<t, n>>)
             PROVE  Timeline(<<t, n>>) # << >>
  BY DEF TimesAreKnown, TimesGrow
<1>1. t \in Tasks
  BY LogIs
<1>2. PICK a : a = <<t, n>>
  OBVIOUS
<1>3. PICK x, state : x = Times(log, a) /\ state = AttemptState(a)
  OBVIOUS
<1>4. TimesTell(log, Len(log) + 1, a, x)
  <2>1. LogFits(log) /\ TurnsAreTaken(log) /\ \A j \in 1..Len(log) : log[j].at \in Nat
    BY DEF LogInv, TimesInv
  <2>2. a # << >> /\ TimesGrow(log, a)
    BY <1>2
  <2> QED
    BY <1>3, <2>1, <2>2, TimesAreTold
<1>5. PICK ended, blocked : ended = EndedBefore(log, Len(log) + 1, a)
                            /\ blocked = IsBlockedBefore(log, Len(log) + 1, a)
  OBVIOUS
<1>6. /\ ended = "attempt_completed" => state = "completed"
      /\ ended = "attempt_superseded" => state = "superseded"
      /\ ended = "task_cancelled" => state = "cancelled"
      /\ ended = "no" => state = IF blocked THEN "blocked" ELSE "in_progress"
      /\ LastBefore(log, Len(log) + 1, "attempt_started", a) # 0
  BY <1>1, <1>2, <1>3, <1>5, StateIsTold
<1>7. /\ TimesFit(x) /\ x.known /\ x.since # 0 /\ x.ended = ended
      /\ ended = "no" => x.state = IF blocked THEN "blocked" ELSE "in_progress"
  BY <1>4, <1>5, <1>6 DEF TimesTell
<1> DEFINE ending == [no |-> x.state, attempt_completed |-> "completed",
                      attempt_superseded |-> "superseded", task_cancelled |-> "cancelled"]
<1>8. state = ending[x.ended]
  BY <1>6, <1>7 DEF TimesFit, Endings
<1>9. Timeline(a) = IF x.ended = "no" THEN Close(x, x.state, 0).segments ELSE x.segments
  BY <1>3, <1>7, <1>8 DEF Timeline
<1>10. CASE x.ended = "no"
  <2>1. PICK z : z = 0
    OBVIOUS
  <2>2. PICK q : q = Append(x.segments, [state |-> x.state, from |-> x.since, to |-> z])
    OBVIOUS
  <2>3. Close(x, x.state, z).segments = q
    <3>1. PICK known, st, since, over, segments :
            /\ known = x.known /\ st = x.state /\ since = x.since /\ over = x.ended
            /\ segments = x.segments
      OBVIOUS
    <3>2. x = [known |-> known, state |-> st, since |-> since, ended |-> over,
               segments |-> segments]
      BY <1>7, <3>1 DEF TimesFit
    <3>3. Close(x, st, z).segments = Append(segments, [state |-> st, from |-> since, to |-> z])
      BY <3>2 DEF Close
    <3> QED
      BY <2>2, <3>1, <3>3
  <2>4. Len(q) # 0
    BY <1>7, <1>10, <2>2, OneMoreState
  <2>5. q # << >>
    BY <2>4, NoRecord
  <2> QED
    BY <1>2, <1>9, <1>10, <2>1, <2>3, <2>5
<1>11. CASE x.ended # "no"
  <2>1. Len(x.segments) # 0
    BY <1>7, <1>11 DEF TimesFit
  <2>2. x.segments # << >>
    BY <2>1, NoRecord
  <2> QED
    BY <1>2, <1>9, <1>11, <2>2
<1> QED
  BY <1>10, <1>11


-----------------------------------------------------------------------------
(* Theorems                                                                *)

\* The log is always one that the commands leave: the Attempts of each Task are
\* numbered in the order of their starts, every record is what recover() asks of
\* its place, and derived is what the log says (graph-control.ts recover, derive).
THEOREM TypeCorrect == Spec => []LogInv
<1>1. LogInv /\ UNCHANGED vars => LogInv'
  BY DEF LogInv, vars
<1>2. LogInv /\ [Next]_vars => LogInv'
  BY <1>1, StepImplements
<1> QED
  BY <1>2, StartImplements, PTL DEF Spec

\* The commands over the events and those over their folds are the same: what
\* derive() reads off the log moves as TaskGraph does, and every command but one
\* that notes a context again changes what is read.
THEOREM Implements == Spec => ImplementsTaskGraph
<1>1. LogInv /\ [Next]_vars => [Derived!Next]_Derived!vars
  <2>1. LogInv /\ Next => [Derived!Next]_Derived!vars
    BY StepImplements DEF LogStep
  <2>2. UNCHANGED vars => UNCHANGED Derived!vars
    BY DEF vars, Derived!vars
  <2> QED
    BY <2>1, <2>2
<1>2. LogInv /\ [Next]_vars =>
        [\/ derived' # derived
         \/ /\ Len(log') = Len(log) + 1
            /\ log'[Len(log')].kind = "task_context_updated"]_log
  BY StepImplements DEF LogStep, vars
<1>3. Spec => []LogInv
  BY TypeCorrect
<1> QED
  BY <1>1, <1>2, <1>3, StartImplements, PTL DEF Spec, ImplementsTaskGraph, Derived!Spec

\* No command leaves a snapshot that recover() refuses, and each receipt stays
\* what the replay of its operation finds, whatever is committed after it
\* (graph-control.ts validateSnapshot, validateReceiptProjection).
THEOREM AlwaysReadsBack == Spec => []ReadsBack
<1>1. Init => ReceiptInv
  <2> SUFFICES ASSUME Init PROVE ReceiptInv
    OBVIOUS
  <2>1. PICK l, q : l = log /\ q = receipts
    OBVIOUS
  <2>2. l = << >> /\ q = << >>
    BY <2>1 DEF Init
  <2>3. IsSequence(q) /\ Len(l) = 0 /\ Len(q) = 0 /\ 1..0 = {}
    BY <2>2, NoRecord
  <2> QED
    BY <2>1, <2>3 DEF ReceiptInv
<1>2. LogInv /\ ReceiptInv /\ [Next]_vars => ReceiptInv'
  <2>1. ReceiptInv /\ UNCHANGED vars => ReceiptInv'
    BY DEF ReceiptInv, vars
  <2> QED
    BY <2>1, StepAnswers
<1>3. LogInv /\ ReceiptInv => ReadsBack
  <2> SUFFICES ASSUME LogInv, ReceiptInv PROVE ReadsBack
    OBVIOUS
  <2>1. /\ DOMAIN receipts = 1..Len(receipts) /\ DOMAIN log = 1..Len(log)
        /\ \A i \in 1..Len(log) : RecordIsValid(log, i)
    BY SequenceIs DEF LogInv, LogFits, ReceiptInv
  <2>2. SnapshotIsValid(log)
    BY <2>1 DEF SnapshotIsValid, EventIsValid, RecordIsValid, ReceiptInv
  <2>3. \A k \in DOMAIN receipts : ReceiptIsValid(log, k, receipts[k])
    BY <2>1 DEF ReceiptInv
  <2> QED
    BY <2>2, <2>3 DEF ReadsBack
<1>4. Spec => []LogInv
  BY TypeCorrect
<1> QED
  BY <1>1, <1>2, <1>3, <1>4, PTL DEF Spec

\* The parser of the view never refuses what is projected from the log
\* (source.ts parseTaskGraphViewSource, parseNode, parseTimelineAttempt, parseEdge).
THEOREM AlwaysShown == Spec => []ViewIsShown
  BY TypeCorrect, LogIsShown, PTL

\* The times of an Attempt are lost only by a record up to its end that has no
\* time or is before an earlier one: whatever else is recorded, its events come
\* in an order that timelineAttempt() of source.ts can follow.
THEOREM TimesStayKnown == Spec => []TimesAreKnown
<1>1. TimesInv /\ UNCHANGED vars => TimesInv'
  BY DEF TimesInv, vars
<1>2. LogInv /\ TimesInv /\ [Next]_vars => TimesInv'
  BY <1>1, StepTurns
<1>3. LogInv /\ TimesInv => TimesAreKnown
  BY LogTellsTimes
<1>4. Spec => []LogInv
  BY TypeCorrect
<1> QED
  BY <1>2, <1>3, <1>4, StartTurns, PTL DEF Spec

=============================================================================
