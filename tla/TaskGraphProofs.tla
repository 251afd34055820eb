--------------------------- MODULE TaskGraphProofs ---------------------------
(***************************************************************************)
(* Proofs about TaskGraph, for every set of Tasks, Workers and graphs and  *)
(* for every value of the bounds.                                          *)
(***************************************************************************)
EXTENDS TaskDerivation, TLAPS, SequenceTheorems, FiniteSetTheorems, WellFoundedInduction

\* A singleton's last element is its element.
LEMMA LastOfOne ==
  ASSUME NEW n \in Nat
  PROVE  Last({n}) = n
BY DEF Last

\* An Attempt identifier is a Task and an index into its Attempts.
LEMMA IdsAre ==
  ASSUME TypeOK, NEW a \in Ids
  PROVE  /\ a = <<a[1], a[2]>>
         /\ a[1] \in Tasks
         /\ a[2] \in DOMAIN attempts[a[1]]
         /\ a[2] \in Nat
         /\ At(a) \in Attempt
<1>1. a \in Tasks \X (1 .. MaxAttempts) /\ a[2] \in DOMAIN attempts[a[1]]
  BY DEF Ids
<1>2. a = <<a[1], a[2]>> /\ a[1] \in Tasks /\ a[2] \in 1 .. MaxAttempts
  BY <1>1
<1>3. attempts[a[1]] \in Seq(Attempt)
  BY <1>2 DEF TypeOK
<1>4. At(a) \in Attempt
  BY <1>1, <1>3, ElementOfSeq DEF At
<1> QED
  BY <1>1, <1>2, <1>4, ConstantsAssumption

\* Under the invariant the derivation accepts exactly the achieved Attempts
\* that nothing superseded.
LEMMA AcceptedIsLiveAchieved ==
  ASSUME TypeOK, LiveJoins
  PROVE  Accepted = {a \in Ids : LiveAchieved(a)}
<1> DEFINE achieved == {a \in Ids : Eligible(a) /\ At(a).phase = "goal_achieved"}
           Supported(S) == \A a \in S : \A p \in graph[a[1]].needs :
                             <<p, At(a).inputs[p]>> \in S
           L == {a \in Ids : LiveAchieved(a)}
<1>1. achieved \subseteq L
  BY DEF Eligible, LiveAchieved, Live
<1>2. L \subseteq achieved
  BY DEF LiveJoins, Eligible, LiveAchieved, Live
<1>3. Supported(L)
  <2> SUFFICES ASSUME NEW a \in L, NEW p \in graph[a[1]].needs
               PROVE  <<p, At(a).inputs[p]>> \in L
    OBVIOUS
  <2>1. p \in Tasks
    BY IdsAre DEF TypeOK, IsGraph, Definition, LiveAchieved, Live
  <2> QED
    BY <2>1 DEF LiveJoins, LiveAchieved
<1>4. Accepted = UNION {S \in SUBSET achieved : Supported(S)}
  BY DEF Accepted
<1> QED
  BY <1>1, <1>2, <1>3, <1>4

\* The Attempts that share an activation key are one.
LEMMA ActivationIsOne ==
  ASSUME IInv, NEW t \in DOMAIN graph, NEW n \in Activation(t, Accepted)
  PROVE  /\ <<t, n>> \in Ids
         /\ Activation(t, Accepted) = {n}
         /\ Last(Activation(t, Accepted)) = n
<1> DEFINE A == Accepted
<1>1. t \in Tasks
  BY DEF IInv, TypeOK, IsGraph
<1>2. \A m \in Activation(t, A) : <<t, m>> \in Ids /\ m \in Nat
  <2> SUFFICES ASSUME NEW m \in Activation(t, A)
               PROVE  <<t, m>> \in Ids /\ m \in Nat
    OBVIOUS
  <2>1. attempts[t] \in Seq(Attempt) /\ Len(attempts[t]) <= MaxAttempts
    BY <1>1 DEF IInv, TypeOK, LineagesBounded
  <2>2. m \in DOMAIN attempts[t]
    BY DEF Activation
  <2>3. m \in 1 .. MaxAttempts
    BY <2>1, <2>2, ConstantsAssumption
  <2> QED
    BY <1>1, <2>2, <2>3 DEF Ids
<1>3. \A m \in Activation(t, A) : m = n
  <2> SUFFICES ASSUME NEW m \in Activation(t, A)
               PROVE  m = n
    OBVIOUS
  <2>1. /\ Eligible(<<t, m>>) /\ attempts[t][m].inputs = Inputs(t, A)
        /\ Eligible(<<t, n>>) /\ attempts[t][n].inputs = Inputs(t, A)
    BY DEF Activation
  <2> QED
    BY <1>2, <2>1 DEF IInv, OneAttemptPerActivation, Eligible, At
<1> QED
  BY <1>2, <1>3, LastOfOne

\* A live Attempt is the only Attempt of the activation of its Task.
LEMMA LiveIsTheActivation ==
  ASSUME IInv, NEW a \in Ids, Live(a)
  PROVE  /\ Activation(a[1], Accepted) = {a[2]}
         /\ Last(Activation(a[1], Accepted)) = a[2]
<1> DEFINE t == a[1]
           A == Accepted
<1>1. A = {b \in Ids : LiveAchieved(b)}
  BY AcceptedIsLiveAchieved DEF IInv
<1>2. /\ a = <<t, a[2]>> /\ t \in Tasks /\ a[2] \in DOMAIN attempts[t] /\ a[2] \in Nat
      /\ At(a) \in Attempt
  BY IdsAre DEF IInv
<1>3. t \in DOMAIN graph /\ graph[t] \in Definition /\ graph[t].needs \subseteq Tasks
  BY DEF Live, IInv, TypeOK, IsGraph, Definition
<1>4. \A p \in graph[t].needs :
        /\ At(a).inputs[p] \in 1 .. MaxAttempts
        /\ <<p, At(a).inputs[p]>> \in A
        /\ AcceptedOf(p, A) = At(a).inputs[p]
  <2> SUFFICES ASSUME NEW p \in graph[t].needs
               PROVE  /\ At(a).inputs[p] \in 1 .. MaxAttempts
                      /\ <<p, At(a).inputs[p]>> \in A
                      /\ AcceptedOf(p, A) = At(a).inputs[p]
    OBVIOUS
  <2>1. <<p, At(a).inputs[p]>> \in A
    BY <1>1, <1>3 DEF IInv, LiveJoins
  <2>2. At(a).inputs[p] \in 1 .. MaxAttempts
    BY <2>1, <1>1 DEF Ids
  <2>3. \A n \in 1 .. MaxAttempts : <<p, n>> \in A => n = At(a).inputs[p]
    BY <2>1, <1>1 DEF IInv, LiveUnique, LiveAchieved
  <2> QED
    BY <2>1, <2>2, <2>3 DEF AcceptedOf
<1>5. Released(t, A)
  BY <1>4 DEF Released, IInv, LiveJoins
<1>6. At(a).inputs = Inputs(t, A)
  <2>1. At(a).inputs \in [Tasks -> Nat]
    BY <1>2 DEF Attempt
  <2>2. \A p \in Tasks : At(a).inputs[p] = Inputs(t, A)[p]
    BY <1>4 DEF Inputs, IInv, LiveJoins
  <2> QED
    BY <2>1, <2>2 DEF Inputs
<1>7. Eligible(a) /\ At(a) = attempts[t][a[2]]
  BY DEF Eligible, Live, IInv, LiveJoins, At
<1>8. a[2] \in Activation(t, A)
  BY <1>2, <1>5, <1>6, <1>7 DEF Activation
<1> QED
  BY <1>3, <1>8, ActivationIsOne

\* The Attempt that a transition moves is live and is the only one of its key.
LEMMA InIsLive ==
  ASSUME IInv, NEW t \in DOMAIN graph, NEW phases,
         phases \subseteq {"in_progress", "blocked", "goal_achieved"},
         In(t, phases, Accepted)
  PROVE  LET n == Last(Activation(t, Accepted))
         IN  /\ <<t, n>> \in Ids /\ Live(<<t, n>>)
             /\ At(<<t, n>>).phase \in phases
<1>1. PICK n : n \in Activation(t, Accepted)
  BY DEF In
<1>2. <<t, n>> \in Ids /\ Last(Activation(t, Accepted)) = n
  BY <1>1, ActivationIsOne
<1>3. Eligible(<<t, n>>)
  BY <1>1 DEF Activation
<1>4. At(<<t, n>>).phase \in phases
  BY <1>2 DEF In, At
<1>5. Live(<<t, n>>)
  BY <1>3, <1>4 DEF Live, Eligible
<1> QED
  BY <1>2, <1>4, <1>5

\* What readAttempts() reports as active is live.
LEMMA ActiveIsLive ==
  ASSUME IInv, NEW t \in Tasks, NEW n \in Active(t)
  PROVE  <<t, n>> \in Ids /\ Live(<<t, n>>)
<1>1. n \in DOMAIN attempts[t] /\ Live(<<t, n>>)
  BY DEF Active, Live, At
<1>2. attempts[t] \in Seq(Attempt) /\ Len(attempts[t]) <= MaxAttempts
  BY DEF IInv, TypeOK, LineagesBounded
<1>3. n \in 1 .. MaxAttempts
  BY <1>1, <1>2, ConstantsAssumption
<1> QED
  BY <1>1, <1>3 DEF Ids

\* A live Attempt is the one that a revision or a repair would supersede.
LEMMA LiveStands ==
  ASSUME IInv, NEW a \in Ids, Live(a)
  PROVE  a[2] \in Standing(a[1], Accepted)
<1> DEFINE t == a[1]
<1>1. /\ a = <<t, a[2]>> /\ t \in Tasks /\ a[2] \in DOMAIN attempts[t] /\ a[2] \in Nat
  BY IdsAre DEF IInv
<1>2. t \in DOMAIN graph
  BY DEF Live
<1>3. \A n \in Active(t) : n = a[2]
  BY <1>1, ActiveIsLive DEF IInv, LiveUnique
<1>4. CASE Active(t) # {}
  <2>1. Active(t) = {a[2]}
    BY <1>3, <1>4
  <2> QED
    BY <1>1, <2>1, LastOfOne DEF Standing
<1>5. CASE Active(t) = {}
  <2>1. Activation(t, Accepted) = {a[2]} /\ Last(Activation(t, Accepted)) = a[2]
    BY LiveIsTheActivation
  <2> QED
    BY <1>2, <1>5, <2>1 DEF Standing
<1> QED
  BY <1>4, <1>5

\* SetPhase changes one phase.
LEMMA SetPhaseIs ==
  ASSUME attempts \in [Tasks -> Seq(Attempt)],
         NEW t \in Tasks, NEW n \in DOMAIN attempts[t], NEW phase \in Phases
  PROVE  LET log == SetPhase(t, n, phase)
         IN  /\ log \in [Tasks -> Seq(Attempt)]
             /\ \A u \in Tasks : Len(log[u]) = Len(attempts[u])
             /\ \A u \in Tasks : DOMAIN log[u] = DOMAIN attempts[u]
             /\ log[t][n] = [attempts[t][n] EXCEPT !.phase = phase]
             /\ \A u \in Tasks : \A m \in DOMAIN log[u] :
                  <<u, m>> # <<t, n>> => log[u][m] = attempts[u][m]
<1> DEFINE a == [attempts[t][n] EXCEPT !.phase = phase]
           seq == [attempts[t] EXCEPT ![n] = a]
           log == SetPhase(t, n, phase)
<1>1. attempts[t] \in Seq(Attempt) /\ n \in 1 .. Len(attempts[t])
  OBVIOUS
<1>2. attempts[t][n] \in Attempt
  BY <1>1, ElementOfSeq
<1>3. a \in Attempt
  BY <1>2 DEF Attempt
<1>4. seq \in Seq(Attempt) /\ Len(seq) = Len(attempts[t]) /\ DOMAIN seq = DOMAIN attempts[t]
  BY <1>1, <1>3, ExceptSeq
<1>5. log = [attempts EXCEPT ![t] = seq]
  BY DEF SetPhase
<1>6. log \in [Tasks -> Seq(Attempt)]
  BY <1>4, <1>5
<1>7. \A u \in Tasks : log[u] = IF u = t THEN seq ELSE attempts[u]
  BY <1>5
<1>8. log[t][n] = a
  BY <1>1, <1>7
<1>9. \A u \in Tasks : \A m \in DOMAIN log[u] :
         <<u, m>> # <<t, n>> => log[u][m] = attempts[u][m]
  BY <1>1, <1>7
<1> QED
  BY <1>4, <1>6, <1>7, <1>8, <1>9

\* SetPhase changes the phase of one Attempt and nothing else.
LEMMA SetPhaseAt ==
  ASSUME TypeOK, NEW a \in Ids, NEW phase \in Phases
  PROVE  LET log == SetPhase(a[1], a[2], phase)
         IN  /\ log \in [Tasks -> Seq(Attempt)]
             /\ \A u \in Tasks : Len(log[u]) = Len(attempts[u])
             /\ \A u \in Tasks : DOMAIN log[u] = DOMAIN attempts[u]
             /\ \A b \in Ids :
                  LET x == log[b[1]][b[2]]
                  IN  /\ x.lineage = At(b).lineage /\ x.demand = At(b).demand
                      /\ x.inputs = At(b).inputs /\ x.worker = At(b).worker
                      /\ x.superseded = At(b).superseded
                      /\ x.phase = IF b = a THEN phase ELSE At(b).phase
<1> DEFINE t == a[1]
           n == a[2]
<1>1. a = <<t, n>> /\ t \in Tasks /\ n \in DOMAIN attempts[t] /\ At(a) \in Attempt
  BY IdsAre
<1>2. PICK log : log = SetPhase(t, n, phase)
  OBVIOUS
<1>3. /\ log \in [Tasks -> Seq(Attempt)]
      /\ \A u \in Tasks : Len(log[u]) = Len(attempts[u])
      /\ \A u \in Tasks : DOMAIN log[u] = DOMAIN attempts[u]
      /\ log[t][n] = [attempts[t][n] EXCEPT !.phase = phase]
      /\ \A u \in Tasks : \A m \in DOMAIN log[u] :
           <<u, m>> # <<t, n>> => log[u][m] = attempts[u][m]
  BY <1>1, <1>2, SetPhaseIs DEF TypeOK
<1>4. ASSUME NEW b \in Ids
      PROVE  LET x == log[b[1]][b[2]]
             IN  /\ x.lineage = At(b).lineage /\ x.demand = At(b).demand
                 /\ x.inputs = At(b).inputs /\ x.worker = At(b).worker
                 /\ x.superseded = At(b).superseded
                 /\ x.phase = IF b = a THEN phase ELSE At(b).phase
  <2>1. CASE b = a
    <3>1. log[t][n] = [At(a) EXCEPT !.phase = phase]
      BY <1>3 DEF At
    <3> QED
      BY <1>1, <2>1, <3>1 DEF Attempt
  <2>2. CASE b # a
    <3>1. b = <<b[1], b[2]>> /\ b[1] \in Tasks /\ b[2] \in DOMAIN log[b[1]]
      BY <1>3, IdsAre
    <3>2. log[b[1]][b[2]] = At(b)
      BY <1>1, <1>3, <2>2, <3>1 DEF At
    <3> QED
      BY <2>2, <3>2
  <2> QED
    BY <2>1, <2>2
<1> QED
  BY <1>2, <1>3, <1>4

\* Supersede changes the superseded field of the Attempts in stop.
LEMMA SupersedeIs ==
  ASSUME NEW log \in [Tasks -> Seq(Attempt)], NEW stop
  PROVE  LET next == Supersede(log, stop)
         IN  /\ next \in [Tasks -> Seq(Attempt)]
             /\ \A u \in Tasks : Len(next[u]) = Len(log[u])
             /\ \A u \in Tasks : DOMAIN next[u] = DOMAIN log[u]
             /\ \A u \in Tasks : \A m \in DOMAIN log[u] :
                  next[u][m] = IF <<u, m>> \in stop
                               THEN [log[u][m] EXCEPT !.superseded = TRUE]
                               ELSE log[u][m]
<1> DEFINE next == Supersede(log, stop)
           Item(u, m) == IF <<u, m>> \in stop
                         THEN [log[u][m] EXCEPT !.superseded = TRUE] ELSE log[u][m]
<1>1. next = [u \in Tasks |-> [m \in DOMAIN log[u] |-> Item(u, m)]]
  BY DEF Supersede
<1>2. ASSUME NEW u \in Tasks
      PROVE  /\ next[u] \in Seq(Attempt) /\ Len(next[u]) = Len(log[u])
             /\ DOMAIN next[u] = DOMAIN log[u]
             /\ \A m \in DOMAIN log[u] : next[u][m] = Item(u, m)
  <2>1. log[u] \in Seq(Attempt) /\ DOMAIN log[u] = 1 .. Len(log[u]) /\ Len(log[u]) \in Nat
    OBVIOUS
  <2>2. next[u] = [m \in 1 .. Len(log[u]) |-> Item(u, m)]
    BY <1>1, <2>1
  <2>3. \A m \in 1 .. Len(log[u]) : Item(u, m) \in Attempt
    <3> SUFFICES ASSUME NEW m \in 1 .. Len(log[u])
                 PROVE  Item(u, m) \in Attempt
      OBVIOUS
    <3>1. log[u][m] \in Attempt
      BY <2>1, ElementOfSeq
    <3> QED
      BY <3>1 DEF Attempt
  <2>4. next[u] \in Seq(Attempt) /\ Len(next[u]) = Len(log[u])
    BY <2>1, <2>2, <2>3, IsASeq
  <2> QED
    BY <2>1, <2>2, <2>4
<1>3. next \in [Tasks -> Seq(Attempt)]
  BY <1>1, <1>2
<1> QED
  BY <1>2, <1>3

\* The reverse closure holds its seed and, with a Task, all Tasks that need it.
LEMMA ReverseClosureIsClosed ==
  ASSUME NEW g, IsGraph(g), NEW seed \in SUBSET Tasks
  PROVE  /\ seed \subseteq ReverseClosure(seed, g)
         /\ \A t \in DOMAIN g, p \in ReverseClosure(seed, g) :
              p \in g[t].needs => t \in ReverseClosure(seed, g)
<1>1. seed \subseteq ReverseClosure(seed, g)
  BY DEF ReverseClosure
<1>2. ASSUME NEW t \in DOMAIN g, NEW p \in ReverseClosure(seed, g), p \in g[t].needs
      PROVE  t \in ReverseClosure(seed, g)
  <2> SUFFICES ASSUME NEW S \in SUBSET Tasks, seed \subseteq S,
                      \A u \in DOMAIN g : g[u].needs \cap S # {} => u \in S
               PROVE  t \in S
    BY DEF ReverseClosure, IsGraph
  <2>1. p \in S
    BY DEF ReverseClosure
  <2> QED
    BY <1>2, <2>1
<1> QED
  BY <1>1, <1>2

-----------------------------------------------------------------------------
(* What a command must do to keep the invariant *)

\* A command that starts no Attempt keeps the invariant when it only takes
\* live Attempts away, and takes them away together with those they feed.
LEMMA OnlyStops ==
  ASSUME IInv, TypeOK', LineagesBounded', GraphClosed', OneInProgressPerWorker',
         \A b \in Ids' :
           /\ b \in Ids
           /\ At(b)'.lineage = At(b).lineage /\ At(b)'.demand = At(b).demand
           /\ At(b)'.inputs = At(b).inputs /\ At(b)'.worker = At(b).worker
           /\ ~At(b)'.superseded => ~At(b).superseded
           /\ At(b)'.phase # "cancelled" => At(b).phase # "cancelled",
         \A b \in Ids' : Live(b)' =>
           /\ Live(b)
           /\ graph'[b[1]] = graph[b[1]]
           /\ Demand(b[1])' = Demand(b[1])
           /\ ~IsCancelled(b[1])'
           /\ \A p \in graph[b[1]].needs : \A i :
                i = At(b).inputs[p] => <<p, i>> \in Ids' /\ LiveAchieved(<<p, i>>)'
  PROVE  IInv'
<1>1. LiveJoins'
  BY DEF IInv, LiveJoins
<1>2. LiveUnique'
  BY DEF IInv, LiveUnique
<1>3. OneAttemptPerActivation'
  <2> SUFFICES ASSUME NEW a \in Ids', NEW b \in Ids',
                      a[1] = b[1],
                      ~At(a)'.superseded, ~At(b)'.superseded,
                      At(a)'.phase # "cancelled", At(b)'.phase # "cancelled",
                      At(a)'.lineage = At(b)'.lineage, At(a)'.demand = At(b)'.demand,
                      At(a)'.inputs = At(b)'.inputs
               PROVE  a = b
    BY DEF OneAttemptPerActivation
  <2> QED
    BY DEF IInv, OneAttemptPerActivation
<1> QED
  BY <1>1, <1>2, <1>3 DEF IInv

\* No Worker gets a second Attempt in progress by a command that puts none in
\* progress.
LEMMA NoneBegins ==
  ASSUME IInv,
         \A b \in Ids' :
           /\ b \in Ids
           /\ At(b)'.worker = At(b).worker
           /\ Live(b)' => Live(b)
           /\ Live(b)' /\ At(b)'.phase = "in_progress" => At(b).phase = "in_progress"
  PROVE  OneInProgressPerWorker'
BY DEF IInv, OneInProgressPerWorker

\* A Worker that is not occupied has no live Attempt in progress.
LEMMA FreeWorker ==
  ASSUME IInv, NEW w, ~Occupied(w, Accepted), NEW a \in Ids, Live(a), At(a).worker = w
  PROVE  At(a).phase # "in_progress"
<1>1. a[1] \in DOMAIN graph /\ graph[a[1]].assignee = w
  BY DEF Live, IInv, LiveJoins
<1>2. Activation(a[1], Accepted) = {a[2]} /\ Last(Activation(a[1], Accepted)) = a[2]
  BY LiveIsTheActivation
<1> QED
  BY <1>1, <1>2 DEF Occupied, In, At

\* The inputs of a live Attempt are live achieved Attempts.
LEMMA LiveNeeds ==
  ASSUME IInv, NEW a \in Ids, Live(a), NEW p \in graph[a[1]].needs
  PROVE  /\ p \in Tasks
         /\ <<p, At(a).inputs[p]>> \in Ids
         /\ LiveAchieved(<<p, At(a).inputs[p]>>)
<1>1. p \in Tasks
  BY DEF IInv, TypeOK, IsGraph, Definition, Live
<1> QED
  BY <1>1 DEF IInv, LiveJoins

\* A context is a text of the current lineage.
LEMMA ContextType ==
  ASSUME TypeOK, NEW t \in Tasks, NEW c \in Contexts \cup {NoContext}, UpdateContext(t, c)
  PROVE  context' \in [Tasks -> [lineage: Nat, text: Contexts \cup {NoContext}]]
<1>1. [lineage |-> lineage[t], text |-> c] \in [lineage: Nat, text: Contexts \cup {NoContext}]
  BY DEF TypeOK
<1> QED
  BY <1>1 DEF TypeOK, UpdateContext

\* The counters of failure edges are numbers.
LEMMA CountersAreNumbers ==
  ASSUME TypeOK, NEW t
  PROVE  Demand(t) \in Nat /\ PriorTraversals(t) \in Nat
<1>1. IsFiniteSet({x \in traversals : x.target = t /\ x.targetLineage = lineage[t]})
  BY FS_Subset DEF TypeOK
<1>2. IsFiniteSet({x \in traversals : x.source = t /\ x.sourceLineage = lineage[t]})
  BY FS_Subset DEF TypeOK
<1> QED
  BY <1>1, <1>2, FS_CardinalityType DEF Demand, PriorTraversals

\* A transition that moves the current Attempt of a Task to another phase.
LEMMA PhaseMoves ==
  ASSUME IInv, NEW t \in DOMAIN graph, NEW n, NEW phase \in Phases \ {"cancelled"},
         In(t, {"in_progress", "blocked"}, Accepted),
         n = Last(Activation(t, Accepted)),
         attempts' = SetPhase(t, n, phase),
         phase = "in_progress" => ~Occupied(attempts[t][n].worker, Accepted),
         UNCHANGED <<revision, graph, lineage, cancelled, traversals>>,
         context' \in [Tasks -> [lineage: Nat, text: Contexts \cup {NoContext}]]
  PROVE  IInv'
<1> DEFINE a == <<t, n>>
<1>1. /\ a \in Ids /\ Live(a) /\ At(a).phase \in {"in_progress", "blocked"}
      /\ t \in Tasks /\ n \in DOMAIN attempts[t]
  <2>1. a \in Ids /\ Live(a) /\ At(a).phase \in {"in_progress", "blocked"}
    BY InIsLive
  <2> QED
    BY <2>1 DEF Ids
<1>2. /\ attempts' \in [Tasks -> Seq(Attempt)]
      /\ \A u \in Tasks : Len(attempts'[u]) = Len(attempts[u])
      /\ \A u \in Tasks : DOMAIN attempts'[u] = DOMAIN attempts[u]
      /\ attempts'[t][n] = [attempts[t][n] EXCEPT !.phase = phase]
      /\ \A u \in Tasks : \A m \in DOMAIN attempts'[u] :
           <<u, m>> # a => attempts'[u][m] = attempts[u][m]
  BY <1>1, SetPhaseIs DEF IInv, TypeOK
<1>3. Ids' = Ids
  BY <1>2 DEF Ids
<1>4. /\ At(a)' = [At(a) EXCEPT !.phase = phase]
      /\ \A b \in Ids : b # a => At(b)' = At(b)
  <2>1. At(a)' = [At(a) EXCEPT !.phase = phase]
    BY <1>2 DEF At
  <2>2. ASSUME NEW b \in Ids, b # a
        PROVE  At(b)' = At(b)
    <3>1. b = <<b[1], b[2]>> /\ b[1] \in Tasks /\ b[2] \in DOMAIN attempts'[b[1]]
      BY <1>2, IdsAre DEF IInv
    <3>2. attempts'[b[1]][b[2]] = attempts[b[1]][b[2]]
      BY <1>2, <2>2, <3>1
    <3> QED
      BY <3>2 DEF At
  <2> QED
    BY <2>1, <2>2
<1>5. At(a) \in Attempt
  BY <1>1, IdsAre DEF IInv
<1>6. \A b \in Ids : /\ At(b)'.lineage = At(b).lineage /\ At(b)'.demand = At(b).demand
                     /\ At(b)'.inputs = At(b).inputs /\ At(b)'.worker = At(b).worker
                     /\ At(b)'.superseded = At(b).superseded
                     /\ At(b)'.phase = IF b = a THEN phase ELSE At(b).phase
  <2> HIDE DEF a
  <2> SUFFICES ASSUME NEW b \in Ids
               PROVE  /\ At(b)'.lineage = At(b).lineage /\ At(b)'.demand = At(b).demand
                      /\ At(b)'.inputs = At(b).inputs /\ At(b)'.worker = At(b).worker
                      /\ At(b)'.superseded = At(b).superseded
                      /\ At(b)'.phase = IF b = a THEN phase ELSE At(b).phase
    OBVIOUS
  <2>1. CASE b = a
    BY <1>4, <1>5, <2>1 DEF Attempt
  <2>2. CASE b # a
    BY <1>4, <2>2
  <2> QED
    BY <2>1, <2>2
<1>7. \A b \in Ids : At(b)'.phase # "cancelled" => At(b).phase # "cancelled"
  BY <1>1, <1>6
<1>8. \A b \in Ids : Live(b)' => Live(b)
  BY <1>1, <1>6 DEF Live
<1>9. \A b \in Ids : LiveAchieved(b) => LiveAchieved(b)'
  BY <1>1, <1>6 DEF Live, LiveAchieved
<1>10. \A u : Demand(u)' = Demand(u) /\ (IsCancelled(u)' <=> IsCancelled(u))
  BY DEF Demand, IsCancelled
<1>11. TypeOK'
  BY <1>2 DEF IInv, TypeOK, IsGraph, Definition
<1>12. LineagesBounded' /\ GraphClosed'
  BY <1>2, <1>3, <1>6 DEF IInv, LineagesBounded, GraphClosed
<1>13. OneInProgressPerWorker'
  <2>1. CASE phase = "in_progress"
    <3> SUFFICES ASSUME NEW b \in Ids, NEW c \in Ids, Live(b)', Live(c)',
                        At(b)'.worker = At(c)'.worker,
                        At(b)'.phase = "in_progress", At(c)'.phase = "in_progress"
                 PROVE  b = c
      BY <1>3 DEF OneInProgressPerWorker
    <3>1. \A d \in Ids : Live(d) /\ At(d).worker = At(a).worker => At(d).phase # "in_progress"
      BY <2>1, FreeWorker DEF At
    <3>2. CASE b = a \/ c = a
      BY <1>6, <1>8, <3>1, <3>2
    <3>3. CASE b # a /\ c # a
      BY <1>6, <1>8, <3>3 DEF IInv, OneInProgressPerWorker
    <3> QED
      BY <3>2, <3>3
  <2>2. CASE phase # "in_progress"
    BY <1>3, <1>6, <1>8, <2>2, NoneBegins
  <2> QED
    BY <2>1, <2>2
<1>14. \A b \in Ids' : Live(b)' =>
         /\ Live(b)
         /\ graph'[b[1]] = graph[b[1]]
         /\ Demand(b[1])' = Demand(b[1])
         /\ ~IsCancelled(b[1])'
         /\ \A p \in graph[b[1]].needs : \A i :
              i = At(b).inputs[p] => <<p, i>> \in Ids' /\ LiveAchieved(<<p, i>>)'
  <2> SUFFICES ASSUME NEW b \in Ids, Live(b)'
               PROVE  /\ Live(b)
                      /\ graph'[b[1]] = graph[b[1]]
                      /\ Demand(b[1])' = Demand(b[1])
                      /\ ~IsCancelled(b[1])'
                      /\ \A p \in graph[b[1]].needs : \A i :
                           i = At(b).inputs[p] => <<p, i>> \in Ids /\ LiveAchieved(<<p, i>>)'
    BY <1>3
  <2>1. Live(b)
    BY <1>8
  <2>2. ~IsCancelled(b[1])'
    BY <1>10, <2>1 DEF IInv, LiveJoins
  <2>3. ASSUME NEW p \in graph[b[1]].needs, NEW i, i = At(b).inputs[p]
        PROVE  <<p, i>> \in Ids /\ LiveAchieved(<<p, i>>)'
    <3>1. <<p, i>> \in Ids /\ LiveAchieved(<<p, i>>)
      BY <2>1, <2>3, LiveNeeds
    <3> QED
      BY <1>9, <3>1
  <2>4. graph'[b[1]] = graph[b[1]] /\ Demand(b[1])' = Demand(b[1])
    BY <1>10
  <2> QED
    BY <2>1, <2>2, <2>3, <2>4
<1> QED
  BY <1>3, <1>6, <1>7, <1>11, <1>12, <1>13, <1>14, OnlyStops

\* What a command that supersedes the Attempts in stop does to each Attempt.
LEMMA SupersedeStep ==
  ASSUME TypeOK, NEW log \in [Tasks -> Seq(Attempt)], NEW stop,
         \A u \in Tasks : Len(log[u]) = Len(attempts[u]) /\ DOMAIN log[u] = DOMAIN attempts[u],
         attempts' = Supersede(log, stop)
  PROVE  /\ attempts' \in [Tasks -> Seq(Attempt)]
         /\ \A u \in Tasks : Len(attempts'[u]) = Len(attempts[u])
         /\ Ids' = Ids
         /\ \A b \in Ids : LET x == log[b[1]][b[2]]
                           IN  /\ At(b)'.lineage = x.lineage /\ At(b)'.demand = x.demand
                               /\ At(b)'.inputs = x.inputs /\ At(b)'.worker = x.worker
                               /\ At(b)'.phase = x.phase
                               /\ At(b)'.superseded <=> b \in stop \/ x.superseded
<1>1. /\ attempts' \in [Tasks -> Seq(Attempt)]
      /\ \A u \in Tasks : Len(attempts'[u]) = Len(log[u])
      /\ \A u \in Tasks : DOMAIN attempts'[u] = DOMAIN log[u]
      /\ \A u \in Tasks : \A m \in DOMAIN log[u] :
           attempts'[u][m] = IF <<u, m>> \in stop
                             THEN [log[u][m] EXCEPT !.superseded = TRUE]
                             ELSE log[u][m]
  BY SupersedeIs, SMTT(60)
<1>2. Ids' = Ids
  BY <1>1 DEF Ids
<1>3. ASSUME NEW b \in Ids
      PROVE  LET x == log[b[1]][b[2]]
             IN  /\ At(b)'.lineage = x.lineage /\ At(b)'.demand = x.demand
                 /\ At(b)'.inputs = x.inputs /\ At(b)'.worker = x.worker
                 /\ At(b)'.phase = x.phase
                 /\ At(b)'.superseded <=> b \in stop \/ x.superseded
  <2> DEFINE x == log[b[1]][b[2]]
  <2>1. b = <<b[1], b[2]>> /\ b[1] \in Tasks /\ b[2] \in DOMAIN log[b[1]]
    BY IdsAre
  <2>2. x \in Attempt
    BY <2>1, ElementOfSeq
  <2>3. At(b)' = IF b \in stop THEN [x EXCEPT !.superseded = TRUE] ELSE x
    BY <1>1, <2>1 DEF At
  <2>4. CASE b \in stop
    <3>1. At(b)' = [x EXCEPT !.superseded = TRUE]
      BY <2>3, <2>4
    <3> HIDE DEF x
    <3>2. /\ At(b)'.lineage = x.lineage /\ At(b)'.demand = x.demand
          /\ At(b)'.inputs = x.inputs /\ At(b)'.worker = x.worker
          /\ At(b)'.phase = x.phase /\ At(b)'.superseded
      BY <2>2, <3>1 DEF Attempt
    <3> QED
      BY <2>4, <3>2 DEF x
  <2>5. CASE b \notin stop
    BY <2>3, <2>5
  <2> QED
    BY <2>4, <2>5
<1> QED
  BY <1>1, <1>2, <1>3

\* A revision supersedes what the changed Tasks and those behind them stand on.
LEMMA ApplyGraphKeeps ==
  ASSUME IInv, NEW g \in Graphs, ApplyGraph(g)
  PROVE  IInv'
<1>1. PICK hit : hit = Affected(g)
  OBVIOUS
<1>2. PICK stop : stop = StandingIds(hit, Accepted)
  OBVIOUS
<1>3. /\ graph' = g /\ lineage' = NextLineage(g) /\ revision' = revision + 1
      /\ UNCHANGED <<cancelled, traversals, context>>
      /\ attempts' = Supersede(attempts, stop)
  BY <1>1, <1>2 DEF ApplyGraph
<1>4. IsGraph(g) /\ IsGraph(graph)
  BY ConstantsAssumption DEF IInv, TypeOK
<1>5. /\ attempts' \in [Tasks -> Seq(Attempt)]
      /\ \A u \in Tasks : Len(attempts'[u]) = Len(attempts[u])
      /\ Ids' = Ids
      /\ \A b \in Ids : /\ At(b)'.lineage = At(b).lineage /\ At(b)'.demand = At(b).demand
                        /\ At(b)'.inputs = At(b).inputs /\ At(b)'.worker = At(b).worker
                        /\ At(b)'.phase = At(b).phase
                        /\ At(b)'.superseded <=> b \in stop \/ At(b).superseded
  BY <1>3, SupersedeStep DEF IInv, TypeOK, At
<1>6. \A t \in Tasks : lineage[t] \in Nat /\ lineage[t] <= revision /\ revision \in Nat
  BY DEF IInv, TypeOK, LineagesBounded
<1>7. /\ lineage' \in [Tasks -> Nat]
      /\ \A t \in Tasks : lineage'[t] <= revision'
      /\ \A t \in DOMAIN g : lineage'[t] = lineage[t] => t \in DOMAIN graph /\ graph[t] = g[t]
  <2>1. lineage' = [t \in Tasks |-> IF t \notin DOMAIN g THEN 0
                     ELSE IF t \in DOMAIN graph /\ graph[t] = g[t] THEN lineage[t]
                     ELSE revision + 1]
    BY <1>3 DEF NextLineage
  <2>2. lineage' \in [Tasks -> Nat]
    BY <1>6, <2>1
  <2>3. \A t \in Tasks : lineage'[t] <= revision'
    BY <1>3, <1>6, <2>1
  <2>4. \A t \in DOMAIN g : lineage'[t] = lineage[t] => t \in DOMAIN graph /\ graph[t] = g[t]
    BY <1>4, <1>6, <2>1 DEF IsGraph
  <2> QED
    BY <2>2, <2>3, <2>4
<1>8. TypeOK'
  <2>1. revision' \in Nat
    BY <1>3 DEF IInv, TypeOK
  <2> QED
    BY <1>3, <1>4, <1>5, <1>7, <2>1 DEF IInv, TypeOK, IsGraph, Definition
<1>9. LineagesBounded'
  <2>1. \A a \in Ids' : At(a)'.lineage <= revision'
    <3> SUFFICES ASSUME NEW a \in Ids
                 PROVE  At(a)'.lineage <= revision'
      BY <1>5
    <3>1. At(a).lineage \in Nat /\ At(a).lineage <= revision /\ revision \in Nat
      BY IdsAre DEF Attempt, IInv, TypeOK, LineagesBounded
    <3> QED
      BY <1>3, <1>5, <3>1
  <2> QED
    BY <1>5, <1>7, <2>1 DEF IInv, LineagesBounded
<1>10. GraphClosed'
  BY <1>3 DEF GraphClosed, ApplyGraph, ValidGraph
<1>11. \* what is not affected keeps its meaning, and so does what it needs
       ASSUME NEW t \in DOMAIN g, t \notin hit
       PROVE  /\ t \in DOMAIN graph /\ graph[t] = g[t] /\ lineage'[t] = lineage[t]
              /\ \A p \in graph[t].needs : p \in DOMAIN g /\ p \notin hit
  <2> DEFINE changed == {u \in DOMAIN graph \cup DOMAIN g : NextLineage(g)[u] # lineage[u]}
  <2>1. hit = ReverseClosure(changed, graph) \cup ReverseClosure(changed, g)
    BY <1>1 DEF Affected
  <2>2. changed \in SUBSET Tasks
    BY <1>4 DEF IsGraph
  <2>3. /\ changed \subseteq hit
        /\ \A u \in DOMAIN graph, p \in ReverseClosure(changed, graph) :
             p \in graph[u].needs => u \in ReverseClosure(changed, graph)
        /\ \A u \in DOMAIN g, p \in ReverseClosure(changed, g) :
             p \in g[u].needs => u \in ReverseClosure(changed, g)
    BY <1>4, <2>1, <2>2, ReverseClosureIsClosed
  <2>4. t \in DOMAIN graph /\ graph[t] = g[t] /\ lineage'[t] = lineage[t]
    BY <1>3, <1>7, <1>11, <2>3
  <2>5. \A p \in graph[t].needs : p \in DOMAIN g
    BY <2>4 DEF ApplyGraph, ValidGraph
  <2>6. \A p \in graph[t].needs : p \notin hit
    BY <1>11, <2>1, <2>3, <2>4
  <2> QED
    BY <2>4, <2>5, <2>6
<1>12. ASSUME NEW b \in Ids, Live(b)'
       PROVE  Live(b) /\ b[1] \in DOMAIN g /\ b[1] \notin hit
  <2>1. b = <<b[1], b[2]>> /\ b[1] \in Tasks /\ b[2] \in 1 .. MaxAttempts
    BY IdsAre DEF Ids, IInv
  <2>2. At(b).lineage <= revision /\ At(b).lineage \in Nat
    BY IdsAre DEF IInv, LineagesBounded, Attempt
  <2>3. /\ b[1] \in DOMAIN g /\ At(b).lineage = lineage'[b[1]]
        /\ b \notin stop /\ ~At(b).superseded
        /\ At(b).phase \in {"in_progress", "blocked", "goal_achieved"}
    BY <1>3, <1>5, <1>12 DEF Live
  <2>4. lineage'[b[1]] # revision + 1
    BY <1>6, <2>1, <2>2, <2>3
  <2>5. b[1] \in DOMAIN graph /\ lineage'[b[1]] = lineage[b[1]]
    BY <1>3, <2>1, <2>3, <2>4 DEF NextLineage
  <2>6. Live(b)
    BY <2>3, <2>5 DEF Live
  <2>7. b[2] \in Standing(b[1], Accepted)
    BY <2>6, LiveStands
  <2>8. b[1] \notin hit
    BY <1>2, <2>1, <2>3, <2>7 DEF StandingIds
  <2> QED
    BY <2>3, <2>6, <2>8
<1>13. ASSUME NEW b \in Ids', Live(b)'
       PROVE  /\ Live(b)
              /\ graph'[b[1]] = graph[b[1]]
              /\ Demand(b[1])' = Demand(b[1])
              /\ ~IsCancelled(b[1])'
              /\ \A p \in graph[b[1]].needs : \A i :
                   i = At(b).inputs[p] => <<p, i>> \in Ids' /\ LiveAchieved(<<p, i>>)'
  <2>1. b \in Ids /\ Live(b) /\ b[1] \in DOMAIN g /\ b[1] \notin hit
    BY <1>5, <1>12, <1>13
  <2>2. /\ graph[b[1]] = g[b[1]] /\ lineage'[b[1]] = lineage[b[1]]
        /\ \A p \in graph[b[1]].needs : p \in DOMAIN g /\ p \notin hit
    BY <1>11, <2>1
  <2>3. Demand(b[1])' = Demand(b[1]) /\ ~IsCancelled(b[1])'
    BY <1>3, <2>1, <2>2 DEF Demand, IsCancelled, IInv, LiveJoins
  <2>4. ASSUME NEW p \in graph[b[1]].needs, NEW i, i = At(b).inputs[p]
        PROVE  <<p, i>> \in Ids' /\ LiveAchieved(<<p, i>>)'
    <3>1. <<p, i>> \in Ids /\ LiveAchieved(<<p, i>>)
      BY <2>1, <2>4, LiveNeeds
    <3>2. p \in DOMAIN g /\ p \notin hit /\ lineage'[p] = lineage[p]
      BY <1>11, <2>2
    <3>3. <<p, i>> \notin stop
      BY <1>2, <3>2 DEF StandingIds
    <3> QED
      BY <1>3, <1>5, <3>1, <3>2, <3>3 DEF LiveAchieved, Live
  <2> QED
    BY <1>3, <2>1, <2>2, <2>3, <2>4
<1>14. OneInProgressPerWorker'
  BY <1>5, <1>12, NoneBegins
<1> QED
  BY <1>5, <1>8, <1>9, <1>10, <1>13, <1>14, OnlyStops

\* A repair takes away what stands on its target and on the Tasks behind it.
LEMMA FailWithRepairKeeps ==
  ASSUME IInv, NEW t \in DOMAIN graph, NEW w \in Workers,
         NEW c \in Contexts \cup {NoContext}, FailWithRepair(t, w, c)
  PROVE  IInv'
<1>1. PICK n : n = Last(Activation(t, Accepted))
  OBVIOUS
<1>2. PICK edge : edge = graph[t].target
  OBVIOUS
<1>3. PICK hit : hit = ReverseClosure({edge}, graph)
  OBVIOUS
<1>4. PICK stop : stop = StandingIds(hit, Accepted) \ {<<t, n>>}
  OBVIOUS
<1>5. PICK log : log = SetPhase(t, n, "goal_failed")
  OBVIOUS
<1> DEFINE a == <<t, n>>
           new == [source |-> t, sourceLineage |-> lineage[t],
                   target |-> edge, targetLineage |-> lineage[edge],
                   nth |-> PriorTraversals(t) + 1]
<1>6. /\ In(t, {"in_progress"}, Accepted) /\ edge # NoTask
      /\ attempts' = Supersede(log, stop)
      /\ traversals' = traversals \cup {new}
      /\ UpdateContext(t, c)
      /\ UNCHANGED <<revision, graph, lineage, cancelled>>
  BY <1>1, <1>2, <1>3, <1>4, <1>5 DEF FailWithRepair
<1>7. /\ a \in Ids /\ Live(a) /\ At(a).phase = "in_progress"
      /\ t \in Tasks /\ n \in DOMAIN attempts[t]
  <2>1. a \in Ids /\ Live(a) /\ At(a).phase = "in_progress"
    BY <1>1, <1>6, InIsLive
  <2> QED
    BY <2>1 DEF Ids
<1>8. /\ log \in [Tasks -> Seq(Attempt)]
      /\ \A u \in Tasks : Len(log[u]) = Len(attempts[u])
      /\ \A u \in Tasks : DOMAIN log[u] = DOMAIN attempts[u]
      /\ \A b \in Ids :
           LET x == log[b[1]][b[2]]
           IN  /\ x.lineage = At(b).lineage /\ x.demand = At(b).demand
               /\ x.inputs = At(b).inputs /\ x.worker = At(b).worker
               /\ x.superseded = At(b).superseded
               /\ x.phase = IF b = a THEN "goal_failed" ELSE At(b).phase
  <2>1. TypeOK /\ "goal_failed" \in Phases
    BY DEF IInv, Phases
  <2>2. log = SetPhase(a[1], a[2], "goal_failed")
    BY <1>5
  <2> QED
    BY <1>7, <2>1, <2>2, SetPhaseAt
<1>9. TypeOK
  BY DEF IInv
<1>10. /\ attempts' \in [Tasks -> Seq(Attempt)]
       /\ \A u \in Tasks : Len(attempts'[u]) = Len(attempts[u])
       /\ Ids' = Ids
       /\ \A b \in Ids : /\ At(b)'.lineage = At(b).lineage /\ At(b)'.demand = At(b).demand
                         /\ At(b)'.inputs = At(b).inputs /\ At(b)'.worker = At(b).worker
                         /\ At(b)'.phase = IF b = a THEN "goal_failed" ELSE At(b).phase
                         /\ At(b)'.superseded <=> b \in stop \/ At(b).superseded
  <2>1. /\ attempts' \in [Tasks -> Seq(Attempt)]
        /\ \A u \in Tasks : Len(attempts'[u]) = Len(attempts[u])
        /\ Ids' = Ids
        /\ \A b \in Ids : LET x == log[b[1]][b[2]]
                          IN  /\ At(b)'.lineage = x.lineage /\ At(b)'.demand = x.demand
                              /\ At(b)'.inputs = x.inputs /\ At(b)'.worker = x.worker
                              /\ At(b)'.phase = x.phase
                              /\ At(b)'.superseded <=> b \in stop \/ x.superseded
    BY <1>6, <1>8, <1>9, SupersedeStep
  <2> QED
    BY <1>8, <2>1, ZenonT(60)
<1>11. graph[t] \in Definition /\ edge \in Tasks
  BY <1>2, <1>6 DEF IInv, TypeOK, IsGraph, Definition
<1>12. TypeOK'
  <2>1. new \in Traversal
    BY <1>7, <1>11, CountersAreNumbers DEF Traversal, IInv, TypeOK
  <2>2. IsFiniteSet(traversals') /\ \A x \in traversals' : x \in Traversal
    BY <1>6, <2>1, FS_AddElement DEF IInv, TypeOK
  <2>3. context' \in [Tasks -> [lineage: Nat, text: Contexts \cup {NoContext}]]
    BY <1>6, <1>7, ContextType DEF IInv
  <2> QED
    BY <1>6, <1>10, <2>2, <2>3 DEF IInv, TypeOK, IsGraph, Definition
<1>13. LineagesBounded' /\ GraphClosed'
  BY <1>6, <1>10 DEF IInv, LineagesBounded, GraphClosed
<1>14. /\ edge \in hit
       /\ \A u \in DOMAIN graph, p \in hit : p \in graph[u].needs => u \in hit
  BY <1>3, <1>11, ReverseClosureIsClosed DEF IInv, TypeOK
<1>15. ASSUME NEW b \in Ids, Live(b)'
       PROVE  Live(b) /\ b # a /\ b[1] \notin hit
  <2>1. b = <<b[1], b[2]>> /\ b[1] \in Tasks /\ b[2] \in 1 .. MaxAttempts
    BY IdsAre DEF Ids, IInv
  <2>2. Live(b) /\ b # a /\ b \notin stop
    BY <1>6, <1>10, <1>15 DEF Live
  <2>3. b[2] \in Standing(b[1], Accepted)
    BY <2>2, LiveStands
  <2> QED
    BY <1>4, <2>1, <2>2, <2>3 DEF StandingIds
<1>16. ASSUME NEW b \in Ids', Live(b)'
       PROVE  /\ Live(b)
              /\ graph'[b[1]] = graph[b[1]]
              /\ Demand(b[1])' = Demand(b[1])
              /\ ~IsCancelled(b[1])'
              /\ \A p \in graph[b[1]].needs : \A i :
                   i = At(b).inputs[p] => <<p, i>> \in Ids' /\ LiveAchieved(<<p, i>>)'
  <2>1. b \in Ids /\ Live(b) /\ b[1] \in DOMAIN graph /\ b[1] \notin hit
    BY <1>10, <1>15, <1>16 DEF Live
  <2>2. ~IsCancelled(b[1])'
    BY <1>6, <2>1 DEF IsCancelled, IInv, LiveJoins
  <2>3. Demand(b[1])' = Demand(b[1])
    <3>1. b[1] # edge
      BY <1>14, <2>1
    <3>2. {x \in traversals' : x.target = b[1] /\ x.targetLineage = lineage'[b[1]]}
            = {x \in traversals : x.target = b[1] /\ x.targetLineage = lineage[b[1]]}
      BY <1>6, <3>1
    <3> QED
      BY <3>2 DEF Demand
  <2>4. ASSUME NEW p \in graph[b[1]].needs, NEW i, i = At(b).inputs[p]
        PROVE  <<p, i>> \in Ids' /\ LiveAchieved(<<p, i>>)'
    <3>1. <<p, i>> \in Ids /\ LiveAchieved(<<p, i>>)
      BY <2>1, <2>4, LiveNeeds
    <3>2. p \notin hit
      BY <1>14, <2>1
    <3>3. <<p, i>> \notin stop
      BY <1>4, <3>2 DEF StandingIds
    <3>4. <<p, i>> # a
      BY <1>7, <3>1 DEF LiveAchieved
    <3> QED
      BY <1>6, <1>10, <3>1, <3>3, <3>4 DEF LiveAchieved, Live
  <2> QED
    BY <1>6, <2>1, <2>2, <2>3, <2>4
<1>17. OneInProgressPerWorker'
  <2>1. \A b \in Ids' :
           /\ b \in Ids
           /\ At(b)'.worker = At(b).worker
           /\ Live(b)' => Live(b)
           /\ Live(b)' /\ At(b)'.phase = "in_progress" => At(b).phase = "in_progress"
    BY <1>7, <1>10, <1>15
  <2> QED
    BY <2>1, NoneBegins
<1>18. \A b \in Ids' :
         /\ b \in Ids
         /\ At(b)'.lineage = At(b).lineage /\ At(b)'.demand = At(b).demand
         /\ At(b)'.inputs = At(b).inputs /\ At(b)'.worker = At(b).worker
         /\ ~At(b)'.superseded => ~At(b).superseded
         /\ At(b)'.phase # "cancelled" => At(b).phase # "cancelled"
  BY <1>7, <1>10
<1> QED
  BY <1>12, <1>13, <1>16, <1>17, <1>18, OnlyStops

\* A Task that may be cancelled has no live Attempt but the one it cancels, and
\* none that another live Attempt was started on.
LEMMA CancelKeeps ==
  ASSUME IInv, NEW t \in DOMAIN graph, NEW w,
         NEW c \in Contexts \cup {NoContext}, Cancel(t, w, c)
  PROVE  IInv'
<1>1. PICK n : n = Last(Activation(t, Accepted))
  OBVIOUS
<1>2. PICK own : own = IF In(t, {"in_progress", "blocked"}, Accepted) THEN {<<t, n>>} ELSE {}
  OBVIOUS
<1>3. PICK behind : behind = {a \in ReverseClosure({t}, graph) \X (1 .. MaxAttempts) :
                                Active(a[1]) # {} /\ a[2] = Last(Active(a[1]))} \ own
  OBVIOUS
<1>4. PICK log : log = IF own # {} THEN SetPhase(t, n, "cancelled") ELSE attempts
  OBVIOUS
<1>5. /\ Waiting(t, Accepted) \/ Ready(t, Accepted) \/ own # {}
      /\ cancelled' = cancelled \cup {<<t, lineage[t]>>}
      /\ attempts' = Supersede(log, behind)
      /\ UpdateContext(t, c)
      /\ UNCHANGED <<revision, graph, lineage, traversals>>
  BY <1>1, <1>2, <1>3, <1>4 DEF Cancel
<1>6. TypeOK /\ t \in Tasks
  BY DEF IInv, TypeOK, IsGraph
<1>7. \A a \in own : /\ own = {a} /\ a = <<t, n>> /\ a \in Ids /\ Live(a)
                     /\ At(a).phase \in {"in_progress", "blocked"}
  BY <1>1, <1>2, InIsLive
<1>8. \A a \in Ids : Live(a) /\ a[1] = t => a \in own
  <2> SUFFICES ASSUME NEW a \in Ids, Live(a), a[1] = t
               PROVE  a \in own
    OBVIOUS
  <2>1. Activation(t, Accepted) = {a[2]}
    BY LiveIsTheActivation
  <2>2. Released(t, Accepted)
    BY <2>1 DEF Activation
  <2>3. own # {}
    BY <1>5, <2>1, <2>2 DEF Waiting, Ready
  <2> QED
    BY <1>7, <2>3 DEF IInv, LiveUnique
<1>9. /\ log \in [Tasks -> Seq(Attempt)]
      /\ \A u \in Tasks : Len(log[u]) = Len(attempts[u])
      /\ \A u \in Tasks : DOMAIN log[u] = DOMAIN attempts[u]
      /\ \A b \in Ids :
           LET x == log[b[1]][b[2]]
           IN  /\ x.lineage = At(b).lineage /\ x.demand = At(b).demand
               /\ x.inputs = At(b).inputs /\ x.worker = At(b).worker
               /\ x.superseded = At(b).superseded
               /\ x.phase = IF b \in own THEN "cancelled" ELSE At(b).phase
  <2>1. CASE own = {}
    BY <1>4, <1>6, <2>1 DEF TypeOK, At
  <2>2. CASE own # {}
    <3>1. <<t, n>> \in Ids /\ own = {<<t, n>>}
      BY <1>7, <2>2
    <3>2. "cancelled" \in Phases
      BY DEF Phases
    <3>3. log = SetPhase(<<t, n>>[1], <<t, n>>[2], "cancelled")
      BY <1>4, <2>2
    <3> QED
      BY <1>6, <3>1, <3>2, <3>3, SetPhaseAt
  <2> QED
    BY <2>1, <2>2
<1>10. /\ attempts' \in [Tasks -> Seq(Attempt)]
       /\ \A u \in Tasks : Len(attempts'[u]) = Len(attempts[u])
       /\ Ids' = Ids
       /\ \A b \in Ids : /\ At(b)'.lineage = At(b).lineage /\ At(b)'.demand = At(b).demand
                         /\ At(b)'.inputs = At(b).inputs /\ At(b)'.worker = At(b).worker
                         /\ At(b)'.phase = IF b \in own THEN "cancelled" ELSE At(b).phase
                         /\ At(b)'.superseded <=> b \in behind \/ At(b).superseded
  <2>1. /\ attempts' \in [Tasks -> Seq(Attempt)]
        /\ \A u \in Tasks : Len(attempts'[u]) = Len(attempts[u])
        /\ Ids' = Ids
        /\ \A b \in Ids : LET x == log[b[1]][b[2]]
                          IN  /\ At(b)'.lineage = x.lineage /\ At(b)'.demand = x.demand
                              /\ At(b)'.inputs = x.inputs /\ At(b)'.worker = x.worker
                              /\ At(b)'.phase = x.phase
                              /\ At(b)'.superseded <=> b \in behind \/ x.superseded
    BY <1>5, <1>6, <1>9, SupersedeStep
  <2> QED
    BY <1>9, <2>1
<1>11. TypeOK'
  <2>1. lineage[t] \in Nat
    BY <1>6 DEF TypeOK
  <2>2. \A x \in cancelled' : x \in Tasks \X Nat
    BY <1>5, <1>6, <2>1 DEF TypeOK
  <2>3. context' \in [Tasks -> [lineage: Nat, text: Contexts \cup {NoContext}]]
    BY <1>5, <1>6, ContextType
  <2> QED
    BY <1>5, <1>6, <1>10, <2>2, <2>3 DEF TypeOK, IsGraph, Definition
<1>12. LineagesBounded' /\ GraphClosed'
  BY <1>5, <1>10 DEF IInv, LineagesBounded, GraphClosed
<1>13. ASSUME NEW b \in Ids, Live(b)'
       PROVE  Live(b) /\ b \notin own /\ b[1] # t
  <2>1. Live(b) /\ b \notin own
    BY <1>5, <1>10, <1>13 DEF Live
  <2> QED
    BY <1>8, <2>1
<1>14. ASSUME NEW b \in Ids', Live(b)'
       PROVE  /\ Live(b)
              /\ graph'[b[1]] = graph[b[1]]
              /\ Demand(b[1])' = Demand(b[1])
              /\ ~IsCancelled(b[1])'
              /\ \A p \in graph[b[1]].needs : \A i :
                   i = At(b).inputs[p] => <<p, i>> \in Ids' /\ LiveAchieved(<<p, i>>)'
  <2>1. b \in Ids /\ Live(b) /\ b[1] # t
    BY <1>10, <1>13, <1>14
  <2>2. ~IsCancelled(b[1])'
    BY <1>5, <2>1 DEF IsCancelled, IInv, LiveJoins
  <2>3. Demand(b[1])' = Demand(b[1])
    BY <1>5 DEF Demand
  <2>4. ASSUME NEW p \in graph[b[1]].needs, NEW i, i = At(b).inputs[p]
        PROVE  <<p, i>> \in Ids' /\ LiveAchieved(<<p, i>>)'
    <3>1. <<p, i>> \in Ids /\ LiveAchieved(<<p, i>>)
      BY <2>1, <2>4, LiveNeeds
    <3>2. <<p, i>> \notin own
      BY <1>7, <3>1 DEF LiveAchieved
    <3>3. <<p, i>> \notin behind
      <4> SUFFICES ASSUME <<p, i>> \in behind
                   PROVE  FALSE
        OBVIOUS
      <4>1. Active(p) # {}
        BY <1>3
      <4>2. PICK m : m \in Active(p)
        BY <4>1
      <4>3. p \in Tasks /\ <<p, m>> \in Ids /\ Live(<<p, m>>)
        BY <2>1, <4>2, LiveNeeds, ActiveIsLive
      <4>4. <<p, m>> = <<p, i>>
        BY <3>1, <4>3 DEF LiveAchieved, IInv, LiveUnique
      <4>5. m = i
        BY <4>4
      <4> QED
        BY <3>1, <4>2, <4>5 DEF LiveAchieved, Active, At
    <3> QED
      BY <1>5, <1>10, <3>1, <3>2, <3>3 DEF LiveAchieved, Live
  <2> QED
    BY <1>5, <2>1, <2>2, <2>3, <2>4
<1>15. OneInProgressPerWorker'
  <2>1. \A b \in Ids' :
           /\ b \in Ids
           /\ At(b)'.worker = At(b).worker
           /\ Live(b)' => Live(b)
           /\ Live(b)' /\ At(b)'.phase = "in_progress" => At(b).phase = "in_progress"
    BY <1>10, <1>13
  <2> QED
    BY <2>1, NoneBegins
<1>16. \A b \in Ids' :
         /\ b \in Ids
         /\ At(b)'.lineage = At(b).lineage /\ At(b)'.demand = At(b).demand
         /\ At(b)'.inputs = At(b).inputs /\ At(b)'.worker = At(b).worker
         /\ ~At(b)'.superseded => ~At(b).superseded
         /\ At(b)'.phase # "cancelled" => At(b).phase # "cancelled"
  BY <1>7, <1>10
<1> QED
  BY <1>11, <1>12, <1>14, <1>15, <1>16, OnlyStops

\* A claim starts the only Attempt of its activation, on the accepted Attempts.
LEMMA ClaimKeeps ==
  ASSUME IInv, NEW t \in DOMAIN graph, NEW w \in Workers,
         NEW c \in Contexts \cup {NoContext}, Claim(t, w, c)
  PROVE  IInv'
<1>1. PICK new : new = [lineage |-> lineage[t], demand |-> Demand(t),
                        inputs |-> Inputs(t, Accepted), worker |-> w,
                        phase |-> "in_progress", superseded |-> FALSE]
  OBVIOUS
<1>2. PICK n : n = Len(attempts[t]) + 1
  OBVIOUS
<1> DEFINE a == <<t, n>>
<1>3. /\ Len(attempts[t]) < MaxAttempts /\ w = graph[t].assignee
      /\ Released(t, Accepted) /\ Activation(t, Accepted) = {}
      /\ ~Occupied(w, Accepted)
      /\ attempts' = [attempts EXCEPT ![t] = Append(attempts[t], new)]
      /\ UpdateContext(t, c)
      /\ UNCHANGED <<revision, graph, lineage, cancelled, traversals>>
  BY <1>1 DEF Claim, MayMove, Ready
<1>4. TypeOK /\ t \in Tasks /\ attempts[t] \in Seq(Attempt) /\ n \in 1 .. MaxAttempts
  <2>1. TypeOK /\ t \in Tasks /\ attempts[t] \in Seq(Attempt)
    BY DEF IInv, TypeOK, IsGraph
  <2> QED
    BY <1>2, <1>3, <2>1, ConstantsAssumption
<1>5. \A p \in graph[t].needs :
        /\ p \in Tasks
        /\ AcceptedOf(p, Accepted) \in 1 .. MaxAttempts
        /\ <<p, AcceptedOf(p, Accepted)>> \in Accepted
  BY <1>3, <1>4 DEF Released, AcceptedOf, TypeOK, IsGraph, Definition
<1>6. new \in Attempt
  <2>1. Inputs(t, Accepted) \in [Tasks -> Nat]
    <3>1. \A p \in Tasks : (IF p \in graph[t].needs THEN AcceptedOf(p, Accepted) ELSE 0) \in Nat
      <4> SUFFICES ASSUME NEW p \in Tasks, p \in graph[t].needs
                   PROVE  AcceptedOf(p, Accepted) \in Nat
        OBVIOUS
      <4>1. AcceptedOf(p, Accepted) \in 1 .. MaxAttempts
        BY <1>5
      <4>2. \A i \in 1 .. MaxAttempts : i \in Nat
        BY ConstantsAssumption
      <4> QED
        BY <4>1, <4>2
    <3> QED
      BY <3>1 DEF Inputs
  <2> QED
    BY <1>1, <1>4, <2>1, CountersAreNumbers DEF Attempt, Phases, TypeOK
<1>7. /\ Append(attempts[t], new) \in Seq(Attempt)
      /\ Len(Append(attempts[t], new)) = n
      /\ DOMAIN Append(attempts[t], new) = DOMAIN attempts[t] \cup {n}
      /\ n \notin DOMAIN attempts[t]
      /\ Append(attempts[t], new)[n] = new
      /\ \A m \in DOMAIN attempts[t] : Append(attempts[t], new)[m] = attempts[t][m]
  BY <1>2, <1>4, <1>6, AppendProperties
<1>8. /\ attempts' \in [Tasks -> Seq(Attempt)]
      /\ \A u \in Tasks : Len(attempts'[u]) = IF u = t THEN n ELSE Len(attempts[u])
      /\ Ids' = Ids \cup {a} /\ a \notin Ids
      /\ At(a)' = new
      /\ \A b \in Ids : At(b)' = At(b)
  <2>1. \A u \in Tasks : attempts'[u] = IF u = t THEN Append(attempts[t], new) ELSE attempts[u]
    BY <1>3, <1>4 DEF TypeOK
  <2>2. attempts' \in [Tasks -> Seq(Attempt)]
    BY <1>3, <1>4, <1>7 DEF TypeOK
  <2>3. \A u \in Tasks : Len(attempts'[u]) = IF u = t THEN n ELSE Len(attempts[u])
    BY <1>7, <2>1
  <2>4. Ids' = Ids \cup {a} /\ a \notin Ids
    <3>1. \A b \in Tasks \X (1 .. MaxAttempts) :
            b[2] \in DOMAIN attempts'[b[1]] <=> b[2] \in DOMAIN attempts[b[1]] \/ b = a
      <4> SUFFICES ASSUME NEW b \in Tasks \X (1 .. MaxAttempts)
                   PROVE  b[2] \in DOMAIN attempts'[b[1]] <=> b[2] \in DOMAIN attempts[b[1]] \/ b = a
        OBVIOUS
      <4>1. CASE b[1] = t
        <5>1. b = <<b[1], b[2]>>
          OBVIOUS
        <5>2. DOMAIN attempts'[b[1]] = DOMAIN attempts[b[1]] \cup {n}
          BY <1>4, <1>7, <2>1, <4>1
        <5>3. b[2] = n <=> b = a
          BY <4>1, <5>1
        <5> QED
          BY <5>2, <5>3
      <4>2. CASE b[1] # t
        BY <2>1, <4>2
      <4> QED
        BY <4>1, <4>2
    <3>2. a \in Tasks \X (1 .. MaxAttempts) /\ a[1] = t /\ a[2] = n
      BY <1>4
    <3> QED
      BY <1>7, <3>1, <3>2 DEF Ids
  <2>5. At(a)' = new
    BY <1>4, <1>7, <2>1 DEF At
  <2>6. ASSUME NEW b \in Ids
        PROVE  At(b)' = At(b)
    <3>1. b[1] \in Tasks /\ b[2] \in DOMAIN attempts[b[1]]
      BY <1>4, IdsAre
    <3>2. attempts'[b[1]][b[2]] = attempts[b[1]][b[2]]
      <4>1. CASE b[1] = t
        BY <1>4, <1>7, <2>1, <3>1, <4>1
      <4>2. CASE b[1] # t
        BY <2>1, <3>1, <4>2
      <4> QED
        BY <4>1, <4>2
    <3> QED
      BY <3>2 DEF At
  <2> QED
    BY <2>2, <2>3, <2>4, <2>5, <2>6
<1>9. TypeOK'
  <2>1. context' \in [Tasks -> [lineage: Nat, text: Contexts \cup {NoContext}]]
    BY <1>3, <1>4, ContextType
  <2> QED
    BY <1>3, <1>4, <1>8, <2>1 DEF TypeOK, IsGraph, Definition
<1>10. LineagesBounded'
  <2>1. \A u \in Tasks : lineage'[u] <= revision' /\ Len(attempts'[u]) <= MaxAttempts
    BY <1>3, <1>4, <1>8 DEF IInv, LineagesBounded
  <2>2. \A b \in Ids' : At(b)'.lineage <= revision'
    <3>1. new.lineage <= revision
      BY <1>1, <1>4 DEF IInv, LineagesBounded
    <3>2. \A b \in Ids : At(b).lineage <= revision
      BY DEF IInv, LineagesBounded
    <3> QED
      BY <1>3, <1>8, <3>1, <3>2
  <2> QED
    BY <2>1, <2>2 DEF LineagesBounded
<1>11. GraphClosed'
  BY <1>3 DEF IInv, GraphClosed
<1>12. \A b \in Ids : /\ Live(b)' <=> Live(b)
                      /\ LiveAchieved(b)' <=> LiveAchieved(b)
  BY <1>3, <1>8 DEF Live, LiveAchieved
<1>13. \A u : Demand(u)' = Demand(u) /\ (IsCancelled(u)' <=> IsCancelled(u))
  BY <1>3 DEF Demand, IsCancelled
<1>14. \A b \in Ids : Live(b) => b[1] # t
  BY <1>3, LiveIsTheActivation
<1>15. Accepted = {b \in Ids : LiveAchieved(b)}
  BY AcceptedIsLiveAchieved DEF IInv
<1>16. LiveJoins'
  <2> SUFFICES ASSUME NEW b \in Ids', Live(b)'
               PROVE  /\ At(b)'.demand = Demand(b[1])'
                      /\ ~IsCancelled(b[1])'
                      /\ At(b)'.worker = graph'[b[1]].assignee
                      /\ \A p \in Tasks : \A i :
                           i = At(b)'.inputs[p] =>
                             IF p \in graph'[b[1]].needs
                             THEN <<p, i>> \in Ids' /\ LiveAchieved(<<p, i>>)'
                             ELSE i = 0
    BY DEF LiveJoins
  <2>1. CASE b = a
    <3>1. ~IsCancelled(t)
      BY <1>3 DEF Released
    <3>2. ASSUME NEW p \in Tasks, NEW i, i = new.inputs[p]
          PROVE  IF p \in graph[t].needs
                 THEN <<p, i>> \in Ids' /\ LiveAchieved(<<p, i>>)'
                 ELSE i = 0
      <4>1. i = IF p \in graph[t].needs THEN AcceptedOf(p, Accepted) ELSE 0
        BY <1>1, <3>2 DEF Inputs
      <4>2. p \in graph[t].needs => <<p, i>> \in Ids /\ LiveAchieved(<<p, i>>)
        BY <1>5, <1>15, <4>1
      <4> QED
        BY <1>8, <1>12, <4>1, <4>2
    <3>3. b[1] = t /\ At(b)' = new /\ graph' = graph
      BY <1>3, <1>8, <2>1
    <3>4. /\ At(b)'.demand = Demand(b[1])' /\ ~IsCancelled(b[1])'
          /\ At(b)'.worker = graph'[b[1]].assignee
      BY <1>1, <1>3, <1>13, <3>1, <3>3
    <3> QED
      BY <3>2, <3>3, <3>4
  <2>2. CASE b # a
    <3>1. b \in Ids /\ Live(b) /\ At(b)' = At(b)
      BY <1>8, <1>12, <2>2
    <3>2. ASSUME NEW p \in Tasks, NEW i, i = At(b).inputs[p]
          PROVE  IF p \in graph[b[1]].needs
                 THEN <<p, i>> \in Ids' /\ LiveAchieved(<<p, i>>)'
                 ELSE i = 0
      <4>1. IF p \in graph[b[1]].needs
            THEN <<p, i>> \in Ids /\ LiveAchieved(<<p, i>>)
            ELSE i = 0
        BY <3>1, <3>2 DEF IInv, LiveJoins
      <4> QED
        BY <1>8, <1>12, <4>1
    <3>3. /\ At(b).demand = Demand(b[1]) /\ ~IsCancelled(b[1])
          /\ At(b).worker = graph[b[1]].assignee
      BY <3>1 DEF IInv, LiveJoins
    <3>4. /\ graph' = graph /\ Demand(b[1])' = Demand(b[1])
          /\ (IsCancelled(b[1])' <=> IsCancelled(b[1]))
      BY <1>3, <1>13
    <3>5. At(b)'.demand = Demand(b[1])' /\ ~IsCancelled(b[1])'
          /\ At(b)'.worker = graph'[b[1]].assignee
      BY <3>1, <3>3, <3>4
    <3>6. At(b)'.inputs = At(b).inputs
      BY <3>1
    <3> QED
      BY <3>2, <3>4, <3>5, <3>6
  <2> QED
    BY <2>1, <2>2
<1>17. LiveUnique'
  <2> SUFFICES ASSUME NEW b \in Ids', NEW d \in Ids', Live(b)', Live(d)', b[1] = d[1]
               PROVE  b = d
    BY DEF LiveUnique
  <2>1. CASE b \in Ids /\ d \in Ids
    BY <1>12, <2>1 DEF IInv, LiveUnique
  <2>2. CASE b = a \/ d = a
    BY <1>8, <1>12, <1>14, <2>2
  <2> QED
    BY <1>8, <2>1, <2>2
<1>18. OneAttemptPerActivation'
  <2>1. ASSUME NEW b \in Ids, b[1] = t, ~At(b).superseded, At(b).phase # "cancelled",
               At(b).lineage = new.lineage, At(b).demand = new.demand,
               At(b).inputs = new.inputs
        PROVE  FALSE
    <3>1. Eligible(b)
      BY <1>1, <1>3, <2>1 DEF Eligible, Released
    <3>2. b = <<t, b[2]>> /\ b[2] \in DOMAIN attempts[t]
      BY <1>4, <2>1, IdsAre
    <3>3. b[2] \in Activation(t, Accepted)
      BY <1>1, <1>3, <2>1, <3>1, <3>2 DEF Activation, At
    <3> QED
      BY <1>3, <3>3
  <2> SUFFICES ASSUME NEW b \in Ids', NEW d \in Ids',
                      b[1] = d[1],
                      ~At(b)'.superseded, ~At(d)'.superseded,
                      At(b)'.phase # "cancelled", At(d)'.phase # "cancelled",
                      At(b)'.lineage = At(d)'.lineage, At(b)'.demand = At(d)'.demand,
                      At(b)'.inputs = At(d)'.inputs
               PROVE  b = d
    BY DEF OneAttemptPerActivation
  <2>2. CASE b \in Ids /\ d \in Ids
    BY <1>8, <2>2 DEF IInv, OneAttemptPerActivation
  <2>3. CASE b = a /\ d # a
    BY <1>8, <2>1, <2>3
  <2>4. CASE b # a /\ d = a
    BY <1>8, <2>1, <2>4
  <2> QED
    BY <1>8, <2>2, <2>3, <2>4
<1>19. OneInProgressPerWorker'
  <2> SUFFICES ASSUME NEW b \in Ids', NEW d \in Ids', Live(b)', Live(d)',
                      At(b)'.worker = At(d)'.worker,
                      At(b)'.phase = "in_progress", At(d)'.phase = "in_progress"
               PROVE  b = d
    BY DEF OneInProgressPerWorker
  <2>1. \A e \in Ids : Live(e) /\ At(e).worker = w => At(e).phase # "in_progress"
    BY <1>3, FreeWorker
  <2>2. CASE b \in Ids /\ d \in Ids
    BY <1>8, <1>12, <2>2 DEF IInv, OneInProgressPerWorker
  <2>3. CASE b = a /\ d # a
    BY <1>1, <1>8, <1>12, <2>1, <2>3
  <2>4. CASE b # a /\ d = a
    BY <1>1, <1>8, <1>12, <2>1, <2>4
  <2> QED
    BY <1>8, <2>2, <2>3, <2>4
<1> QED
  BY <1>9, <1>10, <1>11, <1>16, <1>17, <1>18, <1>19 DEF IInv

\* A context alone changes nothing that the invariant speaks of.
LEMMA OnlyContext ==
  ASSUME IInv, UNCHANGED <<revision, graph, lineage, attempts, cancelled, traversals>>,
         context' \in [Tasks -> [lineage: Nat, text: Contexts \cup {NoContext}]]
  PROVE  IInv'
<1>1. TypeOK'
  BY DEF IInv, TypeOK, IsGraph, Definition
<1>2. Ids' = Ids /\ \A a \in Ids : At(a)' = At(a)
  BY DEF Ids, At
<1>3. \A a \in Ids : (Live(a)' <=> Live(a)) /\ (LiveAchieved(a)' <=> LiveAchieved(a))
  BY <1>2 DEF Live, LiveAchieved
<1>4. LineagesBounded' /\ GraphClosed'
  BY <1>2 DEF IInv, LineagesBounded, GraphClosed
<1>5. LiveUnique' /\ OneAttemptPerActivation' /\ OneInProgressPerWorker'
  BY <1>2, <1>3 DEF IInv, LiveUnique, OneAttemptPerActivation, OneInProgressPerWorker
<1>6. ASSUME NEW b \in Ids', Live(b)'
      PROVE  /\ Live(b)
             /\ graph'[b[1]] = graph[b[1]]
             /\ Demand(b[1])' = Demand(b[1])
             /\ ~IsCancelled(b[1])'
             /\ \A p \in graph[b[1]].needs : \A i :
                  i = At(b).inputs[p] => <<p, i>> \in Ids' /\ LiveAchieved(<<p, i>>)'
  <2>1. b \in Ids /\ Live(b)
    BY <1>2, <1>3, <1>6
  <2>2. ~IsCancelled(b[1])'
    BY <2>1 DEF IInv, LiveJoins, IsCancelled
  <2>3. Demand(b[1])' = Demand(b[1])
    BY DEF Demand
  <2>4. ASSUME NEW p \in graph[b[1]].needs, NEW i, i = At(b).inputs[p]
        PROVE  <<p, i>> \in Ids' /\ LiveAchieved(<<p, i>>)'
    BY <1>2, <1>3, <2>1, <2>4, LiveNeeds
  <2> QED
    BY <2>1, <2>2, <2>3, <2>4
<1> QED
  BY <1>1, <1>2, <1>4, <1>5, <1>6, OnlyStops

-----------------------------------------------------------------------------
(* The theorems *)

\* It holds at first.
LEMMA InitKeeps == Init => IInv
<1> SUFFICES ASSUME Init
             PROVE  IInv
  OBVIOUS
<1>1. TypeOK
  <2>1. << >> \in Seq(Attempt)
    BY EmptySeq
  <2>2. DOMAIN graph = {} /\ graph = [t \in DOMAIN graph |-> graph[t]]
    BY DEF Init
  <2>3. IsFiniteSet(traversals)
    BY FS_EmptySet DEF Init
  <2> QED
    BY <2>1, <2>2, <2>3 DEF Init, TypeOK, IsGraph
<1>2. Ids = {}
  <2>1. \A t \in Tasks : DOMAIN attempts[t] = {}
    BY DEF Init
  <2> QED
    BY <2>1 DEF Ids
<1>3. LineagesBounded
  BY <1>2, ConstantsAssumption DEF Init, LineagesBounded
<1>4. GraphClosed
  BY DEF Init, GraphClosed
<1> QED
  BY <1>1, <1>2, <1>3, <1>4
     DEF IInv, LiveJoins, LiveUnique, OneAttemptPerActivation, OneInProgressPerWorker

\* Every step keeps it.
LEMMA NextKeeps == IInv /\ [Next]_vars => IInv'
<1> SUFFICES ASSUME IInv, [Next]_vars
             PROVE  IInv'
  OBVIOUS
<1>1. CASE UNCHANGED vars
  BY <1>1, OnlyContext DEF vars, IInv, TypeOK
<1>2. ASSUME NEW g \in Graphs, ApplyGraph(g)
      PROVE  IInv'
  BY <1>2, ApplyGraphKeeps
<1>3. ASSUME NEW t \in DOMAIN graph, NEW c \in Contexts \cup {NoContext},
             NEW w \in Workers \cup {Leader}
      PROVE  /\ RecordContext(t, c) => IInv'
             /\ Cancel(t, w, c) => IInv'
  <2>1. t \in Tasks
    BY DEF IInv, TypeOK, IsGraph
  <2>2. RecordContext(t, c) => IInv'
    BY <2>1, OnlyContext, ContextType DEF RecordContext, IInv
  <2> QED
    BY <2>2, CancelKeeps
<1>4. ASSUME NEW t \in DOMAIN graph, NEW c \in Contexts \cup {NoContext}, NEW w \in Workers
      PROVE  /\ Claim(t, w, c) => IInv'
             /\ Block(t, w, c) => IInv'
             /\ Resume(t, w, c) => IInv'
             /\ Achieve(t, w, c) => IInv'
             /\ FailWithoutRepair(t, w, c) => IInv'
             /\ FailWithRepair(t, w, c) => IInv'
  <2>1. t \in Tasks /\ TypeOK
    BY DEF IInv, TypeOK, IsGraph
  <2>2. PICK n : n = Last(Activation(t, Accepted))
    OBVIOUS
  <2>3. ASSUME NEW phase \in Phases \ {"cancelled"},
               In(t, {"in_progress"}, Accepted) \/ In(t, {"blocked"}, Accepted),
               attempts' = SetPhase(t, n, phase),
               phase = "in_progress" => ~Occupied(attempts[t][n].worker, Accepted),
               UNCHANGED <<revision, graph, lineage, cancelled, traversals>>,
               UpdateContext(t, c)
        PROVE  IInv'
    <3>1. In(t, {"in_progress", "blocked"}, Accepted)
      BY <2>3 DEF In
    <3>2. context' \in [Tasks -> [lineage: Nat, text: Contexts \cup {NoContext}]]
      BY <2>1, <2>3, ContextType
    <3> QED
      BY <2>2, <2>3, <3>1, <3>2, PhaseMoves
  <2>4. Block(t, w, c) => IInv'
    <3> SUFFICES ASSUME Block(t, w, c)
                 PROVE  IInv'
      OBVIOUS
    <3>1. /\ In(t, {"in_progress"}, Accepted) /\ attempts' = SetPhase(t, n, "blocked")
          /\ UpdateContext(t, c)
          /\ UNCHANGED <<revision, graph, lineage, cancelled, traversals>>
          /\ "blocked" \in Phases \ {"cancelled"}
      BY <2>2 DEF Block, Phases
    <3> QED
      BY <2>3, <3>1
  <2>5. Resume(t, w, c) => IInv'
    <3> SUFFICES ASSUME Resume(t, w, c)
                 PROVE  IInv'
      OBVIOUS
    <3>1. /\ In(t, {"blocked"}, Accepted) /\ attempts' = SetPhase(t, n, "in_progress")
          /\ ~Occupied(w, Accepted)
          /\ UpdateContext(t, c)
          /\ UNCHANGED <<revision, graph, lineage, cancelled, traversals>>
          /\ "in_progress" \in Phases \ {"cancelled"}
      BY <2>2 DEF Resume, Phases
    <3>2. attempts[t][n].worker = w
      BY <2>2 DEF Resume, MayMove, In
    <3> QED
      BY <2>3, <3>1, <3>2
  <2>6. Achieve(t, w, c) => IInv'
    <3> SUFFICES ASSUME Achieve(t, w, c)
                 PROVE  IInv'
      OBVIOUS
    <3>1. /\ In(t, {"in_progress"}, Accepted) /\ attempts' = SetPhase(t, n, "goal_achieved")
          /\ UpdateContext(t, c)
          /\ UNCHANGED <<revision, graph, lineage, cancelled, traversals>>
          /\ "goal_achieved" \in Phases \ {"cancelled"}
      BY <2>2 DEF Achieve, Phases
    <3> QED
      BY <2>3, <3>1
  <2>7. FailWithoutRepair(t, w, c) => IInv'
    <3> SUFFICES ASSUME FailWithoutRepair(t, w, c)
                 PROVE  IInv'
      OBVIOUS
    <3>1. /\ In(t, {"in_progress"}, Accepted)
          /\ UpdateContext(t, c)
          /\ UNCHANGED <<revision, graph, lineage, cancelled, traversals>>
      BY DEF FailWithoutRepair
    <3>2. \/ attempts' = SetPhase(t, n, "goal_failed")
          \/ attempts' = SetPhase(t, n, "exhausted")
      BY <2>2 DEF FailWithoutRepair
    <3>3. {"goal_failed", "exhausted"} \subseteq Phases \ {"cancelled"}
      BY DEF Phases
    <3> QED
      BY <2>3, <3>1, <3>2, <3>3
  <2> QED
    BY <2>4, <2>5, <2>6, <2>7, ClaimKeeps, FailWithRepairKeeps
<1>5. CASE Next
  BY <1>2, <1>3, <1>4, <1>5 DEF Next
<1> QED
  BY <1>1, <1>5

\* The inductive invariant holds of every state of the controller.
THEOREM InductiveInvariant == Spec => []IInv
<1>1. Init => IInv
  BY InitKeeps
<1>2. IInv /\ [Next]_vars => IInv'
  BY NextKeeps
<1> QED
  BY <1>1, <1>2, PTL DEF Spec

\* The folds of the event log keep their types.
THEOREM TypeCorrect == Spec => []TypeOK
<1>1. IInv => TypeOK
  BY DEF IInv
<1> QED
  BY <1>1, InductiveInvariant, PTL

\* claim() and resume() never give a Worker a second Attempt in progress.
THEOREM WorkersDoOneThing == Spec => []OneInProgressPerWorker
<1>1. IInv => OneInProgressPerWorker
  BY DEF IInv
<1> QED
  BY <1>1, InductiveInvariant, PTL

\* No revision, repair or cancellation leaves a Worker on a lost Attempt.
THEOREM NoOrphans == Spec => []NoOrphanedAttempt
<1>1. ASSUME IInv
      PROVE  NoOrphanedAttempt
  <2> SUFFICES ASSUME NEW t \in DOMAIN graph, NEW n \in Active(t)
               PROVE  /\ Activation(t, Accepted) # {}
                      /\ n = Last(Activation(t, Accepted))
    BY DEF NoOrphanedAttempt
  <2>1. t \in Tasks
    BY <1>1 DEF IInv, TypeOK, IsGraph
  <2>2. <<t, n>> \in Ids /\ Live(<<t, n>>)
    BY <1>1, <2>1, ActiveIsLive
  <2> QED
    BY <1>1, <2>2, LiveIsTheActivation
<1> QED
  BY <1>1, InductiveInvariant, PTL

\* An achieved Attempt stays the accepted one until it is superseded.
THEOREM ResultsAreKept == Spec => []AcceptedUntilSuperseded
<1>1. ASSUME IInv
      PROVE  AcceptedUntilSuperseded
  <2>1. Accepted = {a \in Ids : LiveAchieved(a)}
    BY <1>1, AcceptedIsLiveAchieved DEF IInv
  <2> QED
    BY <1>1, <2>1 DEF AcceptedUntilSuperseded, LiveAchieved, IInv, LiveUnique
<1> QED
  BY <1>1, InductiveInvariant, PTL

\* Work in hand, and work done, rests on the results that are accepted now.
THEOREM JoinsAreCurrent == Spec => []JoinsCurrentResults
<1>1. ASSUME IInv
      PROVE  JoinsCurrentResults
  <2>1. Accepted = {a \in Ids : LiveAchieved(a)}
    BY <1>1, AcceptedIsLiveAchieved DEF IInv
  <2> SUFFICES ASSUME NEW a \in Ids, Live(a)
               PROVE  /\ At(a).demand = Demand(a[1])
                      /\ ~IsCancelled(a[1])
                      /\ \A p \in graph[a[1]].needs : <<p, At(a).inputs[p]>> \in Accepted
    BY DEF JoinsCurrentResults
  <2>2. \A p \in graph[a[1]].needs : <<p, At(a).inputs[p]>> \in Accepted
    BY <1>1, <2>1, LiveNeeds
  <2> QED
    BY <1>1, <2>2 DEF IInv, LiveJoins
<1> QED
  BY <1>1, InductiveInvariant, PTL

-----------------------------------------------------------------------------
(* What one step does to the Attempts that there are.                        *)

UnderWay(a) == Live(a) /\ At(a).phase \in {"in_progress", "blocked"}

\* The Attempt is still there, with its meaning and its Worker, and has moved
\* only if it was under way.
AttemptKept(a) ==
  /\ a \in Ids'
  /\ At(a)'.lineage = At(a).lineage /\ At(a)'.worker = At(a).worker
  /\ ~UnderWay(a) => At(a)'.phase = At(a).phase

\* A revision changes the Task or one before it, or a failure edge asks for it
\* or for one before it.
AskedAgain(t) ==
  \/ revision' # revision /\ t \in Affected(graph')
  \/ \E x \in traversals' \ traversals : t \in ReverseClosure({x.target}, graph)

\* An achieved Attempt is superseded for such a reason only.
StopsForAReason(a) ==
  LiveAchieved(a) /\ At(a)'.superseded => AskedAgain(a[1])

\* Every Task of the graph has a lineage, and a traversal has no greater number
\* than there are traversals of its edge.
HistoryInv ==
  /\ \A t \in DOMAIN graph : lineage[t] # 0
  /\ \A x \in traversals :
       x.nth <= Cardinality({y \in traversals :
                               y.source = x.source /\ y.sourceLineage = x.sourceLineage})

\* A step that moves one Attempt under way and supersedes others.
LEMMA MoveAndStop ==
  ASSUME IInv, NEW t \in DOMAIN graph, NEW n, NEW phase \in Phases, NEW stop,
         In(t, {"in_progress", "blocked"}, Accepted),
         n = Last(Activation(t, Accepted)),
         \/ attempts' = Supersede(SetPhase(t, n, phase), stop)
         \/ attempts' = SetPhase(t, n, phase) /\ stop = {}
  PROVE  /\ <<t, n>> \in Ids /\ UnderWay(<<t, n>>)
         /\ \A a \in Ids : AttemptKept(a) /\ (At(a)'.superseded => At(a).superseded \/ a \in stop)
<1> DEFINE own == <<t, n>>
<1>1. PICK log : log = SetPhase(t, n, phase)
  OBVIOUS
<1>2. own \in Ids /\ UnderWay(own)
  BY InIsLive DEF UnderWay
<1>3. TypeOK
  BY DEF IInv
<1>4. /\ log \in [Tasks -> Seq(Attempt)]
      /\ \A u \in Tasks : Len(log[u]) = Len(attempts[u])
      /\ \A u \in Tasks : DOMAIN log[u] = DOMAIN attempts[u]
      /\ \A b \in Ids :
           LET x == log[b[1]][b[2]]
           IN  /\ x.lineage = At(b).lineage /\ x.demand = At(b).demand
               /\ x.inputs = At(b).inputs /\ x.worker = At(b).worker
               /\ x.superseded = At(b).superseded
               /\ x.phase = IF b = own THEN phase ELSE At(b).phase
  <2>1. log = SetPhase(own[1], own[2], phase)
    BY <1>1
  <2> QED
    BY <1>2, <1>3, <2>1, SetPhaseAt
<1>5. CASE attempts' = Supersede(log, stop)
  <2>1. /\ Ids' = Ids
        /\ \A b \in Ids : LET x == log[b[1]][b[2]]
                          IN  /\ At(b)'.lineage = x.lineage /\ At(b)'.demand = x.demand
                              /\ At(b)'.inputs = x.inputs /\ At(b)'.worker = x.worker
                              /\ At(b)'.phase = x.phase
                              /\ At(b)'.superseded <=> b \in stop \/ x.superseded
    BY <1>3, <1>4, <1>5, SupersedeStep
  <2> QED
    BY <1>2, <1>4, <2>1, ZenonT(60) DEF AttemptKept
<1>6. CASE attempts' = log /\ stop = {}
  <2>1. Ids' = Ids
    BY <1>4, <1>6 DEF Ids
  <2>2. \A b \in Ids : At(b)' = log[b[1]][b[2]]
    BY <1>6 DEF At
  <2> QED
    BY <1>2, <1>4, <1>6, <2>1, <2>2 DEF AttemptKept
<1> QED
  BY <1>1, <1>2, <1>5, <1>6

\* A step that leaves the log of Attempts alone.
LEMMA NothingMoves ==
  ASSUME attempts' = attempts, NEW a \in Ids
  PROVE  AttemptKept(a) /\ StopsForAReason(a)
<1>1. Ids' = Ids /\ At(a)' = At(a)
  BY DEF Ids, At
<1> QED
  BY <1>1 DEF AttemptKept, StopsForAReason, LiveAchieved, Live

\* A new Attempt leaves the others alone.
LEMMA ClaimMoves ==
  ASSUME IInv, NEW t \in DOMAIN graph, NEW w \in Workers, NEW c, Claim(t, w, c),
         NEW a \in Ids
  PROVE  AttemptKept(a) /\ StopsForAReason(a)
<1>1. PICK new : attempts' = [attempts EXCEPT ![t] = Append(@, new)]
  BY DEF Claim
<1>2. a = <<a[1], a[2]>> /\ a[1] \in Tasks /\ a[2] \in DOMAIN attempts[a[1]] /\ a[2] \in 1 .. MaxAttempts
  BY IdsAre DEF IInv, Ids
<1>3. attempts \in [Tasks -> Seq(Attempt)] /\ t \in Tasks
  BY DEF IInv, TypeOK, IsGraph
<1>4. attempts'[a[1]] = IF a[1] = t THEN Append(attempts[t], new) ELSE attempts[a[1]]
  BY <1>1, <1>2, <1>3
<1>5. attempts'[a[1]][a[2]] = attempts[a[1]][a[2]] /\ a[2] \in DOMAIN attempts'[a[1]]
  <2>1. CASE a[1] = t
    <3>1. PICK s : s = attempts[t]
      OBVIOUS
    <3>2. s \in Seq(Attempt) /\ a[2] \in 1 .. Len(s)
      BY <1>2, <1>3, <2>1, <3>1
    <3>3. Append(s, new)[a[2]] = s[a[2]] /\ a[2] \in DOMAIN Append(s, new)
      BY <3>2
    <3> QED
      BY <1>4, <2>1, <3>1, <3>3
  <2>2. CASE a[1] # t
    BY <1>2, <1>4, <2>2
  <2> QED
    BY <2>1, <2>2
<1>6. At(a)' = At(a) /\ a \in Ids'
  BY <1>2, <1>5 DEF At, Ids
<1> QED
  BY <1>6 DEF AttemptKept, StopsForAReason, LiveAchieved, Live

\* A revision supersedes what it affects.
LEMMA ApplyGraphMoves ==
  ASSUME IInv, NEW g \in Graphs, ApplyGraph(g), NEW a \in Ids
  PROVE  AttemptKept(a) /\ StopsForAReason(a)
<1>1. PICK hit : hit = Affected(g)
  OBVIOUS
<1>2. PICK stop : stop = StandingIds(hit, Accepted)
  OBVIOUS
<1>3. attempts' = Supersede(attempts, stop) /\ graph' = g /\ revision' = revision + 1 /\ revision \in Nat
  BY <1>1, <1>2 DEF ApplyGraph, IInv, TypeOK
<1>4. /\ Ids' = Ids
      /\ \A b \in Ids : LET x == attempts[b[1]][b[2]]
                        IN  /\ At(b)'.lineage = x.lineage /\ At(b)'.demand = x.demand
                            /\ At(b)'.inputs = x.inputs /\ At(b)'.worker = x.worker
                            /\ At(b)'.phase = x.phase
                            /\ At(b)'.superseded <=> b \in stop \/ x.superseded
  BY <1>3, SupersedeStep DEF IInv, TypeOK
<1>5. AttemptKept(a)
  BY <1>4 DEF AttemptKept, At
<1>6. ASSUME LiveAchieved(a), At(a)'.superseded
      PROVE  AskedAgain(a[1])
  <2>1. a \in stop
    BY <1>4, <1>6 DEF LiveAchieved, Live, At
  <2>2. a[1] \in hit
    BY <1>2, <2>1 DEF StandingIds
  <2> QED
    BY <1>1, <1>3, <2>2 DEF AskedAgain
<1> QED
  BY <1>5, <1>6 DEF StopsForAReason

\* A repair supersedes what is behind its target; its traversal is a new one.
LEMMA FailWithRepairMoves ==
  ASSUME IInv, HistoryInv, NEW t \in DOMAIN graph, NEW w \in Workers, NEW c,
         FailWithRepair(t, w, c), NEW a \in Ids
  PROVE  AttemptKept(a) /\ StopsForAReason(a)
<1>1. PICK n : n = Last(Activation(t, Accepted))
  OBVIOUS
<1>2. PICK edge : edge = graph[t].target
  OBVIOUS
<1>3. PICK hit : hit = ReverseClosure({edge}, graph)
  OBVIOUS
<1>4. PICK stop : stop = StandingIds(hit, Accepted) \ {<<t, n>>}
  OBVIOUS
<1> DEFINE new == [source |-> t, sourceLineage |-> lineage[t],
                   target |-> edge, targetLineage |-> lineage[edge],
                   nth |-> PriorTraversals(t) + 1]
<1>5. /\ In(t, {"in_progress"}, Accepted)
      /\ attempts' = Supersede(SetPhase(t, n, "goal_failed"), stop)
      /\ traversals' = traversals \cup {new}
  BY <1>1, <1>2, <1>3, <1>4 DEF FailWithRepair
<1>6. In(t, {"in_progress", "blocked"}, Accepted)
  BY <1>5 DEF In
<1>7. AttemptKept(a) /\ (At(a)'.superseded => At(a).superseded \/ a \in stop)
  <2>1. "goal_failed" \in Phases
    BY DEF Phases
  <2> QED
    BY <1>1, <1>5, <1>6, <2>1, MoveAndStop
<1>8. new \notin traversals
  <2> SUFFICES ASSUME new \in traversals
               PROVE  FALSE
    OBVIOUS
  <2>1. new.nth <= Cardinality({y \in traversals : y.source = new.source /\ y.sourceLineage = new.sourceLineage})
    BY DEF HistoryInv
  <2>2. PriorTraversals(t) + 1 <= PriorTraversals(t)
    BY <2>1 DEF PriorTraversals
  <2>3. PriorTraversals(t) \in Nat
    BY CountersAreNumbers DEF IInv
  <2> QED
    BY <2>2, <2>3
<1>9. ASSUME LiveAchieved(a), At(a)'.superseded
      PROVE  AskedAgain(a[1])
  <2>1. a \in stop
    BY <1>7, <1>9 DEF LiveAchieved, Live
  <2>2. a[1] \in hit
    BY <1>4, <2>1 DEF StandingIds
  <2>3. new \in traversals' \ traversals /\ new.target = edge
    BY <1>5, <1>8
  <2> QED
    BY <1>3, <2>2, <2>3 DEF AskedAgain
<1> QED
  BY <1>7, <1>9 DEF StopsForAReason

\* A cancellation supersedes only Attempts under way.
LEMMA CancelMoves ==
  ASSUME IInv, NEW t \in DOMAIN graph, NEW w, NEW c, Cancel(t, w, c), NEW a \in Ids
  PROVE  AttemptKept(a) /\ StopsForAReason(a)
<1>1. PICK n : n = Last(Activation(t, Accepted))
  OBVIOUS
<1>2. PICK own : own = IF In(t, {"in_progress", "blocked"}, Accepted) THEN {<<t, n>>} ELSE {}
  OBVIOUS
<1>3. PICK behind : behind = {b \in ReverseClosure({t}, graph) \X (1 .. MaxAttempts) :
                                Active(b[1]) # {} /\ b[2] = Last(Active(b[1]))} \ own
  OBVIOUS
<1>4. attempts' = Supersede(IF own # {} THEN SetPhase(t, n, "cancelled") ELSE attempts, behind)
  BY <1>1, <1>2, <1>3 DEF Cancel
<1>5. AttemptKept(a) /\ (At(a)'.superseded => At(a).superseded \/ a \in behind)
  <2>1. CASE own # {}
    <3>1. In(t, {"in_progress", "blocked"}, Accepted) /\ "cancelled" \in Phases
      BY <1>2, <2>1 DEF Phases
    <3>2. attempts' = Supersede(SetPhase(t, n, "cancelled"), behind)
      BY <1>4, <2>1
    <3> QED
      BY <1>1, <3>1, <3>2, MoveAndStop
  <2>2. CASE own = {}
    <3>1. attempts' = Supersede(attempts, behind)
      BY <1>4, <2>2
    <3>2. /\ Ids' = Ids
          /\ \A b \in Ids : LET x == attempts[b[1]][b[2]]
                            IN  /\ At(b)'.lineage = x.lineage /\ At(b)'.demand = x.demand
                                /\ At(b)'.inputs = x.inputs /\ At(b)'.worker = x.worker
                                /\ At(b)'.phase = x.phase
                                /\ At(b)'.superseded <=> b \in behind \/ x.superseded
      BY <3>1, SupersedeStep DEF IInv, TypeOK
    <3> QED
      BY <3>2 DEF AttemptKept, At
  <2> QED
    BY <2>1, <2>2
<1>6. ASSUME LiveAchieved(a), At(a)'.superseded
      PROVE  FALSE
  <2>1. a \in behind
    BY <1>5, <1>6 DEF LiveAchieved, Live
  <2>2. Active(a[1]) # {} /\ a[2] = Last(Active(a[1]))
    BY <1>3, <2>1
  <2>3. a = <<a[1], a[2]>> /\ a[1] \in Tasks
    BY IdsAre DEF IInv
  <2>4. PICK m : m \in Active(a[1])
    BY <2>2
  <2>5. \A k \in Active(a[1]) : k = m
    <3> SUFFICES ASSUME NEW k \in Active(a[1])
                 PROVE  k = m
      OBVIOUS
    <3>1. /\ <<a[1], k>> \in Ids /\ Live(<<a[1], k>>)
          /\ <<a[1], m>> \in Ids /\ Live(<<a[1], m>>)
      BY <2>3, <2>4, ActiveIsLive
    <3> QED
      BY <3>1 DEF IInv, LiveUnique
  <2>6. Active(a[1]) = {m} /\ m \in Nat
    <3>1. <<a[1], m>> \in Ids
      BY <2>3, <2>4, ActiveIsLive
    <3> QED
      BY <2>4, <2>5, <3>1 DEF Ids
  <2>7. a[2] = m
    BY <2>2, <2>6, LastOfOne
  <2>8. attempts[a[1]][a[2]].phase \in {"in_progress", "blocked"}
    BY <2>4, <2>7 DEF Active
  <2> QED
    BY <1>6, <2>8 DEF LiveAchieved, At
<1> QED
  BY <1>5, <1>6 DEF StopsForAReason

\* Every step keeps every Attempt, and supersedes a result for a reason.
LEMMA NextMoves ==
  ASSUME IInv, HistoryInv, [Next]_vars, NEW a \in Ids
  PROVE  AttemptKept(a) /\ StopsForAReason(a)
<1>1. CASE UNCHANGED vars
  BY <1>1, NothingMoves DEF vars
<1>2. ASSUME NEW g \in Graphs, ApplyGraph(g)
      PROVE  AttemptKept(a) /\ StopsForAReason(a)
  BY <1>2, ApplyGraphMoves
<1>3. ASSUME NEW t \in DOMAIN graph, NEW c, NEW phase \in Phases, NEW n,
             n = Last(Activation(t, Accepted)),
             In(t, {"in_progress"}, Accepted) \/ In(t, {"blocked"}, Accepted),
             attempts' = SetPhase(t, n, phase)
      PROVE  AttemptKept(a) /\ StopsForAReason(a)
  <2>1. In(t, {"in_progress", "blocked"}, Accepted)
    BY <1>3 DEF In
  <2>2. PICK stop : stop = {}
    OBVIOUS
  <2>3. AttemptKept(a) /\ (At(a)'.superseded => At(a).superseded \/ a \in stop)
    BY <1>3, <2>1, <2>2, MoveAndStop
  <2> QED
    BY <2>2, <2>3 DEF StopsForAReason, LiveAchieved, Live
<1>4. ASSUME NEW t \in DOMAIN graph, NEW c, NEW w
      PROVE  /\ RecordContext(t, c) => AttemptKept(a) /\ StopsForAReason(a)
             /\ Cancel(t, w, c) => AttemptKept(a) /\ StopsForAReason(a)
             /\ Block(t, w, c) => AttemptKept(a) /\ StopsForAReason(a)
             /\ Resume(t, w, c) => AttemptKept(a) /\ StopsForAReason(a)
             /\ Achieve(t, w, c) => AttemptKept(a) /\ StopsForAReason(a)
             /\ FailWithoutRepair(t, w, c) => AttemptKept(a) /\ StopsForAReason(a)
  <2>1. PICK n : n = Last(Activation(t, Accepted))
    OBVIOUS
  <2>2. {"blocked", "in_progress", "goal_achieved", "goal_failed", "exhausted"} \subseteq Phases
    BY DEF Phases
  <2>3. RecordContext(t, c) => AttemptKept(a) /\ StopsForAReason(a)
    BY NothingMoves DEF RecordContext
  <2>4. Cancel(t, w, c) => AttemptKept(a) /\ StopsForAReason(a)
    BY CancelMoves
  <2>5. /\ Block(t, w, c) =>
             In(t, {"in_progress"}, Accepted) /\ attempts' = SetPhase(t, n, "blocked")
        /\ Resume(t, w, c) =>
             In(t, {"blocked"}, Accepted) /\ attempts' = SetPhase(t, n, "in_progress")
        /\ Achieve(t, w, c) =>
             In(t, {"in_progress"}, Accepted) /\ attempts' = SetPhase(t, n, "goal_achieved")
        /\ FailWithoutRepair(t, w, c) =>
             /\ In(t, {"in_progress"}, Accepted)
             /\ \/ attempts' = SetPhase(t, n, "goal_failed")
                \/ attempts' = SetPhase(t, n, "exhausted")
    BY <2>1 DEF Block, Resume, Achieve, FailWithoutRepair
  <2> QED
    BY <1>3, <2>1, <2>2, <2>3, <2>4, <2>5
<1>5. CASE Next
  BY <1>2, <1>4, <1>5, ClaimMoves, FailWithRepairMoves DEF Next
<1> QED
  BY <1>1, <1>5

\* The lineages and the numbers of traversals stay what they are.
LEMMA HistoryKeeps == IInv /\ HistoryInv /\ [Next]_vars => HistoryInv'
<1> SUFFICES ASSUME IInv, HistoryInv, [Next]_vars
             PROVE  HistoryInv'
  OBVIOUS
<1>1. ASSUME UNCHANGED <<graph, lineage, traversals>>
      PROVE  HistoryInv'
  BY <1>1 DEF HistoryInv
<1>2. ASSUME NEW g \in Graphs, ApplyGraph(g)
      PROVE  HistoryInv'
  <2>1. \A t \in DOMAIN graph' : lineage'[t] # 0
    <3> SUFFICES ASSUME NEW t \in DOMAIN graph'
                 PROVE  lineage'[t] # 0
      OBVIOUS
    <3>1. t \in Tasks /\ graph' = g /\ lineage' = NextLineage(g)
      BY <1>2, ConstantsAssumption DEF ApplyGraph, IsGraph
    <3>2. revision \in Nat
      BY DEF IInv, TypeOK
    <3> QED
      BY <3>1, <3>2 DEF NextLineage, HistoryInv
  <2>2. traversals' = traversals
    BY <1>2 DEF ApplyGraph
  <2> QED
    BY <2>1, <2>2 DEF HistoryInv
<1>3. ASSUME NEW t \in DOMAIN graph, NEW w \in Workers, NEW c, FailWithRepair(t, w, c)
      PROVE  HistoryInv'
  <2>0. PICK new : new = [source |-> t, sourceLineage |-> lineage[t],
                          target |-> graph[t].target, targetLineage |-> lineage[graph[t].target],
                          nth |-> PriorTraversals(t) + 1]
    OBVIOUS
  <2>1. /\ traversals' = traversals \cup {new}
        /\ new.source = t /\ new.sourceLineage = lineage[t]
        /\ new.nth = PriorTraversals(t) + 1
    BY <1>3, <2>0 DEF FailWithRepair
  <2>2. UNCHANGED <<graph, lineage>>
    BY <1>3 DEF FailWithRepair
  <2> DEFINE Same(X, x) == {y \in X : y.source = x.source /\ y.sourceLineage = x.sourceLineage}
  <2>3. \A x : /\ IsFiniteSet(Same(traversals, x)) /\ Cardinality(Same(traversals, x)) \in Nat
               /\ Cardinality(Same(traversals, x)) <= Cardinality(Same(traversals', x))
    <3>1. IsFiniteSet(traversals) /\ IsFiniteSet(traversals')
      BY <2>1, FS_AddElement DEF IInv, TypeOK
    <3> TAKE x
    <3>2. IsFiniteSet(Same(traversals, x)) /\ IsFiniteSet(Same(traversals', x))
      BY <3>1, FS_Subset
    <3>3. Same(traversals, x) \subseteq Same(traversals', x)
      BY <2>1
    <3> QED
      BY <3>2, <3>3, FS_Subset, FS_CardinalityType
  <2>4. \A x \in traversals : x.nth <= Cardinality(Same(traversals', x))
    <3> SUFFICES ASSUME NEW x \in traversals
                 PROVE  x.nth <= Cardinality(Same(traversals', x))
      OBVIOUS
    <3>1. x.nth <= Cardinality(Same(traversals, x))
      BY DEF HistoryInv
    <3>2. x.nth \in Nat
      BY DEF IInv, TypeOK, Traversal
    <3>3. Cardinality(Same(traversals', x)) \in Nat
      <4>1. IsFiniteSet(traversals')
        BY <2>1, FS_AddElement DEF IInv, TypeOK
      <4> QED
        BY <4>1, FS_Subset, FS_CardinalityType
    <3> HIDE DEF Same
    <3> QED
      BY <2>3, <3>1, <3>2, <3>3
  <2>5. new \notin traversals => new.nth <= Cardinality(Same(traversals', new))
    <3>1. Same(traversals, new) = {y \in traversals : y.source = t /\ y.sourceLineage = lineage[t]}
      BY <2>1
    <3>2. Cardinality(Same(traversals, new)) = PriorTraversals(t)
      BY <3>1 DEF PriorTraversals
    <3>3. Same(traversals', new) = Same(traversals, new) \cup {new}
      BY <2>1
    <3>4. new \notin traversals => new \notin Same(traversals, new)
      OBVIOUS
    <3>5. new \notin traversals =>
            Cardinality(Same(traversals', new)) = Cardinality(Same(traversals, new)) + 1
      BY <2>3, <3>3, <3>4, FS_AddElement
    <3>6. PriorTraversals(t) \in Nat
      BY CountersAreNumbers DEF IInv
    <3> HIDE DEF Same
    <3> QED
      BY <2>1, <3>2, <3>5, <3>6
  <2>6. \A x \in traversals' : x.nth <= Cardinality(Same(traversals', x))
    BY <2>1, <2>4, <2>5
  <2> QED
    BY <2>2, <2>6 DEF HistoryInv
<1>4. ASSUME NEW t \in DOMAIN graph, NEW c, NEW w
      PROVE  /\ RecordContext(t, c) => HistoryInv'
             /\ Cancel(t, w, c) => HistoryInv'
             /\ Claim(t, w, c) => HistoryInv'
             /\ Block(t, w, c) => HistoryInv'
             /\ Resume(t, w, c) => HistoryInv'
             /\ Achieve(t, w, c) => HistoryInv'
             /\ FailWithoutRepair(t, w, c) => HistoryInv'
  BY <1>1 DEF RecordContext, Cancel, Claim, Block, Resume, Achieve, FailWithoutRepair
<1>5. CASE UNCHANGED vars
  BY <1>1, <1>5 DEF vars
<1>6. CASE Next
  BY <1>2, <1>3, <1>4, <1>6 DEF Next
<1> QED
  BY <1>5, <1>6

\* Lineages and traversals are counted as they are made (applyGraph,
\* failure_edge_traversed).
THEOREM HistoryHolds == Spec => []HistoryInv
<1>1. Init => HistoryInv
  BY DEF Init, HistoryInv
<1> QED
  BY <1>1, HistoryKeeps, InductiveInvariant, PTL DEF Spec

\* A late command revives nothing: an Attempt that is settled, or whose Task has
\* another meaning now, never moves again, whatever happens to its Task
\* (complete, block, resume, applyGraph).
THEOREM SettledStay == Spec => SettledAttemptsStay
<1> DEFINE Stays ==
      \A a \in Ids :
        At(a).superseded \/ At(a).phase \notin {"in_progress", "blocked"}
          \/ a[1] \notin DOMAIN graph \/ At(a).lineage # lineage[a[1]]
        => /\ attempts'[a[1]][a[2]].phase = At(a).phase
           /\ attempts'[a[1]][a[2]].worker = At(a).worker
<1>1. IInv /\ HistoryInv /\ [Next]_vars => [Stays]_vars
  <2> SUFFICES ASSUME IInv, HistoryInv, [Next]_vars, NEW a \in Ids,
                      \/ At(a).superseded \/ At(a).phase \notin {"in_progress", "blocked"}
                      \/ a[1] \notin DOMAIN graph \/ At(a).lineage # lineage[a[1]]
               PROVE  /\ attempts'[a[1]][a[2]].phase = At(a).phase
                      /\ attempts'[a[1]][a[2]].worker = At(a).worker
    OBVIOUS
  <2>1. AttemptKept(a) /\ ~UnderWay(a)
    BY NextMoves DEF UnderWay, Live
  <2>2. At(a)' = attempts'[a[1]][a[2]]
    BY DEF At
  <2> QED
    BY <2>1, <2>2 DEF AttemptKept
<1> QED
  BY <1>1, InductiveInvariant, HistoryHolds, PTL DEF Spec, SettledAttemptsStay

\* What is behind a Task in the graph has the Task before it.
LEMMA BehindIsAfter ==
  ASSUME IInv, NEW e \in Tasks, NEW t \in ReverseClosure({e}, graph), t \in DOMAIN graph
  PROVE  e \in {t} \cup Ancestors(t, graph)
<1> DEFINE S == {u \in Tasks : u = e \/ (u \in DOMAIN graph /\ e \in Ancestors(u, graph))}
<1>1. ASSUME NEW u \in DOMAIN graph, NEW p \in graph[u].needs, p \in S
      PROVE  u \in S
  <2>1. u \in Tasks
    BY DEF IInv, TypeOK, IsGraph
  <2>2. ASSUME NEW X \in SUBSET Tasks, graph[u].needs \subseteq X,
               \A v \in X \cap DOMAIN graph : graph[v].needs \subseteq X
        PROVE  e \in X
    <3>1. p \in X
      BY <2>2
    <3>2. CASE p = e
      BY <3>1, <3>2
    <3>3. CASE p \in DOMAIN graph /\ e \in Ancestors(p, graph)
      <4>1. graph[p].needs \subseteq X
        BY <2>2, <3>1, <3>3
      <4> QED
        BY <2>2, <3>3, <4>1 DEF Ancestors
    <3> QED
      BY <1>1, <3>2, <3>3
  <2> QED
    BY <2>1, <2>2 DEF Ancestors
<1>2. {e} \subseteq S /\ \A u \in DOMAIN graph : graph[u].needs \cap S # {} => u \in S
  BY <1>1
<1>3. S \in SUBSET Tasks
  OBVIOUS
<1>4. t \in S
  <2> HIDE DEF S
  <2> QED
    BY <1>2, <1>3 DEF ReverseClosure
<1> QED
  BY <1>4

\* A result is lost only when a revision changes its Task or one before it, or
\* when a failure edge asks for it or for one before it, never by a claim, a
\* cancellation or a late command elsewhere (applyGraph, complete).
THEOREM ResultsAreStable == Spec => AchievedIsStable
<1> DEFINE AcceptedAre == Accepted = {a \in Ids : LiveAchieved(a)}
           Stable ==
             \A t \in DOMAIN graph :
               IsAccepted(t) =>
                 \/ IsAccepted(t)'
                 \/ revision' # revision /\ t \in Affected(graph')
                 \/ \E x \in traversals' \ traversals : x.target \in {t} \cup Ancestors(t, graph)
<1>1. IInv => AcceptedAre
  BY AcceptedIsLiveAchieved DEF IInv
<1>2. IInv /\ HistoryInv /\ AcceptedAre /\ IInv' /\ AcceptedAre' /\ [Next]_vars => [Stable]_vars
  <2>0. ASSUME IInv, IInv', NEW t \in DOMAIN graph, AskedAgain(t)
        PROVE  \/ revision' # revision /\ t \in Affected(graph')
               \/ \E x \in traversals' \ traversals : x.target \in {t} \cup Ancestors(t, graph)
    <3>1. \A x \in traversals' : x.target \in Tasks
      BY <2>0 DEF IInv, TypeOK, Traversal
    <3> QED
      BY <2>0, <3>1, BehindIsAfter DEF AskedAgain
  <2> SUFFICES ASSUME IInv, HistoryInv, AcceptedAre, IInv', AcceptedAre', [Next]_vars,
                      NEW t \in DOMAIN graph, IsAccepted(t), ~AskedAgain(t)
               PROVE  \/ IsAccepted(t)'
                      \/ revision' # revision /\ t \in Affected(graph')
                      \/ \E x \in traversals' \ traversals : x.target \in {t} \cup Ancestors(t, graph)
    BY <2>0
  <2>1. PICK n \in 1 .. MaxAttempts : <<t, n>> \in Accepted
    BY DEF IsAccepted
  <2>2. PICK a : a = <<t, n>>
    OBVIOUS
  <2>3. a \in Ids /\ LiveAchieved(a) /\ a[1] = t
    BY <2>1, <2>2
  <2>4. AttemptKept(a) /\ StopsForAReason(a)
    BY <2>3, NextMoves
  <2>5. a \in Ids' /\ At(a)'.phase = "goal_achieved" /\ ~At(a)'.superseded /\ At(a)'.lineage = lineage[t]
    BY <2>3, <2>4 DEF AttemptKept, StopsForAReason, LiveAchieved, UnderWay, Live
  <2>6. t \in DOMAIN graph' /\ lineage'[t] = lineage[t]
    <3>1. CASE UNCHANGED <<graph, lineage>>
      BY <3>1
    <3>2. ASSUME NEW g \in Graphs, ApplyGraph(g)
          PROVE  t \in DOMAIN graph' /\ lineage'[t] = lineage[t]
      <4>1. /\ graph' = g /\ lineage' = NextLineage(g) /\ revision' = revision + 1
            /\ revision \in Nat /\ IsGraph(g) /\ IsGraph(graph) /\ t \in Tasks
        BY <3>2, ConstantsAssumption DEF ApplyGraph, IInv, TypeOK, IsGraph
      <4>2. t \notin Affected(g)
        BY <4>1 DEF AskedAgain
      <4>3. PICK changed : changed = {u \in DOMAIN graph \cup DOMAIN g : NextLineage(g)[u] # lineage[u]}
        OBVIOUS
      <4>4. changed \in SUBSET Tasks
        BY <4>1, <4>3 DEF IsGraph
      <4>5. changed \subseteq Affected(g)
        BY <4>1, <4>3, <4>4, ReverseClosureIsClosed DEF Affected
      <4>6. NextLineage(g)[t] = lineage[t]
        BY <4>2, <4>3, <4>5
      <4>7. t \in DOMAIN g
        BY <4>1, <4>6 DEF NextLineage, HistoryInv
      <4> QED
        BY <4>1, <4>6, <4>7
    <3>3. ASSUME NEW u \in DOMAIN graph, NEW c, NEW w
          PROVE  /\ RecordContext(u, c) => UNCHANGED <<graph, lineage>>
                 /\ Cancel(u, w, c) => UNCHANGED <<graph, lineage>>
                 /\ Claim(u, w, c) => UNCHANGED <<graph, lineage>>
                 /\ Block(u, w, c) => UNCHANGED <<graph, lineage>>
                 /\ Resume(u, w, c) => UNCHANGED <<graph, lineage>>
                 /\ Achieve(u, w, c) => UNCHANGED <<graph, lineage>>
                 /\ FailWithoutRepair(u, w, c) => UNCHANGED <<graph, lineage>>
                 /\ FailWithRepair(u, w, c) => UNCHANGED <<graph, lineage>>
      BY DEF RecordContext, Cancel, Claim, Block, Resume, Achieve, FailWithoutRepair, FailWithRepair
    <3>4. CASE UNCHANGED vars
      BY <3>1, <3>4 DEF vars
    <3>5. CASE Next
      <4>1. (\E g \in Graphs : ApplyGraph(g)) \/ UNCHANGED <<graph, lineage>>
        BY <3>3, <3>5 DEF Next
      <4> QED
        BY <3>1, <3>2, <4>1
    <3> QED
      BY <3>4, <3>5
  <2>7. LiveAchieved(a)'
    BY <2>3, <2>5, <2>6 DEF LiveAchieved, Live
  <2>8. <<t, n>> \in Accepted'
    BY <2>2, <2>5, <2>7
  <2> QED
    BY <2>1, <2>8 DEF IsAccepted
<1> HIDE DEF AcceptedAre
<1> QED
  BY <1>1, <1>2, InductiveInvariant, HistoryHolds, PTL DEF Spec, AchievedIsStable, Stable

-----------------------------------------------------------------------------
(* A plan never waits for nothing.                                           *)

\* No Task is before itself (normalizeAndValidate).
Acyclic == \A t \in DOMAIN graph : t \notin Ancestors(t, graph)

\* Every graph that is applied is acyclic (applyGraph).
THEOREM GraphsAreAcyclic == Spec => []Acyclic
<1>1. Init => Acyclic
  BY DEF Init, Acyclic
<1>2. Acyclic /\ [Next]_vars => Acyclic'
  <2> SUFFICES ASSUME Acyclic, [Next]_vars
               PROVE  Acyclic'
    OBVIOUS
  <2>1. CASE UNCHANGED graph
    BY <2>1 DEF Acyclic
  <2>2. ASSUME NEW g \in Graphs, ApplyGraph(g)
        PROVE  Acyclic'
    BY <2>2 DEF ApplyGraph, ValidGraph, Acyclic
  <2>3. (\E g \in Graphs : ApplyGraph(g)) \/ UNCHANGED graph
    <3>1. ASSUME NEW t, NEW w, NEW c
          PROVE  /\ RecordContext(t, c) => UNCHANGED graph
                 /\ Cancel(t, w, c) => UNCHANGED graph
                 /\ Claim(t, w, c) => UNCHANGED graph
                 /\ Block(t, w, c) => UNCHANGED graph
                 /\ Resume(t, w, c) => UNCHANGED graph
                 /\ Achieve(t, w, c) => UNCHANGED graph
                 /\ FailWithoutRepair(t, w, c) => UNCHANGED graph
                 /\ FailWithRepair(t, w, c) => UNCHANGED graph
      BY DEF RecordContext, Cancel, Claim, Block, Resume, Achieve, FailWithoutRepair, FailWithRepair
    <3>2. Next \/ UNCHANGED graph
      BY DEF vars
    <3> QED
      BY <3>1, <3>2 DEF Next
  <2> QED
    BY <2>1, <2>2, <2>3
<1> QED
  BY <1>1, <1>2, PTL DEF Spec

\* The Tasks before a Task that is before t are before t.
LEMMA BeforeIsBefore ==
  ASSUME IInv, NEW t \in DOMAIN graph
  PROVE  /\ graph[t].needs \subseteq Ancestors(t, graph)
         /\ Ancestors(t, graph) \subseteq DOMAIN graph
         /\ \A u \in Ancestors(t, graph) :
              graph[u].needs \subseteq Ancestors(t, graph)
         /\ \A u \in graph[t].needs : Ancestors(u, graph) \subseteq Ancestors(t, graph)
<1>1. graph[t].needs \subseteq DOMAIN graph /\ DOMAIN graph \subseteq Tasks
      /\ \A v \in DOMAIN graph : graph[v].needs \subseteq DOMAIN graph
  BY DEF IInv, TypeOK, IsGraph, GraphClosed
<1>2. graph[t].needs \subseteq Ancestors(t, graph)
  BY <1>1 DEF Ancestors
<1>3. Ancestors(t, graph) \subseteq DOMAIN graph
  <2>1. DOMAIN graph \in SUBSET Tasks
    BY <1>1
  <2> QED
    BY <1>1, <2>1 DEF Ancestors
<1>4. ASSUME NEW u \in Ancestors(t, graph), NEW p \in graph[u].needs
      PROVE  p \in Ancestors(t, graph)
  <2>1. u \in DOMAIN graph /\ p \in Tasks
    BY <1>1, <1>3
  <2> QED
    BY <2>1 DEF Ancestors
<1>5. ASSUME NEW u \in graph[t].needs, NEW p \in Ancestors(u, graph)
      PROVE  p \in Ancestors(t, graph)
  <2>1. u \in DOMAIN graph /\ p \in Tasks
    BY <1>1 DEF Ancestors
  <2> SUFFICES ASSUME NEW S \in SUBSET Tasks, graph[t].needs \subseteq S,
                      \A v \in S \cap DOMAIN graph : graph[v].needs \subseteq S
               PROVE  p \in S
    BY <2>1 DEF Ancestors
  <2>2. graph[u].needs \subseteq S
    BY <2>1
  <2> QED
    BY <2>2 DEF Ancestors
<1> QED
  BY <1>2, <1>3, <1>4, <1>5

\* In an acyclic graph a set of Tasks has one that needs none of the set: one
\* with the least ancestors.
LEMMA FirstOfSet ==
  ASSUME IInv, Acyclic, NEW B \in SUBSET DOMAIN graph, B # {}
  PROVE  \E u \in B : graph[u].needs \cap B = {}
<1> DEFINE T == {Ancestors(u, graph) : u \in B}
<1>1. IsWellFoundedOn(StrictSubsetOrdering(Tasks), SUBSET Tasks)
  BY ConstantsAssumption, FS_StrictSubsetOrderingWellFounded, FS_FiniteSubsetsOfFinite
<1>2. T \subseteq SUBSET Tasks /\ T # {}
  <2>1. \A u : Ancestors(u, graph) \in SUBSET Tasks
    BY DEF Ancestors
  <2> QED
    BY <2>1
<1>3. PICK X \in T : \A Y \in T : <<Y, X>> \notin StrictSubsetOrdering(Tasks)
  <2> HIDE DEF T
  <2> QED
    BY <1>1, <1>2, WFMin
<1>4. PICK u \in B : X = Ancestors(u, graph)
  BY <1>3
<1>5. ASSUME NEW p \in graph[u].needs, p \in B
      PROVE  FALSE
  <2>1. Ancestors(p, graph) \subseteq X /\ p \in X
    BY <1>4, <1>5, BeforeIsBefore
  <2>2. p \notin Ancestors(p, graph)
    BY <1>5 DEF Acyclic
  <2>3. Ancestors(p, graph) \in T /\ Ancestors(p, graph) \in SUBSET Tasks /\ X \in SUBSET Tasks
    BY <1>2, <1>5
  <2>4. <<Ancestors(p, graph), X>> \in StrictSubsetOrdering(Tasks)
    BY <2>1, <2>2, <2>3 DEF StrictSubsetOrdering
  <2> QED
    BY <1>3, <2>3, <2>4
<1> QED
  BY <1>5

\* A released Task is ready, under way, failed or achieved.
LEMMA ReleasedMoves ==
  ASSUME IInv, NEW u \in DOMAIN graph, Released(u, Accepted),
         ~Ready(u, Accepted), ~Failed(u, Accepted),
         ~In(u, {"in_progress", "blocked"}, Accepted)
  PROVE  IsAccepted(u)
<1>1. PICK n : n \in Activation(u, Accepted)
  BY DEF Ready
<1>2. <<u, n>> \in Ids /\ Last(Activation(u, Accepted)) = n
  BY <1>1, ActivationIsOne
<1>3. Eligible(<<u, n>>) /\ attempts[u][n] = At(<<u, n>>)
  BY <1>1 DEF Activation, At
<1>4. At(<<u, n>>).phase \in Phases
  BY <1>2, IdsAre DEF IInv, Attempt
<1>5. At(<<u, n>>).phase = "goal_achieved"
  BY <1>1, <1>2, <1>3, <1>4 DEF Failed, In, Phases, Eligible
<1>6. <<u, n>> \in Accepted
  <2>1. LiveAchieved(<<u, n>>)
    BY <1>3, <1>5 DEF LiveAchieved, Live, Eligible
  <2> QED
    BY <1>2, <2>1, AcceptedIsLiveAchieved DEF IInv
<1> QED
  BY <1>2, <1>6 DEF IsAccepted, Ids

\* Before a Task that waits there is one that a Worker can take up or is at:
\* no revision, repair, cancellation or failure leaves a plan that waits for
\* nothing (derive).
THEOREM PlansNeverWedge == Spec => []WaitsForSomeone
<1>1. ASSUME IInv, Acyclic
      PROVE  WaitsForSomeone
  <2> SUFFICES ASSUME NEW t \in DOMAIN graph, Waiting(t, Accepted),
                      \A u \in Ancestors(t, graph) :
                        /\ ~Ready(u, Accepted)
                        /\ ~In(u, {"in_progress", "blocked"}, Accepted)
               PROVE  FALSE
    BY DEF WaitsForSomeone
  <2> DEFINE B == {u \in Ancestors(t, graph) : ~IsAccepted(u)}
  <2>1. /\ graph[t].needs \subseteq Ancestors(t, graph)
        /\ Ancestors(t, graph) \subseteq DOMAIN graph
        /\ \A u \in Ancestors(t, graph) : graph[u].needs \subseteq Ancestors(t, graph)
    BY <1>1, BeforeIsBefore
  <2>2. \A u \in Ancestors(t, graph) : ~IsCancelled(u) /\ ~Failed(u, Accepted)
    BY DEF Waiting, DependencyFailed
  <2>3. B # {}
    <3>1. ~Released(t, Accepted) /\ ~IsCancelled(t)
      BY DEF Waiting
    <3>2. PICK p \in graph[t].needs : ~IsAccepted(p)
      BY <3>1 DEF Released, IsAccepted
    <3> QED
      BY <2>1, <3>2
  <2>4. PICK u \in B : graph[u].needs \cap B = {}
    <3>1. B \in SUBSET DOMAIN graph
      BY <2>1
    <3> HIDE DEF B
    <3> QED
      BY <1>1, <2>3, <3>1, FirstOfSet
  <2>5. Released(u, Accepted)
    BY <2>1, <2>2, <2>4 DEF Released, IsAccepted
  <2>6. u \in DOMAIN graph
    BY <2>1
  <2>7. IsAccepted(u)
    BY <1>1, <2>2, <2>5, <2>6, ReleasedMoves
  <2> QED
    BY <2>7
<1> QED
  BY <1>1, InductiveInvariant, GraphsAreAcyclic, PTL

-----------------------------------------------------------------------------
(* The walk of derive() and the fixed point are one.                         *)

\* What is before a Task is one of its prerequisites or before one of them.
LEMMA BeforeIsNeededOrBefore ==
  ASSUME IInv, NEW t \in DOMAIN graph, NEW u \in Ancestors(t, graph)
  PROVE  u \in graph[t].needs \/ \E p \in graph[t].needs : u \in Ancestors(p, graph)
<1> DEFINE S == {v \in Tasks : v \in graph[t].needs \/ \E p \in graph[t].needs : v \in Ancestors(p, graph)}
<1>1. /\ graph[t].needs \subseteq DOMAIN graph /\ DOMAIN graph \subseteq Tasks
      /\ \A v \in DOMAIN graph : graph[v].needs \subseteq DOMAIN graph
  BY DEF IInv, TypeOK, IsGraph, GraphClosed
<1>2. ASSUME NEW v \in S \cap DOMAIN graph, NEW w \in graph[v].needs
      PROVE  w \in S
  <2>1. w \in Tasks
    BY <1>1
  <2>2. CASE v \in graph[t].needs
    BY <1>1, <2>1, <2>2, BeforeIsBefore
  <2>3. ASSUME NEW p \in graph[t].needs, v \in Ancestors(p, graph)
        PROVE  w \in S
    BY <1>1, <2>1, <2>3, BeforeIsBefore
  <2> QED
    BY <2>2, <2>3
<1>3. graph[t].needs \subseteq S /\ S \in SUBSET Tasks
  BY <1>1
<1>4. u \in S
  <2> HIDE DEF S
  <2> QED
    BY <1>2, <1>3 DEF Ancestors
<1> QED
  BY <1>4

\* What an accepted Attempt is: the only live achieved one of its Task, whose
\* Task is released.
LEMMA AcceptedFacts ==
  ASSUME IInv, NEW t \in DOMAIN graph, IsAccepted(t)
  PROVE  LET n == AcceptedOf(t, Accepted)
         IN  /\ <<t, n>> \in Ids /\ LiveAchieved(<<t, n>>) /\ n \in 1 .. MaxAttempts
             /\ Activation(t, Accepted) = {n} /\ Last(Activation(t, Accepted)) = n
             /\ attempts[t][n].phase = "goal_achieved"
             /\ \A m \in 1 .. MaxAttempts : <<t, m>> \in Accepted <=> m = n
             /\ ~IsCancelled(t) /\ Released(t, Accepted)
             /\ \A p \in graph[t].needs : IsAccepted(p)
<1>1. PICK n : n = AcceptedOf(t, Accepted)
  OBVIOUS
<1>2. n \in 1 .. MaxAttempts /\ <<t, n>> \in Accepted
  BY <1>1 DEF IsAccepted, AcceptedOf
<1>3. <<t, n>> \in Ids /\ LiveAchieved(<<t, n>>)
  BY <1>2, AcceptedIsLiveAchieved DEF IInv
<1>4. Activation(t, Accepted) = {n} /\ Last(Activation(t, Accepted)) = n
  BY <1>3, LiveIsTheActivation DEF LiveAchieved
<1>5. \A m \in 1 .. MaxAttempts : <<t, m>> \in Accepted <=> m = n
  <2> SUFFICES ASSUME NEW m \in 1 .. MaxAttempts, <<t, m>> \in Accepted
               PROVE  m = n
    BY <1>2
  <2>1. <<t, m>> \in Ids /\ LiveAchieved(<<t, m>>)
    BY AcceptedIsLiveAchieved DEF IInv
  <2> QED
    BY <1>3, <2>1 DEF IInv, LiveUnique, LiveAchieved
<1>6. Released(t, Accepted) /\ ~IsCancelled(t)
  BY <1>4 DEF Activation, Released
<1>7. \A p \in graph[t].needs : IsAccepted(p)
  BY <1>6 DEF Released, IsAccepted
<1>8. attempts[t][n].phase = "goal_achieved"
  BY <1>3 DEF LiveAchieved, At
<1> QED
  BY <1>1, <1>2, <1>3, <1>4, <1>5, <1>6, <1>7, <1>8

\* Before an accepted Task all Tasks are accepted.
LEMMA AcceptedBefore ==
  ASSUME IInv, NEW t \in DOMAIN graph, \A p \in graph[t].needs : IsAccepted(p),
         NEW u \in Ancestors(t, graph)
  PROVE  IsAccepted(u)
<1> DEFINE S == {v \in DOMAIN graph : IsAccepted(v)}
<1>1. graph[t].needs \subseteq S /\ S \in SUBSET Tasks
  BY DEF IInv, TypeOK, IsGraph, GraphClosed
<1>2. \A v \in S \cap DOMAIN graph : graph[v].needs \subseteq S
  <2> SUFFICES ASSUME NEW v \in DOMAIN graph, IsAccepted(v), NEW p \in graph[v].needs
               PROVE  p \in DOMAIN graph /\ IsAccepted(p)
    OBVIOUS
  <2>1. p \in DOMAIN graph
    BY DEF IInv, GraphClosed
  <2> QED
    BY <2>1, AcceptedFacts
<1>3. u \in S
  <2> HIDE DEF S
  <2> QED
    BY <1>1, <1>2 DEF Ancestors
<1> QED
  BY <1>3

\* The current Attempt of a Task, with its phase.
LEMMA CurrentAttempt ==
  ASSUME IInv, NEW t \in DOMAIN graph, Activation(t, Accepted) # {}
  PROVE  LET n == Last(Activation(t, Accepted))
         IN  /\ Activation(t, Accepted) = {n} /\ <<t, n>> \in Ids /\ n \in 1 .. MaxAttempts
             /\ Released(t, Accepted) /\ ~IsCancelled(t)
             /\ attempts[t][n].phase \in
                  {"in_progress", "blocked", "goal_achieved", "goal_failed", "exhausted"}
             /\ attempts[t][n].phase = "goal_achieved" => <<t, n>> \in Accepted
<1>1. PICK n : n \in Activation(t, Accepted)
  OBVIOUS
<1>2. /\ <<t, n>> \in Ids /\ Activation(t, Accepted) = {n}
      /\ Last(Activation(t, Accepted)) = n
  BY <1>1, ActivationIsOne
<1>3. /\ Eligible(<<t, n>>) /\ attempts[t][n] = At(<<t, n>>)
      /\ Released(t, Accepted) /\ ~IsCancelled(t)
  BY <1>1 DEF Activation, At, Released
<1>4. At(<<t, n>>).phase \in Phases
  BY <1>2, IdsAre DEF IInv, Attempt
<1>5. attempts[t][n].phase = "goal_achieved" => <<t, n>> \in Accepted
  <2>1. attempts[t][n].phase = "goal_achieved" => LiveAchieved(<<t, n>>)
    BY <1>3 DEF LiveAchieved, Live, Eligible
  <2> QED
    BY <1>2, <2>1, AcceptedIsLiveAchieved DEF IInv
<1> QED
  BY <1>2, <1>3, <1>4, <1>5 DEF Phases, Eligible, Ids

\* The states of a Task, one by one.
LEMMA StatesAre ==
  ASSUME IInv, NEW t \in DOMAIN graph
  PROVE  /\ State(t) = "cancelled" <=> IsCancelled(t)
         /\ State(t) = "dependency_failed" <=> DependencyFailed(t, Accepted)
         /\ State(t) = "dependency_waiting" <=> Waiting(t, Accepted)
         /\ State(t) = "ready" <=> Ready(t, Accepted)
         /\ State(t) = "goal_achieved" <=> IsAccepted(t)
         /\ State(t) \in {"goal_failed", "exhausted"} <=> Failed(t, Accepted)
         /\ ~IsCancelled(t) /\ Released(t, Accepted) /\ ~Ready(t, Accepted)
              => State(t) = attempts[t][Last(Activation(t, Accepted))].phase
<1>1. CASE IsCancelled(t)
  <2>2. ~DependencyFailed(t, Accepted) /\ ~Waiting(t, Accepted) /\ ~Ready(t, Accepted)
    BY <1>1 DEF DependencyFailed, Waiting, Ready, Released
  <2>1. State(t) = "cancelled"
    BY <1>1, <2>2 DEF State
  <2>3. ~IsAccepted(t) /\ ~Failed(t, Accepted)
    BY <1>1, AcceptedFacts, CurrentAttempt DEF Failed, In
  <2> QED
    BY <1>1, <2>1, <2>2, <2>3
<1>2. CASE ~IsCancelled(t) /\ ~Released(t, Accepted)
  <2>1. ~IsAccepted(t) /\ ~Failed(t, Accepted) /\ ~Ready(t, Accepted)
    BY <1>2, AcceptedFacts, CurrentAttempt DEF Failed, In, Ready
  <2>2. Waiting(t, Accepted) <=> ~DependencyFailed(t, Accepted)
    BY <1>2 DEF Waiting
  <2>3. State(t) = IF DependencyFailed(t, Accepted) THEN "dependency_failed" ELSE "dependency_waiting"
    BY <1>2, <2>1, <2>2 DEF State
  <2> QED
    BY <1>2, <2>1, <2>2, <2>3
<1>3. CASE ~IsCancelled(t) /\ Released(t, Accepted)
  <2>1. ~DependencyFailed(t, Accepted) /\ ~Waiting(t, Accepted)
    BY <1>3 DEF DependencyFailed, Waiting
  <2>2. CASE Ready(t, Accepted)
    <3>1. State(t) = "ready"
      BY <1>3, <2>1, <2>2 DEF State
    <3>2. Activation(t, Accepted) = {}
      BY <2>2 DEF Ready
    <3>3. ~IsAccepted(t) /\ ~Failed(t, Accepted)
      BY <3>2, AcceptedFacts DEF Failed, In
    <3> QED
      BY <1>3, <2>1, <2>2, <3>1, <3>3
  <2>3. CASE ~Ready(t, Accepted)
    <3>1. PICK n : n = Last(Activation(t, Accepted))
      OBVIOUS
    <3>2. Activation(t, Accepted) # {}
      BY <1>3, <2>3 DEF Ready
    <3>3. State(t) = attempts[t][n].phase
      BY <1>3, <2>1, <2>3, <3>1 DEF State
    <3>4. /\ n \in 1 .. MaxAttempts
          /\ attempts[t][n].phase \in
               {"in_progress", "blocked", "goal_achieved", "goal_failed", "exhausted"}
          /\ attempts[t][n].phase = "goal_achieved" => <<t, n>> \in Accepted
      BY <3>1, <3>2, CurrentAttempt
    <3>5. IsAccepted(t) => attempts[t][n].phase = "goal_achieved"
      BY <3>1, AcceptedFacts
    <3>6. attempts[t][n].phase = "goal_achieved" => IsAccepted(t)
      BY <3>4 DEF IsAccepted
    <3>7. Failed(t, Accepted) <=> attempts[t][n].phase \in {"goal_failed", "exhausted"}
      BY <3>1, <3>2 DEF Failed, In
    <3> QED
      BY <1>3, <2>1, <2>3, <3>1, <3>3, <3>4, <3>5, <3>6, <3>7
  <2> QED
    BY <2>2, <2>3
<1> QED
  BY <1>1, <1>2, <1>3

\* A Task is failed by a prerequisite that is cancelled, or failed itself or by
\* one of its own.
LEMMA FailuresPass ==
  ASSUME IInv, NEW t \in DOMAIN graph, ~IsCancelled(t)
  PROVE  DependencyFailed(t, Accepted) <=>
           \E p \in graph[t].needs :
             IsCancelled(p) \/ Failed(p, Accepted) \/ DependencyFailed(p, Accepted)
<1>0. graph[t].needs \subseteq DOMAIN graph
  BY DEF IInv, GraphClosed
<1>1. ASSUME DependencyFailed(t, Accepted)
      PROVE  \E p \in graph[t].needs :
               IsCancelled(p) \/ Failed(p, Accepted) \/ DependencyFailed(p, Accepted)
  <2>1. PICK u \in Ancestors(t, graph) : IsCancelled(u) \/ Failed(u, Accepted)
    BY <1>1 DEF DependencyFailed
  <2>2. CASE u \in graph[t].needs
    BY <2>1, <2>2
  <2>3. ASSUME NEW p \in graph[t].needs, u \in Ancestors(p, graph), ~IsCancelled(p)
        PROVE  DependencyFailed(p, Accepted)
    <3>1. ~Released(p, Accepted)
      <4> SUFFICES ASSUME Released(p, Accepted)
                   PROVE  FALSE
        OBVIOUS
      <4>1. \A q \in graph[p].needs : IsAccepted(q)
        BY DEF Released, IsAccepted
      <4>2. IsAccepted(u) /\ u \in DOMAIN graph
        BY <1>0, <2>3, <4>1, AcceptedBefore, BeforeIsBefore
      <4>3. State(u) = "goal_achieved"
        BY <4>2, StatesAre
      <4> QED
        BY <2>1, <4>2, <4>3, StatesAre
    <3> QED
      BY <2>1, <2>3, <3>1 DEF DependencyFailed
  <2> QED
    BY <2>2, <2>3, BeforeIsNeededOrBefore
<1>2. ASSUME NEW p \in graph[t].needs,
             IsCancelled(p) \/ Failed(p, Accepted) \/ DependencyFailed(p, Accepted)
      PROVE  DependencyFailed(t, Accepted)
  <2>1. ~IsAccepted(p)
    <3>1. State(p) # "goal_achieved"
      BY <1>0, <1>2, StatesAre
    <3> QED
      BY <1>0, <3>1, StatesAre
  <2>2. ~Released(t, Accepted)
    BY <2>1 DEF Released, IsAccepted
  <2>3. p \in Ancestors(t, graph) /\ Ancestors(p, graph) \subseteq Ancestors(t, graph)
    BY BeforeIsBefore
  <2>4. \E u \in Ancestors(t, graph) : IsCancelled(u) \/ Failed(u, Accepted)
    BY <1>2, <2>3 DEF DependencyFailed
  <2> QED
    BY <2>2, <2>4 DEF DependencyFailed
<1> QED
  BY <1>1, <1>2

\* The walk, as the fixed point has it.
Walked ==
  [t \in DOMAIN graph |->
     [state |-> State(t), attempt |-> IF IsAccepted(t) THEN AcceptedOf(t, Accepted) ELSE 0]]

\* The fixed point takes the step of the walk at every Task.
LEMMA WalkedIsWalk ==
  ASSUME IInv, NEW t \in DOMAIN graph
  PROVE  Walked[t] = Walk(Walked, t)
<1> DEFINE needs     == graph[t].needs
           cancels   == {p \in needs : Walked[p].state = "cancelled"}
           failures  == {p \in needs : Walked[p].state \in
                           {"dependency_failed", "goal_failed", "exhausted"}}
           waits     == {p \in needs : Walked[p].state # "goal_achieved"}
           inputs    == [p \in Tasks |-> IF p \in needs THEN Walked[p].attempt ELSE 0]
           matching  == {n \in DOMAIN attempts[t] :
                           /\ attempts[t][n].lineage = lineage[t]
                           /\ attempts[t][n].demand = Demand(t)
                           /\ attempts[t][n].inputs = inputs
                           /\ ~attempts[t][n].superseded
                           /\ attempts[t][n].phase # "cancelled"}
           phase     == attempts[t][Last(matching)].phase
           settle(s, n) == [state |-> s, attempt |-> n]
<1>1. Walk(Walked, t) =
        IF IsCancelled(t) THEN settle("cancelled", 0)
        ELSE IF cancels \cup failures # {} THEN settle("dependency_failed", 0)
        ELSE IF waits # {} THEN settle("dependency_waiting", 0)
        ELSE IF matching = {} THEN settle("ready", 0)
        ELSE settle(phase, IF phase = "goal_achieved" THEN Last(matching) ELSE 0)
  BY DEF Walk
<1>2. needs \subseteq DOMAIN graph
  BY DEF IInv, GraphClosed
<1>3. \A p \in needs : /\ Walked[p].state = State(p)
                       /\ Walked[p].attempt = IF IsAccepted(p) THEN AcceptedOf(p, Accepted) ELSE 0
  BY <1>2 DEF Walked
<1>4. Walked[t] = settle(State(t), IF IsAccepted(t) THEN AcceptedOf(t, Accepted) ELSE 0)
  BY DEF Walked
<1>5. CASE IsCancelled(t)
  <2>1. State(t) = "cancelled" /\ ~IsAccepted(t)
    BY <1>5, StatesAre
  <2> QED
    BY <1>1, <1>4, <1>5, <2>1
<1>6. ASSUME ~IsCancelled(t)
      PROVE  cancels \cup failures # {} <=> DependencyFailed(t, Accepted)
  <2>1. \A p \in needs : p \in cancels \cup failures <=>
           IsCancelled(p) \/ Failed(p, Accepted) \/ DependencyFailed(p, Accepted)
    <3> SUFFICES ASSUME NEW p \in needs
                 PROVE  p \in cancels \cup failures <=>
                          IsCancelled(p) \/ Failed(p, Accepted) \/ DependencyFailed(p, Accepted)
      OBVIOUS
    <3>1. /\ State(p) = "cancelled" <=> IsCancelled(p)
          /\ State(p) = "dependency_failed" <=> DependencyFailed(p, Accepted)
          /\ State(p) \in {"goal_failed", "exhausted"} <=> Failed(p, Accepted)
      BY <1>2, StatesAre
    <3> QED
      BY <1>3, <3>1
  <2>2. cancels \cup failures \subseteq needs
    OBVIOUS
  <2> HIDE DEF cancels, failures
  <2> QED
    BY <1>6, <2>1, <2>2, FailuresPass DEF needs
<1>7. CASE ~IsCancelled(t) /\ DependencyFailed(t, Accepted)
  <2>1. State(t) = "dependency_failed" /\ ~IsAccepted(t)
    BY <1>7, StatesAre
  <2> HIDE DEF cancels, failures, waits, matching
  <2> QED
    BY <1>1, <1>4, <1>6, <1>7, <2>1
<1>8. ASSUME ~IsCancelled(t)
      PROVE  waits # {} <=> ~Released(t, Accepted)
  <2>1. \A p \in needs : p \in waits <=> ~IsAccepted(p)
    BY <1>2, <1>3, StatesAre
  <2> HIDE DEF waits
  <2>2. waits # {} <=> \E p \in needs : ~IsAccepted(p)
    <3>1. waits \subseteq needs
      BY DEF waits
    <3> QED
      BY <2>1, <3>1
  <2> QED
    BY <1>8, <2>2 DEF Released, IsAccepted, needs
<1>9. CASE ~IsCancelled(t) /\ ~DependencyFailed(t, Accepted) /\ ~Released(t, Accepted)
  <2>1. State(t) = "dependency_waiting" /\ ~IsAccepted(t)
    BY <1>9, StatesAre DEF Waiting
  <2> HIDE DEF cancels, failures, waits, matching
  <2> QED
    BY <1>1, <1>4, <1>6, <1>8, <1>9, <2>1
<1>10. CASE ~IsCancelled(t) /\ ~DependencyFailed(t, Accepted) /\ Released(t, Accepted)
  <2>1. inputs = Inputs(t, Accepted)
    <3>1. \A p \in needs : IsAccepted(p)
      BY <1>10 DEF Released, IsAccepted
    <3> QED
      BY <1>3, <3>1 DEF Inputs
  <2>2. matching = Activation(t, Accepted)
    <3> HIDE DEF inputs
    <3> QED
      BY <1>10, <2>1 DEF Activation, Eligible, At
  <2> HIDE DEF cancels, failures, waits, matching, inputs
  <2>3. Walk(Walked, t) =
          IF matching = {} THEN settle("ready", 0)
          ELSE settle(phase, IF phase = "goal_achieved" THEN Last(matching) ELSE 0)
    BY <1>1, <1>6, <1>8, <1>10
  <2>4. CASE matching = {}
    <3>1. State(t) = "ready" /\ ~IsAccepted(t)
      BY <1>10, <2>2, <2>4, StatesAre DEF Ready
    <3> QED
      BY <1>4, <2>3, <2>4, <3>1
  <2>5. CASE matching # {}
    <3>1. State(t) = phase
      BY <1>10, <2>2, <2>5, StatesAre DEF Ready
    <3>2. IsAccepted(t) <=> phase = "goal_achieved"
      BY <3>1, StatesAre
    <3>3. IsAccepted(t) => AcceptedOf(t, Accepted) = Last(matching)
      BY <2>2, AcceptedFacts
    <3> HIDE DEF phase
    <3> QED
      BY <1>4, <2>3, <2>5, <3>1, <3>2, <3>3
  <2> QED
    BY <2>4, <2>5
<1> QED
  BY <1>5, <1>7, <1>9, <1>10

\* The walk of derive() over an acyclic graph has one outcome,
LEMMA WalkUnique ==
  ASSUME IInv, Acyclic, NEW d, NEW e,
         d = [t \in DOMAIN graph |-> Walk(d, t)],
         e = [t \in DOMAIN graph |-> Walk(e, t)]
  PROVE  d = e
<1> DEFINE B == {t \in DOMAIN graph : d[t] # e[t]}
<1>1. B = {}
  <2> SUFFICES ASSUME B # {}
               PROVE  FALSE
    OBVIOUS
  <2>1. PICK t \in B : graph[t].needs \cap B = {}
    <3> HIDE DEF B
    <3>1. B \in SUBSET DOMAIN graph
      BY DEF B
    <3> QED
      BY <3>1, FirstOfSet
  <2>2. graph[t].needs \subseteq DOMAIN graph
    BY DEF IInv, GraphClosed
  <2>3. \A p \in graph[t].needs : d[p] = e[p]
    BY <2>1, <2>2
  <2>4. Walk(d, t) = Walk(e, t)
    <3> DEFINE needs       == graph[t].needs
               cancels(f)  == {p \in needs : f[p].state = "cancelled"}
               failures(f) == {p \in needs : f[p].state \in
                                 {"dependency_failed", "goal_failed", "exhausted"}}
               waits(f)    == {p \in needs : f[p].state # "goal_achieved"}
               inputs(f)   == [p \in Tasks |-> IF p \in needs THEN f[p].attempt ELSE 0]
               step(c, x, w, i) ==
                 LET matching == {n \in DOMAIN attempts[t] :
                                    /\ attempts[t][n].lineage = lineage[t]
                                    /\ attempts[t][n].demand = Demand(t)
                                    /\ attempts[t][n].inputs = i
                                    /\ ~attempts[t][n].superseded
                                    /\ attempts[t][n].phase # "cancelled"}
                     phase == attempts[t][Last(matching)].phase
                     settle(s, n) == [state |-> s, attempt |-> n]
                 IN  IF IsCancelled(t) THEN settle("cancelled", 0)
                     ELSE IF c \cup x # {} THEN settle("dependency_failed", 0)
                     ELSE IF w # {} THEN settle("dependency_waiting", 0)
                     ELSE IF matching = {} THEN settle("ready", 0)
                     ELSE settle(phase, IF phase = "goal_achieved" THEN Last(matching) ELSE 0)
    <3>1. \A f : Walk(f, t) = step(cancels(f), failures(f), waits(f), inputs(f))
      BY DEF Walk
    <3>2. /\ cancels(d) = cancels(e) /\ failures(d) = failures(e)
          /\ waits(d) = waits(e) /\ inputs(d) = inputs(e)
      BY <2>3
    <3> HIDE DEF cancels, failures, waits, inputs, step
    <3> QED
      BY <3>1, <3>2
  <2>5. d[t] = Walk(d, t) /\ e[t] = Walk(e, t)
    OBVIOUS
  <2> QED
    BY <2>4, <2>5
<1> QED
  BY <1>1

\* which is the one of the fixed point.
LEMMA DerivedIsWalked ==
  ASSUME IInv, Acyclic
  PROVE  Derived = Walked
<1>1. Walked = [t \in DOMAIN graph |-> Walk(Walked, t)]
  <2>1. Walked = [t \in DOMAIN graph |-> Walked[t]]
    BY DEF Walked
  <2> QED
    BY <2>1, WalkedIsWalk
<1>2. PICK d : d = CHOOSE e : e = [t \in DOMAIN graph |-> Walk(e, t)]
  OBVIOUS
<1>3. d = [t \in DOMAIN graph |-> Walk(d, t)]
  BY <1>1, <1>2
<1>4. Derived = d
  BY <1>2, <1>3 DEF Derived
<1>5. d = Walked
  BY <1>1, <1>3, WalkUnique
<1> QED
  BY <1>4, <1>5

\* The walk that the source does over the Tasks in topological order gives every
\* Task the state, and accepts the Attempts, that the fixed point of the other
\* theorems does (derive).
THEOREM TheWalkIsTheFixedPoint == Spec => []DerivationAgrees
<1>1. ASSUME IInv, Acyclic
      PROVE  DerivationAgrees
  <2> SUFFICES ASSUME NEW t \in DOMAIN graph
               PROVE  /\ State(t) = Walked[t].state
                      /\ \A n \in 1 .. MaxAttempts : <<t, n>> \in Accepted <=> n = Walked[t].attempt
    BY <1>1, DerivedIsWalked DEF DerivationAgrees
  <2>1. /\ Walked[t].state = State(t)
        /\ Walked[t].attempt = IF IsAccepted(t) THEN AcceptedOf(t, Accepted) ELSE 0
    BY DEF Walked
  <2>2. CASE IsAccepted(t)
    BY <1>1, <2>1, <2>2, AcceptedFacts
  <2>3. CASE ~IsAccepted(t)
    BY <2>1, <2>3 DEF IsAccepted
  <2> QED
    BY <2>1, <2>2, <2>3
<1> QED
  BY <1>1, InductiveInvariant, GraphsAreAcyclic, PTL

=============================================================================
