------------------------- MODULE TaskDeliveryProofs -------------------------
(***************************************************************************)
(* What is settled was presented, what is sent is current, and the fence    *)
(* never goes back: for any number of Tasks, texts, clients, Memberships,   *)
(* revisions and faults.                                                   *)
(***************************************************************************)
EXTENDS TaskDelivery, TLAPS

-----------------------------------------------------------------------------
(* Types.                                                                  *)

\* Clients and engines are processes, and nobody has the number None.
LEMMA ProcFacts ==
  /\ \A c \in Clients : c \in Procs /\ c \notin Memberships
  /\ \A m \in Memberships : m \in Procs /\ m \in Nat /\ m # None /\ m \notin Clients
BY DeliveryAssumption DEF Procs, None

\* Before its recipient is known a delivery is an obligation of nobody.
LEMMA ObligationFacts ==
  /\ Delivery \subseteq Obligation
  /\ Nothing \in Obligation
  /\ \A r \in Obligation : r.member # None => r \in Delivery
  /\ \A r \in Obligation, m \in Memberships \cup {None} : [r EXCEPT !.member = m] \in Obligation
  /\ \A r \in Obligation, m \in Memberships : [r EXCEPT !.member = m] \in Delivery
<1>1. Nothing \in Obligation
  <2>1. (CHOOSE t \in Tasks : TRUE) \in Tasks /\ (CHOOSE x \in Texts : TRUE) \in Texts
    BY DeliveryAssumption
  <2>2. 1 \in 1..MaxCommits
    BY DeliveryAssumption
  <2> QED
    BY <2>1, <2>2 DEF Nothing, Obligation, Version
<1> QED
  BY <1>1 DEF Obligation, Delivery

\* The revision of a Task in the log.
LEMMA CardFacts ==
  ASSUME TypeOK, NEW n \in 1..Len(log), NEW t \in Tasks
  PROVE  log[n].card[t] \in Version /\ log[n].front \subseteq Tasks
<1>1. log[n] \in Revision
  BY DEF TypeOK
<1> QED
  BY <1>1 DEF Revision

\* What the engines choose, the Sessions show and the files hold are deliveries.
LEMMA EligibleFacts ==
  ASSUME NEW m \in Memberships
  PROVE  Eligible(m) \subseteq Live /\ \A r \in Eligible(m) : r.member = m /\ current = m
BY DEF Eligible

\* A process that goes on, and keeps or changes its own delivery.
LEMMA GoTypes ==
  ASSUME TypeOK, NEW p \in Procs, NEW step \in Steps, NEW r \in Obligation, Go(p, step),
         \/ found' = [found EXCEPT ![p] = r] /\ (step = "enqueue" => r \in Delivery)
         \/ UNCHANGED found /\ step # "enqueue"
  PROVE  /\ pc' \in [Procs -> Steps] /\ found' \in [Procs -> Obligation]
         /\ \A q \in Procs : pc'[q] = "enqueue" => found'[q] \in Delivery
BY DEF TypeOK, Go

\* A process that has reconciled.
LEMMA DoneTypes ==
  ASSUME TypeOK, NEW p \in Procs, Done(p)
  PROVE  /\ pc' \in [Procs -> Steps] /\ found' \in [Procs -> Obligation]
         /\ \A q \in Procs : pc'[q] = "enqueue" => found'[q] \in Delivery
<1>1. Return(p) \in Steps /\ Return(p) # "enqueue"
  BY DEF Return, Steps
<1> QED
  BY <1>1, ObligationFacts, GoTypes DEF Done

\* A new revision, with the versions that it gives.
LEMMA CommitTypes ==
  ASSUME TypeOK, NEW c \in Clients, Commit(c)
  PROVE  /\ log' \in Seq(Revision)
         /\ Len(log') = Len(log) + 1 /\ Len(log') \in 1..MaxCommits
<1> DEFINE next == Len(log) + 1  last == log[Len(log)]
<1>1. Len(log) \in Nat /\ next \in 1..MaxCommits /\ Len(log) \in 1..Len(log)
  BY DeliveryAssumption DEF Commit, TypeOK
<1>2. last \in Revision
  BY <1>1 DEF TypeOK
<1>3. \E r \in Revision : log' = Append(log, r)
  <2>1. CASE \E changed \in (SUBSET Tasks) \ {{}}, front \in SUBSET Tasks :
               log' = Append(log, [card |-> [t \in Tasks |->
                  IF t \in changed THEN [last.card[t] EXCEPT !.era = next] ELSE last.card[t]],
                                   front |-> front])
    <3>1. PICK changed \in (SUBSET Tasks) \ {{}}, front \in SUBSET Tasks :
                 log' = Append(log, [card |-> [t \in Tasks |->
                  IF t \in changed THEN [last.card[t] EXCEPT !.era = next] ELSE last.card[t]],
                                   front |-> front])
      BY <2>1
    <3>2. \A t \in Tasks : [last.card[t] EXCEPT !.era = next] \in Version
      BY <1>1, <1>2 DEF Revision, Version
    <3> QED
      BY <1>2, <3>1, <3>2 DEF Revision
  <2>2. CASE \E t \in Tasks : \E text \in Texts \ {last.card[t].text} :
               log' = Append(log, [last EXCEPT !.card[t].text = text])
    <3>1. PICK t \in Tasks, text \in Texts :
                 log' = Append(log, [last EXCEPT !.card[t].text = text])
      BY <2>2
    <3>2. [last EXCEPT !.card[t].text = text] \in Revision
      BY <1>2, <3>1 DEF Revision, Version
    <3> QED
      BY <3>1, <3>2
  <2> QED
    BY <2>1, <2>2 DEF Commit
<1> QED
  BY <1>1, <1>3 DEF TypeOK

\* The types hold at first.
LEMMA TypeInit == ASSUME Init PROVE TypeOK
<1>1. 1 \in 1..MaxCommits /\ 0 \in 0..MaxFaults
  BY DeliveryAssumption
<1>2. log \in Seq(Revision) /\ Len(log) = 1
  <2>1. PICK front \in SUBSET Tasks, text \in Texts :
          log = <<[card |-> [t \in Tasks |-> [era |-> 1, text |-> text]], front |-> front]>>
    BY DEF Init
  <2>2. [card |-> [t \in Tasks |-> [era |-> 1, text |-> text]], front |-> front] \in Revision
    BY <1>1 DEF Revision, Version
  <2> QED
    BY <2>1, <2>2
<1>3. /\ engine \in [Memberships -> Engine] /\ session \in [Memberships -> Session]
      /\ pc \in [Procs -> Steps] /\ \A p \in Procs : pc[p] # "enqueue"
  BY DEF Init, NewEngine, Engine, Session, Steps
<1>4. found \in [Procs -> Obligation]
  BY ObligationFacts DEF Init
<1> QED
  BY <1>1, <1>2, <1>3, <1>4 DEF Init, TypeOK, None

\* Every step of an operation but the reconciliation keeps the types.
LEMMA ClientsKeepTypes ==
  ASSUME TypeOK, NEW c \in Clients,
         \/ Commit(c) \/ Replay(c) \/ Retire(c) \/ RetireSpool(c) \/ RetireRecovery(c)
         \/ RetireFails(c) \/ CrashClient(c)
  PROVE  TypeOK'
<1> USE ProcFacts
<1>0. Nothing \in Obligation
  BY ObligationFacts
<1>1. {"retire", "spool", "recovery", "frontier"} \subseteq Steps
  BY DEF Steps, Reconciling
<1>2. CASE Commit(c)
  <2>1. fence \in 1..Len(log') /\ at' \in [Clients -> 1..Len(log')]
    <3>1. fence' = fence /\ at' = [at EXCEPT ![c] = Len(log) + 1]
      BY <1>2 DEF Commit
    <3>2. Len(log') = Len(log) + 1 /\ Len(log) \in Nat
      BY <1>2, CommitTypes DEF TypeOK
    <3> QED
      BY <3>1, <3>2 DEF TypeOK
  <2>2. /\ pc' \in [Procs -> Steps] /\ found' \in [Procs -> Obligation]
        /\ \A q \in Procs : pc'[q] = "enqueue" => found'[q] \in Delivery
    BY <1>0, <1>1, <1>2, GoTypes DEF Commit
  <2> QED
    BY <1>2, <2>1, <2>2, CommitTypes DEF Commit, TypeOK, records, recoveries
<1>3. CASE Replay(c)
  <2>1. /\ pc' \in [Procs -> Steps] /\ found' \in [Procs -> Obligation]
        /\ \A q \in Procs : pc'[q] = "enqueue" => found'[q] \in Delivery
    BY <1>0, <1>1, <1>3, GoTypes DEF Replay
  <2>2. faults' \in 0..MaxFaults
    BY <1>3, DeliveryAssumption DEF Replay, Fault, TypeOK
  <2> QED
    BY <1>3, <2>1, <2>2 DEF Replay, TypeOK, authority, records, recoveries
<1>4. CASE Retire(c)
  <2>1. /\ pc' \in [Procs -> Steps] /\ found' \in [Procs -> Obligation]
        /\ \A q \in Procs : pc'[q] = "enqueue" => found'[q] \in Delivery
    BY <1>0, <1>1, <1>4, GoTypes DEF Retire
  <2> QED
    BY <1>4, <2>1 DEF Retire, TypeOK, authority, records, recoveries
<1>5. CASE RetireSpool(c)
  <2>1. /\ pc' \in [Procs -> Steps] /\ found' \in [Procs -> Obligation]
        /\ \A q \in Procs : pc'[q] = "enqueue" => found'[q] \in Delivery
    BY <1>0, <1>1, <1>5, GoTypes DEF RetireSpool
  <2> QED
    BY <1>5, <2>1 DEF RetireSpool, TypeOK, authority, recoveries
<1>6. CASE RetireRecovery(c)
  <2>1. /\ pc' \in [Procs -> Steps] /\ found' \in [Procs -> Obligation]
        /\ \A q \in Procs : pc'[q] = "enqueue" => found'[q] \in Delivery
    BY <1>0, <1>1, <1>6, GoTypes DEF RetireRecovery
  <2> QED
    BY <1>6, <2>1 DEF RetireRecovery, TypeOK, authority, records
<1>7. CASE RetireFails(c)
  <2>1. /\ pc' \in [Procs -> Steps] /\ found' \in [Procs -> Obligation]
        /\ \A q \in Procs : pc'[q] = "enqueue" => found'[q] \in Delivery
    BY <1>0, <1>1, <1>7, GoTypes DEF RetireFails
  <2>2. faults' \in 0..MaxFaults
    BY <1>7, DeliveryAssumption DEF RetireFails, Fault, TypeOK
  <2> QED
    BY <1>7, <2>1, <2>2 DEF RetireFails, TypeOK, authority, records, recoveries
<1>8. CASE CrashClient(c)
  <2>1. /\ pc' \in [Procs -> Steps] /\ found' \in [Procs -> Obligation]
        /\ \A q \in Procs : pc'[q] = "enqueue" => found'[q] \in Delivery
    BY <1>8, DoneTypes DEF CrashClient
  <2>2. faults' \in 0..MaxFaults
    BY <1>8, DeliveryAssumption DEF CrashClient, Fault, TypeOK
  <2> QED
    BY <1>8, <2>1, <2>2 DEF CrashClient, TypeOK, authority, records, recoveries
<1> QED
  BY <1>2, <1>3, <1>4, <1>5, <1>6, <1>7, <1>8

\* So does every step of a reconciliation ...
LEMMA ReconcileKeepsTypes ==
  ASSUME TypeOK, NEW p \in Procs, Reconcile(p) \/ EnqueueFails(p)
  PROVE  TypeOK'
<1>0. Nothing \in Obligation
  BY ObligationFacts
<1>1. {"coordinates", "bind", "enqueue", "record"} \subseteq Steps
  BY DEF Steps, Reconciling
<1> DEFINE Control == /\ pc' \in [Procs -> Steps] /\ found' \in [Procs -> Obligation]
                      /\ \A q \in Procs : pc'[q] = "enqueue" => found'[q] \in Delivery
<1>2. CASE ReadFrontier(p)
  <2>1. Control
    <3>1. CASE \E t \in Front :
                 /\ found' = [found EXCEPT ![p] =
                      [task |-> t, version |-> log[Len(log)].card[t], member |-> None]]
                 /\ Go(p, "coordinates")
      <4>1. PICK t \in Front :
                 /\ found' = [found EXCEPT ![p] =
                      [task |-> t, version |-> log[Len(log)].card[t], member |-> None]]
                 /\ Go(p, "coordinates")
        BY <3>1
      <4>2. Len(log) \in 1..Len(log)
        BY DEF TypeOK
      <4>3. t \in Tasks /\ log[Len(log)].card[t] \in Version
        <5>1. log[Len(log)].front \subseteq Tasks
          BY <4>2, CardFacts, DeliveryAssumption
        <5>2. t \in Tasks
          BY <5>1 DEF Front
        <5> QED
          BY <4>2, <5>2, CardFacts
      <4>4. [task |-> t, version |-> log[Len(log)].card[t], member |-> None] \in Obligation
        BY <4>3 DEF Obligation
      <4> QED
        BY <1>1, <4>1, <4>4, GoTypes
    <3> QED
      BY <1>2, <3>1, DoneTypes DEF ReadFrontier
  <2> QED
    BY <1>2, <2>1 DEF ReadFrontier, TypeOK, authority, records, recoveries
<1>3. CASE ReadCoordinates(p)
  <2>1. Control
    BY <1>0, <1>1, <1>3, GoTypes, DoneTypes DEF ReadCoordinates
  <2> QED
    BY <1>3, <2>1 DEF ReadCoordinates, TypeOK, authority, records, recoveries
<1>4. CASE ReadBinding(p)
  <2>1. Control
    <3>1. CASE current # None /\ found' = [found EXCEPT ![p].member = current] /\ Go(p, "enqueue")
      <4>1. current \in Memberships /\ found[p] \in Obligation
        BY <3>1 DEF TypeOK
      <4>2. [found[p] EXCEPT !.member = current] \in Delivery
        BY <4>1, ObligationFacts
      <4>3. found' = [found EXCEPT ![p] = [found[p] EXCEPT !.member = current]]
        BY <3>1
      <4> QED
        BY <1>1, <3>1, <4>2, <4>3, GoTypes, ObligationFacts
    <3> QED
      BY <1>4, <3>1, DoneTypes DEF ReadBinding
  <2> QED
    BY <1>4, <2>1 DEF ReadBinding, TypeOK, authority, records, recoveries
<1>5. CASE Enqueue(p)
  <2>1. Control
    BY <1>5, DoneTypes DEF Enqueue
  <2>2. found[p] \in Delivery
    BY <1>5 DEF Enqueue, TypeOK
  <2> QED
    BY <1>5, <2>1, <2>2 DEF Enqueue, TypeOK, authority, recoveries
<1>6. CASE RecordRecovery(p)
  <2> DEFINE r == [found[p] EXCEPT !.member = current]
  <2>1. Control
    BY <1>6, DoneTypes DEF RecordRecovery
  <2>2. r \in Obligation
    BY ObligationFacts DEF TypeOK
  <2>3. recovery' \subseteq Obligation /\ resolved' \subseteq Obligation /\ lapsed' \subseteq Obligation
    <3>1. recovery' \subseteq recovery \cup {r} /\ resolved' \subseteq resolved /\ lapsed' \subseteq lapsed
      BY <1>6 DEF RecordRecovery
    <3> QED
      BY <2>2, <3>1 DEF TypeOK
  <2> QED
    BY <1>6, <2>1, <2>3 DEF RecordRecovery, TypeOK, authority, records
<1>7. CASE EnqueueFails(p)
  <2>1. Control
    BY <1>0, <1>1, <1>7, GoTypes, DoneTypes DEF EnqueueFails
  <2>2. faults' \in 0..MaxFaults
    BY <1>7, DeliveryAssumption DEF EnqueueFails, Fault, TypeOK
  <2> QED
    BY <1>7, <2>1, <2>2 DEF EnqueueFails, TypeOK, authority, records, recoveries
<1> QED
  BY <1>2, <1>3, <1>4, <1>5, <1>6, <1>7 DEF Reconcile

\* The records of the Worker are deliveries.
LEMMA LiveFacts == Live \subseteq spool \ retired /\ \A r \in Live : Coordinate(r) \in Now
BY DEF Live

\* ... every step of an engine ...
LEMMA EnginesKeepTypes ==
  ASSUME TypeOK, NEW m \in Memberships,
         \/ Start(m) \/ Poll(m) \/ Recover(m) \/ Select(m) \/ Send(m) \/ ScanFails(m)
  PROVE  TypeOK'
<1> USE ProcFacts
<1>0. Nothing \in Obligation
  BY ObligationFacts
<1>1. {"idle", "off", "start", "frontier", "select", "send"} \subseteq Steps
  BY DEF Steps, Reconciling
<1>2. Live \subseteq Delivery /\ Eligible(m) \subseteq Delivery
  BY LiveFacts, EligibleFacts DEF TypeOK
<1>3. engine[m] \in Engine /\ session[m] \in Session
  BY DEF TypeOK
<1> DEFINE Control == /\ pc' \in [Procs -> Steps] /\ found' \in [Procs -> Obligation]
                      /\ \A q \in Procs : pc'[q] = "enqueue" => found'[q] \in Delivery
<1>4. CASE Start(m)
  <2>1. Control
    BY <1>0, <1>1, <1>4, GoTypes DEF Start
  <2>2. [NewEngine EXCEPT !.attempted = session[m].conversation \ session[m].acks,
                          !.acknowledged = session[m].acks] \in Engine
    BY <1>3 DEF NewEngine, Engine, Session
  <2>3. engine' = [engine EXCEPT ![m] =
          [NewEngine EXCEPT !.attempted = session[m].conversation \ session[m].acks,
                            !.acknowledged = session[m].acks]]
    BY <1>4 DEF Start
  <2>4. engine' \in [Memberships -> Engine]
    BY <2>2, <2>3 DEF TypeOK
  <2>5. tombstones' \subseteq Delivery /\ acked' \subseteq Delivery
    BY <1>2, <1>4 DEF Start, TypeOK
  <2> QED
    BY <1>4, <2>1, <2>4, <2>5 DEF Start, TypeOK, authority, recoveries
<1>5. CASE Poll(m)
  <2>1. Control
    BY <1>0, <1>1, <1>5, GoTypes DEF Poll
  <2> QED
    BY <1>5, <2>1 DEF Poll, TypeOK, authority, records, recoveries
<1>6. CASE Recover(m)
  <2>1. Control
    BY <1>0, <1>1, <1>6, GoTypes DEF Recover
  <2> DEFINE due == {r \in recovery \ (resolved \cup lapsed) :
                       r.member = current /\ r.member # None /\ Enqueued(r)}
  <2>2. due \subseteq Delivery /\ due \subseteq Obligation
    BY ObligationFacts DEF TypeOK
  <2>3. spool' = spool \cup due /\ resolved' = resolved \cup due
    BY <1>6 DEF Recover
  <2>4. spool' \subseteq Delivery /\ resolved' \subseteq Obligation
    BY <2>2, <2>3 DEF TypeOK
  <2> QED
    BY <1>6, <2>1, <2>4 DEF Recover, TypeOK, authority
<1>7. CASE Select(m)
  <2> DEFINE batch == Eligible(m) \ (acked \cup engine[m].attempted)
             e == [engine[m] EXCEPT !.running = TRUE]
             f == [engine[m] EXCEPT !.batch = batch, !.attempted = engine[m].attempted \cup batch]
  <2>1. Control
    BY <1>0, <1>1, <1>7, GoTypes DEF Select
  <2>2. engine' = [engine EXCEPT ![m] = e] \/ engine' = [engine EXCEPT ![m] = f]
    BY <1>7 DEF Select
  <2>3. e \in Engine /\ f \in Engine
    BY <1>2, <1>3 DEF Engine
  <2>4. engine' \in [Memberships -> Engine]
    BY <2>2, <2>3 DEF TypeOK
  <2> QED
    BY <1>7, <2>1, <2>4 DEF Select, TypeOK, authority, records, recoveries
<1>8. CASE Send(m)
  <2>1. Control
    BY <1>0, <1>1, <1>8, GoTypes DEF Send
  <2>2. engine' \in [Memberships -> Engine]
    <3> DEFINE b == current = m
               e == [engine[m] EXCEPT !.batch = {}, !.running = b]
    <3>1. engine' = [engine EXCEPT ![m] = e]
      BY <1>8 DEF Send
    <3>2. b \in BOOLEAN
      OBVIOUS
    <3> HIDE DEF b
    <3>3. e \in Engine
      BY <1>3, <3>2 DEF Engine
    <3> QED
      BY <3>1, <3>3 DEF TypeOK
  <2>3. session' \in [Memberships -> Session]
    <3> DEFINE s == [session[m] EXCEPT !.queued = @ \cup (engine[m].batch \cap Live)]
    <3>1. UNCHANGED session \/ session' = [session EXCEPT ![m] = s]
      BY <1>8 DEF Send
    <3>2. s \in Session
      BY <1>2, <1>3 DEF Session
    <3> QED
      BY <3>1, <3>2 DEF TypeOK
  <2> QED
    BY <1>8, <2>1, <2>2, <2>3 DEF Send, TypeOK, authority, records, recoveries
<1>9. CASE ScanFails(m)
  <2>1. Control
    BY <1>0, <1>1, <1>9, GoTypes DEF ScanFails
  <2>2. engine' \in [Memberships -> Engine]
    <3> DEFINE e == [engine[m] EXCEPT !.staged = {}, !.batch = {}, !.running = FALSE]
    <3>1. engine' = [engine EXCEPT ![m] = e]
      BY <1>9 DEF ScanFails
    <3>2. engine[m] \in Engine
      BY DEF TypeOK
    <3>3. e \in Engine
      BY <3>2 DEF Engine
    <3> QED
      BY <3>1, <3>3 DEF TypeOK
  <2>3. faults' \in 0..MaxFaults
    BY <1>9, DeliveryAssumption DEF ScanFails, Fault, TypeOK
  <2> QED
    BY <1>9, <2>1, <2>2, <2>3 DEF ScanFails, TypeOK, authority, records, recoveries
<1> QED
  BY <1>4, <1>5, <1>6, <1>7, <1>8, <1>9

\* ... and every step of a Session or of the Membership.
LEMMA SessionsKeepTypes ==
  ASSUME TypeOK,
         \/ \E m \in Memberships :
              \/ Present(m) \/ ObserveContext(m) \/ AppendAck(m) \/ PersistAck(m)
              \/ StopStale(m) \/ CrashSession(m)
         \/ BindMembership \/ Deactivate
  PROVE  TypeOK'
<1> USE ProcFacts
<1> DEFINE Control == /\ pc' \in [Procs -> Steps] /\ found' \in [Procs -> Obligation]
                      /\ \A q \in Procs : pc'[q] = "enqueue" => found'[q] \in Delivery
<1>0. Nothing \in Obligation /\ Live \subseteq Delivery
  BY ObligationFacts, LiveFacts DEF TypeOK
<1>1. "off" \in Steps
  BY DEF Steps
<1>2. \A m \in Memberships : Eligible(m) \subseteq Delivery
  BY <1>0, EligibleFacts
<1>3. ASSUME NEW m \in Memberships, Present(m) PROVE TypeOK'
  <2>1. session' \in [Memberships -> Session]
    BY <1>3 DEF Present, TypeOK, Session
  <2> QED
    BY <1>3, <2>1 DEF Present, TypeOK, authority, records, recoveries
<1>4. ASSUME NEW m \in Memberships, ObserveContext(m) PROVE TypeOK'
  <2>1. engine' \in [Memberships -> Engine]
    BY <1>2, <1>4, ZenonT(60) DEF ObserveContext, TypeOK, Engine
  <2> QED
    BY <1>4, <2>1 DEF ObserveContext, TypeOK, authority, records, recoveries
<1>5. ASSUME NEW m \in Memberships, AppendAck(m) PROVE TypeOK'
  <2>1. session' \in [Memberships -> Session]
    BY <1>0, <1>5, ZenonT(60) DEF AppendAck, TypeOK, Session
  <2>2. engine' \in [Memberships -> Engine]
    <3> DEFINE e == [engine[m] EXCEPT
                       !.acknowledged = @ \cup (engine[m].staged \ engine[m].acknowledged),
                       !.staged = @ \ (engine[m].staged \ engine[m].acknowledged)]
    <3>1. engine' = [engine EXCEPT ![m] = e]
      BY <1>5 DEF AppendAck
    <3>2. engine[m] \in Engine
      BY DEF TypeOK
    <3>3. e \in Engine
      BY <3>2 DEF Engine
    <3> QED
      BY <3>1, <3>3 DEF TypeOK
  <2> QED
    BY <1>5, <2>1, <2>2 DEF AppendAck, TypeOK, authority, records, recoveries
<1>6. ASSUME NEW m \in Memberships, PersistAck(m) PROVE TypeOK'
  <2>1. session[m].committing \subseteq Delivery
    BY DEF TypeOK, Session
  <2>2. session' \in [Memberships -> Session]
    BY <1>6 DEF PersistAck, TypeOK, Session
  <2> QED
    BY <1>6, <2>1, <2>2 DEF PersistAck, TypeOK, authority, recoveries
<1>7. ASSUME NEW m \in Memberships, StopStale(m) PROVE TypeOK'
  <2>1. Control
    BY <1>0, <1>1, <1>7, GoTypes DEF StopStale
  <2>2. engine' \in [Memberships -> Engine]
    <3> DEFINE e == [engine[m] EXCEPT !.staged = {}, !.batch = {}, !.running = FALSE]
    <3>1. engine' = [engine EXCEPT ![m] = e]
      BY <1>7 DEF StopStale
    <3>2. engine[m] \in Engine
      BY DEF TypeOK
    <3>3. e \in Engine
      BY <3>2 DEF Engine
    <3> QED
      BY <3>1, <3>3 DEF TypeOK
  <2> QED
    BY <1>7, <2>1, <2>2 DEF StopStale, TypeOK, authority, records, recoveries
<1>8. ASSUME NEW m \in Memberships, CrashSession(m) PROVE TypeOK'
  <2>1. Control
    BY <1>0, <1>1, <1>8, GoTypes DEF CrashSession
  <2>2. engine' \in [Memberships -> Engine]
    BY <1>8 DEF CrashSession, TypeOK, NewEngine, Engine
  <2>3. session' \in [Memberships -> Session]
    BY <1>8, ZenonT(60) DEF CrashSession, TypeOK, Session
  <2>4. faults' \in 0..MaxFaults
    BY <1>8, DeliveryAssumption DEF CrashSession, Fault, TypeOK
  <2> QED
    BY <1>8, <2>1, <2>2, <2>3, <2>4 DEF CrashSession, TypeOK, authority, records, recoveries
<1>9. CASE BindMembership \/ Deactivate
  BY <1>9 DEF BindMembership, Deactivate, TypeOK, records, recoveries
<1> QED
  BY <1>3, <1>4, <1>5, <1>6, <1>7, <1>8, <1>9

\* One step keeps the types.
LEMMA TypeNext == ASSUME TypeOK, [Next]_vars PROVE TypeOK'
<1>1. CASE Next
  BY <1>1, ProcFacts, ClientsKeepTypes, ReconcileKeepsTypes, EnginesKeepTypes, SessionsKeepTypes
    DEF Next, ClientStep, EngineStep
<1>2. CASE UNCHANGED vars
  BY <1>2 DEF vars, authority, records, recoveries, TypeOK
<1> QED
  BY <1>1, <1>2

\* The state of the delivery keeps its types: in particular an enqueue always
\* has the exact recipient (enqueueTaskProjectionWithConfig).
THEOREM TypeCorrect == Spec => []TypeOK
<1>1. Init => TypeOK
  BY TypeInit
<1>2. TypeOK /\ [Next]_vars => TypeOK'
  BY TypeNext
<1> QED
  BY <1>1, <1>2, PTL DEF Spec

-----------------------------------------------------------------------------
(* What is settled was presented.                                          *)

\* A Session holds deliveries of its own Membership, and what it acknowledges,
\* or stages for it, is what the conversation shows.
SessionsAreExact ==
  \A m \in Memberships :
    /\ \A r \in session[m].queued \cup session[m].conversation \cup engine[m].batch : r.member = m
    /\ session[m].acks \cup session[m].committing \cup engine[m].staged
         \subseteq session[m].conversation

SettledInv == SessionsAreExact /\ SettledIsPresented

\* A delivery has one Membership.
LEMMA MemberFacts == \A r \in Delivery : r.member \in Memberships
BY DEF Delivery

\* Nothing is settled at first.
LEMMA SettledInit == ASSUME Init PROVE SettledInv
BY DEF Init, NewEngine, SettledInv, SessionsAreExact, SettledIsPresented

\* The operations, the reconciliation and the Membership leave it alone.
LEMMA OthersKeepSettled ==
  ASSUME SettledInv, UNCHANGED <<tombstones, acked, session, engine>>
  PROVE  SettledInv'
BY DEF SettledInv, SessionsAreExact, SettledIsPresented

\* An engine chooses what is for it, and settles what its Session has acknowledged.
LEMMA EnginesKeepSettled ==
  ASSUME TypeOK, SettledInv, NEW m \in Memberships,
         Start(m) \/ Select(m) \/ Send(m) \/ ScanFails(m) \/ StopStale(m)
  PROVE  SettledInv'
<1> USE DEF SettledInv
<1>0. session[m] \in Session /\ engine[m] \in Engine
  BY DEF TypeOK
<1>1. CASE Start(m)
  <2>1. engine'[m].batch = {} /\ engine'[m].staged = {}
    BY <1>1 DEF Start, NewEngine, TypeOK
  <2>2. \A k \in Memberships \ {m} : engine'[k] = engine[k]
    BY <1>1 DEF Start, TypeOK
  <2>3. session' = session
    BY <1>1 DEF Start
  <2>4. SessionsAreExact'
    BY <2>1, <2>2, <2>3 DEF SessionsAreExact
  <2>5. \A r \in session[m].acks : r.member = m /\ r \in session[m].conversation
    BY DEF SessionsAreExact
  <2>6. tombstones' \cup acked' \subseteq tombstones \cup acked \cup session[m].acks
    BY <1>1 DEF Start
  <2>7. SettledIsPresented'
    BY <2>3, <2>5, <2>6 DEF SettledIsPresented
  <2> QED
    BY <2>4, <2>7
<1>2. CASE Select(m)
  <2> DEFINE batch == Eligible(m) \ (acked \cup engine[m].attempted)
             e == [engine[m] EXCEPT !.running = TRUE]
             f == [engine[m] EXCEPT !.batch = batch, !.attempted = engine[m].attempted \cup batch]
  <2>1. engine' = [engine EXCEPT ![m] = e] \/ engine' = [engine EXCEPT ![m] = f]
    BY <1>2 DEF Select
  <2>2. e.staged = engine[m].staged /\ e.batch = engine[m].batch
    BY <1>0 DEF Engine
  <2>3. f.staged = engine[m].staged /\ f.batch = batch
    BY <1>0 DEF Engine
  <2>4. engine'[m] = e \/ engine'[m] = f
    BY <2>1 DEF TypeOK
  <2>5. engine'[m].staged = engine[m].staged
    BY <2>2, <2>3, <2>4
  <2>6. engine'[m].batch \subseteq engine[m].batch \cup Eligible(m)
    BY <2>2, <2>3, <2>4
  <2>7. \A k \in Memberships \ {m} : engine'[k] = engine[k]
    BY <1>2 DEF Select, TypeOK
  <2>8. UNCHANGED <<session, tombstones, acked>>
    BY <1>2 DEF Select, records
  <2>9. SessionsAreExact'
    BY <2>5, <2>6, <2>7, <2>8, EligibleFacts DEF SessionsAreExact
  <2> QED
    BY <2>8, <2>9 DEF SettledIsPresented
<1>3. CASE Send(m)
  <2>1. engine'[m].batch = {} /\ engine'[m].staged = engine[m].staged
    BY <1>0, <1>3 DEF Send, TypeOK, Engine
  <2>2. \A k \in Memberships \ {m} : engine'[k] = engine[k] /\ session'[k] = session[k]
    BY <1>3 DEF Send, TypeOK
  <2>3. /\ session'[m].queued \subseteq session[m].queued \cup engine[m].batch
        /\ session'[m].conversation = session[m].conversation
        /\ session'[m].acks = session[m].acks /\ session'[m].committing = session[m].committing
    BY <1>0, <1>3 DEF Send, TypeOK, Session
  <2>4. SessionsAreExact'
    BY <2>1, <2>2, <2>3 DEF SessionsAreExact
  <2>5. \A k \in Memberships : session'[k].conversation = session[k].conversation
    BY <2>2, <2>3
  <2>6. UNCHANGED <<tombstones, acked>>
    BY <1>3 DEF Send, records
  <2>7. SettledIsPresented'
    BY <2>5, <2>6, MemberFacts DEF SettledIsPresented, TypeOK
  <2> QED
    BY <2>4, <2>7
<1>4. CASE ScanFails(m) \/ StopStale(m)
  <2>1. engine'[m].batch = {} /\ engine'[m].staged = {}
    <3> DEFINE e == [engine[m] EXCEPT !.staged = {}, !.batch = {}, !.running = FALSE]
    <3>1. engine' = [engine EXCEPT ![m] = e]
      BY <1>4 DEF ScanFails, StopStale
    <3>2. e.staged = {} /\ e.batch = {}
      BY <1>0 DEF Engine
    <3> QED
      BY <3>1, <3>2 DEF TypeOK
  <2>2. \A k \in Memberships \ {m} : engine'[k] = engine[k]
    BY <1>4 DEF ScanFails, StopStale, TypeOK
  <2>3. UNCHANGED <<session, tombstones, acked>>
    BY <1>4 DEF ScanFails, StopStale, records
  <2> QED
    BY <2>1, <2>2, <2>3 DEF SessionsAreExact, SettledIsPresented
<1> QED
  BY <1>1, <1>2, <1>3, <1>4

\* A Session shows what was sent to it, and keeps it over a crash.
LEMMA SessionsKeepSettled ==
  ASSUME TypeOK, SettledInv, NEW m \in Memberships,
         \/ Present(m) \/ ObserveContext(m) \/ AppendAck(m) \/ PersistAck(m) \/ CrashSession(m)
  PROVE  SettledInv'
<1> USE DEF SettledInv
<1>0. session[m] \in Session /\ engine[m] \in Engine
  BY DEF TypeOK
<1>1. CASE Present(m)
  <2>1. UNCHANGED <<engine, tombstones, acked>>
    BY <1>1 DEF Present, records
  <2>2. \A k \in Memberships \ {m} : session'[k] = session[k]
    BY <1>1 DEF Present, TypeOK
  <2>3. /\ session'[m].queued = {} /\ session'[m].conversation = session[m].conversation \cup session[m].queued
        /\ session'[m].acks = session[m].acks /\ session'[m].committing = session[m].committing
    BY <1>0, <1>1 DEF Present, TypeOK, Session
  <2>4. SessionsAreExact'
    BY <2>1, <2>2, <2>3 DEF SessionsAreExact
  <2>5. \A k \in Memberships : session[k].conversation \subseteq session'[k].conversation
    BY <2>2, <2>3
  <2>6. SettledIsPresented'
    BY <2>1, <2>5, MemberFacts DEF SettledIsPresented, TypeOK
  <2> QED
    BY <2>4, <2>6
<1>2. CASE ObserveContext(m)
  <2>1. UNCHANGED <<session, tombstones, acked>>
    BY <1>2 DEF ObserveContext, records
  <2>2. \A k \in Memberships \ {m} : engine'[k] = engine[k]
    BY <1>2 DEF ObserveContext, TypeOK
  <2>3. /\ engine'[m].staged \subseteq engine[m].staged \cup session[m].conversation
        /\ engine'[m].batch = engine[m].batch
    BY <1>0, <1>2 DEF ObserveContext, TypeOK, Engine
  <2> QED
    BY <2>1, <2>2, <2>3 DEF SessionsAreExact, SettledIsPresented
<1>3. CASE AppendAck(m)
  <2>1. UNCHANGED <<tombstones, acked>>
    BY <1>3 DEF AppendAck, records
  <2>2. \A k \in Memberships \ {m} : engine'[k] = engine[k] /\ session'[k] = session[k]
    BY <1>3 DEF AppendAck, TypeOK
  <2>3. engine'[m].staged \subseteq engine[m].staged /\ engine'[m].batch = engine[m].batch
    BY <1>0, <1>3 DEF AppendAck, TypeOK, Engine
  <2>4. /\ session'[m].queued = session[m].queued
        /\ session'[m].conversation = session[m].conversation
        /\ session'[m].acks \subseteq session[m].acks \cup engine[m].staged
        /\ session'[m].committing \subseteq engine[m].staged
    BY <1>0, <1>3 DEF AppendAck, TypeOK, Session
  <2>5. SessionsAreExact'
    BY <2>2, <2>3, <2>4 DEF SessionsAreExact
  <2>6. SettledIsPresented'
    BY <2>1, <2>2, <2>4, MemberFacts DEF SettledIsPresented, TypeOK
  <2> QED
    BY <2>5, <2>6
<1>4. CASE PersistAck(m)
  <2>1. UNCHANGED engine
    BY <1>4 DEF PersistAck
  <2>2. \A k \in Memberships \ {m} : session'[k] = session[k]
    BY <1>4 DEF PersistAck, TypeOK
  <2>3. /\ session'[m].queued = session[m].queued
        /\ session'[m].conversation = session[m].conversation
        /\ session'[m].acks = session[m].acks /\ session'[m].committing = {}
    BY <1>0, <1>4 DEF PersistAck, TypeOK, Session
  <2>4. SessionsAreExact'
    BY <2>1, <2>2, <2>3 DEF SessionsAreExact
  <2>5. \A r \in session[m].committing : r.member = m /\ r \in session[m].conversation
    BY DEF SessionsAreExact
  <2>6. tombstones' \cup acked' \subseteq tombstones \cup acked \cup session[m].committing
    BY <1>4 DEF PersistAck
  <2>7. SettledIsPresented'
    BY <2>2, <2>3, <2>5, <2>6, MemberFacts DEF SettledIsPresented, TypeOK
  <2> QED
    BY <2>4, <2>7
<1>5. CASE CrashSession(m)
  <2>1. UNCHANGED <<tombstones, acked>>
    BY <1>5 DEF CrashSession, records
  <2>2. \A k \in Memberships \ {m} : engine'[k] = engine[k] /\ session'[k] = session[k]
    BY <1>5 DEF CrashSession, TypeOK
  <2>3. engine'[m].staged = {} /\ engine'[m].batch = {}
    BY <1>5 DEF CrashSession, TypeOK, NewEngine
  <2>4. /\ session'[m].queued = {} /\ session'[m].conversation = session[m].conversation
        /\ session'[m].acks = session[m].acks /\ session'[m].committing = {}
    BY <1>0, <1>5 DEF CrashSession, TypeOK, Session
  <2>5. SessionsAreExact'
    BY <2>2, <2>3, <2>4 DEF SessionsAreExact
  <2>6. SettledIsPresented'
    BY <2>1, <2>2, <2>4, MemberFacts DEF SettledIsPresented, TypeOK
  <2> QED
    BY <2>5, <2>6
<1> QED
  BY <1>1, <1>2, <1>3, <1>4, <1>5

\* One step keeps what is settled within what was presented.
LEMMA SettledNext == ASSUME TypeOK, SettledInv, [Next]_vars PROVE SettledInv'
<1>1. ASSUME NEW c \in Clients, Commit(c) \/ Replay(c) \/ ClientStep(c) \/ RetireFails(c) \/ CrashClient(c)
      PROVE  SettledInv'
  BY <1>1, OthersKeepSettled DEF Commit, Replay, ClientStep, Retire, RetireSpool, RetireRecovery,
     RetireFails, CrashClient, Reconcile, ReadFrontier, ReadCoordinates, ReadBinding, Enqueue,
     RecordRecovery, records
<1>2. ASSUME NEW p \in Procs, Reconcile(p) \/ EnqueueFails(p) PROVE SettledInv'
  BY <1>2, OthersKeepSettled DEF Reconcile, ReadFrontier, ReadCoordinates, ReadBinding, Enqueue,
     RecordRecovery, EnqueueFails, records
<1>3. ASSUME NEW m \in Memberships, Poll(m) \/ Recover(m) PROVE SettledInv'
  BY <1>3, OthersKeepSettled DEF Poll, Recover, records
<1>4. CASE BindMembership \/ Deactivate \/ UNCHANGED vars
  BY <1>4, OthersKeepSettled DEF BindMembership, Deactivate, vars, records
<1> QED
  BY <1>1, <1>2, <1>3, <1>4, ProcFacts, EnginesKeepSettled, SessionsKeepSettled
    DEF Next, EngineStep

\* A delivery is settled only when the Session of its recipient shows it:
\* observeContext() stages what the conversation holds, start() settles what the
\* Session has acknowledged, and crashes come anywhere between.
THEOREM SettledWasPresented == Spec => []SettledIsPresented
<1>1. Init => SettledInv
  BY SettledInit
<1>2. TypeOK /\ SettledInv /\ [Next]_vars => SettledInv'
  BY SettledNext
<1>3. SettledInv => SettledIsPresented
  BY DEF SettledInv
<1> QED
  BY <1>1, <1>2, <1>3, TypeCorrect, PTL DEF Spec

-----------------------------------------------------------------------------
(* What is resolved, sent and fenced.                                      *)

\* What an engine resolves it enqueues in the same step; a record that is made
\* again is open again.
LEMMA ResolvedNext == ASSUME ResolvedIsQueued, [Next]_vars PROVE ResolvedIsQueued'
<1> USE DEF ResolvedIsQueued, records, recoveries
<1>1. ASSUME NEW c \in Clients,
             \/ Commit(c) \/ Replay(c) \/ Retire(c) \/ RetireSpool(c) \/ RetireRecovery(c)
             \/ RetireFails(c) \/ CrashClient(c)
      PROVE  ResolvedIsQueued'
  BY <1>1 DEF Commit, Replay, Retire, RetireSpool, RetireRecovery, RetireFails, CrashClient
<1>2. ASSUME NEW p \in Procs, Reconcile(p) \/ EnqueueFails(p) PROVE ResolvedIsQueued'
  <2>1. resolved' \subseteq resolved /\ spool \subseteq spool'
    BY <1>2 DEF Reconcile, ReadFrontier, ReadCoordinates, ReadBinding, Enqueue, RecordRecovery,
       EnqueueFails
  <2> QED
    BY <2>1
<1>3. ASSUME NEW m \in Memberships,
             \/ Start(m) \/ Poll(m) \/ Recover(m) \/ Select(m) \/ Send(m) \/ ScanFails(m)
             \/ Present(m) \/ ObserveContext(m) \/ AppendAck(m) \/ PersistAck(m)
             \/ StopStale(m) \/ CrashSession(m)
      PROVE  ResolvedIsQueued'
  BY <1>3 DEF Start, Poll, Recover, Select, Send, ScanFails, Present, ObserveContext, AppendAck,
     PersistAck, StopStale, CrashSession
<1>4. CASE BindMembership \/ Deactivate \/ UNCHANGED vars
  BY <1>4 DEF BindMembership, Deactivate, vars
<1> QED
  BY <1>1, <1>2, <1>3, <1>4, ProcFacts DEF Next, ClientStep, EngineStep

\* A recovery record is resolved only when its exact target has the delivery in
\* the spool (reconcileTaskChanges, recordTaskDeliveryRecovery).
THEOREM RecoveriesAreTrue == Spec => []ResolvedIsQueued
<1>1. Init => ResolvedIsQueued
  BY DEF Init, ResolvedIsQueued
<1>2. ResolvedIsQueued /\ [Next]_vars => ResolvedIsQueued'
  BY ResolvedNext
<1> QED
  BY <1>1, <1>2, PTL DEF Spec

\* Only a send puts something into the queue of a Session, and only the commit
\* of a turn acknowledges.
LEMMA OnlySendQueues ==
  ASSUME TypeOK, [Next]_vars, NEW m \in Memberships
  PROVE  \/ session'[m].queued \subseteq session[m].queued /\ session'[m].acks = session[m].acks
         \/ /\ Send(m) /\ current = m /\ session'[m].acks = session[m].acks
            /\ session'[m].queued = session[m].queued \cup (engine[m].batch \cap Live)
         \/ AppendAck(m) /\ session'[m].queued = session[m].queued
<1> DEFINE Quiet == /\ session'[m].queued \subseteq session[m].queued
                    /\ session'[m].acks = session[m].acks
<1>0. session \in [Memberships -> Session] /\ session[m] \in Session
  BY DEF TypeOK
<1>1. CASE UNCHANGED session
  BY <1>1
<1>2. CASE \E c \in Clients : Commit(c) \/ Replay(c) \/ ClientStep(c) \/ RetireFails(c) \/ CrashClient(c)
  <2>1. UNCHANGED session
    BY <1>2 DEF Commit, Replay, ClientStep, Retire, RetireSpool, RetireRecovery, RetireFails,
       CrashClient, Reconcile, ReadFrontier, ReadCoordinates, ReadBinding, Enqueue, RecordRecovery
  <2> QED
    BY <1>1, <2>1
<1>3. ASSUME NEW k \in Memberships, Start(k) \/ Poll(k) \/ Recover(k) \/ Select(k) \/ ScanFails(k)
                                   \/ ObserveContext(k) \/ StopStale(k)
      PROVE  Quiet
  BY <1>3 DEF Start, Poll, Recover, Select, ScanFails, ObserveContext, StopStale
<1>4. ASSUME NEW k \in Memberships, Reconcile(k)
      PROVE  Quiet
  BY <1>4 DEF Reconcile, ReadFrontier, ReadCoordinates, ReadBinding, Enqueue, RecordRecovery
<1>5. ASSUME NEW k \in Memberships, Present(k) \/ PersistAck(k) \/ CrashSession(k)
      PROVE  Quiet
  <2>1. CASE k = m
    BY <1>0, <1>5, <2>1 DEF Present, PersistAck, CrashSession, Session
  <2>2. CASE k # m
    BY <1>0, <1>5, <2>2 DEF Present, PersistAck, CrashSession
  <2> QED
    BY <2>1, <2>2
<1>6. ASSUME NEW k \in Memberships, Send(k)
      PROVE  \/ Quiet
             \/ /\ k = m /\ current = m /\ session'[m].acks = session[m].acks
                /\ session'[m].queued = session[m].queued \cup (engine[m].batch \cap Live)
  <2>1. CASE k = m
    BY <1>0, <1>6, <2>1 DEF Send, Session
  <2>2. CASE k # m
    BY <1>0, <1>6, <2>2 DEF Send
  <2> QED
    BY <2>1, <2>2
<1>7. ASSUME NEW k \in Memberships, AppendAck(k)
      PROVE  Quiet \/ (k = m /\ session'[m].queued = session[m].queued)
  <2>1. CASE k = m
    BY <1>0, <1>7, <2>1 DEF AppendAck, Session
  <2>2. CASE k # m
    BY <1>0, <1>7, <2>2 DEF AppendAck
  <2> QED
    BY <2>1, <2>2
<1>8. CASE (\E p \in Procs : EnqueueFails(p)) \/ BindMembership \/ Deactivate \/ UNCHANGED vars
  <2>1. UNCHANGED session
    BY <1>8 DEF EnqueueFails, BindMembership, Deactivate, vars
  <2> QED
    BY <1>1, <2>1
<1> QED
  BY <1>2, <1>3, <1>4, <1>5, <1>6, <1>7, <1>8 DEF Next, EngineStep

\* Only the Session of the current Membership is sent deliveries or acknowledges
\* them, whoever was current when they were chosen (scanOnce, commit, under the
\* lease of the Membership).
THEOREM TheReplacedAreSilent == Spec => StaleSessionIsSilent
<1>1. TypeOK /\ [Next]_vars =>
        [\A m \in Memberships :
           (~ session'[m].queued \subseteq session[m].queued \/ session'[m].acks # session[m].acks)
             => current = m]_vars
  BY OnlySendQueues DEF AppendAck
<1> QED
  BY <1>1, TypeCorrect, PTL DEF Spec, StaleSessionIsSilent

\* Nothing that a later revision superseded or a retirement withdrew is sent,
\* whatever was committed since the batch was chosen (the second read of scanOnce).
THEOREM TheSupersededStay == Spec => NothingSupersededIsSent
<1>1. TypeOK /\ [Next]_vars =>
        [\A m \in Memberships : \A r \in session'[m].queued \ session[m].queued :
           Coordinate(r) \in Now /\ r \notin retired]_vars
  <2> SUFFICES ASSUME TypeOK, [Next]_vars, NEW m \in Memberships,
                      NEW r \in session'[m].queued \ session[m].queued
               PROVE  Coordinate(r) \in Now /\ r \notin retired
    OBVIOUS
  <2>1. r \in Live
    BY OnlySendQueues
  <2> QED
    BY <2>1, LiveFacts
<1> QED
  BY <1>1, TypeCorrect, PTL DEF Spec, NothingSupersededIsSent

\* Neither a late retirement nor a replay brings the fence back
\* (recordGraphRevisionRetirementLocked).
THEOREM TheFenceHolds == Spec => FenceNeverRegresses
<1>1. TypeOK /\ [Next]_vars => [fence' >= fence]_vars
  <2> SUFFICES ASSUME TypeOK, [Next]_vars PROVE fence' >= fence
    OBVIOUS
  <2>1. fence \in Nat
    BY DEF TypeOK
  <2>2. ASSUME NEW c \in Clients, Retire(c) PROVE fence' >= fence
    <3>1. at[c] \in Nat
      BY DEF TypeOK
    <3> QED
      BY <2>1, <2>2, <3>1 DEF Retire
  <2>3. (\E c \in Clients : Retire(c)) \/ fence' = fence
    BY ZenonT(60) DEF Next, ClientStep, EngineStep, Reconcile, Commit, Replay, RetireSpool, RetireRecovery,
       RetireFails, CrashClient, ReadFrontier, ReadCoordinates, ReadBinding, Enqueue, EnqueueFails,
       RecordRecovery, Start, Poll, Recover, Select, Send, ScanFails, Present, ObserveContext,
       AppendAck, PersistAck, StopStale, CrashSession, BindMembership, Deactivate, vars
  <2> QED
    BY <2>1, <2>2, <2>3
<1> QED
  BY <1>1, TypeCorrect, PTL DEF Spec, FenceNeverRegresses
=============================================================================
