---------------------------- MODULE TaskDelivery ----------------------------
(***************************************************************************)
(* How a ready Task reaches the Session of its Worker: the durable spool,   *)
(* its tombstones and recovery records (task-delivery.ts), the fence that   *)
(* retires superseded revisions (graph-revision-retirement.ts), the         *)
(* operations that commit and then publish (graph-orchestration.ts), and    *)
(* the delivery engine of each Membership with its Session.                 *)
(*                                                                         *)
(* One Worker.  A Membership is a number, and so are its engine and its     *)
(* Session.  What the graph authority decides (TaskGraph) is a log here: a  *)
(* commit gives Tasks new revisions and chooses the ready front.  The       *)
(* version of a Task is a digest of what the Task shows, so that a change   *)
(* of its text alone can bring an earlier version back.                     *)
(***************************************************************************)
EXTENDS Naturals, Sequences, FiniteSets

CONSTANTS
  Tasks,
  Texts,        \* what the current context of a Task can say
  Clients,      \* processes that run task operations
  Memberships,  \* numbers from 1, used in their order
  MaxCommits,   \* bound of the model: revisions in the log
  MaxFaults     \* bound of the model: crashes and failed steps

ASSUME DeliveryAssumption ==
  /\ Tasks # {} /\ Texts # {}
  /\ Memberships \subseteq Nat \ {0} /\ Clients \cap (Memberships \cup {0}) = {}
  /\ MaxCommits \in Nat \ {0} /\ MaxFaults \in Nat

\* No Membership is current, nobody holds the lease.
None == 0

VARIABLES
  log,         \* the committed revisions: the card of each Task, and the ready front
  fence,       \* the authority sequence of the retirement fence
  spool,       \* the delivery records of the Worker
  acked,       \* those with successfulTurnAckAt
  retired,     \* those with retiredAt
  tombstones,
  recovery,    \* the recovery records; member is their target, None without one
  resolved,    \* those with the Worker among resolvedRecipients
  lapsed,      \* those with retiredAt
  current,     \* the current Membership of the Worker
  bound,       \* how many Memberships it has had
  lease,       \* who holds the graph-revision lease over several steps
  pc,          \* where each client and each engine is
  at,          \* the operation of each client: the sequence that it committed
  found,       \* the delivery that each process is reconciling
  engine,      \* the memory of each engine
  session,     \* the Session of each Membership
  faults

authority == <<log, current, bound>>
records == <<spool, acked, retired, tombstones>>
recoveries == <<recovery, resolved, lapsed>>
vars == <<authority, fence, records, recoveries, lease, pc, at, found, engine, session, faults>>

Procs == Clients \cup Memberships

\* What a TaskVersionRef digests: the last change of definition or state, and the text.
Version == [era: 1..MaxCommits, text: Texts]

\* What a commit leaves: the version of each Task, and which are ready.
Revision == [card: [Tasks -> Version], front: SUBSET Tasks]

\* A delivery ID digests the Task, its version, and the exact recipient.
Delivery == [task: Tasks, version: Version, member: Memberships]

\* Until its recipient is resolved, a delivery may have none.
Obligation == [task: Tasks, version: Version, member: Memberships \cup {None}]

Nothing ==
  [task |-> CHOOSE t \in Tasks : TRUE,
   version |-> [era |-> 1, text |-> CHOOSE x \in Texts : TRUE], member |-> None]

Reconciling == {"frontier", "coordinates", "bind", "enqueue", "record"}

Steps ==
  {"idle", "retire", "spool", "recovery", "off", "start", "recover", "select", "send"}
    \cup Reconciling

NewEngine ==
  [running |-> FALSE, attempted |-> {}, acknowledged |-> {}, staged |-> {}, batch |-> {}]

Engine ==
  [running: BOOLEAN, attempted: SUBSET Delivery, acknowledged: SUBSET Delivery,
   staged: SUBSET Delivery, batch: SUBSET Delivery]

Session ==
  [queued: SUBSET Delivery, conversation: SUBSET Delivery, acks: SUBSET Delivery,
   committing: SUBSET Delivery]

TypeOK ==
  /\ log \in Seq(Revision)
  /\ Len(log) \in 1..MaxCommits /\ fence \in 1..Len(log)
  /\ spool \subseteq Delivery /\ acked \subseteq Delivery
  /\ retired \subseteq Delivery /\ tombstones \subseteq Delivery
  /\ recovery \subseteq Obligation /\ resolved \subseteq Obligation /\ lapsed \subseteq Obligation
  /\ current \in Memberships \cup {None} /\ bound \in Nat
  /\ lease \in Procs \cup {None}
  /\ pc \in [Procs -> Steps]
  /\ at \in [Clients -> 1..Len(log)]
  /\ found \in [Procs -> Obligation]
  /\ \A p \in Procs : pc[p] = "enqueue" => found[p] \in Delivery
  /\ engine \in [Memberships -> Engine]
  /\ session \in [Memberships -> Session]
  /\ faults \in 0..MaxFaults

Init ==
  /\ \E front \in SUBSET Tasks, text \in Texts :
       /\ Cardinality(front) <= 1
       /\ log = <<[card |-> [t \in Tasks |-> [era |-> 1, text |-> text]], front |-> front]>>
  /\ fence = 1
  /\ spool = {} /\ acked = {} /\ retired = {} /\ tombstones = {}
  /\ recovery = {} /\ resolved = {} /\ lapsed = {}
  /\ current = None /\ bound = 0 /\ lease = None
  /\ pc = [p \in Procs |-> IF p \in Clients THEN "idle" ELSE "off"]
  /\ at = [c \in Clients |-> 1]
  /\ found = [p \in Procs |-> Nothing]
  /\ engine = [m \in Memberships |-> NewEngine]
  /\ session = [m \in Memberships |-> [queued |-> {}, conversation |-> {}, acks |-> {},
                                       committing |-> {}]]
  /\ faults = 0

-----------------------------------------------------------------------------
(* The authority, and what the others read of it.                          *)

Coordinate(r) == <<r.task, r.version>>

Coordinates(n) == {<<t, log[n].card[t]>> : t \in Tasks}

\* What readGraphTaskCoordinates answers now.
Now == Coordinates(Len(log))

Front == log[Len(log)].front

\* The records that readCurrentTaskDeliveries returns.
Live == {r \in spool \ retired : Coordinate(r) \in Now}

Eligible(m) ==
  IF current = m THEN {r \in Live \ tombstones : r.member = m} ELSE {}

Go(p, step) == pc' = [pc EXCEPT ![p] = step]

\* Where reconcileReady returns to.
Return(p) == IF p \in Clients THEN "idle" ELSE "recover"

Done(p) == Go(p, Return(p)) /\ found' = [found EXCEPT ![p] = Nothing]

Fault == faults < MaxFaults /\ faults' = faults + 1

\* A client commits: the change of some Tasks, or of the text of one.
Commit(c) ==
  /\ pc[c] = "idle" /\ Len(log) < MaxCommits
  /\ LET next == Len(log) + 1  last == log[Len(log)] IN
     \/ \E changed \in (SUBSET Tasks) \ {{}}, front \in SUBSET Tasks :
          /\ Cardinality(front) <= 1
          /\ log' = Append(log, [card |-> [t \in Tasks |->
                IF t \in changed THEN [last.card[t] EXCEPT !.era = next] ELSE last.card[t]],
                                 front |-> front])
     \/ \E t \in Tasks : \E text \in Texts \ {last.card[t].text} :
          log' = Append(log, [last EXCEPT !.card[t].text = text])
  /\ at' = [at EXCEPT ![c] = Len(log) + 1]
  /\ Go(c, "retire")
  /\ UNCHANGED <<current, bound, fence, records, recoveries, lease, found, engine, session, faults>>

\* A client whose answer was lost replays its operation, which retires only
\* when it is still the last one.
Replay(c) ==
  /\ pc[c] = "idle" /\ Fault
  /\ Go(c, IF at[c] = Len(log) THEN "retire" ELSE "frontier")
  /\ UNCHANGED <<authority, fence, records, recoveries, lease, at, found, engine, session>>

-----------------------------------------------------------------------------
(* Retirement of the superseded deliveries, under the graph-revision lease. *)

\* recordGraphRevisionRetirementLocked; a stale operation changes nothing.
Retire(c) ==
  /\ pc[c] = "retire" /\ lease = None
  /\ IF at[c] < fence THEN Go(c, "frontier") /\ UNCHANGED <<fence, lease>>
     ELSE Go(c, "spool") /\ fence' = at[c] /\ lease' = c
  /\ UNCHANGED <<authority, records, recoveries, at, found, engine, session, faults>>

RetireSpool(c) ==
  /\ pc[c] = "spool"
  /\ retired' = retired \cup {r \in spool : Coordinate(r) \notin Coordinates(at[c])}
  /\ Go(c, "recovery")
  /\ UNCHANGED <<authority, fence, spool, acked, tombstones, recoveries, lease, at, found,
                 engine, session, faults>>

RetireRecovery(c) ==
  /\ pc[c] = "recovery"
  /\ lapsed' = lapsed \cup {r \in recovery : Coordinate(r) \notin Coordinates(at[c])}
  /\ lease' = None
  /\ Go(c, "frontier")
  /\ UNCHANGED <<authority, fence, records, recovery, resolved, at, found, engine, session, faults>>

\* A failure becomes a warning of the operation, which goes on.
RetireFails(c) ==
  /\ pc[c] \in {"retire", "spool", "recovery"} /\ Fault
  /\ lease' = IF lease = c THEN None ELSE lease
  /\ Go(c, "frontier")
  /\ UNCHANGED <<authority, fence, records, recoveries, at, found, engine, session>>

CrashClient(c) ==
  /\ pc[c] # "idle" /\ Fault
  /\ lease' = IF lease = c THEN None ELSE lease
  /\ Done(c)
  /\ UNCHANGED <<authority, fence, records, recoveries, at, engine, session>>

-----------------------------------------------------------------------------
(* reconcileReady, run by the operations and by every scan of an engine.    *)

ReadFrontier(p) ==
  /\ pc[p] = "frontier"
  /\ \/ Front = {} /\ Done(p)
     \/ \E t \in Front :
          /\ found' = [found EXCEPT ![p] =
               [task |-> t, version |-> log[Len(log)].card[t], member |-> None]]
          /\ Go(p, "coordinates")
  /\ UNCHANGED <<authority, fence, records, recoveries, lease, at, engine, session, faults>>

\* Deliveries and tombstones are those of the Worker, whatever their Membership.
AlreadyQueued(r) == Coordinate(r) \in {Coordinate(x) : x \in Live \cup tombstones}

ReadCoordinates(p) ==
  /\ pc[p] = "coordinates" /\ lease = None
  /\ \/ AlreadyQueued(found[p]) /\ Done(p)
     \/ ~ AlreadyQueued(found[p]) /\ Go(p, "bind") /\ UNCHANGED found
  /\ UNCHANGED <<authority, fence, records, recoveries, lease, at, engine, session, faults>>

\* enqueueTaskChangeForRecipient reads the configuration before it takes the lease.
ReadBinding(p) ==
  /\ pc[p] = "bind"
  /\ \/ current = None /\ Done(p)
     \/ /\ current # None
        /\ found' = [found EXCEPT ![p].member = current]
        /\ Go(p, "enqueue")
  /\ UNCHANGED <<authority, fence, records, recoveries, lease, at, engine, session, faults>>

\* A record that exists is returned as it is, retired or not.
Enqueued(r) == Coordinate(r) \in Now /\ r \notin tombstones

Enqueue(p) ==
  /\ pc[p] = "enqueue" /\ lease = None
  /\ spool' = IF Enqueued(found[p]) THEN spool \cup {found[p]} ELSE spool
  /\ Done(p)
  /\ UNCHANGED <<authority, fence, acked, retired, tombstones, recoveries, lease, at, engine,
                 session, faults>>

\* The failure is recorded for recovery, unless that fails as well.
EnqueueFails(p) ==
  /\ pc[p] = "enqueue" /\ Fault
  /\ \/ Go(p, "record") /\ UNCHANGED found
     \/ Done(p)
  /\ UNCHANGED <<authority, fence, records, recoveries, lease, at, engine, session>>

RecordRecovery(p) ==
  /\ pc[p] = "record" /\ lease = None
  /\ LET r == [found[p] EXCEPT !.member = current]
         new == /\ Coordinate(r) \in Now
                /\ Coordinate(r) \notin {Coordinate(x) : x \in recovery \ resolved}
     IN /\ recovery' = IF new THEN recovery \cup {r} ELSE recovery
        /\ resolved' = IF new THEN resolved \ {r} ELSE resolved
        /\ lapsed' = IF new THEN lapsed \ {r} ELSE lapsed
  /\ Done(p)
  /\ UNCHANGED <<authority, fence, records, lease, at, engine, session, faults>>

Reconcile(p) ==
  \/ ReadFrontier(p) \/ ReadCoordinates(p) \/ ReadBinding(p) \/ Enqueue(p)
  \/ RecordRecovery(p)

-----------------------------------------------------------------------------
(* The delivery engine of a Membership.                                    *)

\* Mutant: leaves the files as they are.
StartUnsettled(m) ==
  /\ pc[m] = "off" /\ current = m /\ lease = None
  /\ engine' = [engine EXCEPT ![m] = [NewEngine EXCEPT
                  !.attempted = session[m].conversation \ session[m].acks,
                  !.acknowledged = session[m].acks]]
  /\ Go(m, "start")
  /\ UNCHANGED <<authority, fence, records, recoveries, lease, at, found, session, faults>>

\* Mutant: keeps the attempts of the engine that was stopped.
StartAttempted(m) ==
  /\ pc[m] = "off" /\ current = m /\ lease = None
  /\ LET shown == session[m] IN
     /\ engine' = [engine EXCEPT ![m] = [NewEngine EXCEPT
                     !.attempted = engine[m].attempted \cup (shown.conversation \ shown.acks),
                     !.acknowledged = shown.acks]]
     /\ tombstones' = tombstones \cup (Live \cap shown.acks)
     /\ acked' = acked \cup (spool \cap shown.acks)
  /\ Go(m, "start")
  /\ UNCHANGED <<authority, fence, spool, retired, recoveries, lease, at, found, session, faults>>

\* What the Session already shows is not sent again, and what it has
\* acknowledged is settled in the files.
Start(m) ==
  /\ pc[m] = "off" /\ current = m /\ lease = None
  /\ LET shown == session[m] IN
     /\ engine' = [engine EXCEPT ![m] = [NewEngine EXCEPT
                     !.attempted = shown.conversation \ shown.acks,
                     !.acknowledged = shown.acks]]
     /\ tombstones' = tombstones \cup (Live \cap shown.acks)
     /\ acked' = acked \cup (spool \cap shown.acks)
  /\ Go(m, "start")
  /\ UNCHANGED <<authority, fence, spool, retired, recoveries, lease, at, found, session, faults>>

Poll(m) ==
  /\ pc[m] = "idle"
  /\ Go(m, "frontier")
  /\ UNCHANGED <<authority, fence, records, recoveries, lease, at, found, engine, session, faults>>

\* Mutant: resolves what was not enqueued.
RecoverAny(m) ==
  /\ pc[m] \in {"start", "recover"} /\ lease = None
  /\ LET due == {r \in recovery \ (resolved \cup lapsed) : r.member = current /\ r.member # None}
     IN spool' = spool \cup {r \in due : Enqueued(r)} /\ resolved' = resolved \cup due
  /\ Go(m, IF pc[m] = "start" THEN "frontier" ELSE "select")
  /\ UNCHANGED <<authority, fence, acked, retired, tombstones, recovery, lapsed, lease, at, found,
                 engine, session, faults>>

\* reconcileTaskChanges: what could not be enqueued is, for its exact target only.
Recover(m) ==
  /\ pc[m] \in {"start", "recover"} /\ lease = None
  /\ LET due == {r \in recovery \ (resolved \cup lapsed) :
                   r.member = current /\ r.member # None /\ Enqueued(r)}
     IN spool' = spool \cup due /\ resolved' = resolved \cup due
  /\ Go(m, IF pc[m] = "start" THEN "frontier" ELSE "select")
  /\ UNCHANGED <<authority, fence, acked, retired, tombstones, recovery, lapsed, lease, at, found,
                 engine, session, faults>>

\* The attempt is recorded before the send.
Select(m) ==
  /\ pc[m] = "select" /\ lease = None
  /\ LET batch == Eligible(m) \ (acked \cup engine[m].attempted) IN
     \/ /\ batch = {}
        /\ engine' = [engine EXCEPT ![m] = [@ EXCEPT !.running = TRUE]]
        /\ Go(m, "idle")
     \/ /\ batch # {}
        /\ engine' = [engine EXCEPT ![m] =
             [@ EXCEPT !.batch = batch, !.attempted = engine[m].attempted \cup batch]]
        /\ Go(m, "send")
  /\ UNCHANGED <<authority, fence, records, recoveries, lease, at, found, session, faults>>

\* Mutant: sends the batch as it was chosen.
SendChosen(m) ==
  /\ pc[m] = "send" /\ lease = None
  /\ IF current = m
     THEN /\ session' = [session EXCEPT ![m].queued = @ \cup engine[m].batch]
          /\ Go(m, "idle")
     ELSE Go(m, "off") /\ UNCHANGED session
  /\ engine' = [engine EXCEPT ![m] = [@ EXCEPT !.batch = {}, !.running = (current = m)]]
  /\ UNCHANGED <<authority, fence, records, recoveries, lease, at, found, faults>>

\* What is still current of the batch is sent, under both leases.
Send(m) ==
  /\ pc[m] = "send" /\ lease = None
  /\ IF current = m
     THEN /\ session' = [session EXCEPT ![m].queued = @ \cup (engine[m].batch \cap Live)]
          /\ Go(m, "idle")
     ELSE Go(m, "off") /\ UNCHANGED session
  /\ engine' = [engine EXCEPT ![m] = [@ EXCEPT !.batch = {}, !.running = (current = m)]]
  /\ UNCHANGED <<authority, fence, records, recoveries, lease, at, found, faults>>

\* A scan that fails stops the engine; the lifecycle starts it again later.
ScanFails(m) ==
  /\ pc[m] \in {"select", "send"} /\ Fault
  /\ engine' = [engine EXCEPT ![m] = [@ EXCEPT !.staged = {}, !.batch = {}, !.running = FALSE]]
  /\ Go(m, "off")
  /\ UNCHANGED <<authority, fence, records, recoveries, lease, at, found, session>>

EngineStep(m) ==
  \/ Start(m) \/ Poll(m) \/ Reconcile(m) \/ Recover(m) \/ Select(m) \/ Send(m)

-----------------------------------------------------------------------------
(* The Session.                                                            *)

\* The agent loop takes up the messages that were sent to it.
Present(m) ==
  /\ session[m].queued # {}
  /\ session' = [session EXCEPT ![m].conversation = @ \cup session[m].queued, ![m].queued = {}]
  /\ UNCHANGED <<authority, fence, records, recoveries, lease, pc, at, found, engine, faults>>

\* Mutant: stages what was sent, seen or not.
ObserveAttempted(m) ==
  /\ engine[m].running /\ lease = None
  /\ LET seen == (engine[m].attempted \cap Eligible(m)) \ engine[m].acknowledged IN
     /\ ~ seen \subseteq engine[m].staged
     /\ engine' = [engine EXCEPT ![m].staged = @ \cup seen]
  /\ UNCHANGED <<authority, fence, records, recoveries, lease, pc, at, found, session, faults>>

\* A context that is built for a turn holds the conversation.
ObserveContext(m) ==
  /\ engine[m].running /\ lease = None
  /\ LET seen == (session[m].conversation \cap Eligible(m)) \ engine[m].acknowledged IN
     /\ ~ seen \subseteq engine[m].staged
     /\ engine' = [engine EXCEPT ![m].staged = @ \cup seen]
  /\ UNCHANGED <<authority, fence, records, recoveries, lease, pc, at, found, session, faults>>

\* A turn that succeeds commits what was staged: the entry in the Session comes first.
AppendAck(m) ==
  /\ engine[m].running /\ lease = None /\ current = m
  /\ LET ids == engine[m].staged \ engine[m].acknowledged  live == ids \cap Live IN
     /\ ids \cap Eligible(m) # {}
     /\ session' = [session EXCEPT ![m].acks = @ \cup live, ![m].committing = live]
     /\ engine' = [engine EXCEPT ![m].acknowledged = @ \cup ids, ![m].staged = @ \ ids]
  /\ lease' = m
  /\ UNCHANGED <<authority, fence, records, recoveries, pc, at, found, faults>>

\* Then the tombstones and the records.
PersistAck(m) ==
  /\ lease = m
  /\ tombstones' = tombstones \cup session[m].committing
  /\ acked' = acked \cup session[m].committing
  /\ session' = [session EXCEPT ![m].committing = {}]
  /\ lease' = None
  /\ UNCHANGED <<authority, fence, spool, retired, recoveries, pc, at, found, engine, faults>>

\* A Session whose Membership was replaced stops its engine at the next turn.
StopStale(m) ==
  /\ pc[m] # "off" /\ current # m
  /\ engine' = [engine EXCEPT ![m] = [@ EXCEPT !.staged = {}, !.batch = {}, !.running = FALSE]]
  /\ Go(m, "off")
  /\ UNCHANGED <<authority, fence, records, recoveries, lease, at, found, session, faults>>

\* The process goes, with its memory and what was queued; the Session file stays.
CrashSession(m) ==
  /\ pc[m] # "off" \/ session[m].queued # {} \/ lease = m
  /\ Fault
  /\ engine' = [engine EXCEPT ![m] = NewEngine]
  /\ session' = [session EXCEPT ![m].queued = {}, ![m].committing = {}]
  /\ lease' = IF lease = m THEN None ELSE lease
  /\ Go(m, "off")
  /\ found' = [found EXCEPT ![m] = Nothing]
  /\ UNCHANGED <<authority, fence, records, recoveries, at>>

-----------------------------------------------------------------------------
(* The Membership.                                                         *)

BindMembership ==
  /\ current = None /\ bound + 1 \in Memberships
  /\ current' = bound + 1 /\ bound' = bound + 1
  /\ UNCHANGED <<log, fence, records, recoveries, lease, pc, at, found, engine, session, faults>>

\* A stop takes the lease of the Membership, which a commit of its Session holds.
Deactivate ==
  /\ current # None /\ lease # current
  /\ current' = None
  /\ UNCHANGED <<log, bound, fence, records, recoveries, lease, pc, at, found, engine, session,
                 faults>>

-----------------------------------------------------------------------------

ClientStep(c) == Retire(c) \/ RetireSpool(c) \/ RetireRecovery(c) \/ Reconcile(c)

Next ==
  \/ \E c \in Clients : Commit(c) \/ Replay(c) \/ ClientStep(c) \/ RetireFails(c) \/ CrashClient(c)
  \/ \E p \in Procs : EnqueueFails(p)
  \/ \E m \in Memberships :
       \/ EngineStep(m) \/ ScanFails(m)
       \/ Present(m) \/ ObserveContext(m) \/ AppendAck(m) \/ PersistAck(m)
       \/ StopStale(m) \/ CrashSession(m)
  \/ BindMembership \/ Deactivate

Fairness ==
  /\ \A c \in Clients : WF_vars(ClientStep(c))
  /\ \A m \in Memberships :
       WF_vars(EngineStep(m)) /\ WF_vars(Present(m)) /\ WF_vars(PersistAck(m))

Spec == Init /\ [][Next]_vars

FairSpec == Spec /\ Fairness

-----------------------------------------------------------------------------
(* Properties.                                                             *)

\* Only the Session of the current Membership is sent deliveries or has them
\* acknowledged, although it was chosen steps before (scanOnce, commit).
StaleSessionIsSilent ==
  [][\A m \in Memberships :
       (~ session'[m].queued \subseteq session[m].queued \/ session'[m].acks # session[m].acks)
         => current = m]_vars

\* What a later revision has superseded or a retirement has withdrawn is not
\* sent, although the batch was chosen before (the re-read in scanOnce).
NothingSupersededIsSent ==
  [][\A m \in Memberships : \A r \in session'[m].queued \ session[m].queued :
       Coordinate(r) \in Now /\ r \notin retired]_vars

\* A delivery is settled only when the Session of its recipient shows it, over
\* crashes between the send, the context, the entry and the files.
SettledIsPresented ==
  \A r \in tombstones \cup acked : r \in session[r.member].conversation

\* What a Session has acknowledged is not sent to it again, over restarts.
AcknowledgedIsNotResent ==
  [][\A m \in Memberships : \A r \in session'[m].queued \ session[m].queued :
       r \notin session[m].acks]_vars

\* A recovery record is resolved only when its exact target has the delivery.
ResolvedIsQueued == resolved \subseteq spool

\* A delivery is retired only when a later revision has superseded its Task.
OnlySupersededIsRetired ==
  [][\A r \in retired' \ retired : Coordinate(r) \notin Now]_vars

\* A late retirement or a replay does not bring the fence back.
FenceNeverRegresses == [][fence' >= fence]_vars

\* In the end the ready Task of the Worker is in the Session of its Membership,
\* unless the retirement of another operation came late and took its record.
ReadyIsPresented ==
  <>[](current # None =>
         \A t \in Front :
           \E r \in session[current].conversation \cup retired :
             Coordinate(r) = <<t, log[Len(log)].card[t]>>)
=============================================================================
