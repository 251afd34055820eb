------------------------- MODULE RecipientDelivery -------------------------
(***************************************************************************)
(* How an Alert comes into the conversation of its recipient: the inbox     *)
(* (src/alert-authority/inbox-delivery.ts), the delivery engine of Alerts    *)
(* (direct-delivery.ts), the lifecycle that starts, stops and retries it     *)
(* beside the engine of Tasks (src/utils/recipient-delivery-lifecycle.ts),   *)
(* the gate that keeps messages from Pi while it compacts, and the hooks of  *)
(* the Session (src/extensions/pi-team-session-adapter.ts).                 *)
(*                                                                         *)
(* Everything but the inbox and the conversation is in one process.  What   *)
(* the process awaits is a task; code between two awaits is one step.  A     *)
(* generation number of the source only tells whether the one who kept it   *)
(* is the latest: here a task loses its flag "live" when its engine is       *)
(* stopped, "valid" when its slot is stopped, and "mine" when its            *)
(* activation is replaced.                                                  *)
(***************************************************************************)
EXTENDS CompactionGate, Naturals, FiniteSets, SequencesExt

CONSTANTS
  MaxAlerts,     \* bound of the model: Alerts, numbered in their order in the inbox
  Interrupting,  \* those which interrupt the work of the recipient
  Tokens,        \* holds of other extensions
  MaxEvents      \* bound of the model: starts of the Session, failures, crashes,
                 \* compactions, holds, navigations in the Session
                 \* tree and the end of the Membership, all together

ASSUME ConstantsAssumption ==
  /\ Interrupting \subseteq 1..MaxAlerts
  /\ MaxAlerts \in Nat /\ MaxEvents \in Nat

Alerts == 1..MaxAlerts

VARIABLES
  accepted,   \* how many Alerts the inbox has
  read,       \* the Alerts marked as read
  current,    \* whether the Session is bound to the current Membership
  session,    \* whether a process has the Session open
  pi,         \* what Pi does in it
  queue,      \* messages that Pi has and the conversation has not
  shown,      \* the Alerts in the conversation
  acks,       \* the Alerts that the conversation acknowledges
  gate,       \* the compaction gate
  active,     \* whether there is an activation
  slot,       \* the slots of its engines
  tasks,      \* what the process awaits
  engine,     \* the engine of Alerts
  left        \* what is left of MaxEvents

vars == <<accepted, read, current, session, pi, queue, shown, acks, gate, active,
          slot, tasks, engine, left>>

teamVars == <<accepted, current>>
sessionVars == <<session, pi, shown, acks>>
lifecycleVars == <<active, slot>>

Engines == {"alert", "task"}

Elements(seq) == ToSet(seq)

\* Some Alerts in their order in the inbox.
InOrder(S) ==
  CHOOSE f \in [1..Cardinality(S) -> S] : \A i, j \in DOMAIN f : i < j => f[i] < f[j]

\* A message to Pi: the Alerts that it shows; none, if it only asks Pi to
\* resume with those the conversation has already.
Resume == << >>

NewSlot == [running |-> FALSE, retry |-> FALSE, terminal |-> FALSE]

StoppedEngine ==
  [stopped |-> TRUE, polling |-> FALSE, rescan |-> FALSE,
   attempted |-> {}, acknowledged |-> {}, staged |-> {},
   acks |-> {}, shown |-> {}]

Task(kind, name, at, batch) ==
  [kind |-> kind, engine |-> name, at |-> at, batch |-> batch,
   first |-> FALSE, live |-> TRUE, valid |-> TRUE, mine |-> TRUE]

Init ==
  /\ accepted = 0 /\ read = {} /\ current = TRUE
  /\ session = FALSE /\ pi = "idle" /\ queue = << >> /\ shown = << >> /\ acks = {}
  /\ gate = NewGate
  /\ active = FALSE /\ slot = [e \in Engines |-> NewSlot]
  /\ tasks = {} /\ engine = StoppedEngine
  /\ left = MaxEvents

-----------------------------------------------------------------------------
(* Engines are stopped.                                                      *)

\* Stopping the engine of Alerts: after each await it asks for its generation,
\* so that nothing goes on but the marking that is under way.
EngineStop(T) ==
  {IF t.engine # "alert" THEN t
   ELSE IF t.at \in {"bind", "scan"} THEN [t EXCEPT !.at = "return"]
   ELSE [t EXCEPT !.live = FALSE] :
     t \in {t \in T : t.engine = "alert" => t.kind = "start" \/ t.at = "mark"}}

EngineStopped(g) == [g EXCEPT !.stopped = TRUE, !.polling = FALSE, !.rescan = FALSE, !.staged = {}]

\* Stopping a slot and its engine: who started it, or asked it for something,
\* asks for the generation of the slot.
SlotStop(T, e) ==
  {IF t.engine = e THEN [t EXCEPT !.valid = FALSE] ELSE t :
     t \in IF e = "alert" THEN EngineStop(T) ELSE T}

\* Replacing the activation: of what is awaited, only marking has an effect.
Orphaned(T) ==
  {[t EXCEPT !.valid = FALSE, !.mine = FALSE] : t \in {s \in EngineStop(T) : s.at = "mark"}}

Deactivated(T) ==
  /\ active' = FALSE /\ slot' = [e \in Engines |-> NewSlot]
  /\ tasks' = Orphaned(T) /\ engine' = EngineStopped(engine)

\* fail() of the active activation, with T awaited still.
Failed(e, T) ==
  IF slot[e].retry \/ slot[e].terminal
  THEN tasks' = T /\ UNCHANGED <<lifecycleVars, engine>>
  ELSE \E terminal \in BOOLEAN :
         /\ slot' = [slot EXCEPT ![e] =
              [running |-> FALSE, retry |-> ~ terminal, terminal |-> terminal]]
         /\ tasks' = SlotStop(T, e)
         /\ engine' = IF e = "alert" THEN EngineStopped(engine) ELSE engine
         /\ active' = active

Event == left > 0 /\ left' = left - 1

-----------------------------------------------------------------------------
(* Messages go through the gate.                                             *)

Send(message) ==
  IF IsClosed(gate)
  THEN gate' = Keep(gate, message) /\ queue' = queue
  ELSE gate' = gate /\ queue' = Append(queue, message)

Flush ==
  \E which \in gate.flushes :
    /\ pi # "ending"
    /\ IF Flushes(gate, which)
       THEN /\ queue' = queue \o gate.held
            /\ gate' = Flushed(Ran(gate, which))
       ELSE queue' = queue /\ gate' = Ran(gate, which)
    /\ UNCHANGED <<teamVars, read, sessionVars, lifecycleVars, tasks, engine, left>>

-----------------------------------------------------------------------------
(* The engine of Alerts.                                                     *)

\* Mutant: a restart remembers what the engine had attempted.
EngineBegunRemembering ==
  [engine EXCEPT !.stopped = FALSE, !.rescan = FALSE, !.acknowledged = {}, !.staged = {},
                 !.acks = acks, !.shown = Elements(shown)]

\* The synchronous part of start(): stopped, emptied, not stopped.  It is
\* given what the conversation has at this moment.
EngineBegun ==
  [StoppedEngine EXCEPT !.stopped = FALSE, !.acks = acks, !.shown = Elements(shown)]

\* What is acknowledged or shown is not sent again; from now on it polls.
Polling(g) ==
  [g EXCEPT !.attempted = @ \cup g.shown \cup g.acks, !.polling = TRUE, !.acks = {}, !.shown = {}]

\* The end of start(): the first scan, and a message if something is to resume.
StartPolls(t, g) ==
  /\ engine' = Polling(g)
  /\ tasks' = (tasks \ {t}) \cup
       {[t EXCEPT !.at = "scan"], Task("scan", "alert", "bind", << >>)}
  /\ IF g.shown \ g.acks # {} THEN Send(Resume) ELSE UNCHANGED <<queue, gate>>

StartGoes(t, at) == tasks' = (tasks \ {t}) \cup {[t EXCEPT !.at = at]}

\* After its binding was read: acknowledgements are in the conversation.
StartBind(t) ==
  /\ t.kind = "start" /\ t.engine = "alert" /\ t.at = "bind"
  /\ \/ /\ ~ current
        /\ engine' = EngineStopped(engine) /\ tasks' = EngineStop(tasks)
        /\ UNCHANGED <<queue, gate>>
     \/ /\ current /\ engine.acks # {}
        /\ engine' = [engine EXCEPT !.acknowledged = engine.acks, !.attempted = @ \cup engine.acks]
        /\ tasks' = (tasks \ {t}) \cup
             {[t EXCEPT !.at = "mark", !.batch = InOrder(engine.acks)]}
        /\ UNCHANGED <<queue, gate>>
     \/ current /\ engine.acks = {} /\ StartPolls(t, engine)
  /\ UNCHANGED <<teamVars, read, sessionVars, lifecycleVars, left>>

\* What is acknowledged is marked as read.
StartMark(t) ==
  /\ t.kind = "start" /\ t.engine = "alert" /\ t.at = "mark"
  /\ read' = read \cup Elements(t.batch)
  /\ IF t.live THEN StartPolls(t, engine)
     ELSE StartGoes(t, "return") /\ UNCHANGED <<engine, queue, gate>>
  /\ UNCHANGED <<teamVars, sessionVars, lifecycleVars, left>>

Scans == {t \in tasks : t.kind = "scan"}

\* The interval, or the hint of the watched inbox.
Poll ==
  /\ engine.polling
  /\ IF Scans # {}
     THEN engine' = [engine EXCEPT !.rescan = TRUE] /\ tasks' = tasks
     ELSE /\ engine' = [engine EXCEPT !.rescan = FALSE]
          /\ tasks' = tasks \cup {Task("scan", "alert", "bind", << >>)}
  /\ UNCHANGED <<teamVars, read, sessionVars, queue, gate, lifecycleVars, left>>

\* One pass is over: another was asked for, or who waits for the scan goes on.
ScanOver(t, eng) ==
  IF eng.rescan
  THEN /\ engine' = [eng EXCEPT !.rescan = FALSE]
       /\ tasks' = (tasks \ {t}) \cup {Task("scan", "alert", "bind", << >>)}
  ELSE /\ engine' = eng
       /\ tasks' = {IF s.at = "scan"
                    THEN [s EXCEPT !.at = "return"] ELSE s : s \in tasks \ {t}}

\* The binding is lost: the engine stops itself, and that is no failure.
SelfStop == engine' = EngineStopped(engine) /\ tasks' = EngineStop(tasks)

ScanBind(t) ==
  /\ t.kind = "scan" /\ t.at = "bind"
  /\ IF current
     THEN tasks' = (tasks \ {t}) \cup {[t EXCEPT !.at = "read"]} /\ engine' = engine
     ELSE SelfStop
  /\ UNCHANGED <<teamVars, read, sessionVars, queue, gate, lifecycleVars, left>>

\* The unread Alerts of the Membership that this engine has not attempted.
Pending == InOrder((1..accepted) \ (read \cup engine.attempted))

ScanRead(t) ==
  /\ t.kind = "scan" /\ t.at = "read"
  /\ IF Pending = << >>
     THEN ScanOver(t, engine)
     ELSE /\ tasks' = (tasks \ {t}) \cup {[t EXCEPT !.at = "recheck", !.batch = Pending]}
          /\ engine' = engine
  /\ UNCHANGED <<teamVars, read, sessionVars, queue, gate, lifecycleVars, left>>

Attempting(t) == [engine EXCEPT !.attempted = @ \cup Elements(t.batch)]

\* The binding once more; then the batch goes, or first the run is aborted.
ScanRecheck(t) ==
  /\ t.kind = "scan" /\ t.at = "recheck"
  /\ IF ~ current
     THEN SelfStop /\ UNCHANGED <<queue, gate, pi>>
     ELSE IF Elements(t.batch) \cap Interrupting # {}
     THEN /\ engine' = Attempting(t)
          /\ tasks' = (tasks \ {t}) \cup {[t EXCEPT !.at = "settle"]}
          /\ pi' = IF pi = "turn" THEN "idle" ELSE pi
          /\ UNCHANGED <<queue, gate>>
     ELSE ScanOver(t, Attempting(t)) /\ Send(t.batch) /\ pi' = pi
  /\ UNCHANGED <<teamVars, read, session, shown, acks, lifecycleVars, left>>

\* The aborted run has settled, or settling took too long.
ScanSettled(t) ==
  /\ t.kind = "scan" /\ t.at = "settle"
  /\ ScanOver(t, engine) /\ Send(t.batch)
  /\ UNCHANGED <<teamVars, read, sessionVars, lifecycleVars, left>>

\* A binding or the inbox cannot be read, or Pi refuses the message.
ScanFails(t) ==
  /\ t.kind = "scan"
  /\ Event
  /\ Failed("alert", {s \in tasks \ {t} : s.at # "scan"})
  /\ UNCHANGED <<teamVars, read, sessionVars, queue, gate>>

-----------------------------------------------------------------------------
(* The slots.                                                                *)

\* Mutant: who has started an engine does not ask whether the slot moved on.
StartReturnsAnyway(t) ==
  /\ t.kind = "start" /\ t.at = "return"
  /\ slot' = IF t.mine THEN [slot EXCEPT ![t.engine].running = TRUE] ELSE slot
  /\ tasks' = tasks \ {t}
  /\ UNCHANGED <<teamVars, read, sessionVars, queue, gate, active, engine, left>>

StartReturns(t) ==
  /\ t.kind = "start" /\ t.at = "return"
  /\ slot' = IF t.mine /\ t.valid THEN [slot EXCEPT ![t.engine].running = TRUE] ELSE slot
  /\ tasks' = tasks \ {t}
  /\ UNCHANGED <<teamVars, read, sessionVars, queue, gate, active, engine, left>>

\* The engine of Alerts was to start first.
StartTaskEngine(t) ==
  /\ t.kind = "start" /\ t.at = "wait"
  /\ ~ t.mine \/ ~ \E s \in tasks : s.first /\ s.mine
  /\ tasks' = (tasks \ {t}) \cup (IF t.mine THEN {[t EXCEPT !.at = "engine"]} ELSE {})
  /\ UNCHANGED <<teamVars, read, sessionVars, queue, gate, lifecycleVars, engine, left>>

\* The engine of Tasks has started: TaskDelivery has the rest of it.
TaskEngineStarted(t) ==
  /\ t.kind = "start" /\ t.at = "engine"
  /\ tasks' = (tasks \ {t}) \cup {[t EXCEPT !.at = "return"]}
  /\ UNCHANGED <<teamVars, read, sessionVars, queue, gate, lifecycleVars, engine, left>>

\* Starting an engine fails while it awaits something.
StartFails(t) ==
  /\ t.kind = "start" /\ t.at \in {"check", "bind", "mark", "engine"}
  /\ Event
  /\ IF t.mine /\ t.valid
     THEN Failed(t.engine, tasks \ {t})
     ELSE tasks' = tasks \ {t} /\ UNCHANGED <<lifecycleVars, engine>>
  /\ UNCHANGED <<teamVars, read, sessionVars, queue, gate>>

\* A scan of the engine of Tasks fails.
TaskScanFails ==
  /\ slot["task"].running
  /\ Event
  /\ Failed("task", tasks)
  /\ UNCHANGED <<teamVars, read, sessionVars, queue, gate>>

\* The timer of a degraded slot.
Retry(e) ==
  /\ slot[e].retry
  /\ slot' = [slot EXCEPT ![e].retry = FALSE]
  /\ tasks' = tasks \cup {Task("start", e, "check", << >>)}
  /\ UNCHANGED <<teamVars, read, sessionVars, queue, gate, active, engine, left>>

\* A retry goes on only for the current binding; else everything is over.
RetryChecked(t) ==
  /\ t.kind = "start" /\ t.at = "check"
  /\ IF ~ t.mine
     THEN tasks' = tasks \ {t} /\ UNCHANGED <<lifecycleVars, engine>>
     ELSE IF ~ current
     THEN Deactivated(tasks \ {t})
     ELSE IF t.engine = "task"
     THEN tasks' = (tasks \ {t}) \cup {[t EXCEPT !.at = "engine"]} /\ UNCHANGED <<lifecycleVars, engine>>
     ELSE /\ tasks' = EngineStop(tasks \ {t}) \cup {[t EXCEPT !.at = "bind"]}
          /\ engine' = EngineBegun
          /\ UNCHANGED lifecycleVars
  /\ UNCHANGED <<teamVars, read, sessionVars, queue, gate, left>>

-----------------------------------------------------------------------------
(* Turns of Pi.                                                              *)

\* The context of a request: what is in it is staged.
ObserveContext(conversation) ==
  IF slot["alert"].running /\ ~ engine.stopped
  THEN engine' = [engine EXCEPT
         !.staged = @ \cup (conversation \ engine.acknowledged),
         !.attempted = @ \cup (conversation \ engine.acknowledged)]
  ELSE engine' = engine

\* Pi takes up the messages that it was sent, or a prompt of the user; a turn
\* that has nothing to observe is left out.
TurnStart ==
  /\ session /\ pi = "idle"
  /\ queue # << >> \/ ~ Elements(shown) \subseteq acks
  /\ shown' = shown \o FlattenSeq(queue)
  /\ queue' = << >> /\ pi' = "turn"
  /\ ObserveContext(Elements(shown'))
  /\ UNCHANGED <<teamVars, read, session, acks, gate, lifecycleVars, tasks, left>>

\* Only a turn that succeeds acknowledges.
TurnEnd ==
  /\ pi = "turn" /\ pi' = "idle"
  /\ \/ tasks' = tasks
     \/ /\ slot["alert"].running /\ ~ engine.stopped /\ engine.staged # {}
        /\ tasks' = tasks \cup {Task("commit", "alert", "bind", << >>)}
  /\ UNCHANGED <<teamVars, read, session, shown, acks, queue, gate, lifecycleVars, engine, left>>

\* Mutant: what was attempted counts as observed.
CommitBindAttempted(t) ==
  /\ t.kind = "commit" /\ t.at = "bind"
  /\ IF current /\ engine.attempted # engine.acknowledged
     THEN /\ acks' = acks \cup engine.attempted
          /\ engine' = [engine EXCEPT !.acknowledged = @ \cup engine.attempted]
          /\ tasks' = (tasks \ {t}) \cup
               {[t EXCEPT !.at = "mark", !.batch = InOrder(engine.attempted)]}
     ELSE tasks' = tasks \ {t} /\ UNCHANGED <<acks, engine>>
  /\ UNCHANGED <<teamVars, read, session, pi, shown, queue, gate, lifecycleVars, left>>

\* Acknowledged in the conversation, ...
CommitBind(t) ==
  /\ t.kind = "commit" /\ t.at = "bind"
  /\ LET ids == engine.staged \ engine.acknowledged IN
     IF ~ current
     THEN SelfStop /\ acks' = acks
     ELSE IF ids = {}
     THEN tasks' = tasks \ {t} /\ UNCHANGED <<acks, engine>>
     ELSE /\ acks' = acks \cup ids
          /\ engine' = [engine EXCEPT !.acknowledged = @ \cup ids]
          /\ tasks' = (tasks \ {t}) \cup
               {[t EXCEPT !.at = "mark", !.batch = InOrder(ids)]}
  /\ UNCHANGED <<teamVars, read, session, pi, shown, queue, gate, lifecycleVars, left>>

\* ... and then in the inbox.
CommitMark(t) ==
  /\ t.kind = "commit" /\ t.at = "mark"
  /\ read' = read \cup Elements(t.batch)
  /\ engine' = IF t.live THEN [engine EXCEPT !.staged = @ \ Elements(t.batch)] ELSE engine
  /\ tasks' = tasks \ {t}
  /\ UNCHANGED <<teamVars, sessionVars, queue, gate, lifecycleVars, left>>

CommitFails(t) ==
  /\ t.kind = "commit"
  /\ Event
  /\ IF t.valid /\ t.mine
     THEN Failed("alert", tasks \ {t})
     ELSE tasks' = tasks \ {t} /\ UNCHANGED <<lifecycleVars, engine>>
  /\ UNCHANGED <<teamVars, read, sessionVars, queue, gate>>

-----------------------------------------------------------------------------
(* Compaction, holds and the Session.                                        *)

piOnly == <<teamVars, read, session, shown, acks, queue, lifecycleVars, tasks, engine>>

CompactStart ==
  /\ session /\ pi = "idle" /\ Event
  /\ pi' = "compacting" /\ gate' = Begin(gate)
  /\ UNCHANGED piOnly

\* Pi tells the end, ...
CompactEnd ==
  /\ pi = "compacting"
  /\ pi' = "ending" /\ gate' = End(gate)
  /\ UNCHANGED <<piOnly, left>>

\* ... and clears its state before another macrotask.
CompactCleared ==
  /\ pi = "ending" /\ pi' = "idle"
  /\ UNCHANGED <<piOnly, gate, left>>

\* A version of Pi that tells no failed or cancelled compaction.
CompactUntold ==
  /\ pi = "compacting" /\ pi' = "idle"
  /\ UNCHANGED <<piOnly, gate, left>>

\* The limit of fifteen minutes: no compaction takes so long.
HoldLimit ==
  /\ gate.compacting /\ pi # "compacting"
  /\ gate' = End(gate)
  /\ UNCHANGED <<piOnly, pi, left>>

HoldBegin(token) ==
  /\ session /\ Event
  /\ gate' = BeginExternal(gate, token)
  /\ UNCHANGED <<piOnly, pi>>

HoldEnd(token) ==
  /\ token \in gate.holds
  /\ gate' = EndExternal(gate, token)
  /\ UNCHANGED <<piOnly, pi, left>>

\* session_tree: another place in the same Session.
Tree ==
  /\ session /\ pi = "idle" /\ Event
  /\ gate' = Reset(gate)
  /\ UNCHANGED <<piOnly, pi>>

\* session_start: the activation of its deliveries.
SessionStart ==
  /\ ~ session /\ current /\ Event
  /\ session' = TRUE /\ gate' = Reset(gate)
  /\ active' = TRUE /\ slot' = [e \in Engines |-> NewSlot]
  /\ tasks' = tasks \cup {[Task("start", "alert", "bind", << >>) EXCEPT !.first = TRUE],
                          Task("start", "task", "wait", << >>)}
  /\ engine' = EngineBegun
  /\ UNCHANGED <<teamVars, read, pi, shown, acks, queue>>

\* session_shutdown, of a reload for instance: the process goes on.
SessionShutdown ==
  /\ session /\ session' = FALSE
  /\ pi' = "idle" /\ gate' = Reset(gate)
  /\ Deactivated(tasks)
  /\ UNCHANGED <<teamVars, read, shown, acks, queue, left>>

\* What the process had is gone; the next one has a runtime record of its own.
Crash ==
  /\ session /\ Event
  /\ session' = FALSE /\ pi' = "idle" /\ queue' = << >> /\ gate' = NewGate
  /\ active' = FALSE /\ slot' = [e \in Engines |-> NewSlot]
  /\ tasks' = {} /\ engine' = StoppedEngine
  /\ UNCHANGED <<teamVars, read, shown, acks>>

\* The inbox accepts an Alert under the lease of the current Membership.
Accept ==
  /\ current /\ accepted < MaxAlerts
  /\ accepted' = accepted + 1
  /\ UNCHANGED <<read, current, sessionVars, queue, gate, lifecycleVars, tasks, engine, left>>

\* The Membership is over or has another Session.
Unbind ==
  /\ current /\ Event /\ current' = FALSE
  /\ UNCHANGED <<accepted, read, sessionVars, queue, gate, lifecycleVars, tasks, engine>>

-----------------------------------------------------------------------------
TaskStep ==
  \E t \in tasks :
    \/ StartBind(t) \/ StartMark(t) \/ StartReturns(t) \/ StartTaskEngine(t)
    \/ TaskEngineStarted(t) \/ RetryChecked(t)
    \/ ScanBind(t) \/ ScanRead(t) \/ ScanRecheck(t) \/ ScanSettled(t)
    \/ CommitBind(t) \/ CommitMark(t)

Next ==
  \/ TaskStep \/ Poll \/ Flush \/ \E e \in Engines : Retry(e)
  \/ \E t \in tasks : ScanFails(t) \/ StartFails(t) \/ CommitFails(t)
  \/ TaskScanFails
  \/ TurnStart \/ TurnEnd
  \/ CompactStart \/ CompactEnd \/ CompactCleared \/ CompactUntold \/ HoldLimit
  \/ \E token \in Tokens : HoldBegin(token) \/ HoldEnd(token)
  \/ SessionStart \/ SessionShutdown \/ Crash
  \/ Accept \/ Unbind

Spec == Init /\ [][Next]_vars

\* Awaits end, timers fire, the watched inbox is polled, leases of holds end,
\* and Pi takes up what it is sent, ends its turns and its compactions.
Fairness ==
  /\ WF_vars(\E t \in tasks : StartBind(t) \/ StartMark(t) \/ StartReturns(t))
  /\ WF_vars(\E t \in tasks : t.engine = "alert" /\ RetryChecked(t))
  /\ WF_vars(\E t \in tasks : ScanBind(t) \/ ScanRead(t) \/ ScanRecheck(t) \/ ScanSettled(t))
  /\ WF_vars(Poll)
  /\ WF_vars(Retry("alert"))
  /\ WF_vars(Flush)
  /\ WF_vars(HoldLimit)
  /\ \A token \in Tokens : WF_vars(HoldEnd(token))
  /\ WF_vars(CompactEnd \/ CompactUntold)
  /\ WF_vars(CompactCleared)
  /\ WF_vars(queue # << >> /\ TurnStart)
  /\ WF_vars(TurnEnd)

FairSpec == Spec /\ Fairness

\* With navigation in the Session tree.
TreeSpec == Init /\ [][Next \/ Tree]_vars /\ Fairness

-----------------------------------------------------------------------------
(* Properties.                                                               *)

TypeOK ==
  /\ accepted \in 0..MaxAlerts /\ read \subseteq Alerts
  /\ {current, session, active} \subseteq BOOLEAN
  /\ pi \in {"idle", "turn", "compacting", "ending"}
  /\ queue \in Seq(Seq(Alerts)) /\ shown \in Seq(Alerts) /\ acks \subseteq Alerts
  /\ gate \in GatesOf(Seq(Alerts), Tokens)

\* All that Pi has of the Alerts, or will have from the gate, in order.
Given == shown \o FlattenSeq(queue) \o FlattenSeq(gate.held)

\* Whatever fails, restarts or is held back, an Alert never comes before one
\* that the inbox accepted earlier (scanOnce, start, sink): no Alert is passed
\* over.
NoAlertIsPassedOver ==
  \A k \in DOMAIN Given : \A a \in 1..(Given[k] - 1) :
    \E l \in 1..(k - 1) : Given[l] = a

\* What is acknowledged has been in the conversation, and what is marked as
\* read is acknowledged there (commitPresentedAfterSuccessfulTurn, start):
\* no crash loses an Alert that counts as read.
ReadWasShown == acks \subseteq Elements(shown) /\ read \subseteq acks

Starts(e) == {t \in tasks : t.kind = "start" /\ t.engine = e /\ t.valid}

\* A slot of the active lifecycle has one way on: one start under way, or an
\* engine that runs, or one retry, or an error that ends it; and an engine
\* that counts as running polls (start, fail): a late start and the timer of
\* a retry never meet.
SlotsHaveOneWayOn ==
  active => \A e \in Engines :
    /\ Cardinality(Starts(e))
       + Cardinality({f \in {"running", "retry", "terminal"} : slot[e][f]}) = 1
    /\ slot["alert"].running /\ current => engine.polling

\* Nothing reaches Pi while it compacts, nor between the event that tells the
\* end and the end (sink, scheduleFlush).
NothingReachesACompaction ==
  [][(pi \in {"compacting", "ending"} /\ session') => Len(queue') <= Len(queue)]_vars

\* An Alert that was accepted comes into the conversation while the Session
\* goes on, over failures, restarts of the engine, holds and compactions.
AlertsArePresented ==
  \A a \in Alerts :
    (session /\ a <= accepted)
      ~> (a \in Elements(shown) \/ ~ session \/ ~ current \/ slot["alert"].terminal)
=============================================================================
