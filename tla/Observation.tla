---------------------------- MODULE Observation ----------------------------
(***************************************************************************)
(* How the Leader learns what happened: the journal of Team events, the     *)
(* observations that a conversation keeps (observation-service.ts,          *)
(* branch-observation.ts), and the automatic synchronization               *)
(* (sync-nudge-conductor.ts, nudge-debt.ts, team-update.ts).               *)
(*                                                                         *)
(* Nobody stores how far the Leader has read.  It is read off the branch    *)
(* of its conversation: each entry there says up to which cursor it         *)
(* observes.  A reservation keeps two observations from one page, and       *)
(* expires.  One Leader, bound throughout.                                 *)
(***************************************************************************)
EXTENDS EventJournal, FiniteSets, SequencesExt

CONSTANTS
  Tasks,
  Calls,       \* observations that may be under way at a time, numbered from 1
  PageSize,    \* DEFAULT_TEAM_SYNC_LIMIT
  Threshold,   \* autoSyncUpdateThreshold
  MaxCommits,  \* bound of the model: changes of each Task
  MaxTurns,    \* bound of the model: turns that a person begins
  MaxPulls     \* bound of the model: calls of team_sync by the model

\* A Task event names Task and version and who made it; all others are Worker events.
WorkerFact == [task |-> "none", version |-> 0, actor |-> "worker"]
TaskFacts == [task: Tasks, version: 1..MaxCommits, actor: {"lead", "worker"}]
ObservedFacts == {WorkerFact} \cup TaskFacts

ASSUME ObservationAssumption ==
  /\ IsFiniteSet(Tasks) /\ PageSize \in Nat \ {0} /\ MaxCommits \in Nat
  /\ ObservedFacts \subseteq Facts

VARIABLES
  version,    \* of each Task, in the authority
  authors,    \* who made that version
  unpublished,\* batches of committed changes that are not yet in the journal
  branch,     \* the observations in the conversation of the Leader
  held,       \* the call that has the reservation
  call,       \* what each call knows
  working,    \* a turn of the Leader runs
  conductor,  \* of the automatic synchronization
  turns,      \* how many were begun by a person
  pulls,      \* how often the model called team_sync
  misled      \* a batch was taken back that the Leader had seen

authority == <<version, authors, unpublished>>
leader == <<branch, held, call, working, turns, pulls, conductor, misled>>
vars == <<journal, authority, leader>>

None == 0

Cards == [Tasks -> 0..MaxCommits]

\* What an entry of the branch keeps: cards of Tasks, and the Worker events it told of.
Entry ==
  [through: 0..MaxEvents, snapshot: BOOLEAN, cards: Cards, told: SUBSET Tasks, seen: SUBSET (1..MaxEvents)]

\* What readBranchObservation makes of a branch.
NoBase ==
  [cursor |-> 0, bound |-> FALSE, covered |-> 0, cards |-> [t \in Tasks |-> 0], seen |-> {}]

NoEntry ==
  [through |-> 0, snapshot |-> FALSE, cards |-> [t \in Tasks |-> 0], told |-> {}, seen |-> {}]

NoCall ==
  [stage |-> "idle", auto |-> FALSE, snapshot |-> FALSE, at |-> 0, same |-> TRUE,
   base |-> NoBase, events |-> <<>>, head |-> 0, result |-> NoEntry]

\* No debt; nothing armed.
NoScope == [bound |-> FALSE, cursor |-> 0]
NoDebt == [count |-> 0, later |-> FALSE, scope |-> NoScope]
NoArm == [armed |-> FALSE, scope |-> NoScope, deadline |-> FALSE]

Init ==
  /\ JournalInit
  /\ version = [t \in Tasks |-> 0] /\ authors = [t \in Tasks |-> "lead"] /\ unpublished = {}
  /\ branch = <<>> /\ held = None /\ call = [c \in Calls |-> NoCall]
  /\ working = FALSE /\ turns = 0 /\ pulls = 0 /\ misled = FALSE
  /\ conductor = [step |-> "idle", debt |-> NoDebt, arm |-> NoArm, failed |-> 0]

-----------------------------------------------------------------------------
(* The branch.                                                             *)

\* An entry that observes less than the one before it is passed over.
Take(base, e) ==
  IF base.bound /\ e.through < base.cursor THEN base
  ELSE [cursor |-> e.through, bound |-> TRUE, seen |-> base.seen \cup e.seen,
        covered |-> IF e.snapshot THEN e.through ELSE base.covered,
        cards |-> [t \in Tasks |-> IF t \in e.told THEN e.cards[t] ELSE base.cards[t]]]

Baseline(entries) ==
  LET after[n \in 0..Len(entries)] == IF n = 0 THEN NoBase ELSE Take(after[n - 1], entries[n])
  IN  after[Len(entries)]

-----------------------------------------------------------------------------
(* What one reading of the journal and one of the Tasks amount to.         *)

\* The events behind a cursor; as cursors grow along the file, those up to it
\* are its first ones.
Unseen(base) ==
  LET before == {i \in 1..Len(Image) : Image[i].cursor <= base.cursor} IN
  SubSeq(Image, (CHOOSE n \in 0..Len(Image) : before = 1..n) + 1, Len(Image))

\* The pages of the unseen events; one empty page without any.
PageCount(events) == IF events = <<>> THEN 1 ELSE (Len(events) + PageSize - 1) \div PageSize

Page(events, i) ==
  SubSeq(events, (i - 1) * PageSize + 1, IF i * PageSize < Len(events) THEN i * PageSize ELSE Len(events))

\* Mutant: the page is taken to cover all that was read.
PageCursorAtHead(events, i, head) == head

\* The position that a page leads to.
PageCursor(events, i, head) == IF i = PageCount(events) THEN head ELSE LastCursor(Page(events, i))

\* The Tasks that a page tells of: by events of the version that is current.
ToldBy(page) ==
  {t \in Tasks : \E e \in ToSet(page) : e.fact.task = t /\ e.fact.version = version[t]}

SeenBy(page) == {e.id : e \in {x \in ToSet(page) : x.fact = WorkerFact}}

HasChanges(page) == ToldBy(page) # {} \/ SeenBy(page) # {}

\* The first page that tells anything, 0 if none does.
FirstChange(events) ==
  LET telling == {i \in 1..PageCount(events) : HasChanges(Page(events, i))} IN
  IF telling = {} THEN 0 ELSE CHOOSE i \in telling : \A j \in telling : i <= j

Snapshot(head) ==
  [through |-> head, snapshot |-> TRUE, cards |-> version, told |-> Tasks, seen |-> {}]

Update(events, i, head) ==
  [through |-> PageCursor(events, i, head), snapshot |-> FALSE, cards |-> version,
   told |-> ToldBy(Page(events, i)), seen |-> SeenBy(Page(events, i))]

\* No page tells anything, but the Tasks are not those of the branch.
Reconciliation(head) ==
  [through |-> head, snapshot |-> FALSE, cards |-> version, told |-> Tasks, seen |-> {}]

\* caught_up and unsettled.
Nothing(head) ==
  [through |-> head, snapshot |-> FALSE, cards |-> version, told |-> {}, seen |-> {}]

\* An automatic page with nothing to show, which is not shown.
Quiet(c, i) ==
  c.auto /\ ~c.snapshot /\ i = 0 /\ c.base.cards = version

\* observe: what a call that read these events, with i as the page to show, answers now.
Observed(c, i) ==
  IF c.snapshot THEN Snapshot(c.head)
  ELSE IF i # 0 THEN Update(c.events, i, c.head)
  ELSE IF c.base.cards # version THEN Reconciliation(c.head)
  ELSE Nothing(c.head)

-----------------------------------------------------------------------------
(* What happens in the Team, and how it comes into the journal.            *)

Sum(f) == FoldFunction(LAMBDA a, b : a + b, 0, f)

FactsOf(T, by, v) == [i \in 1..Cardinality(T) |->
  LET t == SetToSeq(T)[i] IN [task |-> t, version |-> v[t], actor |-> by]]

\* The tools of the Leader commit in its turn, the Workers at any time.
Commit(T, by) ==
  /\ by = "lead" => working
  /\ T # {} /\ \A t \in T : version[t] < MaxCommits
  /\ version' = [t \in Tasks |-> IF t \in T THEN version[t] + 1 ELSE version[t]]
  /\ authors' = [t \in Tasks |-> IF t \in T THEN by ELSE authors[t]]
  /\ unpublished' = unpublished \cup {FactsOf(T, by, version')}
  /\ UNCHANGED <<journal, leader>>

\* publishTaskMutations, after the commit.
Publish ==
  /\ \E batch \in unpublished : Begin(batch) /\ unpublished' = unpublished \ {batch}
  /\ UNCHANGED <<version, authors, leader>>

\* The process ends between the commit and the publication.
LosePublication ==
  /\ \E batch \in unpublished : unpublished' = unpublished \ {batch}
  /\ Fault
  /\ UNCHANGED <<lines, tail, append, promised, offered, version, authors, leader>>

\* The lifecycle of a Worker says something, within what the bound leaves it.
WorkerEvent ==
  /\ offered + Cardinality(UNION {ToSet(b) : b \in unpublished})
       + Cardinality(Tasks) * MaxCommits - Sum(version) < MaxEvents
  /\ Begin(<<WorkerFact>>) /\ UNCHANGED <<authority, leader>>

\* Somebody has read behind the place that the rollback cuts.
ReadBeyond(n) ==
  \/ \E e \in ToSet(branch) : e.through > n
  \/ \E c \in Calls : call[c].stage # "idle" /\ call[c].head > n

Journal ==
  /\ AppendStep \/ SyncFails \/ AppendFails
  /\ misled' = (misled \/ ReadBeyond(Len(Image')))
  /\ UNCHANGED <<authority, branch, held, call, working, turns, pulls, conductor>>

-----------------------------------------------------------------------------
(* The conversation of the Leader, and the observations it asks for.       *)

InAuto == \E c \in Calls : call[c].auto /\ call[c].stage # "idle"

\* pending(): the reservation has a result that is not yet in the branch.
Pending == held # None /\ call[held].stage \in {"returned", "dropped"}

\* The busy() of the conductor, and of the controller for another call than c.
Busy == working \/ InAuto \/ Pending
BusyBut(c) == working \/ (Pending /\ held # c)

Release(c) == held' = IF held = c THEN None ELSE held

\* The automatic synchronization is over, published or not.
Published == [conductor EXCEPT !.step = "idle", !.arm = NoArm]
Ended(c) == IF call[c].auto THEN [conductor EXCEPT !.step = "idle"] ELSE conductor

End(c) == call' = [call EXCEPT ![c] = NoCall] /\ Release(c)

TurnStart ==
  /\ ~working /\ turns < MaxTurns
  /\ working' = TRUE /\ turns' = turns + 1
  /\ UNCHANGED <<journal, authority, branch, held, call, pulls, conductor, misled>>

TurnEnd ==
  /\ working /\ working' = FALSE
  /\ \A c \in Calls : call[c].stage # "idle" => call[c].auto
  /\ UNCHANGED <<journal, authority, branch, held, call, turns, pulls, conductor, misled>>

\* Which one a new call is.
Free == CHOOSE n \in Calls \cup {None} :
  LET free == {c \in Calls : call[c].stage = "idle"} IN
  IF free = {} THEN n = None ELSE n \in free /\ \A c \in free : n <= c

\* selected(): the reservation is there before the first authority is asked,
\* and another call is refused while it stands.
Reserve(c, auto, snapshot) ==
  /\ c = Free /\ held = None /\ held' = c
  /\ \E base \in {Baseline(branch)} :
     call' = [call EXCEPT ![c] = [NoCall EXCEPT
       !.stage = "bound", !.auto = auto, !.snapshot = snapshot \/ ~base.bound,
       !.at = Len(branch), !.base = base]]

\* team_sync, by the model.
TeamSync(c) ==
  /\ working /\ pulls < MaxPulls /\ pulls' = pulls + 1
  /\ \E snapshot \in BOOLEAN : Reserve(c, FALSE, snapshot)
  /\ UNCHANGED <<journal, authority, branch, working, turns, conductor, misled>>

\* The journal boundary, or the pages behind the baseline, before any Task.
ReadEvents(c) ==
  /\ call[c].stage = "bound"
  /\ IF ~Readable \/ (~call[c].snapshot /\ call[c].base.cursor > LastCursor(Image))
     THEN /\ End(c)
          /\ conductor' = [Ended(c) EXCEPT !.failed = IF call[c].auto THEN Len(branch) + 1 ELSE @]
     ELSE /\ call' = [call EXCEPT ![c].stage = "read", ![c].head = LastCursor(Image),
               ![c].events = IF call[c].snapshot THEN <<>> ELSE Unseen(call[c].base)]
          /\ UNCHANGED <<held, conductor>>
  /\ UNCHANGED <<journal, authority, branch, working, turns, pulls, misled>>

\* The Tasks, and what follows from both readings.
ReadTasks(c) ==
  /\ call[c].stage = "read"
  /\ \E i \in {FirstChange(call[c].events)} :
       IF Quiet(call[c], i) THEN End(c) /\ conductor' = Ended(c)
       ELSE /\ call' = [call EXCEPT ![c].stage = "result", ![c].events = <<>>,
                 ![c].result = Observed(call[c], i)]
            /\ UNCHANGED <<held, conductor>>
  /\ UNCHANGED <<journal, authority, branch, working, turns, pulls, misled>>

\* Mutant: looks at the reservation only.
UndisturbedReservation(c) == held = c

\* The branch has not moved; an automatic page must find it as it was, and nobody busy.
Undisturbed(c) ==
  /\ held = c /\ call[c].same
  /\ call[c].auto => Len(branch) = call[c].at /\ ~BusyBut(c)

Finish(c) ==
  /\ call[c].stage = "result"
  /\ IF Undisturbed(c)
     THEN /\ call' = [call EXCEPT ![c].stage = "returned"] /\ UNCHANGED held
          /\ conductor' = IF call[c].auto THEN Published ELSE conductor
     ELSE End(c) /\ conductor' = Ended(c)
  /\ UNCHANGED <<journal, authority, branch, working, turns, pulls, misled>>

\* Pi puts the entry into the branch, which releases the page.  An automatic
\* one starts a turn.
Persist(c) ==
  /\ call[c].stage = "returned"
  /\ branch' = Append(branch, call[c].result)
  /\ \E kept \in {Baseline(branch')} :
       held' = IF held # None /\ kept.cursor >=
           (IF call[held].stage = "returned" THEN call[held].result.through ELSE call[held].base.cursor)
               THEN None ELSE held
  /\ call' = [call EXCEPT ![c] = NoCall]
  /\ working' = (working \/ call[c].auto)
  /\ conductor' = [conductor EXCEPT !.failed = 0]
  /\ UNCHANGED <<journal, authority, turns, pulls, misled>>

\* The message or the result is lost; the reservation stays until it expires.
Drop(c) ==
  /\ call[c].stage = "returned" /\ Fault
  /\ call' = [call EXCEPT ![c].stage = "dropped"]
  /\ UNCHANGED <<lines, tail, append, promised, offered, authority, branch, held, working, turns, pulls,
                 conductor, misled>>

\* OBSERVATION_RESERVATION_MS have passed over a call that nobody will finish.
ExpireDropped(c) ==
  /\ call[c].stage = "dropped" /\ End(c)
  /\ UNCHANGED <<journal, authority, branch, working, turns, pulls, conductor, misled>>

\* They pass while the call goes on, which then has no reservation.
Expire ==
  /\ held # None /\ call[held].stage # "dropped" /\ Fault /\ held' = None
  /\ UNCHANGED <<lines, tail, append, promised, offered, authority, branch, call, working, turns, pulls,
                 conductor, misled>>

\* A person goes back in the conversation; frameworkSync.invalidate() aborts
\* the automatic page.
Navigate ==
  /\ Fault /\ \A c \in Calls : call[c].stage \notin {"returned", "dropped"}
  /\ \E n \in 0..(Len(branch) - 1) :
       /\ branch' = SubSeq(branch, 1, n)
       /\ call' = [c \in Calls |-> IF call[c].stage = "idle" THEN call[c] ELSE
            [call[c] EXCEPT !.same = @ /\ ~call[c].auto /\ call[c].at <= n]]
  /\ held' = IF held # None /\ call[held].auto THEN None ELSE held
  /\ conductor' = [conductor EXCEPT !.failed = 0]
  /\ UNCHANGED <<lines, tail, append, promised, offered, authority, working, turns, pulls, misled>>

\* The process of the Leader ends, and its Session is resumed.
Restart ==
  /\ Fault /\ held' = None /\ call' = [c \in Calls |-> NoCall] /\ working' = FALSE
  /\ conductor' = [step |-> "idle", debt |-> NoDebt, arm |-> NoArm, failed |-> 0]
  /\ UNCHANGED <<lines, tail, append, promised, offered, authority, branch, turns, pulls, misled>>

-----------------------------------------------------------------------------
(* The automatic synchronization.                                          *)

\* The changes of a page that the Leader did not make itself.
External(page, told) ==
  Cardinality(SeenBy(page))
    + Cardinality({t \in told : \E e \in ToSet(page) : e.fact.task = t /\ e.fact.actor # "lead"})

\* Mutant: counts events only, not the Tasks that differ without one.
DebtOfEvents(base, events, i) ==
  IF held # None \/ ~Readable \/ i = 0 THEN NoDebt
  ELSE [count |-> External(Page(events, i), ToldBy(Page(events, i))), later |-> FALSE,
        scope |-> [bound |-> base.bound, cursor |-> base.cursor]]

\* readSyncNudgeDebt: the first page that would be shown, counted; whether a
\* later one has anything of others; and the baseline.
DebtOf(base, events, i) ==
  LET rest == UNION {ToSet(Page(events, j)) : j \in (i + 1)..PageCount(events)}
      scope == [bound |-> base.bound, cursor |-> base.cursor]
  IN IF held # None \/ ~Readable \/ base.cursor > LastCursor(Image) THEN NoDebt
     ELSE IF ~base.bound THEN [count |-> Cardinality(Tasks), later |-> FALSE, scope |-> scope]
     ELSE IF i # 0 THEN
       [count |-> External(Page(events, i), ToldBy(Page(events, i))),
        later |-> \E e \in rest : e.fact.actor # "lead", scope |-> scope]
     ELSE [count |-> IF base.cards # version THEN Cardinality(Tasks) ELSE 0,
           later |-> FALSE, scope |-> scope]

\* Sets of one, here and below, where TLC would evaluate a LET at each use.
Debt == UNION {{DebtOf(base, events, FirstChange(events)) : events \in {Unseen(base)}} :
               base \in {Baseline(branch)}}

Eligible(debt) == debt.count > 0 \/ debt.later

\* A hint or the poll of the interval: reconcileOnce reads the debt, arms or
\* disarms the timer, and decides to present.
Notify ==
  /\ conductor.step = "idle" /\ ~Busy
  /\ \E debt \in Debt :
     LET arm == IF conductor.arm.armed /\ conductor.arm.scope = debt.scope THEN conductor.arm
                ELSE [armed |-> TRUE, scope |-> debt.scope, deadline |-> FALSE]
     IN conductor' =
          IF ~Eligible(debt) THEN [conductor EXCEPT !.arm = NoArm]
          ELSE IF debt.count < Threshold /\ ~arm.deadline THEN [conductor EXCEPT !.arm = arm]
          ELSE [conductor EXCEPT !.step = "present", !.debt = debt, !.arm = arm]
  /\ UNCHANGED <<journal, authority, branch, held, call, working, turns, pulls, misled>>

\* present(): the same debt once more, then frameworkSync.execute(), which
\* does not try a branch again on which it failed.
Present(c) ==
  /\ conductor.step = "present"
  /\ IF Busy \/ conductor.debt \notin Debt \/ conductor.failed = Len(branch) + 1
     THEN /\ conductor' = [conductor EXCEPT !.step = "idle", !.debt = NoDebt]
          /\ UNCHANGED <<held, call>>
     ELSE /\ Reserve(c, TRUE, ~Baseline(branch).bound)
          /\ conductor' = [conductor EXCEPT !.step = "sync", !.debt = NoDebt]
  /\ UNCHANGED <<journal, authority, branch, working, turns, pulls, misled>>

\* onDeadline.
Deadline ==
  /\ conductor.arm.armed /\ ~conductor.arm.deadline
  /\ conductor' = [conductor EXCEPT !.arm.deadline = TRUE]
  /\ UNCHANGED <<journal, authority, branch, held, call, working, turns, pulls, misled>>

-----------------------------------------------------------------------------

CallStep(c) ==
  ReadEvents(c) \/ ReadTasks(c) \/ Finish(c) \/ Persist(c) \/ ExpireDropped(c)

Next ==
  \/ \E T \in SUBSET Tasks, by \in {"lead", "worker"} : Commit(T, by)
  \/ Publish \/ LosePublication \/ WorkerEvent \/ Journal
  \/ TurnStart \/ TurnEnd \/ Expire \/ Navigate \/ Restart
  \/ Notify \/ Deadline
  \/ \E c \in Calls : TeamSync(c) \/ Drop(c) \/ Present(c) \/ CallStep(c)

Spec == Init /\ [][Next]_vars

\* Appenders and publishers go on while they live; a turn ends; the process of
\* the Leader runs its callbacks and timers, in whatever order.
Fairness ==
  /\ WF_journal((AppendStep /\ Journal) \/ Publish)
  /\ WF_conductor(Notify \/ Deadline)
  /\ WF_working(TurnEnd)
  /\ WF_call(\E c \in Calls : CallStep(c))
  /\ WF_conductor(\E c \in Calls : Present(c))

FairSpec == Spec /\ Fairness

-----------------------------------------------------------------------------

TypeOK ==
  /\ JournalTypeOK
  /\ version \in Cards /\ authors \in [Tasks -> {"lead", "worker"}]
  /\ branch \in Seq(Entry) /\ held \in Calls \cup {None}
  /\ \A c \in Calls :
       /\ call[c].stage \in {"idle", "bound", "read", "result", "returned", "dropped"}
       /\ call[c].result \in Entry
  /\ conductor.step \in {"idle", "present", "sync"}
  /\ working \in BOOLEAN /\ misled \in BOOLEAN

\* The branch never counts a Worker event as read that it neither tells of nor
\* covers by a snapshot, whatever expired, overlapped, was navigated away or
\* restarted, unless a rollback took back what had been read
\* (selected, observe, readBranchObservation).
NothingIsPassedOver ==
  misled \/ LET base == Baseline(branch) IN
    \A i \in 1..Len(lines) :
      lines[i].fact = WorkerFact /\ lines[i].cursor <= base.cursor
        => lines[i].id \in base.seen \/ lines[i].cursor <= base.covered

Learned ==
  \E base \in {Baseline(branch)} :
    /\ \A i \in 1..Len(lines) : lines[i].fact = WorkerFact
         => lines[i].id \in base.seen \/ lines[i].cursor <= base.covered
    /\ \A t \in Tasks : base.cards[t] = version[t] \/ authors[t] = "lead"

\* Without asking, the Leader learns in the end of every Worker event and of the
\* last change that a Worker made to each Task, also when its publication was
\* lost, unless a rollback misled it, a torn line makes the journal unreadable
\* until the next append, or it was told that synchronization failed
\* (SyncNudgeConductor, TeamUpdateController).
LeaderLearns ==
  <>[](Learned \/ misled \/ ~Readable \/ conductor.failed = Len(branch) + 1)
=============================================================================
