--------------------------- MODULE CompactionGate ---------------------------
(***************************************************************************)
(* CompactionDeliveryGate of src/extensions/compaction-delivery-gate.ts,    *)
(* through which every message of the extension goes to Pi.  While Pi       *)
(* compacts the Session, or another extension holds delivery, messages are  *)
(* kept; when the last hold is gone they follow in order, one macrotask     *)
(* later, since Pi tells the end of a compaction before it has ended it.    *)
(*                                                                         *)
(* The gate is a value, and each of its methods an operator on it.  The     *)
(* epoch of the source only tells whether a deferred flush is the latest;   *)
(* here a deferred flush is current, or stale once the epoch moved on.      *)
(***************************************************************************)
EXTENDS Sequences

NewGate ==
  [compacting |-> FALSE, holds |-> {}, flushPending |-> FALSE,
   flushes |-> {}, held |-> << >>]

\* What a gate can be that keeps messages of a set and knows a set of tokens.
GatesOf(messages, tokens) ==
  [compacting : BOOLEAN, holds : SUBSET tokens, flushPending : BOOLEAN,
   flushes : SUBSET {"current", "stale"}, held : Seq(messages)]

HasHold(g) == g.compacting \/ g.holds # {}

\* Mutant: a pending flush does not close the gate.
ClosedByHolds(g) == HasHold(g)

IsClosed(g) == HasHold(g) \/ g.flushPending

\* The epoch moves on.
Stale(g) ==
  [g EXCEPT !.flushes = IF @ = {} THEN {} ELSE {"stale"}]

Begin(g) == [Stale(g) EXCEPT !.compacting = TRUE]

BeginExternal(g, token) == [Stale(g) EXCEPT !.holds = @ \cup {token}]

ScheduleFlush(g) ==
  IF HasHold(g) THEN g
  ELSE [Stale(g) EXCEPT !.flushPending = TRUE, !.flushes = @ \cup {"current"}]

End(g) ==
  IF g.compacting THEN ScheduleFlush([g EXCEPT !.compacting = FALSE]) ELSE g

\* By the holder, or at the end of the lease.
EndExternal(g, token) ==
  IF token \in g.holds THEN ScheduleFlush([g EXCEPT !.holds = @ \ {token}]) ELSE g

\* Deferred callbacks stay in the queue of the event loop.
Reset(g) == [NewGate EXCEPT !.flushes = Stale(g).flushes]

Keep(g, message) == [g EXCEPT !.held = Append(@, message)]

\* Mutant: the deferred callback asks neither for its epoch nor for a hold.
FlushesAlways(g, which) == TRUE

\* A deferred callback sends what is held only if nothing came in between.
Flushes(g, which) == which = "current" /\ ~ HasHold(g)

Ran(g, which) == [g EXCEPT !.flushes = @ \ {which}]

Flushed(g) == [g EXCEPT !.held = << >>, !.flushPending = FALSE]
=============================================================================
