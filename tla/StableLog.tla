----------------------------- MODULE StableLog -----------------------------
(***************************************************************************)
(* What a log promises its readers: entries in the order of their cursors,  *)
(* of which the first ones, as many as an appender was told of, stay for    *)
(* good.  Entries that nobody was told of may be taken back.                *)
(***************************************************************************)
EXTENDS Naturals, Sequences

CONSTANT Entries

VARIABLES
  log,       \* the entries a reader finds
  promised   \* how many of them were promised to stay

\* The first n entries of two logs are the same.
SameUpTo(n, s, t) ==
  /\ n <= Len(s) /\ n <= Len(t)
  /\ \A i \in 1..n : s[i] = t[i]

Ordered(s) == \A i, j \in 1..Len(s) : i < j => s[i].cursor < s[j].cursor

Init == log = <<>> /\ promised = 0

Extend ==
  /\ log' \in Seq(Entries) /\ Ordered(log') /\ SameUpTo(Len(log), log, log')
  /\ UNCHANGED promised

Retract ==
  /\ SameUpTo(Len(log'), log', log) /\ promised <= Len(log')
  /\ UNCHANGED promised

Promise == promised' = Len(log) /\ UNCHANGED log

Next == Extend \/ Retract \/ Promise

Spec == Init /\ [][Next]_<<log, promised>>
=============================================================================
