---------------------------- MODULE EventJournal ----------------------------
(***************************************************************************)
(* The journal of Team events (event-journal.ts): one file of lines, which  *)
(* appenders extend under its lock and readers read without it.            *)
(*                                                                         *)
(* The lock is FileLock's, so that one append is in progress at a time; it  *)
(* ends with the process that holds it.  Readers take the file as they      *)
(* find it, also in the middle of an append.  Of the bytes of a last line   *)
(* that has no newline only this matters: whether they parse.              *)
(***************************************************************************)
EXTENDS Naturals, Sequences

CONSTANTS
  Facts,      \* what an event says
  MaxEvents,  \* bound of the model: events that are ever offered
  MaxFaults   \* bound of the model: crashes and failed calls

ASSUME JournalAssumption ==
  Facts # {} /\ MaxEvents \in Nat \ {0} /\ MaxFaults \in Nat

VARIABLES
  lines,     \* the events of the lines that end with a newline
  tail,      \* what stands behind the last newline
  append,    \* the append in progress
  promised,  \* how many lines had been written when an append last returned
  offered,   \* how many events were ever offered, which also names them
  faults

journal == <<lines, tail, append, promised, offered, faults>>

\* An event: its name, its place, and what it says.
Event == [id: 1..MaxEvents, cursor: 1..MaxEvents, fact: Facts]

\* A whole file; bytes that do not parse; an event without its newline.
Clean == [kind |-> "clean"]
Torn == [kind |-> "torn"]
Bare(e) == [kind |-> "bare", event |-> e]

Tails == {Clean, Torn} \cup {Bare(e) : e \in Event}

\* The batch of the append, and how many lines there were before it.
Idle == [step |-> "idle", batch |-> <<>>, start |-> 0]

LastCursor(s) == IF s = <<>> THEN 0 ELSE s[Len(s)].cursor

\* What readJournal returns, when it can be parsed.
Image == IF tail.kind = "bare" THEN Append(lines, tail.event) ELSE lines

Readable == tail.kind # "torn"

JournalTypeOK ==
  /\ lines \in Seq(Event) /\ tail \in Tails
  /\ append \in [step: {"idle", "write", "sync", "rollback"},
                 batch: Seq(Event), start: Nat]
  /\ promised \in Nat /\ offered \in 0..MaxEvents /\ faults \in 0..MaxFaults

JournalInit ==
  /\ lines = <<>> /\ tail = Clean /\ append = Idle
  /\ promised = 0 /\ offered = 0 /\ faults = 0

-----------------------------------------------------------------------------

Fault == faults < MaxFaults /\ faults' = faults + 1

\* Mutant: numbers the batch before it drops or ends the last line.
NumberedAsFound(facts, s) ==
  [i \in 1..Len(facts) |-> [id |-> offered + i, cursor |-> LastCursor(lines) + i, fact |-> facts[i]]]

\* The batch, with the cursors that follow those of the file.
Numbered(facts, s) ==
  [i \in 1..Len(facts) |-> [id |-> offered + i, cursor |-> LastCursor(s) + i, fact |-> facts[i]]]

\* appendTeamEvents takes the lock; readJournalTailCursor drops bytes that do not
\* parse and ends a line that does; then the batch gets its cursors.
Begin(facts) ==
  /\ append.step = "idle" /\ facts # <<>> /\ offered + Len(facts) <= MaxEvents
  /\ lines' = Image /\ tail' = Clean
  /\ offered' = offered + Len(facts)
  /\ append' = [step |-> "write", start |-> Len(lines'), batch |-> Numbered(facts, lines')]
  /\ UNCHANGED <<promised, faults>>

\* The lines of the batch that are in the file.
Written == Len(lines) - append.start

\* writeJournalBytes; a short write leaves a part of a line, and goes on.
Write ==
  /\ append.step = "write"
  /\ \E n \in Written..Len(append.batch) :
       /\ tail.kind = "bare" => n > Written
       /\ lines' = lines \o SubSeq(append.batch, Written + 1, n)
       /\ \/ /\ n = Len(append.batch)
             /\ tail' = Clean /\ append' = [append EXCEPT !.step = "sync"]
          \/ /\ n < Len(append.batch)
             /\ tail' \in {Torn, Bare(append.batch[n + 1])} /\ UNCHANGED append
  /\ UNCHANGED <<promised, offered, faults>>

\* The batch is on disk, cursor.json is written, and the caller has its events.
Sync ==
  /\ append.step = "sync"
  /\ promised' = Len(lines) /\ append' = Idle
  /\ UNCHANGED <<lines, tail, offered, faults>>

SyncFails ==
  /\ append.step = "sync" /\ Fault
  /\ append' = [append EXCEPT !.step = "rollback"]
  /\ UNCHANGED <<lines, tail, promised, offered>>

\* The batch is cut off again, if that works; the caller gets the error.
Rollback ==
  /\ append.step = "rollback"
  /\ \/ lines' = SubSeq(lines, 1, append.start) /\ tail' = Clean
     \/ UNCHANGED <<lines, tail>>
  /\ append' = Idle
  /\ UNCHANGED <<promised, offered, faults>>

\* A failed write, a failed projection, or the end of the process.
AppendFails ==
  /\ append.step # "idle" /\ Fault /\ append' = Idle
  /\ UNCHANGED <<lines, tail, promised, offered>>

AppendStep == Write \/ Sync \/ Rollback

JournalNext ==
  \/ \E n \in 1..MaxEvents : \E facts \in [1..n -> Facts] : Begin(facts)
  \/ AppendStep \/ SyncFails \/ AppendFails

JournalSpec == JournalInit /\ [][JournalNext]_journal

-----------------------------------------------------------------------------
(* The invariant that the proofs need.                                     *)

\* Cursors are places: an event has the number of its line.
CursorsArePlaces ==
  /\ \A i \in 1..Len(lines) : lines[i].cursor = i
  /\ tail.kind = "bare" => tail.event.cursor = Len(lines) + 1
  /\ \A i \in 1..Len(append.batch) : append.batch[i].cursor = append.start + i

\* An append leaves alone what was there before it, and the file has no more
\* events than were offered.
AppendsOnly ==
  /\ Len(Image) <= offered /\ promised <= Len(lines)
  /\ append.step # "idle" =>
       /\ promised <= append.start /\ append.start <= Len(lines)
       /\ Len(lines) <= append.start + Len(append.batch)
       /\ append.start + Len(append.batch) <= offered

JournalInv == JournalTypeOK /\ CursorsArePlaces /\ AppendsOnly

-----------------------------------------------------------------------------

Log == INSTANCE StableLog WITH Entries <- Event, log <- lines, promised <- promised

\* The journal keeps what it promised: whatever fails while an append is under
\* way, no later repair of the tail and no rollback removes or changes an event
\* of an append that has returned, and cursors grow along the file
\* (readJournalTailCursor, appendTeamEvents).
KeepsWhatItPromised == Log!Spec
=============================================================================
