------------------------- MODULE ObservationProofs -------------------------
(***************************************************************************)
(* The conversation of the Leader passes over no Worker event, and the      *)
(* journal keeps what it promised, for every number of Tasks, observations, *)
(* events and faults.                                                      *)
(*                                                                         *)
(* The reservation is not what makes it so.  Every observation is made from *)
(* a prefix of the branch and tells what stands in the journal between the  *)
(* cursor of that prefix and its own; the cursor of a longer branch is not  *)
(* smaller; and only a rollback takes anything out of the journal.          *)
(*                                                                         *)
(* What the journal promises is proved first, of EventJournal alone: it is a *)
(* StableLog, whatever its appenders say and however many of them fail, in  *)
(* which an event of an append that has returned stays where it is.        *)
(***************************************************************************)
EXTENDS Observation, SequenceTheorems, FiniteSetTheorems, WellFoundedInduction, TLAPS

-----------------------------------------------------------------------------
(* The journal                                                             *)

\* What the file amounts to, and the cursor that the next event follows.
LEMMA ImageFacts ==
  ASSUME JournalInv
  PROVE  /\ Image \in Seq(Event) /\ Len(lines) <= Len(Image) /\ Len(Image) <= Len(lines) + 1
         /\ Len(Image) <= offered /\ offered \in 0..MaxEvents
         /\ \A i \in 1..Len(lines) : Image[i] = lines[i]
         /\ \A i \in 1..Len(Image) : Image[i].cursor = i
         /\ LastCursor(Image) = Len(Image)
<1> USE DEF JournalInv, JournalTypeOK, CursorsArePlaces, AppendsOnly
<1>1. CASE tail.kind = "bare"
  <2>1. tail.event \in Event /\ tail.event.cursor = Len(lines) + 1
    BY <1>1 DEF Tails, Clean, Torn, Bare
  <2>2. /\ Image = Append(lines, tail.event) /\ Image \in Seq(Event)
        /\ Len(Image) = Len(lines) + 1
        /\ \A i \in 1..Len(lines) : Image[i] = lines[i]
        /\ Image[Len(lines) + 1] = tail.event
    BY <1>1, <2>1 DEF Image
  <2>3. \A i \in 1..Len(Image) : Image[i].cursor = i
    BY <2>1, <2>2
  <2> QED
    BY <2>2, <2>3 DEF LastCursor
<1>2. CASE tail.kind # "bare"
  <2>1. Image = lines
    BY <1>2 DEF Image
  <2>2. LastCursor(Image) = Len(Image)
    BY <2>1 DEF LastCursor
  <2> QED
    BY <2>1, <2>2
<1> QED
  BY <1>1, <1>2

\* A batch is numbered on from the file that it is for.
LEMMA NumberedFacts ==
  ASSUME NEW n \in 1..MaxEvents, NEW facts \in [1..n -> Facts], NEW s \in Seq(Event),
         LastCursor(s) = Len(s), Len(s) <= offered, offered \in 0..MaxEvents,
         offered + Len(facts) <= MaxEvents
  PROVE  /\ Len(facts) = n /\ Numbered(facts, s) \in Seq(Event)
         /\ Len(Numbered(facts, s)) = n
         /\ \A i \in 1..n : Numbered(facts, s)[i].cursor = Len(s) + i
<1>1. facts \in Seq(Facts) /\ Len(facts) = n
  BY JournalAssumption
<1>2. \A i \in 1..n : [id |-> offered + i, cursor |-> LastCursor(s) + i, fact |-> facts[i]] \in Event
  BY <1>1, JournalAssumption DEF Event
<1>3. Numbered(facts, s) \in [1..n -> Event]
  BY <1>1, <1>2 DEF Numbered
<1>4. Numbered(facts, s) \in Seq(Event) /\ Len(Numbered(facts, s)) = n
  BY <1>3, JournalAssumption
<1> QED
  BY <1>1, <1>4 DEF Numbered

\* A part of a sequence, from behind m up to n.
LEMMA PartFacts ==
  ASSUME NEW S, NEW s \in Seq(S), NEW m \in Nat, NEW n \in Nat, m <= n, n <= Len(s)
  PROVE  /\ SubSeq(s, m + 1, n) \in Seq(S) /\ Len(SubSeq(s, m + 1, n)) = n - m
         /\ \A i \in 1..(n - m) : SubSeq(s, m + 1, n)[i] = s[m + i]
<1>1. SubSeq(s, m + 1, n) \in Seq(S)
  OBVIOUS
<1>2. Len(SubSeq(s, m + 1, n)) = n - m
  OBVIOUS
<1>3. \A i \in 1..(n - m) : SubSeq(s, m + 1, n)[i] = s[m + i]
  OBVIOUS
<1> QED
  BY <1>1, <1>2, <1>3

\* What two sequences make together.
LEMMA ConcatFacts ==
  ASSUME NEW S, NEW t \in Seq(S), NEW part \in Seq(S), NEW k \in Nat, Len(part) = k
  PROVE  /\ t \o part \in Seq(S) /\ Len(t \o part) = Len(t) + k
         /\ \A i \in 1..Len(t) : (t \o part)[i] = t[i]
         /\ \A i \in 1..k : (t \o part)[Len(t) + i] = part[i]
OBVIOUS

\* A file that is written on has what it had, and the lines of the batch.
LEMMA WriteFacts ==
  ASSUME JournalInv, append.step = "write", NEW n \in Written..Len(append.batch)
  PROVE  LET more == lines \o SubSeq(append.batch, Written + 1, n) IN
         /\ more \in Seq(Event) /\ Len(more) = append.start + n /\ Len(lines) <= Len(more)
         /\ \A i \in 1..Len(lines) : more[i] = lines[i]
         /\ \A i \in 1..Len(more) : more[i].cursor = i
<1>1. /\ lines \in Seq(Event) /\ append.batch \in Seq(Event) /\ append.start \in Nat
      /\ append.start <= Len(lines) /\ Len(lines) <= append.start + Len(append.batch)
      /\ \A i \in 1..Len(lines) : lines[i].cursor = i
      /\ \A i \in 1..Len(append.batch) : append.batch[i].cursor = append.start + i
  BY DEF JournalInv, JournalTypeOK, CursorsArePlaces, AppendsOnly
<1>2. Len(lines) - append.start \in Nat
  BY <1>1
<1>3. PICK w \in Nat : w = Written /\ Len(lines) = append.start + w
  <2>1. Written \in Nat /\ Len(lines) = append.start + Written
    BY <1>1, <1>2 DEF Written
  <2> QED
    BY <2>1, Zenon
<1>4. n \in Nat /\ w <= n /\ n <= Len(append.batch) /\ n - w \in Nat
  BY <1>1, <1>3
<1>5. PICK k \in Nat : n = w + k
  BY <1>4
<1>6. PICK part \in Seq(Event) :
        /\ part = SubSeq(append.batch, w + 1, n) /\ Len(part) = k
        /\ \A i \in 1..k : part[i] = append.batch[w + i]
  <2>1. n - w = k
    BY <1>5
  <2>2. /\ SubSeq(append.batch, w + 1, n) \in Seq(Event) /\ Len(SubSeq(append.batch, w + 1, n)) = n - w
        /\ \A i \in 1..(n - w) : SubSeq(append.batch, w + 1, n)[i] = append.batch[w + i]
    BY <1>1, <1>4, PartFacts
  <2> QED
    BY <2>1, <2>2, Zenon
<1>7. PICK more \in Seq(Event) :
        /\ more = lines \o part /\ Len(more) = Len(lines) + k
        /\ \A i \in 1..Len(lines) : more[i] = lines[i]
        /\ \A i \in 1..k : more[Len(lines) + i] = part[i]
  <2>1. lines \in Seq(Event) /\ Len(part) = k
    BY <1>1, <1>6
  <2>2. /\ lines \o part \in Seq(Event) /\ Len(lines \o part) = Len(lines) + k
        /\ \A i \in 1..Len(lines) : (lines \o part)[i] = lines[i]
        /\ \A i \in 1..k : (lines \o part)[Len(lines) + i] = part[i]
    BY <2>1, ConcatFacts
  <2> QED
    BY <2>1, <2>2, Zenon
<1>8. ASSUME NEW i \in 1..Len(more) PROVE more[i].cursor = i
  <2>1. CASE i <= Len(lines)
    BY <1>1, <1>7, <2>1
  <2>2. CASE i > Len(lines)
    <3>1. i - Len(lines) \in 1..k /\ i = Len(lines) + (i - Len(lines))
      BY <1>1, <1>7, <2>2
    <3>2. PICK j \in 1..k : i = Len(lines) + j
      BY <3>1
    <3>3. more[i] = append.batch[w + j]
      BY <1>6, <1>7, <3>2
    <3>4. w + j \in 1..Len(append.batch) /\ append.start + (w + j) = i
      BY <1>1, <1>3, <1>4, <1>5, <3>2, SMTT(60)
    <3> QED
      BY <1>1, <3>3, <3>4
  <2> QED
    BY <1>1, <1>7, <2>1, <2>2
<1>9. Len(more) = append.start + n /\ Len(lines) <= Len(more)
  BY <1>1, <1>3, <1>5, <1>7, SMTT(60)
<1> QED
  BY <1>3, <1>6, <1>7, <1>8, <1>9

-----------------------------------------------------------------------------
(* The invariant.                                                          *)

LEMMA InitJournalInv == ASSUME JournalInit PROVE JournalInv
BY JournalAssumption DEF JournalInit, JournalInv, JournalTypeOK, CursorsArePlaces, AppendsOnly,
  Tails, Clean, Idle, Image

\* An append begins with the file as it stands, and with cursors that follow it.
LEMMA BeginInv ==
  ASSUME JournalInv, NEW n \in 1..MaxEvents, NEW facts \in [1..n -> Facts], Begin(facts)
  PROVE  JournalInv'
<1>1. /\ Image \in Seq(Event) /\ Len(Image) <= offered /\ offered \in 0..MaxEvents
      /\ \A i \in 1..Len(Image) : Image[i].cursor = i
      /\ LastCursor(Image) = Len(Image) /\ Len(lines) <= Len(Image)
  BY ImageFacts
<1>2. /\ lines' = Image /\ tail' = Clean /\ offered' = offered + Len(facts)
      /\ append' = [step |-> "write", start |-> Len(Image), batch |-> Numbered(facts, Image)]
      /\ promised' = promised /\ faults' = faults /\ offered + Len(facts) <= MaxEvents
  BY DEF Begin
<1>3. /\ Len(facts) = n /\ Numbered(facts, Image) \in Seq(Event)
      /\ Len(Numbered(facts, Image)) = n
      /\ \A i \in 1..n : Numbered(facts, Image)[i].cursor = Len(Image) + i
  BY <1>1, <1>2, NumberedFacts
<1>4. promised \in Nat /\ faults \in 0..MaxFaults /\ promised <= Len(lines) /\ lines \in Seq(Event)
  BY DEF JournalInv, JournalTypeOK, AppendsOnly
<1>5. JournalTypeOK'
  BY <1>1, <1>2, <1>3, <1>4, JournalAssumption DEF JournalTypeOK, Tails
<1>6. CursorsArePlaces'
  BY <1>1, <1>2, <1>3 DEF CursorsArePlaces, Clean
<1>7. Image' = Image
  BY <1>2 DEF Image, Clean
<1>8. AppendsOnly'
  BY <1>1, <1>2, <1>3, <1>4, <1>7 DEF AppendsOnly
<1> QED
  BY <1>5, <1>6, <1>8 DEF JournalInv

\* A write leaves the lines that were there, and goes on where they end.
LEMMA WriteInv ==
  ASSUME JournalInv, Write
  PROVE  /\ JournalInv' /\ Len(lines) <= Len(lines')
         /\ \A i \in 1..Len(lines) : lines'[i] = lines[i]
<1>1. append.step = "write" /\ promised' = promised /\ offered' = offered /\ faults' = faults
  BY DEF Write
<1>2. PICK n \in Written..Len(append.batch) :
        /\ lines' = lines \o SubSeq(append.batch, Written + 1, n)
        /\ \/ n = Len(append.batch) /\ tail' = Clean /\ append' = [append EXCEPT !.step = "sync"]
           \/ /\ n < Len(append.batch) /\ tail' \in {Torn, Bare(append.batch[n + 1])}
              /\ append' = append
  BY DEF Write
<1>3. /\ lines' \in Seq(Event) /\ Len(lines') = append.start + n /\ Len(lines) <= Len(lines')
      /\ \A i \in 1..Len(lines) : lines'[i] = lines[i]
      /\ \A i \in 1..Len(lines') : lines'[i].cursor = i
  BY <1>1, <1>2, WriteFacts
<1>4. /\ append.batch \in Seq(Event) /\ append.start \in Nat /\ lines \in Seq(Event)
      /\ append \in [step: {"idle", "write", "sync", "rollback"}, batch: Seq(Event), start: Nat]
      /\ promised \in Nat /\ offered \in 0..MaxEvents /\ faults \in 0..MaxFaults
      /\ promised <= append.start /\ append.start + Len(append.batch) <= offered
      /\ promised <= Len(lines) /\ append.start <= Len(lines)
      /\ \A i \in 1..Len(append.batch) : append.batch[i].cursor = append.start + i
  BY <1>1 DEF JournalInv, JournalTypeOK, CursorsArePlaces, AppendsOnly
<1>5. n \in Nat /\ n <= Len(append.batch)
  BY <1>3, <1>4, <1>2 DEF Written
<1>6. CASE n = Len(append.batch) /\ tail' = Clean /\ append' = [append EXCEPT !.step = "sync"]
  <2>1. append'.batch = append.batch /\ append'.start = append.start /\ append'.step = "sync"
    BY <1>4, <1>6
  <2>2. JournalTypeOK'
    BY <1>1, <1>3, <1>4, <1>6 DEF JournalTypeOK, Tails
  <2>3. CursorsArePlaces'
    BY <1>3, <1>4, <1>6, <2>1 DEF CursorsArePlaces, Clean
  <2>4. Image' = lines'
    BY <1>6 DEF Image, Clean
  <2>5. AppendsOnly'
    BY <1>1, <1>3, <1>4, <1>5, <1>6, <2>1, <2>4 DEF AppendsOnly
  <2> QED
    BY <1>3, <2>2, <2>3, <2>5 DEF JournalInv
<1>7. CASE n < Len(append.batch) /\ tail' \in {Torn, Bare(append.batch[n + 1])} /\ append' = append
  <2>1. /\ append.batch[n + 1] \in Event
        /\ append.batch[n + 1].cursor = Len(lines') + 1
    <3>1. n + 1 \in 1..Len(append.batch) /\ append.start + (n + 1) = Len(lines') + 1
      BY <1>3, <1>4, <1>5, <1>7
    <3> QED
      BY <1>4, <3>1
  <2>2. JournalTypeOK'
    BY <1>1, <1>3, <1>4, <1>7, <2>1 DEF JournalTypeOK, Tails
  <2>3. CursorsArePlaces'
    BY <1>3, <1>4, <1>7, <2>1, SMTT(60) DEF CursorsArePlaces, Torn, Bare
  <2>4. Len(Image') <= Len(lines') + 1
    BY <1>3, <1>7, <2>1 DEF Image, Torn, Bare
  <2>5. Image' \in Seq(Event)
    BY <1>3, <1>7, <2>1 DEF Image, Torn, Bare
  <2>6. AppendsOnly'
    BY <1>1, <1>3, <1>4, <1>5, <1>7, <2>4, <2>5 DEF AppendsOnly
  <2> QED
    BY <1>3, <2>2, <2>3, <2>6 DEF JournalInv
<1> QED
  BY <1>2, <1>6, <1>7

\* The end of an append: it returns, it fails, or it is taken back.
LEMMA EndInv ==
  ASSUME JournalInv, Sync \/ SyncFails \/ AppendFails
  PROVE  JournalInv'
<1> USE DEF JournalInv, JournalTypeOK, CursorsArePlaces, AppendsOnly
<1>1. lines' = lines /\ tail' = tail /\ Image' = Image /\ offered' = offered
  BY DEF Sync, SyncFails, AppendFails, Image
<1>2. CASE Sync
  BY <1>1, <1>2 DEF Sync, Idle
<1>3. CASE SyncFails
  <2>1. append.step = "sync" /\ append' = [append EXCEPT !.step = "rollback"]
        /\ promised' = promised /\ faults' \in 0..MaxFaults
    BY <1>3, JournalAssumption DEF SyncFails, Fault
  <2>2. append'.batch = append.batch /\ append'.start = append.start /\ append'.step = "rollback"
        /\ append' \in [step: {"idle", "write", "sync", "rollback"}, batch: Seq(Event), start: Nat]
    BY <2>1
  <2> QED
    BY <1>1, <2>1, <2>2
<1>4. CASE AppendFails
  BY <1>1, <1>4, JournalAssumption DEF AppendFails, Fault, Idle
<1> QED
  BY <1>2, <1>3, <1>4

\* What a rollback leaves is the file as the append found it, or all of it.
LEMMA RollbackInv ==
  ASSUME JournalInv, Rollback
  PROVE  /\ JournalInv' /\ Len(lines') <= Len(lines) /\ promised <= Len(lines')
         /\ \A i \in 1..Len(lines') : lines'[i] = lines[i]
<1>1. /\ append.step = "rollback" /\ append' = Idle /\ promised' = promised
      /\ offered' = offered /\ faults' = faults
  BY DEF Rollback
<1>2. /\ lines \in Seq(Event) /\ append.start \in Nat /\ 0 <= append.start
      /\ append.start <= Len(lines) /\ promised <= append.start /\ promised \in Nat
      /\ Len(Image) <= offered /\ offered \in 0..MaxEvents
      /\ \A i \in 1..Len(lines) : lines[i].cursor = i
  BY <1>1 DEF JournalInv, JournalTypeOK, CursorsArePlaces, AppendsOnly
<1>3. CASE lines' = SubSeq(lines, 1, append.start) /\ tail' = Clean
  <2>1. /\ SubSeq(lines, 0 + 1, append.start) \in Seq(Event)
        /\ Len(SubSeq(lines, 0 + 1, append.start)) = append.start - 0
        /\ \A i \in 1..(append.start - 0) : SubSeq(lines, 0 + 1, append.start)[i] = lines[0 + i]
    BY <1>2, PartFacts
  <2>2. /\ lines' \in Seq(Event) /\ Len(lines') = append.start
        /\ \A i \in 1..append.start : lines'[i] = lines[i]
    BY <1>2, <1>3, <2>1
  <2>3. Image' = lines' /\ Len(lines) <= Len(Image)
    BY <1>3, ImageFacts DEF Image, Clean
  <2>4. JournalTypeOK'
    BY <1>1, <1>3, <2>2 DEF JournalInv, JournalTypeOK, Tails, Idle
  <2>5. CursorsArePlaces'
    BY <1>1, <1>2, <1>3, <2>2 DEF CursorsArePlaces, Clean, Idle
  <2>6. AppendsOnly'
    BY <1>1, <1>2, <2>2, <2>3 DEF AppendsOnly, Idle
  <2> QED
    BY <1>2, <2>2, <2>4, <2>5, <2>6 DEF JournalInv
<1>4. CASE UNCHANGED <<lines, tail>>
  <2>1. Image' = Image
    BY <1>4 DEF Image
  <2> QED
    BY <1>1, <1>2, <1>4, <2>1 DEF JournalInv, JournalTypeOK, CursorsArePlaces, AppendsOnly, Idle
<1> QED
  BY <1>3, <1>4 DEF Rollback

-----------------------------------------------------------------------------
(* The journal keeps its promises                                          *)

\* Whatever is done to it, the journal is well formed: an event stands at the
\* line that its cursor names, and no append touches what was there before it
\* (appendTeamEvents, readJournalTailCursor).
THEOREM JournalInvariant == JournalSpec => []JournalInv
<1>1. JournalInit => JournalInv
  BY InitJournalInv
<1>2. JournalInv /\ [JournalNext]_journal => JournalInv'
  <2> SUFFICES ASSUME JournalInv, [JournalNext]_journal PROVE JournalInv'
    OBVIOUS
  <2>1. CASE \E n \in 1..MaxEvents : \E facts \in [1..n -> Facts] : Begin(facts)
    BY <2>1, BeginInv
  <2>2. CASE AppendStep
    BY <2>2, WriteInv, EndInv, RollbackInv DEF AppendStep
  <2>3. CASE SyncFails \/ AppendFails
    BY <2>3, EndInv
  <2>4. CASE UNCHANGED journal
    BY <2>4 DEF journal, JournalInv, JournalTypeOK, CursorsArePlaces, AppendsOnly, Image
  <2> QED
    BY <2>1, <2>2, <2>3, <2>4 DEF JournalNext
<1> QED
  BY <1>1, <1>2, PTL DEF JournalSpec

\* Lines that stand at their places are in the order of their cursors.
LEMMA PlacesAreOrdered ==
  ASSUME NEW s \in Seq(Event), \A i \in 1..Len(s) : s[i].cursor = i
  PROVE  Log!Ordered(s)
BY DEF Log!Ordered

\* A step of the journal is one of the abstract log, or none.
LEMMA JournalSteps ==
  ASSUME JournalInv, JournalInv', [JournalNext]_journal
  PROVE  [Log!Next]_<<lines, promised>>
<1>1. /\ lines \in Seq(Event) /\ lines' \in Seq(Event) /\ Log!Ordered(lines')
  BY PlacesAreOrdered DEF JournalInv, JournalTypeOK, CursorsArePlaces
<1>2. ASSUME Len(lines) <= Len(lines'), \A i \in 1..Len(lines) : lines'[i] = lines[i],
             promised' = promised
      PROVE  Log!Next
  BY <1>1, <1>2 DEF Log!Next, Log!Extend, Log!SameUpTo
<1>3. CASE \E n \in 1..MaxEvents : \E facts \in [1..n -> Facts] : Begin(facts)
  BY <1>2, <1>3, ImageFacts DEF Begin
<1>4. CASE Write
  BY <1>2, <1>4, WriteInv DEF Write
<1>5. CASE Sync
  BY <1>5 DEF Sync, Log!Next, Log!Promise
<1>6. CASE Rollback
  <2>1. promised' = promised
    BY <1>6 DEF Rollback
  <2>2. Log!SameUpTo(Len(lines'), lines', lines) /\ promised <= Len(lines')
    BY <1>1, <1>6, RollbackInv DEF Log!SameUpTo
  <2> QED
    BY <2>1, <2>2 DEF Log!Next, Log!Retract
<1>7. CASE SyncFails \/ AppendFails \/ UNCHANGED journal
  BY <1>7 DEF SyncFails, AppendFails, journal
<1> QED
  BY <1>3, <1>4, <1>5, <1>6, <1>7 DEF JournalNext, AppendStep

\* The journal keeps what it promised: an event of an append that has returned
\* is never removed or changed, by no later repair of the tail and no rollback
\* (appendTeamEvents, readJournalTailCursor).
THEOREM JournalIsStable == JournalSpec => KeepsWhatItPromised
<1>1. JournalInit => Log!Init
  BY DEF JournalInit, Log!Init
<1>2. JournalInv /\ JournalInv' /\ [JournalNext]_journal => [Log!Next]_<<lines, promised>>
  BY JournalSteps
<1> QED
  BY <1>1, <1>2, JournalInvariant, PTL DEF JournalSpec, KeepsWhatItPromised, Log!Spec

-----------------------------------------------------------------------------
(* The invariant of the conversation                                       *)

Stages == {"idle", "bound", "read", "result", "returned", "dropped"}

Bases ==
  [cursor: 0..MaxEvents, bound: BOOLEAN, covered: 0..MaxEvents, cards: Cards,
   seen: SUBSET (1..MaxEvents)]

Called ==
  [stage: Stages, auto: BOOLEAN, snapshot: BOOLEAN, at: Nat, same: BOOLEAN,
   base: Bases, events: Seq(Event), head: 0..MaxEvents, result: Entry]

Steps == {"idle", "present", "sync"}

Typed ==
  /\ JournalInv
  /\ version \in Cards /\ authors \in [Tasks -> {"lead", "worker"}]
  /\ unpublished \subseteq Seq(TaskFacts) \ {<<>>}
  /\ branch \in Seq(Entry) /\ held \in Calls \cup {None}
  /\ call \in [Calls -> Called]
  /\ "step" \in DOMAIN conductor /\ conductor.step \in Steps
  /\ working \in BOOLEAN /\ misled \in BOOLEAN

\* A part of an append that parses is the next event of its batch; there is
\* none when the batch is complete.
TailIsNext ==
  /\ append.step = "write" /\ tail.kind = "bare" =>
       Written < Len(append.batch) /\ tail.event = append.batch[Written + 1]
  /\ append.step \in {"sync", "rollback"} => tail = Clean

\* What the first n entries amount to, of any branch and of the branch.
BaseOf(entries, n) == Baseline(SubSeq(entries, 1, n))
Base(n) == BaseOf(branch, n)

IsRead(i, base) == Image[i].id \in base.seen \/ i <= base.covered

\* Who has read up to the cursor knows every Worker event up to there.
Honest(base) ==
  \A i \in 1..Len(Image) : Image[i].fact = WorkerFact /\ i <= base.cursor => IsRead(i, base)

\* No entry reaches behind the end of the journal, and the branch is honest
\* wherever a person may go back to.
BranchIsFaithful ==
  /\ \A i \in 1..Len(branch) : branch[i].through <= Len(Image)
  /\ \A n \in 0..Len(branch) : Honest(Base(n))

\* An entry tells every Worker event from the cursor of a base to its own.
Telling(base, e) ==
  \/ e.snapshot
  \/ \A i \in 1..Len(Image) :
       Image[i].fact = WorkerFact /\ base.cursor < i /\ i <= e.through => Image[i].id \in e.seen

\* A call whose branch has not moved was made from a prefix of it; what it
\* read stands in the journal, and its result tells all of it.
CallIsFaithful(a) ==
  /\ a.stage # "idle" => a.head <= Len(Image)
  /\ a.stage # "idle" /\ a.same => a.at <= Len(branch) /\ a.base = Base(a.at)
  /\ a.stage \in {"returned", "dropped"} => a.same
  /\ a.stage = "read" /\ ~a.snapshot =>
       a.base.cursor <= a.head /\ a.events = SubSeq(Image, a.base.cursor + 1, a.head)
  /\ a.stage \in {"result", "returned", "dropped"} =>
       a.result.through <= a.head /\ Telling(a.base, a.result)

Faithful == BranchIsFaithful /\ \A c \in Calls : CallIsFaithful(call[c])

OInv == Typed /\ TailIsNext /\ (misled \/ Faithful)

-----------------------------------------------------------------------------
(* Numbers.                                                                *)

\* A set that has 0, and the successor of each number it has, has them all:
\* the finite intervals 0..n are ordered by inclusion, which is well founded.
LEMMA Induction ==
  ASSUME NEW S, 0 \in S, \A n \in Nat : n \in S => n + 1 \in S
  PROVE  Nat \subseteq S
<1> SUFFICES ASSUME NEW k \in Nat, k \notin S PROVE FALSE
  OBVIOUS
<1> DEFINE T == {0..n : n \in Nat \ S}
<1>1. IsWellFoundedOn(StrictSubsetOrdering(Nat), FiniteSubsetsOf(Nat))
  BY FS_StrictSubsetOrderingWellFounded
<1>2. T \subseteq FiniteSubsetsOf(Nat) /\ T # {}
  <2>1. ASSUME NEW n \in Nat PROVE 0..n \in FiniteSubsetsOf(Nat)
    <3>1. IsFiniteSet(0..n)
      BY FS_Interval
    <3> QED
      BY <3>1 DEF FiniteSubsetsOf
  <2> QED
    BY <2>1
<1>3. PICK X \in T : \A Y \in T : <<Y, X>> \notin StrictSubsetOrdering(Nat)
  <2> HIDE DEF T
  <2> QED
    BY <1>1, <1>2, WFMin
<1>4. PICK n \in Nat \ S : X = 0..n
  BY <1>3
<1>5. PICK m \in Nat \ S : n = m + 1
  <2>1. n # 0 /\ n - 1 \in Nat /\ (n - 1) + 1 = n
    BY <1>4
  <2> QED
    BY <2>1
<1>6. 0..m \in T /\ 0..m \subseteq X /\ 0..m # X
  BY <1>4, <1>5
<1>7. 0..m \in SUBSET Nat /\ X \in SUBSET Nat
  BY <1>4
<1>8. <<0..m, X>> \in StrictSubsetOrdering(Nat)
  BY <1>6, <1>7 DEF StrictSubsetOrdering
<1> QED
  BY <1>3, <1>6, <1>8

\* The page of size p on which the k-th thing stands.
LEMMA PageOf ==
  ASSUME NEW p \in Nat \ {0}, NEW k \in Nat \ {0}
  PROVE  \E i \in Nat \ {0} : (i - 1) * p < k /\ k <= i * p
<1> DEFINE S == {n \in Nat : \E i \in Nat \ {0} : (i - 1) * p < n + 1 /\ n + 1 <= i * p}
<1>1. 0 \in S
  <2>1. (1 - 1) * p < 0 + 1 /\ 0 + 1 <= 1 * p
    OBVIOUS
  <2> QED
    BY <2>1
<1>2. ASSUME NEW n \in Nat, n \in S PROVE n + 1 \in S
  <2>1. PICK i \in Nat \ {0} : (i - 1) * p < n + 1 /\ n + 1 <= i * p
    BY <1>2
  <2>2. i * p \in Nat /\ (i - 1) * p \in Nat /\ ((i + 1) - 1) * p = i * p /\ (i + 1) * p = i * p + p
    OBVIOUS
  <2>3. CASE n + 1 = i * p
    <3>1. ((i + 1) - 1) * p < (n + 1) + 1 /\ (n + 1) + 1 <= (i + 1) * p
      BY <2>2, <2>3
    <3>2. i + 1 \in Nat \ {0} /\ n + 1 \in Nat
      OBVIOUS
    <3> QED
      BY <3>1, <3>2
  <2>4. CASE n + 1 < i * p
    <3>1. (i - 1) * p < (n + 1) + 1 /\ (n + 1) + 1 <= i * p
      BY <2>1, <2>2, <2>4
    <3> QED
      BY <3>1
  <2> QED
    BY <2>1, <2>2, <2>3, <2>4
<1>3. Nat \subseteq S
  <2> HIDE DEF S
  <2> QED
    BY <1>1, <1>2, Induction
<1>4. PICK n \in Nat : k = n + 1
  <2>1. k - 1 \in Nat /\ k = (k - 1) + 1
    OBVIOUS
  <2> QED
    BY <2>1
<1> QED
  BY <1>3, <1>4

\* How many pages of size p there are for l things.
LEMMA LastPage ==
  ASSUME NEW p \in Nat \ {0}, NEW l \in Nat \ {0}
  PROVE  LET c == (l + p - 1) \div p IN c \in Nat \ {0} /\ (c - 1) * p < l /\ l <= c * p
<1>1. PICK c : c = (l + p - 1) \div p
  OBVIOUS
<1>2. PICK m \in Nat : m = l + p - 1 /\ p <= m
  <2>1. l + p - 1 \in Nat /\ p <= l + p - 1
    OBVIOUS
  <2> QED
    BY <2>1
<1>3. c \in Nat /\ p * c <= m /\ m < p * c + p
  <2>1. c = m \div p
    BY <1>1, <1>2
  <2> QED
    BY <2>1
<1>4. c # 0
  BY <1>2, <1>3
<1>5. (c - 1) * p = p * c - p /\ c * p = p * c /\ p * c \in Nat
  BY <1>3
<1>6. (c - 1) * p < l /\ l <= c * p
  BY <1>2, <1>3, <1>5
<1> QED
  BY <1>1, <1>3, <1>4, <1>6

-----------------------------------------------------------------------------
(* The branch.  The recursive function of Baseline exists, and is the only  *)
(* one.                                                                    *)

IsReading(f, s) ==
  f = [n \in 0..Len(s) |-> IF n = 0 THEN NoBase ELSE Take(f[n - 1], s[n])]

LEMMA TakeTyped ==
  ASSUME NEW b \in Bases, NEW e \in Entry
  PROVE  Take(b, e) \in Bases
<1>1. b.cards \in Cards /\ e.cards \in Cards
  BY DEF Bases, Entry
<1>2. [t \in Tasks |-> IF t \in e.told THEN e.cards[t] ELSE b.cards[t]] \in Cards
  BY <1>1 DEF Cards
<1>3. /\ e.through \in 0..MaxEvents /\ b.seen \cup e.seen \in SUBSET (1..MaxEvents)
      /\ b.covered \in 0..MaxEvents
  BY DEF Bases, Entry
<1>4. (IF e.snapshot THEN e.through ELSE b.covered) \in 0..MaxEvents
  BY <1>3
<1> DEFINE r == [cursor |-> e.through, bound |-> TRUE, seen |-> b.seen \cup e.seen,
                 covered |-> IF e.snapshot THEN e.through ELSE b.covered,
                 cards |-> [t \in Tasks |-> IF t \in e.told THEN e.cards[t] ELSE b.cards[t]]]
<1>5. r \in Bases
  BY <1>2, <1>3, <1>4 DEF Bases
<1>6. Take(b, e) = b \/ Take(b, e) = r
  BY DEF Take
<1> QED
  BY <1>5, <1>6

LEMMA NoBaseTyped == NoBase \in Bases
BY JournalAssumption, ObservationAssumption DEF NoBase, Bases, Cards

LEMMA ReadingUnique ==
  ASSUME NEW s \in Seq(Entry), NEW f, IsReading(f, s), NEW g, IsReading(g, s)
  PROVE  f = g
<1>1. Len(s) \in Nat /\ DOMAIN f = 0..Len(s) /\ DOMAIN g = 0..Len(s)
  BY LenProperties DEF IsReading
<1> DEFINE Q == {n \in Nat : n \in 0..Len(s) => f[n] = g[n]}
<1>2. 0 \in Q
  <2>1. 0 \in 0..Len(s) => f[0] = NoBase
    BY DEF IsReading
  <2>2. 0 \in 0..Len(s) => g[0] = NoBase
    BY DEF IsReading
  <2> QED
    BY <2>1, <2>2
<1>3. ASSUME NEW n \in Nat, n \in Q PROVE n + 1 \in Q
  <2> SUFFICES ASSUME n + 1 \in 0..Len(s) PROVE f[n + 1] = g[n + 1]
    OBVIOUS
  <2>1. f[n + 1] = IF n + 1 = 0 THEN NoBase ELSE Take(f[(n + 1) - 1], s[n + 1])
    BY DEF IsReading
  <2>2. g[n + 1] = IF n + 1 = 0 THEN NoBase ELSE Take(g[(n + 1) - 1], s[n + 1])
    BY DEF IsReading
  <2>3. (n + 1) - 1 = n /\ n + 1 # 0 /\ n \in 0..Len(s)
    BY <1>1
  <2>4. f[n] = g[n]
    BY <1>3, <2>3
  <2> QED
    BY <2>1, <2>2, <2>3, <2>4
<1> HIDE DEF Q
<1>4. Nat \subseteq Q
  BY <1>2, <1>3, Induction
<1>5. \A n \in 0..Len(s) : f[n] = g[n]
  BY <1>1, <1>4 DEF Q
<1>6. f = [n \in 0..Len(s) |-> f[n]] /\ g = [n \in 0..Len(s) |-> g[n]]
  BY DEF IsReading
<1> QED
  BY <1>5, <1>6

LEMMA ReadingAppend ==
  ASSUME NEW r \in Seq(Entry), NEW e \in Entry, NEW f, IsReading(f, r)
  PROVE  \E g : IsReading(g, Append(r, e)) /\ g[Len(r) + 1] = Take(f[Len(r)], e)
<1> DEFINE l == Len(r)
           s == Append(r, e)
           last == Take(f[l], e)
           g == [n \in 0..(l + 1) |-> IF n = l + 1 THEN last ELSE f[n]]
<1>1. l \in Nat /\ Len(s) = l + 1 /\ (\A n \in 1..l : s[n] = r[n]) /\ s[l + 1] = e
  BY LenProperties, AppendProperties
<1>2. \A n \in 0..l : f[n] = IF n = 0 THEN NoBase ELSE Take(f[n - 1], r[n])
  BY DEF IsReading
<1>3. last = Take(f[l], e)
  OBVIOUS
<1> HIDE DEF l, s, last
<1>4. ASSUME NEW n \in 0..(l + 1)
      PROVE  g[n] = IF n = 0 THEN NoBase ELSE Take(g[n - 1], s[n])
  <2>1. CASE n = l + 1
    <3>1. n # 0 /\ n - 1 = l /\ l \in 0..(l + 1) /\ l # l + 1 /\ g[l] = f[l] /\ g[n] = last /\ s[n] = e
      BY <1>1, <2>1
    <3> HIDE DEF g
    <3>2. g[n - 1] = f[l]
      BY <3>1
    <3> QED
      BY <3>1, <3>2, <1>3
  <2>2. CASE n # l + 1
    <3>1. n \in 0..l /\ g[n] = f[n] /\ (n # 0 => n \in 1..l /\ n - 1 \in 0..l)
      BY <1>1, <2>2
    <3>2. n # 0 => g[n - 1] = f[n - 1] /\ s[n] = r[n]
      BY <1>1, <3>1
    <3>3. f[n] = IF n = 0 THEN NoBase ELSE Take(f[n - 1], r[n])
      BY <1>2, <3>1
    <3> HIDE DEF g
    <3> QED
      BY <3>1, <3>2, <3>3
  <2> QED
    BY <2>1, <2>2
<1>5. g = [n \in 0..(l + 1) |-> g[n]]
  OBVIOUS
<1>6. g[l + 1] = last
  BY <1>1
<1> HIDE DEF g
<1>7. g = [n \in 0..(l + 1) |-> IF n = 0 THEN NoBase ELSE Take(g[n - 1], s[n])]
  BY <1>4, <1>5
<1>8. IsReading(g, s)
  BY <1>1, <1>7 DEF IsReading
<1> QED
  BY <1>3, <1>6, <1>8 DEF l, s

LEMMA ReadingExists ==
  ASSUME NEW s \in Seq(Entry)
  PROVE  \E f : IsReading(f, s)
<1> DEFINE Q == {n \in Nat : \A t \in Seq(Entry) : Len(t) = n => \E f : IsReading(f, t)}
<1>1. 0 \in Q
  <2> SUFFICES ASSUME NEW t \in Seq(Entry), Len(t) = 0 PROVE \E f : IsReading(f, t)
    OBVIOUS
  <2> DEFINE f == [n \in 0..0 |-> NoBase]
  <2>1. IsReading(f, t)
    <3>1. f = [n \in 0..0 |-> IF n = 0 THEN NoBase ELSE Take(f[n - 1], t[n])]
      OBVIOUS
    <3> HIDE DEF f
    <3> QED
      BY <3>1 DEF IsReading
  <2> QED
    BY <2>1
<1>2. ASSUME NEW n \in Nat, n \in Q PROVE n + 1 \in Q
  <2> SUFFICES ASSUME NEW t \in Seq(Entry), Len(t) = n + 1 PROVE \E f : IsReading(f, t)
    OBVIOUS
  <2>1. t # << >>
    OBVIOUS
  <2>2. PICK r \in Seq(Entry), e \in Entry : t = Append(r, e)
    BY <2>1, SequenceEmptyOrAppend
  <2>3. Len(r) = n
    BY <2>2, LenProperties, AppendProperties
  <2>4. PICK f : IsReading(f, r)
    BY <1>2, <2>3
  <2> QED
    BY <2>2, <2>4, ReadingAppend
<1> HIDE DEF Q
<1>3. Nat \subseteq Q
  BY <1>1, <1>2, Induction
<1> QED
  BY <1>3, LenProperties DEF Q

LEMMA BaselineIs ==
  ASSUME NEW s \in Seq(Entry), NEW f, IsReading(f, s)
  PROVE  Baseline(s) = f[Len(s)]
<1> DEFINE g == CHOOSE h : IsReading(h, s)
<1>1. IsReading(g, s)
  BY ReadingExists
<1>2. g = f
  <2> HIDE DEF g
  <2> QED
    BY <1>1, ReadingUnique
<1>3. Baseline(s) = g[Len(s)]
  BY DEF Baseline, IsReading
<1> QED
  BY <1>2, <1>3

\* No entry: no base.  One entry more: Take.
LEMMA BaselineSteps ==
  /\ Baseline(<<>>) = NoBase
  /\ \A r \in Seq(Entry) : \A e \in Entry : Baseline(Append(r, e)) = Take(Baseline(r), e)
<1>1. Baseline(<<>>) = NoBase
  <2>1. <<>> \in Seq(Entry) /\ Len(<<>>) = 0
    OBVIOUS
  <2>2. PICK f : IsReading(f, <<>>)
    BY <2>1, ReadingExists
  <2>3. f[0] = NoBase
    BY <2>1, <2>2 DEF IsReading
  <2> QED
    BY <2>1, <2>2, <2>3, BaselineIs
<1>2. ASSUME NEW r \in Seq(Entry), NEW e \in Entry PROVE Baseline(Append(r, e)) = Take(Baseline(r), e)
  <2>1. PICK f : IsReading(f, r)
    BY ReadingExists
  <2>2. PICK g : IsReading(g, Append(r, e)) /\ g[Len(r) + 1] = Take(f[Len(r)], e)
    BY <2>1, ReadingAppend
  <2>3. Append(r, e) \in Seq(Entry) /\ Len(Append(r, e)) = Len(r) + 1
    BY AppendProperties, LenProperties
  <2>4. Baseline(Append(r, e)) = g[Len(r) + 1] /\ Baseline(r) = f[Len(r)]
    BY <2>1, <2>2, <2>3, BaselineIs
  <2> QED
    BY <2>2, <2>4
<1> QED
  BY <1>1, <1>2

\* The first entries of the first entries, and those of a longer branch.
LEMMA FirstEntries ==
  ASSUME NEW s \in Seq(Entry), NEW k \in 0..Len(s)
  PROVE  /\ SubSeq(s, 1, k) \in Seq(Entry) /\ Len(SubSeq(s, 1, k)) = k
         /\ \A i \in 1..k : SubSeq(s, 1, k)[i] = s[i]
         /\ \A n \in 0..k : SubSeq(SubSeq(s, 1, k), 1, n) = SubSeq(s, 1, n)
         /\ \A e \in Entry : SubSeq(Append(s, e), 1, k) = SubSeq(s, 1, k)
<1>0. Len(s) \in Nat /\ k \in Nat /\ k <= Len(s)
  BY LenProperties
<1>1. /\ SubSeq(s, 0 + 1, k) \in Seq(Entry) /\ Len(SubSeq(s, 0 + 1, k)) = k - 0
      /\ \A i \in 1..(k - 0) : SubSeq(s, 0 + 1, k)[i] = s[0 + i]
  BY <1>0, PartFacts
<1>2. /\ SubSeq(s, 1, k) \in Seq(Entry) /\ Len(SubSeq(s, 1, k)) = k
      /\ \A i \in 1..k : SubSeq(s, 1, k)[i] = s[i]
  BY <1>0, <1>1
<1>3. ASSUME NEW n \in 0..k PROVE SubSeq(SubSeq(s, 1, k), 1, n) = SubSeq(s, 1, n)
  <2>1. PICK t \in Seq(Entry) : t = SubSeq(s, 1, k) /\ Len(t) = k /\ \A i \in 1..k : t[i] = s[i]
    BY <1>2
  <2>2. SubSeq(t, 1, n) = [i \in 1..n |-> t[i]] /\ SubSeq(s, 1, n) = [i \in 1..n |-> s[i]]
    BY <1>0, <2>1
  <2>3. \A i \in 1..n : t[i] = s[i]
    BY <1>0, <2>1
  <2> QED
    BY <2>1, <2>2, <2>3
<1>4. ASSUME NEW e \in Entry PROVE SubSeq(Append(s, e), 1, k) = SubSeq(s, 1, k)
  <2>1. PICK t \in Seq(Entry) : t = Append(s, e) /\ Len(t) = Len(s) + 1 /\ \A i \in 1..Len(s) : t[i] = s[i]
    <3>1. /\ Append(s, e) \in Seq(Entry) /\ Len(Append(s, e)) = Len(s) + 1
          /\ \A i \in 1..Len(s) : Append(s, e)[i] = s[i]
      BY AppendProperties
    <3> QED
      BY <3>1, Zenon
  <2>2. SubSeq(t, 1, k) = [i \in 1..k |-> t[i]] /\ SubSeq(s, 1, k) = [i \in 1..k |-> s[i]]
    BY <1>0, <2>1
  <2>3. \A i \in 1..k : t[i] = s[i]
    BY <1>0, <2>1
  <2> QED
    BY <2>1, <2>2, <2>3
<1> QED
  BY <1>2, <1>3, <1>4

LEMMA WholeBranch ==
  ASSUME NEW s \in Seq(Entry)
  PROVE  SubSeq(s, 1, Len(s)) = s
BY LenProperties

LEMMA BaseSteps ==
  ASSUME NEW s \in Seq(Entry)
  PROVE  /\ BaseOf(s, 0) = NoBase /\ BaseOf(s, Len(s)) = Baseline(s)
         /\ \A n \in 1..Len(s) : BaseOf(s, n) = Take(BaseOf(s, n - 1), s[n])
<1>0. Len(s) \in Nat
  BY LenProperties
<1>1. SubSeq(s, 1, 0) = <<>>
  BY <1>0
<1>2. ASSUME NEW n \in 1..Len(s) PROVE BaseOf(s, n) = Take(BaseOf(s, n - 1), s[n])
  <2>1. n - 1 \in 0..Len(s) /\ n \in 0..Len(s) /\ s[n] \in Entry /\ n \in Nat /\ (n - 1) + 1 = n
    BY <1>0, ElementOfSeq
  <2>2. PICK r \in Seq(Entry) : r = SubSeq(s, 1, n - 1) /\ Len(r) = n - 1 /\ \A i \in 1..(n - 1) : r[i] = s[i]
    BY <2>1, FirstEntries
  <2>3. PICK t \in Seq(Entry) : t = SubSeq(s, 1, n) /\ Len(t) = n /\ \A i \in 1..n : t[i] = s[i]
    BY <2>1, FirstEntries
  <2>4. t = Append(r, s[n])
    <3>1. Append(r, s[n]) \in Seq(Entry) /\ Len(Append(r, s[n])) = n
      BY <2>1, <2>2, AppendProperties
    <3>2. ASSUME NEW i \in 1..n PROVE t[i] = Append(r, s[n])[i]
      <4>1. i \in 1..(n - 1) \/ i = n
        BY <2>1
      <4>2. \A j \in 1..(n - 1) : Append(r, s[n])[j] = r[j]
        BY <2>1, <2>2, AppendProperties
      <4>3. Append(r, s[n])[n] = s[n]
        BY <2>1, <2>2, AppendProperties
      <4> QED
        BY <4>1, <4>2, <4>3, <2>2, <2>3
    <3> QED
      BY <2>3, <3>1, <3>2, SeqEqual
  <2>5. Baseline(Append(r, s[n])) = Take(Baseline(r), s[n])
    BY <2>1, <2>2, BaselineSteps
  <2> QED
    BY <2>2, <2>3, <2>4, <2>5 DEF BaseOf
<1> QED
  BY <1>1, <1>2, BaselineSteps, WholeBranch DEF BaseOf

\* Of two entries the later one does not lead back; the cursor is that of an entry.
LEMMA BaseFacts ==
  ASSUME NEW s \in Seq(Entry), NEW n \in 0..Len(s)
  PROVE  /\ BaseOf(s, n) \in Bases /\ (BaseOf(s, n).bound \/ BaseOf(s, n).cursor = 0)
         /\ \A m \in 0..n : BaseOf(s, m).cursor <= BaseOf(s, n).cursor
         /\ \A l \in Nat : (\A i \in 1..Len(s) : s[i].through <= l) => BaseOf(s, n).cursor <= l
<1> DEFINE b(k) == BaseOf(s, k)
           Fine(k) == /\ b(k) \in Bases /\ (b(k).bound \/ b(k).cursor = 0)
                      /\ \A m \in 0..k : b(m).cursor \in Nat /\ b(m).cursor <= b(k).cursor
                      /\ \A l \in Nat : (\A i \in 1..Len(s) : s[i].through <= l) => b(k).cursor <= l
           Q == {k \in Nat : k \in 0..Len(s) => Fine(k)}
<1>0. Len(s) \in Nat
  BY LenProperties
<1>1. 0 \in Q
  <2>1. b(0) = NoBase /\ NoBase \in Bases /\ NoBase.cursor = 0
    BY BaseSteps, NoBaseTyped DEF NoBase
  <2> HIDE DEF b
  <2>2. \A m \in 0..0 : m = 0
    OBVIOUS
  <2> QED
    BY <2>1, <2>2
<1>2. ASSUME NEW k \in Nat, k \in Q PROVE k + 1 \in Q
  <2> SUFFICES ASSUME k + 1 \in 0..Len(s) PROVE Fine(k + 1)
    OBVIOUS
  <2>1. k \in 0..Len(s) /\ k + 1 \in 1..Len(s) /\ (k + 1) - 1 = k
    BY <1>0
  <2>2. PICK e \in Entry : e = s[k + 1]
    BY <2>1, ElementOfSeq
  <2>3. b(k + 1) = Take(b(k), e)
    BY <2>1, <2>2, BaseSteps
  <2>4. Fine(k)
    BY <1>2, <2>1
  <2> HIDE DEF b
  <2>5. b(k + 1) \in Bases
    BY <2>3, <2>4, TakeTyped
  <2>6. b(k).cursor \in Nat /\ e.through \in Nat /\ b(k).bound \in BOOLEAN
    BY <2>4, JournalAssumption DEF Bases, Entry
  <2>7. \/ b(k + 1) = b(k)
        \/ b(k + 1).cursor = e.through /\ b(k + 1).bound /\ b(k).cursor <= e.through
    BY <2>3, <2>4, <2>6 DEF Take
  <2>8. b(k).cursor <= b(k + 1).cursor
    BY <2>6, <2>7
  <2>9. ASSUME NEW m \in 0..(k + 1) PROVE b(m).cursor \in Nat /\ b(m).cursor <= b(k + 1).cursor
    <3>1. m = k + 1 \/ m \in 0..k
      OBVIOUS
    <3>2. m \in 0..k => b(m).cursor \in Nat /\ b(m).cursor <= b(k).cursor
      BY <2>4
    <3>3. b(k + 1).cursor \in Nat
      BY <2>5, JournalAssumption DEF Bases
    <3> QED
      BY <3>1, <3>2, <3>3, <2>6, <2>8
  <2>10. ASSUME NEW l \in Nat, \A i \in 1..Len(s) : s[i].through <= l PROVE b(k + 1).cursor <= l
    BY <2>1, <2>2, <2>4, <2>7, <2>10
  <2> QED
    BY <2>4, <2>5, <2>7, <2>9, <2>10
<1> HIDE DEF Q
<1>3. Nat \subseteq Q
  BY <1>1, <1>2, Induction
<1> QED
  BY <1>0, <1>3 DEF Q

-----------------------------------------------------------------------------
(* What a call finds.                                                      *)

LEMMA Least ==
  ASSUME NEW S \in SUBSET Nat, S # {}
  PROVE  \E m \in S : \A n \in S : m <= n
<1> SUFFICES ASSUME \A m \in S : \E n \in S : n < m PROVE FALSE
  OBVIOUS
<1> DEFINE T == {n \in Nat : \A m \in 0..n : m \notin S}
<1>1. 0 \in T
  OBVIOUS
<1>2. \A n \in Nat : n \in T => n + 1 \in T
  <2> SUFFICES ASSUME NEW n \in T PROVE n + 1 \in T
    OBVIOUS
  <2>1. n + 1 \notin S
    <3> SUFFICES ASSUME n + 1 \in S PROVE FALSE
      OBVIOUS
    <3>1. PICK k \in S : k < n + 1
      OBVIOUS
    <3> QED
      BY <3>1
  <2> QED
    BY <2>1
<1> HIDE DEF T
<1>3. Nat \subseteq T
  BY <1>1, <1>2, Induction
<1>4. \A m \in S : m \in 0..m
  OBVIOUS
<1> QED
  BY <1>3, <1>4 DEF T

\* The unseen events are those behind the cursor.
LEMMA UnseenIs ==
  ASSUME JournalInv, NEW base \in Bases, base.cursor <= Len(Image)
  PROVE  Unseen(base) = SubSeq(Image, base.cursor + 1, Len(Image))
<1>1. PICK l \in Nat : l = Len(Image) /\ \A i \in 1..l : Image[i].cursor = i
  BY ImageFacts
<1>2. PICK n \in 0..l : n = base.cursor
  BY <1>1, JournalAssumption DEF Bases
<1>3. {i \in 1..Len(Image) : Image[i].cursor <= base.cursor} = 1..n
  BY <1>1, <1>2
<1>4. (CHOOSE m \in 0..l : 1..n = 1..m) = n
  <2>1. \A m \in 0..l : 1..n = 1..m => m = n
    <3> SUFFICES ASSUME NEW m \in 0..l, 1..n = 1..m PROVE m = n
      OBVIOUS
    <3>1. n \in Nat /\ m \in Nat
      BY <1>1
    <3>2. (n # 0 => n \in 1..m) /\ (m # 0 => m \in 1..n)
      BY <3>1
    <3> QED
      BY <3>1, <3>2
  <2> QED
    BY <2>1
<1> DEFINE First(B, k) == CHOOSE m \in 0..k : B = 1..m
<1>5. Unseen(base) =
        SubSeq(Image, First({i \in 1..Len(Image) : Image[i].cursor <= base.cursor}, Len(Image)) + 1, Len(Image))
  BY DEF Unseen
<1>6. First(1..n, l) = n
  BY <1>4
<1> HIDE DEF First
<1> QED
  BY <1>1, <1>2, <1>3, <1>5, <1>6

\* The i-th page has the places behind the pages before it, up to its size.
LEMMA PageFacts ==
  ASSUME NEW ev \in Seq(Event), ev # <<>>, NEW i \in 1..PageCount(ev)
  PROVE  \E from \in Nat, to \in 1..Len(ev) :
           /\ from = (i - 1) * PageSize /\ from < to
           /\ i # PageCount(ev) => to = i * PageSize
           /\ i = PageCount(ev) => to = Len(ev)
           /\ Page(ev, i) \in Seq(Event)
           /\ ToSet(Page(ev, i)) = {ev[k] : k \in (from + 1)..to}
           /\ LastCursor(Page(ev, i)) = ev[to].cursor
<1>1. PICK l \in Nat \ {0} : l = Len(ev)
  <2>1. Len(ev) \in Nat /\ Len(ev) # 0
    BY LenProperties, EmptySeq
  <2> QED
    BY <2>1
<1>2. PICK p \in Nat \ {0} : p = PageSize
  BY ObservationAssumption
<1>3. PICK c \in Nat \ {0} : c = PageCount(ev) /\ (c - 1) * p < l /\ l <= c * p
  BY <1>1, <1>2, LastPage DEF PageCount
<1>4. i \in 1..c /\ i \in Nat \ {0}
  BY <1>3
<1>5. PICK from \in Nat : from = (i - 1) * p
  <2>1. (i - 1) * p \in Nat
    BY <1>4
  <2> QED
    BY <2>1
<1>6. PICK up \in Nat : up = i * p /\ up = from + p
  <2>1. i * p \in Nat /\ i * p = (i - 1) * p + p
    BY <1>4
  <2> QED
    BY <1>5, <2>1
<1>7. i # c => up <= (c - 1) * p /\ up < l
  <2> SUFFICES ASSUME i # c PROVE up <= (c - 1) * p /\ up < l
    OBVIOUS
  <2>1. PICK d \in Nat : c - 1 = i + d
    <3>1. c - 1 - i \in Nat /\ c - 1 = i + (c - 1 - i)
      BY <1>4
    <3> QED
      BY <3>1
  <2>2. (i + d) * p = i * p + d * p /\ d * p \in Nat
    OBVIOUS
  <2>3. up <= (c - 1) * p
    BY <1>6, <2>1, <2>2
  <2>4. (c - 1) * p \in Nat
    BY <2>1, <2>2, <1>4
  <2> QED
    BY <1>3, <2>3, <2>4
<1>8. i = c => from < l /\ l <= up
  BY <1>3, <1>5, <1>6
<1>9. PICK to \in 1..l : to = (IF up < l THEN up ELSE l) /\ from < to
  <2>1. from < l
    BY <1>2, <1>6, <1>7, <1>8
  <2> QED
    BY <1>2, <1>6, <2>1
<1>10. (i # c => to = up) /\ (i = c => to = l)
  BY <1>7, <1>8, <1>9
<1>11. Page(ev, i) = SubSeq(ev, from + 1, to)
  BY <1>1, <1>2, <1>5, <1>6, <1>9 DEF Page
<1>12. PICK page \in Seq(Event) :
         /\ page = SubSeq(ev, from + 1, to) /\ Len(page) = to - from
         /\ \A k \in 1..(to - from) : page[k] = ev[from + k]
  <2>1. /\ SubSeq(ev, from + 1, to) \in Seq(Event) /\ Len(SubSeq(ev, from + 1, to)) = to - from
        /\ \A k \in 1..(to - from) : SubSeq(ev, from + 1, to)[k] = ev[from + k]
    <3>1. from <= to /\ to <= Len(ev) /\ to \in Nat
      BY <1>1, <1>9
    <3> QED
      BY <3>1, PartFacts
  <2> QED
    BY <2>1, Zenon
<1>13. DOMAIN page = 1..(to - from)
  BY <1>12, LenProperties
<1>14. ToSet(page) = {ev[k] : k \in (from + 1)..to}
  <2>1. \A k \in 1..(to - from) : from + k \in (from + 1)..to
    BY <1>9
  <2>2. \A k \in (from + 1)..to : k - from \in 1..(to - from) /\ from + (k - from) = k
    BY <1>9
  <2>3. ToSet(page) = {page[k] : k \in 1..(to - from)}
    BY <1>13 DEF ToSet
  <2>4. \A k \in (from + 1)..to : ev[k] = page[k - from]
    BY <1>12, <2>2
  <2>5. ASSUME NEW e \in ToSet(page) PROVE e \in {ev[k] : k \in (from + 1)..to}
    <3>1. PICK k \in 1..(to - from) : e = page[k]
      BY <2>3
    <3> QED
      BY <1>12, <2>1, <3>1
  <2>6. ASSUME NEW k \in (from + 1)..to PROVE ev[k] \in ToSet(page)
    BY <2>2, <2>3, <2>4
  <2> QED
    BY <2>5, <2>6
<1>15. LastCursor(page) = ev[to].cursor
  <2>1. to - from \in 1..(to - from) /\ from + (to - from) = to /\ Len(page) # 0
    BY <1>9, <1>12
  <2>2. page[Len(page)] = ev[to] /\ page # <<>>
    BY <1>12, <2>1
  <2> QED
    BY <2>2 DEF LastCursor
<1>16. Page(ev, i) = page
  BY <1>11, <1>12
<1>17. to \in 1..Len(ev)
  BY <1>1
<1> WITNESS from \in Nat, to \in 1..Len(ev)
<1>18. from = (i - 1) * PageSize /\ from < to
  BY <1>2, <1>5, <1>9
<1>19. (i # PageCount(ev) => to = i * PageSize) /\ (i = PageCount(ev) => to = Len(ev))
  BY <1>1, <1>2, <1>3, <1>6, <1>10
<1> QED
  BY <1>12, <1>14, <1>15, <1>16, <1>18, <1>19

\* Every event is on a page.
LEMMA OnSomePage ==
  ASSUME NEW ev \in Seq(Event), NEW k \in 1..Len(ev)
  PROVE  \E i \in 1..PageCount(ev) :
           (i - 1) * PageSize < k /\ k <= i * PageSize /\ ev[k] \in ToSet(Page(ev, i))
<1>1. PICK l \in Nat \ {0} : l = Len(ev)
  BY LenProperties
<1>2. ev # <<>>
  BY <1>1
<1>3. PICK p \in Nat \ {0} : p = PageSize
  BY ObservationAssumption
<1>4. PICK c \in Nat \ {0} : c = PageCount(ev) /\ (c - 1) * p < l /\ l <= c * p
  BY <1>1, <1>2, <1>3, LastPage DEF PageCount
<1>5. PICK i \in Nat \ {0} : (i - 1) * p < k /\ k <= i * p
  <2>1. k \in Nat \ {0}
    BY <1>1
  <2> QED
    BY <2>1, PageOf
<1>6. i <= c
  <2> SUFFICES ASSUME i > c PROVE FALSE
    BY <1>4
  <2>1. PICK d \in Nat : i - 1 = c + d
    <3>1. i - 1 - c \in Nat /\ i - 1 = c + (i - 1 - c)
      BY <1>4
    <3> QED
      BY <3>1
  <2>2. (c + d) * p = c * p + d * p /\ d * p \in Nat /\ c * p \in Nat
    OBVIOUS
  <2>3. (i - 1) * p = (c + d) * p
    BY <2>1
  <2>4. PICK x \in Nat, y \in Nat : x = c * p /\ y = d * p /\ (i - 1) * p = x + y
    BY <2>2, <2>3
  <2>5. x + y < k /\ k <= l /\ l <= x
    BY <1>1, <1>4, <1>5, <2>4
  <2> QED
    BY <2>5
<1>7. i \in 1..PageCount(ev)
  BY <1>4, <1>5, <1>6
<1>8. PICK from \in Nat, to \in 1..Len(ev) :
           /\ from = (i - 1) * PageSize /\ from < to
           /\ i # PageCount(ev) => to = i * PageSize
           /\ i = PageCount(ev) => to = Len(ev)
           /\ ToSet(Page(ev, i)) = {ev[m] : m \in (from + 1)..to}
  BY <1>2, <1>7, PageFacts
<1>9. k \in (from + 1)..to
  BY <1>1, <1>3, <1>5, <1>8
<1> QED
  BY <1>3, <1>5, <1>7, <1>8, <1>9

LEMMA PageCountTyped ==
  ASSUME NEW ev \in Seq(Event)
  PROVE  PageCount(ev) \in Nat \ {0}
<1>1. CASE ev = <<>>
  BY <1>1 DEF PageCount
<1>2. CASE ev # <<>>
  <2>1. Len(ev) \in Nat \ {0} /\ PageSize \in Nat \ {0}
    BY <1>2, EmptySeq, LenProperties, ObservationAssumption
  <2> QED
    BY <1>2, <2>1, LastPage DEF PageCount
<1> QED
  BY <1>1, <1>2

LEMMA EmptyPage == ~HasChanges(Page(<<>>, 1))
<1>1. PageSize \in Nat \ {0}
  BY ObservationAssumption
<1>2. (1 - 1) * PageSize + 1 = 1 /\ 1 * PageSize = PageSize /\ ~ (PageSize < 0)
  BY <1>1
<1>3. Len(<<>>) = 0 /\ SubSeq(<<>>, 1, 0) = <<>> /\ DOMAIN <<>> = {}
  OBVIOUS
<1>4. Page(<<>>, 1) = <<>>
  BY <1>2, <1>3 DEF Page
<1>5. ToSet(<<>>) = {}
  BY <1>3 DEF ToSet
<1> QED
  BY <1>4, <1>5 DEF HasChanges, ToldBy, SeenBy

\* The page to show is the first with a change.
LEMMA FirstChangeFacts ==
  ASSUME NEW ev \in Seq(Event)
  PROVE  \/ FirstChange(ev) = 0 /\ \A i \in 1..PageCount(ev) : ~HasChanges(Page(ev, i))
         \/ /\ FirstChange(ev) \in 1..PageCount(ev) /\ ev # <<>>
            /\ \A i \in 1..PageCount(ev) : i < FirstChange(ev) => ~HasChanges(Page(ev, i))
<1> DEFINE telling == {i \in 1..PageCount(ev) : HasChanges(Page(ev, i))}
<1>1. PageCount(ev) \in Nat
  BY PageCountTyped
<1>2. CASE telling = {}
  BY <1>2 DEF FirstChange
<1>3. CASE telling # {}
  <2>1. telling \in SUBSET Nat
    BY <1>1
  <2>2. FirstChange(ev) = CHOOSE i \in telling : \A j \in telling : i <= j
    BY <1>3 DEF FirstChange
  <2>3. FirstChange(ev) \in telling /\ \A j \in telling : FirstChange(ev) <= j
    <3> HIDE DEF telling
    <3> QED
      BY <1>3, <2>1, <2>2, Least
  <2>4. ev # <<>>
    <3> SUFFICES ASSUME ev = <<>> PROVE FALSE
      OBVIOUS
    <3>1. PageCount(ev) = 1
      BY DEF PageCount
    <3>2. FirstChange(ev) = 1
      BY <2>3, <3>1
    <3>3. HasChanges(Page(ev, 1))
      BY <2>3, <3>2
    <3> QED
      BY <3>3, EmptyPage
  <2>5. ASSUME NEW i \in 1..PageCount(ev), i < FirstChange(ev) PROVE ~HasChanges(Page(ev, i))
    <3>1. i \in Nat /\ FirstChange(ev) \in Nat /\ ~ (FirstChange(ev) <= i)
      BY <1>1, <2>1, <2>3, <2>5
    <3> QED
      BY <2>3, <3>1
  <2> QED
    BY <2>3, <2>4, <2>5
<1> QED
  BY <1>2, <1>3

LEMMA SeenTyped ==
  ASSUME NEW page \in Seq(Event)
  PROVE  SeenBy(page) \in SUBSET (1..MaxEvents)
<1>1. \A e \in ToSet(page) : e \in Event
  <2>1. DOMAIN page = 1..Len(page) /\ \A i \in 1..Len(page) : page[i] \in Event
    BY LenProperties, ElementOfSeq
  <2> QED
    BY <2>1 DEF ToSet
<1> QED
  BY <1>1 DEF SeenBy, Event

\* What a call answers is an entry.
LEMMA ObservedTyped ==
  ASSUME version \in Cards, NEW a \in Called
  PROVE  Observed(a, FirstChange(a.events)) \in Entry
<1>0. a.events \in Seq(Event) /\ a.head \in 0..MaxEvents
  BY DEF Called
<1>1. PICK ev \in Seq(Event) : ev = a.events
  BY <1>0
<1>2. PICK i : i = FirstChange(ev)
  OBVIOUS
<1>3. Snapshot(a.head) \in Entry /\ Reconciliation(a.head) \in Entry /\ Nothing(a.head) \in Entry
  BY <1>0 DEF Snapshot, Reconciliation, Nothing, Entry
<1>4. ASSUME i # 0 PROVE Update(ev, i, a.head) \in Entry
  <2>1. i \in 1..PageCount(ev) /\ ev # <<>>
    BY <1>2, <1>4, FirstChangeFacts
  <2>2. PICK to \in 1..Len(ev) : Page(ev, i) \in Seq(Event) /\ LastCursor(Page(ev, i)) = ev[to].cursor
    BY <2>1, PageFacts
  <2>3. ev[to] \in Event
    BY ElementOfSeq
  <2>4. PageCursor(ev, i, a.head) \in 0..MaxEvents
    BY <1>0, <2>2, <2>3, JournalAssumption DEF PageCursor, Event
  <2>5. SeenBy(Page(ev, i)) \in SUBSET (1..MaxEvents) /\ ToldBy(Page(ev, i)) \in SUBSET Tasks
    BY <2>2, SeenTyped DEF ToldBy
  <2> QED
    BY <2>4, <2>5 DEF Update, Entry
<1> QED
  BY <1>1, <1>2, <1>3, <1>4 DEF Observed

\* What a call answers tells every Worker event between the cursor of its base
\* and its own.
LEMMA ObservedTells ==
  ASSUME JournalInv, NEW a \in Called, ~a.snapshot,
         a.base.cursor <= a.head, a.head <= Len(Image),
         a.events = SubSeq(Image, a.base.cursor + 1, a.head)
  PROVE  LET r == Observed(a, FirstChange(a.events)) IN
         r.through <= a.head /\ Telling(a.base, r)
<1>1. PICK image \in Seq(Event) : image = Image /\ \A k \in 1..Len(image) : image[k].cursor = k
  BY ImageFacts
<1>2. PICK from \in Nat, head \in Nat :
        from = a.base.cursor /\ head = a.head /\ from <= head /\ head <= Len(image)
  BY <1>1, JournalAssumption DEF Called, Bases
<1>3. PICK ev \in Seq(Event) :
        ev = a.events /\ Len(ev) = head - from /\ \A k \in 1..(head - from) : ev[k] = image[from + k]
  <2>1. /\ SubSeq(image, from + 1, head) \in Seq(Event) /\ Len(SubSeq(image, from + 1, head)) = head - from
        /\ \A k \in 1..(head - from) : SubSeq(image, from + 1, head)[k] = image[from + k]
    <3>1. from <= head /\ head <= Len(image)
      BY <1>2
    <3> QED
      BY <3>1, PartFacts
  <2>2. a.events = SubSeq(image, from + 1, head)
    BY <1>1, <1>2
  <2> QED
    BY <2>1, <2>2, Zenon
<1>4. PICK i : i = FirstChange(ev)
  OBVIOUS
<1>5. PICK r : r = Observed(a, i)
  OBVIOUS
<1>6. ASSUME NEW k \in 1..(head - from), NEW j \in 1..PageCount(ev), ev[k] \in ToSet(Page(ev, j)),
             ev[k].fact = WorkerFact
      PROVE  ev[k].id \in SeenBy(Page(ev, j)) /\ HasChanges(Page(ev, j))
  BY <1>6 DEF SeenBy, HasChanges
<1>7. CASE i = 0
  <2>0. \A j \in 1..PageCount(ev) : ~HasChanges(Page(ev, j))
    <3>1. FirstChange(ev) \notin 1..PageCount(ev)
      BY <1>4, <1>7, PageCountTyped
    <3> QED
      BY <3>1, FirstChangeFacts
  <2>1. r = Reconciliation(a.head) \/ r = Nothing(a.head)
    BY <1>5, <1>7 DEF Observed
  <2>2. r.through = head
    BY <1>2, <2>1 DEF Reconciliation, Nothing
  <2>3. ASSUME NEW m \in 1..Len(image), image[m].fact = WorkerFact, from < m, m <= head PROVE FALSE
    <3>1. PICK k \in 1..(head - from) : m = from + k
      <4>1. m - from \in 1..(head - from) /\ m = from + (m - from)
        BY <2>3
      <4> QED
        BY <4>1
    <3>2. PICK j \in 1..PageCount(ev) : ev[k] \in ToSet(Page(ev, j))
      BY <1>3, OnSomePage
    <3>3. HasChanges(Page(ev, j))
      BY <1>3, <1>6, <2>3, <3>1, <3>2
    <3> QED
      BY <2>0, <3>3
  <2>4. Telling(a.base, r)
    BY <1>1, <1>2, <2>2, <2>3 DEF Telling
  <2> QED
    BY <1>2, <1>3, <1>4, <1>5, <2>2, <2>4
<1>8. CASE i # 0
  <2>1. /\ i \in 1..PageCount(ev) /\ ev # <<>>
        /\ \A j \in 1..PageCount(ev) : j < i => ~HasChanges(Page(ev, j))
    BY <1>4, <1>8, FirstChangeFacts
  <2>2. r = Update(ev, i, head)
    BY <1>2, <1>3, <1>5, <1>8 DEF Observed
  <2>3. PICK low \in Nat, to \in 1..Len(ev) :
           /\ low = (i - 1) * PageSize /\ low < to
           /\ i # PageCount(ev) => to = i * PageSize
           /\ i = PageCount(ev) => to = Len(ev)
           /\ ToSet(Page(ev, i)) = {ev[k] : k \in (low + 1)..to}
           /\ LastCursor(Page(ev, i)) = ev[to].cursor
    BY <2>1, PageFacts
  <2>4. r.through = from + to
    <3>1. CASE i = PageCount(ev)
      BY <1>2, <1>3, <2>2, <2>3, <3>1, SMTT(60) DEF Update, PageCursor
    <3>2. CASE i # PageCount(ev)
      <4>1. r.through = ev[to].cursor
        BY <2>2, <2>3, <3>2 DEF Update, PageCursor
      <4>2. to \in 1..(head - from) /\ ev[to] = image[from + to] /\ from + to \in 1..Len(image)
        <5>1. to \in 1..(head - from)
          BY <1>3
        <5>2. ev[to] = image[from + to]
          BY <1>3, <5>1
        <5>3. from + to \in 1..Len(image)
          <6>0. head <= Len(image)
            BY <1>2
          <6>1. from + to \in Nat /\ from + to # 0 /\ from + to <= head
            BY <5>1
          <6>2. Len(image) \in Nat
            BY LenProperties
          <6> QED
            BY <6>0, <6>1, <6>2
        <5> QED
          BY <5>1, <5>2, <5>3
      <4> QED
        BY <1>1, <4>1, <4>2
    <3> QED
      BY <3>1, <3>2
  <2>5. ASSUME NEW m \in 1..Len(image), image[m].fact = WorkerFact, from < m, m <= from + to
        PROVE  image[m].id \in r.seen
    <3>1. PICK k \in 1..to : m = from + k
      <4>1. m - from \in 1..to /\ m = from + (m - from)
        BY <2>5
      <4> QED
        BY <4>1
    <3>2. k \in 1..(head - from) /\ ev[k] = image[m] /\ k \in 1..Len(ev)
      <4>1. Len(ev) = head - from
        BY <1>3
      <4>2. k \in 1..(head - from) /\ k \in 1..Len(ev)
        BY <4>1
      <4>3. ev[k] = image[from + k]
        BY <1>3, <4>2
      <4> QED
        BY <3>1, <4>2, <4>3
    <3>3. CASE k \in (low + 1)..to
      <4>1. ev[k] \in ToSet(Page(ev, i))
        BY <2>3, <3>3
      <4>2. ev[k].id \in SeenBy(Page(ev, i))
        BY <1>6, <2>1, <2>5, <3>2, <4>1
      <4> QED
        BY <2>2, <3>2, <4>2 DEF Update
    <3>4. CASE k <= low
      <4>1. PICK j \in 1..PageCount(ev) :
              (j - 1) * PageSize < k /\ k <= j * PageSize /\ ev[k] \in ToSet(Page(ev, j))
        BY <3>2, OnSomePage
      <4>2. j < i
        <5> SUFFICES ASSUME ~ (j < i) PROVE FALSE
          OBVIOUS
        <5>1. PageSize \in Nat \ {0} /\ PageCount(ev) \in Nat
          BY ObservationAssumption, PageCountTyped
        <5>2. PICK d \in Nat : j - 1 = (i - 1) + d
          <6>1. j - i \in Nat /\ j - 1 = (i - 1) + (j - i)
            BY <2>1, <5>1
          <6> QED
            BY <6>1
        <5>3. (j - 1) * PageSize = (i - 1) * PageSize + d * PageSize /\ d * PageSize \in Nat
          BY <2>1, <5>1, <5>2
        <5>4. PICK x \in Nat : x = d * PageSize /\ (j - 1) * PageSize = low + x
          BY <2>3, <5>3
        <5> QED
          BY <3>4, <4>1, <5>4
      <4>3. HasChanges(Page(ev, j))
        BY <1>6, <2>5, <3>2, <4>1
      <4> QED
        BY <2>1, <4>2, <4>3
    <3> QED
      BY <2>3, <3>3, <3>4
  <2>6. Telling(a.base, r)
    BY <1>1, <1>2, <2>4, <2>5 DEF Telling
  <2>7. r.through <= head
    BY <1>2, <1>3, <2>4
  <2> QED
    BY <1>2, <1>3, <1>4, <1>5, <2>6, <2>7
<1> QED
  BY <1>7, <1>8

\* The events of a commit are some, and each says what the journal can hold.
LEMMA FactsTyped ==
  ASSUME NEW T \in SUBSET Tasks, T # {}, NEW by \in {"lead", "worker"}, NEW v \in Cards,
         \A t \in T : v[t] # 0
  PROVE  FactsOf(T, by, v) \in Seq(TaskFacts) \ {<<>>}
<1>1. IsFiniteSet(T)
  BY ObservationAssumption, FS_Subset
<1>2. PICK n \in Nat \ {0} : n = Cardinality(T)
  <2>1. Cardinality(T) \in Nat /\ Cardinality(T) # 0
    BY <1>1, FS_CardinalityType, FS_EmptySet
  <2> QED
    BY <2>1
<1>3. SetToSeq(T) \in [1..n -> T]
  <2>1. ExistsBijection(1..n, T)
    BY <1>1, <1>2, FS_NatBijection, FS_CountingElements
  <2>2. \E f \in [1..n -> T] : IsInjective(f)
    BY <2>1 DEF ExistsBijection, Bijection, Injection
  <2> QED
    BY <1>2, <2>2 DEF SetToSeq
<1>4. PICK g \in [1..n -> T] : g = SetToSeq(T)
  BY <1>3
<1>5. FactsOf(T, by, v) = [i \in 1..n |-> [task |-> g[i], version |-> v[g[i]], actor |-> by]]
  BY <1>2, <1>4 DEF FactsOf
<1>6. ASSUME NEW i \in 1..n PROVE [task |-> g[i], version |-> v[g[i]], actor |-> by] \in TaskFacts
  <2>1. g[i] \in T /\ g[i] \in Tasks /\ v[g[i]] \in 0..MaxCommits /\ v[g[i]] # 0
    BY DEF Cards
  <2>2. v[g[i]] \in 1..MaxCommits
    BY <2>1, ObservationAssumption
  <2> QED
    BY <2>1, <2>2 DEF TaskFacts
<1>7. FactsOf(T, by, v) \in [1..n -> TaskFacts]
  BY <1>5, <1>6
<1> QED
  BY <1>7

-----------------------------------------------------------------------------
(* What the steps make of the journal.                                     *)

\* What was in the journal and still is, is the same.
SameImage == \A i \in 1..Len(Image) : i <= Len(Image') => Image'[i] = Image[i]

\* Whatever its publisher says, an append begins without a change of the image.
LEMMA Begins ==
  ASSUME JournalInv, NEW facts \in Seq(ObservedFacts), Begin(facts)
  PROVE  JournalInv' /\ TailIsNext' /\ Image' = Image /\ [JournalNext]_journal
<1>1. PICK n \in 1..MaxEvents : facts \in [1..n -> Facts]
  <2>1. facts # <<>> /\ offered + Len(facts) <= MaxEvents /\ offered \in Nat
    BY JournalAssumption DEF Begin, JournalInv, JournalTypeOK
  <2>2. Len(facts) \in Nat \ {0} /\ facts \in [1..Len(facts) -> ObservedFacts]
    BY <2>1, LenProperties, EmptySeq
  <2>3. Len(facts) \in 1..MaxEvents
    BY <2>1, <2>2, JournalAssumption
  <2>4. facts \in [1..Len(facts) -> Facts]
    BY <2>2, ObservationAssumption
  <2> QED
    BY <2>3, <2>4
<1>2. JournalInv'
  BY <1>1, BeginInv
<1>3. lines' = Image /\ tail' = Clean /\ append'.step = "write"
  BY DEF Begin
<1>4. Image' = Image
  BY <1>3 DEF Image, Clean
<1>5. TailIsNext'
  BY <1>3 DEF TailIsNext, Clean
<1> QED
  BY <1>1, <1>2, <1>4, <1>5 DEF JournalNext

\* A fault elsewhere, or nothing at all.
LEMMA JournalRests ==
  ASSUME JournalInv, TailIsNext, UNCHANGED <<lines, tail, append, promised, offered>>,
         faults' = faults \/ Fault
  PROVE  JournalInv' /\ TailIsNext' /\ Image' = Image
<1>1. faults' \in 0..MaxFaults
  BY JournalAssumption DEF JournalInv, JournalTypeOK, Fault
<1>2. Image' = Image
  BY DEF Image
<1>3. JournalInv'
  BY <1>1, <1>2 DEF JournalInv, JournalTypeOK, CursorsArePlaces, AppendsOnly
<1>4. TailIsNext'
  BY DEF TailIsNext, Written
<1> QED
  BY <1>2, <1>3, <1>4

LEMMA NextImage ==
  ASSUME JournalInv'
  PROVE  /\ Image' \in Seq(Event) /\ Len(Image') \in Nat
         /\ \A i \in 1..Len(lines') : i <= Len(Image') /\ Image'[i] = lines'[i]
<1>1. lines' \in Seq(Event) /\ tail' \in Tails
  BY DEF JournalInv, JournalTypeOK
<1>2. PICK file \in Seq(Event) : file = lines'
  BY <1>1
<1>3. Image' = file \/ \E e \in Event : Image' = Append(file, e)
  <2>1. tail'.kind = "bare" => tail'.event \in Event
    BY <1>1 DEF Tails, Clean, Torn, Bare
  <2> QED
    BY <1>2, <2>1 DEF Image
<1>4. ASSUME NEW e \in Event, NEW i \in 1..Len(file)
      PROVE  i <= Len(Append(file, e)) /\ Append(file, e)[i] = file[i]
  BY AppendProperties, LenProperties
<1>5. \A i \in 1..Len(file) : i <= Len(file)
  BY LenProperties
<1>6. Image' \in Seq(Event)
  BY <1>3, AppendProperties
<1>7. Len(Image') \in Nat
  BY <1>6, LenProperties
<1> QED
  BY <1>2, <1>3, <1>4, <1>5, <1>6, <1>7

\* A write leaves the image, and ends the line that somebody may have read.
LEMMA WriteGoesOn ==
  ASSUME JournalInv, TailIsNext, Write
  PROVE  TailIsNext' /\ SameImage
<1>0. JournalInv' /\ Len(lines) <= Len(lines') /\ \A i \in 1..Len(lines) : lines'[i] = lines[i]
  BY WriteInv
<1>1. append.step = "write"
  BY DEF Write
<1>2. PICK n \in Written..Len(append.batch) :
        /\ tail.kind = "bare" => n > Written
        /\ lines' = lines \o SubSeq(append.batch, Written + 1, n)
        /\ \/ n = Len(append.batch) /\ tail' = Clean /\ append' = [append EXCEPT !.step = "sync"]
           \/ /\ n < Len(append.batch) /\ tail' \in {Torn, Bare(append.batch[n + 1])}
              /\ append' = append
  BY DEF Write
<1>3. /\ lines \in Seq(Event) /\ append.batch \in Seq(Event) /\ append.start \in Nat
      /\ append.start <= Len(lines) /\ Len(lines) <= append.start + Len(append.batch)
      /\ append \in [step: {"idle", "write", "sync", "rollback"}, batch: Seq(Event), start: Nat]
  BY <1>1 DEF JournalInv, JournalTypeOK, AppendsOnly
<1>4. PICK w \in Nat : w = Written /\ Len(lines) = append.start + w
  <2>1. Len(lines) - append.start \in Nat
    BY <1>3
  <2>2. Written \in Nat /\ Len(lines) = append.start + Written
    BY <1>3, <2>1 DEF Written
  <2> QED
    BY <2>2, Zenon
<1>5. n \in Nat /\ w <= n /\ n <= Len(append.batch)
  BY <1>2, <1>3, <1>4
<1>6. Len(lines') = append.start + n
  BY <1>1, <1>2, WriteFacts
<1>7. TailIsNext'
  <2>1. CASE n = Len(append.batch) /\ tail' = Clean /\ append' = [append EXCEPT !.step = "sync"]
    <3>1. append'.step = "sync"
      BY <1>3, <2>1
    <3> QED
      BY <2>1, <3>1 DEF TailIsNext
  <2>2. CASE n < Len(append.batch) /\ tail' \in {Torn, Bare(append.batch[n + 1])} /\ append' = append
    <3>1. Written' = n
      BY <1>3, <1>5, <1>6, <2>2 DEF Written
    <3>2. tail'.kind = "bare" => tail'.event = append.batch[n + 1]
      BY <2>2 DEF Torn, Bare
    <3> QED
      BY <1>1, <2>2, <3>1, <3>2 DEF TailIsNext
  <2> QED
    BY <1>2, <2>1, <2>2
<1>8. \A i \in 1..Len(lines') : i <= Len(Image') /\ Image'[i] = lines'[i]
  BY <1>0, NextImage
<1>9. CASE tail.kind # "bare"
  <2>1. Image = lines
    BY <1>9 DEF Image
  <2>2. \A i \in 1..Len(lines) : i \in 1..Len(lines')
    BY <1>0, <1>3, <1>5, <1>6
  <2>3. \A i \in 1..Len(lines) : Image'[i] = lines[i]
    BY <1>0, <1>8, <2>2
  <2> QED
    BY <1>7, <2>1, <2>3 DEF SameImage
<1>10. CASE tail.kind = "bare"
  <2>1. w < n /\ w + 1 \in 1..Len(append.batch) /\ tail.event = append.batch[w + 1]
    BY <1>1, <1>2, <1>4, <1>5, <1>10 DEF TailIsNext
  <2>2. PICK part \in Seq(Event) :
        /\ part = SubSeq(append.batch, w + 1, n) /\ Len(part) = n - w
        /\ \A i \in 1..(n - w) : part[i] = append.batch[w + i]
    <3>1. /\ SubSeq(append.batch, w + 1, n) \in Seq(Event) /\ Len(SubSeq(append.batch, w + 1, n)) = n - w
          /\ \A i \in 1..(n - w) : SubSeq(append.batch, w + 1, n)[i] = append.batch[w + i]
      BY <1>3, <1>5, PartFacts
    <3> QED
      BY <3>1, Zenon
  <2>3. 1 \in 1..(n - w) /\ n - w \in Nat
    BY <1>5, <2>1
  <2>4. (lines \o part)[Len(lines) + 1] = part[1]
    BY <1>3, <2>2, <2>3, ConcatFacts, SMTT(60)
  <2>5. lines'[Len(lines) + 1] = tail.event
    BY <1>2, <1>4, <2>1, <2>2, <2>3, <2>4
  <2>6. Image = Append(lines, tail.event)
    BY <1>10 DEF Image
  <2>7. tail.event \in Event
    BY <1>3, <2>1
  <2>8. /\ Len(Image) = Len(lines) + 1 /\ Image[Len(lines) + 1] = tail.event
        /\ \A i \in 1..Len(lines) : Image[i] = lines[i]
    BY <1>3, <2>6, <2>7, AppendProperties
  <2>9. Len(lines) + 1 <= Len(lines') /\ Len(lines) \in Nat /\ Len(lines') \in Nat
    BY <1>3, <1>4, <1>5, <1>6, <2>1
  <2>10. ASSUME NEW i \in 1..Len(Image) PROVE Image'[i] = Image[i]
    <3>1. i \in 1..Len(lines) \/ i = Len(lines) + 1
      BY <2>8, <2>9
    <3>2. i \in 1..Len(lines')
      BY <2>8, <2>9
    <3>3. i \in 1..Len(lines) => lines'[i] = Image[i]
      BY <1>0, <2>8
    <3> QED
      BY <1>8, <2>5, <2>8, <3>1, <3>2, <3>3
  <2> QED
    BY <1>7, <2>10 DEF SameImage
<1> QED
  BY <1>9, <1>10

\* Only a rollback takes something out of the image, and it changes nothing of the rest.
LEMMA JournalWorks ==
  ASSUME JournalInv, TailIsNext, AppendStep \/ SyncFails \/ AppendFails
  PROVE  JournalInv' /\ TailIsNext' /\ SameImage /\ [JournalNext]_journal
<1>0. [JournalNext]_journal
  BY DEF JournalNext
<1>1. CASE Write
  BY <1>0, <1>1, WriteInv, WriteGoesOn
<1>2. CASE Sync \/ SyncFails \/ AppendFails
  <2>1. JournalInv'
    BY <1>2, EndInv
  <2>2. lines' = lines /\ tail' = tail
    BY <1>2 DEF Sync, SyncFails, AppendFails
  <2>3. Image' = Image
    BY <2>2 DEF Image
  <2>4. append \in [step: {"idle", "write", "sync", "rollback"}, batch: Seq(Event), start: Nat]
    BY DEF JournalInv, JournalTypeOK
  <2>5. append'.step = "idle" \/ (append.step = "sync" /\ append'.step = "rollback")
    BY <1>2, <2>4 DEF Sync, SyncFails, AppendFails, Idle
  <2>6. TailIsNext'
    BY <2>2, <2>5 DEF TailIsNext
  <2> QED
    BY <1>0, <2>1, <2>3, <2>6 DEF SameImage
<1>3. CASE Rollback
  <2>1. JournalInv' /\ Len(lines') <= Len(lines) /\ \A i \in 1..Len(lines') : lines'[i] = lines[i]
    BY <1>3, RollbackInv
  <2>2. append'.step = "idle" /\ tail = Clean
    BY <1>3 DEF Rollback, Idle, TailIsNext
  <2>3. TailIsNext'
    BY <2>2 DEF TailIsNext
  <2>4. tail' = Clean
    BY <1>3, <2>2 DEF Rollback
  <2>5. Image = lines /\ Image' = lines'
    BY <2>2, <2>4 DEF Image, Clean
  <2> QED
    BY <1>0, <2>1, <2>3, <2>5 DEF SameImage
<1> QED
  BY <1>1, <1>2, <1>3 DEF AppendStep

-----------------------------------------------------------------------------
(* What stays true when the journal or the branch moves.                   *)

LEMMA HonestKeeps ==
  ASSUME JournalInv, JournalInv', SameImage, NEW b \in Bases, b.cursor <= Len(Image), Honest(b)
  PROVE  Honest(b)'
<1>1. Len(Image) \in Nat /\ Len(Image') \in Nat /\ b.cursor \in Nat
  BY ImageFacts, NextImage, LenProperties, JournalAssumption DEF Bases
<1>2. ASSUME NEW i \in 1..Len(Image'), i <= b.cursor PROVE i \in 1..Len(Image) /\ Image'[i] = Image[i]
  <2>1. i \in 1..Len(Image) /\ i <= Len(Image')
    BY <1>1, <1>2
  <2> QED
    BY <2>1 DEF SameImage
<1> QED
  BY <1>2 DEF Honest, IsRead

\* A call stays faithful while what it read stays, and the entries it was made from.
LEMMA CallKeeps ==
  ASSUME JournalInv, JournalInv', SameImage, NEW a \in Called, CallIsFaithful(a),
         a.stage # "idle" => a.head <= Len(Image'),
         a.stage # "idle" /\ a.same =>
           a.at <= Len(branch') /\ BaseOf(branch', a.at) = BaseOf(branch, a.at)
  PROVE  CallIsFaithful(a)'
<1>0. PICK image \in Seq(Event), later \in Seq(Event) : image = Image /\ later = Image'
  BY ImageFacts, NextImage
<1>1. Len(image) \in Nat /\ Len(later) \in Nat /\ a.head \in Nat /\ a.base.cursor \in Nat
      /\ a.result.through \in Nat
  BY LenProperties, JournalAssumption DEF Called, Bases, Entry
<1>2. \A i \in 1..Len(image) : i <= Len(later) => later[i] = image[i]
  BY <1>0 DEF SameImage
<1>3. a.stage = "read" /\ ~a.snapshot =>
        a.base.cursor <= a.head /\ a.events = SubSeq(Image', a.base.cursor + 1, a.head)
  <2> SUFFICES ASSUME a.stage = "read", ~a.snapshot
               PROVE  a.base.cursor <= a.head /\ a.events = SubSeq(Image', a.base.cursor + 1, a.head)
    OBVIOUS
  <2>1. PICK from \in Nat, head \in Nat : from = a.base.cursor /\ head = a.head
    BY <1>1
  <2>2. from <= head /\ head <= Len(image) /\ head <= Len(later) /\ a.events = SubSeq(image, from + 1, head)
    BY <1>0, <2>1 DEF CallIsFaithful
  <2>3. PICK x \in Seq(Event) : x = SubSeq(image, from + 1, head) /\ Len(x) = head - from
                               /\ \A i \in 1..(head - from) : x[i] = image[from + i]
    <3>1. /\ SubSeq(image, from + 1, head) \in Seq(Event) /\ Len(SubSeq(image, from + 1, head)) = head - from
          /\ \A i \in 1..(head - from) : SubSeq(image, from + 1, head)[i] = image[from + i]
      BY <2>2, PartFacts
    <3> QED
      BY <3>1, Zenon
  <2>4. PICK y \in Seq(Event) : y = SubSeq(later, from + 1, head) /\ Len(y) = head - from
                               /\ \A i \in 1..(head - from) : y[i] = later[from + i]
    <3>1. /\ SubSeq(later, from + 1, head) \in Seq(Event) /\ Len(SubSeq(later, from + 1, head)) = head - from
          /\ \A i \in 1..(head - from) : SubSeq(later, from + 1, head)[i] = later[from + i]
      BY <2>2, PartFacts
    <3> QED
      BY <3>1, Zenon
  <2>5. ASSUME NEW i \in 1..(head - from) PROVE x[i] = y[i]
    <3>1. from + i \in 1..Len(image) /\ from + i <= Len(later)
      BY <1>1, <2>2, SMTT(60)
    <3> QED
      BY <1>2, <2>3, <2>4, <3>1
  <2>6. x = y
    BY <2>2, <2>3, <2>4, <2>5, SeqEqual
  <2> QED
    BY <1>0, <2>1, <2>2, <2>3, <2>4, <2>6
<1>4. a.stage \in {"result", "returned", "dropped"} =>
        a.result.through <= a.head /\ Telling(a.base, a.result)'
  <2> SUFFICES ASSUME a.stage \in {"result", "returned", "dropped"}
               PROVE  a.result.through <= a.head /\ Telling(a.base, a.result)'
    OBVIOUS
  <2>1. a.result.through <= a.head /\ Telling(a.base, a.result) /\ a.head <= Len(image)
        /\ a.head <= Len(later)
    BY <1>0 DEF CallIsFaithful
  <2>2. ASSUME NEW i \in 1..Len(later), i <= a.result.through
        PROVE  i \in 1..Len(image) /\ later[i] = image[i]
    <3>1. i \in 1..Len(image) /\ i <= Len(later)
      BY <1>1, <2>1, <2>2
    <3> QED
      BY <1>2, <3>1
  <2>3. Telling(a.base, a.result)'
    BY <1>0, <2>1, <2>2 DEF Telling
  <2> QED
    BY <2>1, <2>3
<1> QED
  BY <1>3, <1>4 DEF CallIsFaithful, Base

LEMMA IdleIsFaithful == CallIsFaithful(NoCall) /\ CallIsFaithful(NoCall)'
BY DEF CallIsFaithful, NoCall

LEMMA NoCallTyped == NoCall \in Called
<1>1. [t \in Tasks |-> 0] \in Cards
  BY ObservationAssumption DEF Cards
<1>2. NoEntry \in Entry
  BY <1>1, JournalAssumption DEF NoEntry, Entry
<1>3. <<>> \in Seq(Event)
  OBVIOUS
<1> QED
  BY <1>2, <1>3, NoBaseTyped, JournalAssumption DEF NoCall, Called, Stages

LEMMA FaithfulRests ==
  ASSUME Faithful, Image' = Image, branch' = branch, call' = call
  PROVE  Faithful'
BY DEF Faithful, BranchIsFaithful, CallIsFaithful, Honest, IsRead, Telling, Base

\* One call goes on.
LEMMA FaithfulGoesOn ==
  ASSUME Faithful, Image' = Image, branch' = branch, call \in [Calls -> Called],
         NEW c \in Calls, NEW a, call' = [call EXCEPT ![c] = a], CallIsFaithful(a)
  PROVE  Faithful'
<1>1. BranchIsFaithful'
  BY DEF Faithful, BranchIsFaithful, Honest, IsRead, Base
<1>2. ASSUME NEW d \in Calls PROVE CallIsFaithful(call[d])'
  <2>1. PICK x : x = call'[d]
    OBVIOUS
  <2>2. x = a \/ x = call[d]
    BY <2>1
  <2>3. CallIsFaithful(x)
    BY <2>2 DEF Faithful
  <2>4. CallIsFaithful(x)'
    BY <2>3 DEF CallIsFaithful, Telling, Base
  <2> QED
    BY <2>1, <2>4 DEF CallIsFaithful
<1> QED
  BY <1>1, <1>2 DEF Faithful

-----------------------------------------------------------------------------
(* The steps of a call.                                                    *)

Conducted(k) == "step" \in DOMAIN k /\ k.step \in Steps

\* One call goes on, and into what is faithful.
Goes(c) ==
  /\ \E a \in Called : call' = [call EXCEPT ![c] = a] /\ (Faithful => CallIsFaithful(a))
  /\ held' \in Calls \cup {None}
  /\ Conducted(conductor')

LEMMA Ends ==
  ASSUME Typed, NEW c \in Calls, End(c), Conducted(conductor')
  PROVE  Goes(c)
<1>1. call' = [call EXCEPT ![c] = NoCall] /\ held' \in Calls \cup {None}
  BY DEF End, Release, Typed
<1> QED
  BY <1>1, NoCallTyped, IdleIsFaithful DEF Goes

LEMMA EndedConducts ==
  ASSUME Typed, NEW c \in Calls
  PROVE  Conducted(conductor) /\ Conducted(Ended(c)) /\ Conducted(Published)
         /\ \A n : Conducted([Ended(c) EXCEPT !.failed = n])
<1>1. Conducted(conductor)
  BY DEF Typed, Conducted
<1>2. Conducted(Ended(c)) /\ Conducted(Published)
  BY <1>1 DEF Ended, Published, Conducted, Steps
<1>3. ASSUME NEW k, Conducted(k), NEW n PROVE Conducted([k EXCEPT !.failed = n])
  BY <1>3 DEF Conducted
<1> QED
  BY <1>1, <1>2, <1>3

LEMMA ReserveGoes ==
  ASSUME Typed, NEW c \in Calls, NEW auto \in BOOLEAN, NEW snapshot \in BOOLEAN,
         Reserve(c, auto, snapshot), Conducted(conductor')
  PROVE  Goes(c)
<1>1. held' = c /\ branch \in Seq(Entry)
  BY DEF Reserve, Typed
<1>2. Len(branch) \in Nat
  BY <1>1, LenProperties
<1>3. PICK base \in Bases : base = Baseline(branch) /\ base = Base(Len(branch))
  <2>1. Len(branch) \in 0..Len(branch)
    BY <1>2
  <2>2. BaseOf(branch, Len(branch)) \in Bases /\ BaseOf(branch, Len(branch)) = Baseline(branch)
    BY <1>1, <2>1, BaseFacts, BaseSteps
  <2> QED
    BY <2>2 DEF Base
<1>4. PICK a : a = [NoCall EXCEPT !.stage = "bound", !.auto = auto,
                       !.snapshot = snapshot \/ ~base.bound, !.at = Len(branch), !.base = base]
  OBVIOUS
<1>5. call' = [call EXCEPT ![c] = a]
  BY <1>3, <1>4 DEF Reserve
<1>6. a = [stage |-> "bound", auto |-> auto, snapshot |-> snapshot \/ ~base.bound, at |-> Len(branch),
           same |-> TRUE, base |-> base, events |-> <<>>, head |-> 0, result |-> NoEntry]
  BY <1>4 DEF NoCall
<1>7. a \in Called
  <2>1. (snapshot \/ ~base.bound) \in BOOLEAN
    OBVIOUS
  <2>2. NoEntry \in Entry /\ <<>> \in Seq(Event) /\ 0 \in 0..MaxEvents
    BY NoCallTyped DEF NoCall, Called
  <2> QED
    BY <1>2, <1>6, <2>1, <2>2 DEF Called, Stages
<1>8. CallIsFaithful(a)
  <2>1. 0 <= Len(Image)
    BY ImageFacts, LenProperties DEF Typed
  <2> QED
    BY <1>2, <1>3, <1>6, <2>1 DEF CallIsFaithful
<1> QED
  BY <1>1, <1>5, <1>7, <1>8 DEF Goes

LEMMA TeamSyncGoes ==
  ASSUME Typed, NEW c \in Calls, TeamSync(c)
  PROVE  Goes(c)
<1>1. PICK snapshot \in BOOLEAN : Reserve(c, FALSE, snapshot)
  BY DEF TeamSync
<1>2. conductor' = conductor
  BY DEF TeamSync
<1> QED
  BY <1>1, <1>2, ReserveGoes, EndedConducts

LEMMA PresentGoes ==
  ASSUME Typed, NEW c \in Calls, Present(c)
  PROVE  Goes(c)
<1>1. Conducted(conductor)
  BY EndedConducts
<1>2. CASE UNCHANGED <<held, call>> /\ conductor' = [conductor EXCEPT !.step = "idle", !.debt = NoDebt]
  <2>1. Conducted(conductor')
    BY <1>1, <1>2 DEF Conducted, Steps
  <2>2. call[c] \in Called /\ call' = [call EXCEPT ![c] = call[c]]
    BY <1>2 DEF Typed
  <2>3. held' \in Calls \cup {None}
    BY <1>2 DEF Typed
  <2> QED
    BY <2>1, <2>2, <2>3 DEF Goes, Faithful
<1>3. CASE /\ Reserve(c, TRUE, ~Baseline(branch).bound)
           /\ conductor' = [conductor EXCEPT !.step = "sync", !.debt = NoDebt]
  <2>1. Conducted(conductor')
    BY <1>1, <1>3 DEF Conducted, Steps
  <2>2. PICK snapshot \in BOOLEAN : snapshot = ~Baseline(branch).bound
    OBVIOUS
  <2> QED
    BY <1>3, <2>1, <2>2, ReserveGoes
<1> QED
  BY <1>2, <1>3 DEF Present

LEMMA ReadEventsGoes ==
  ASSUME Typed, NEW c \in Calls, ReadEvents(c)
  PROVE  Goes(c)
<1>1. CASE End(c) /\ conductor' = [Ended(c) EXCEPT !.failed = IF call[c].auto THEN Len(branch) + 1 ELSE @]
  <2>1. Conducted(conductor')
    BY <1>1, EndedConducts
  <2> QED
    BY <1>1, <2>1, Ends
<1>2. CASE /\ ~ (~Readable \/ (~call[c].snapshot /\ call[c].base.cursor > LastCursor(Image)))
           /\ call' = [call EXCEPT ![c].stage = "read", ![c].head = LastCursor(Image),
                ![c].events = IF call[c].snapshot THEN <<>> ELSE Unseen(call[c].base)]
           /\ UNCHANGED <<held, conductor>>
  <2>1. PICK b \in Called : b = call[c] /\ b.stage = "bound" /\ call \in [Calls -> Called]
    BY DEF Typed, ReadEvents
  <2>2. PICK l \in 0..MaxEvents : l = LastCursor(Image) /\ l = Len(Image)
    <3>1. LastCursor(Image) = Len(Image) /\ Len(Image) <= offered /\ offered \in 0..MaxEvents
          /\ Len(Image) \in Nat
      BY ImageFacts, LenProperties DEF Typed
    <3> QED
      BY <3>1, JournalAssumption
  <2>3. b.base \in Bases /\ (~b.snapshot => b.base.cursor <= l)
    BY <1>2, <2>1, <2>2, JournalAssumption DEF Called, Bases
  <2>4. PICK ev \in Seq(Event) :
          /\ ev = (IF b.snapshot THEN <<>> ELSE Unseen(b.base))
          /\ ~b.snapshot => ev = SubSeq(Image, b.base.cursor + 1, l)
    <3>1. CASE b.snapshot
      <4>1. <<>> \in Seq(Event)
        OBVIOUS
      <4> QED
        BY <3>1, <4>1
    <3>2. CASE ~b.snapshot
      <4>1. Unseen(b.base) = SubSeq(Image, b.base.cursor + 1, l)
        BY <2>2, <2>3, <3>2, UnseenIs DEF Typed
      <4>2. b.base.cursor \in Nat /\ l \in Nat /\ b.base.cursor <= l /\ Image \in Seq(Event)
        BY <2>3, <3>2, ImageFacts, JournalAssumption DEF Bases, Typed
      <4>3. SubSeq(Image, b.base.cursor + 1, l) \in Seq(Event)
        BY <2>2, <4>2, PartFacts
      <4> QED
        BY <3>2, <4>1, <4>3
    <3> QED
      BY <3>1, <3>2
  <2>5. PICK a : a = [b EXCEPT !.stage = "read", !.head = l, !.events = ev]
    OBVIOUS
  <2>6. a \in Called
    BY <2>5 DEF Called, Stages
  <2>7. call' = [call EXCEPT ![c] = a]
    BY <1>2, <2>1, <2>2, <2>4, <2>5
  <2>8. /\ a.stage = "read" /\ a.head = l /\ a.events = ev /\ a.same = b.same /\ a.at = b.at
        /\ a.base = b.base /\ a.snapshot = b.snapshot
    BY <2>5 DEF Called
  <2>9. l <= Len(Image)
    BY <2>2
  <2>10. ASSUME Faithful PROVE CallIsFaithful(a)
    <3>1. CallIsFaithful(b)
      BY <2>1, <2>10 DEF Faithful
    <3> QED
      BY <2>1, <2>3, <2>4, <2>8, <2>9, <3>1 DEF CallIsFaithful
  <2>11. held' \in Calls \cup {None} /\ Conducted(conductor')
    BY <1>2, EndedConducts DEF Typed
  <2> QED
    BY <2>6, <2>7, <2>10, <2>11 DEF Goes
<1> QED
  BY <1>1, <1>2 DEF ReadEvents

LEMMA ReadTasksGoes ==
  ASSUME Typed, NEW c \in Calls, ReadTasks(c)
  PROVE  Goes(c)
<1>1. PICK b \in Called : b = call[c] /\ b.stage = "read" /\ call \in [Calls -> Called]
  BY DEF Typed, ReadTasks
<1>2. PICK i : i = FirstChange(b.events)
  OBVIOUS
<1>3. \/ End(c) /\ conductor' = Ended(c)
      \/ /\ call' = [call EXCEPT ![c].stage = "result", ![c].events = <<>>, ![c].result = Observed(b, i)]
         /\ UNCHANGED <<held, conductor>>
  BY <1>1, <1>2 DEF ReadTasks
<1>4. CASE End(c) /\ conductor' = Ended(c)
  BY <1>4, Ends, EndedConducts
<1>5. CASE /\ call' = [call EXCEPT ![c].stage = "result", ![c].events = <<>>, ![c].result = Observed(b, i)]
           /\ UNCHANGED <<held, conductor>>
  <2>1. PICK r \in Entry : r = Observed(b, i)
    BY <1>2, ObservedTyped DEF Typed
  <2>2. PICK a : a = [b EXCEPT !.stage = "result", !.events = <<>>, !.result = r]
    OBVIOUS
  <2>3. <<>> \in Seq(Event)
    OBVIOUS
  <2>4. a \in Called
    BY <2>2, <2>3 DEF Called, Stages
  <2>5. call' = [call EXCEPT ![c] = a]
    BY <1>1, <1>5, <2>1, <2>2
  <2>6. /\ a.stage = "result" /\ a.head = b.head /\ a.same = b.same /\ a.at = b.at
        /\ a.base = b.base /\ a.snapshot = b.snapshot /\ a.result = r
    BY <2>2 DEF Called
  <2>7. ASSUME Faithful PROVE CallIsFaithful(a)
    <3>1. CallIsFaithful(b)
      BY <1>1, <2>7 DEF Faithful
    <3>2. b.head <= Len(Image)
      BY <1>1, <3>1 DEF CallIsFaithful
    <3>3. r.through <= b.head /\ Telling(b.base, r)
      <4>1. CASE b.snapshot
        <5>1. r = Snapshot(b.head)
          BY <2>1, <4>1 DEF Observed
        <5>2. r.through = b.head /\ r.snapshot /\ b.head \in Nat
          BY <5>1, JournalAssumption DEF Snapshot, Called
        <5> QED
          BY <5>2 DEF Telling
      <4>2. CASE ~b.snapshot
        <5>1. b.base.cursor <= b.head /\ b.events = SubSeq(Image, b.base.cursor + 1, b.head)
          BY <1>1, <3>1, <4>2 DEF CallIsFaithful
        <5>2. JournalInv
          BY DEF Typed
        <5> QED
          BY <1>2, <2>1, <3>2, <4>2, <5>1, <5>2, ObservedTells
      <4> QED
        BY <4>1, <4>2
    <3> QED
      BY <1>1, <2>6, <3>1, <3>2, <3>3 DEF CallIsFaithful
  <2>8. held' \in Calls \cup {None} /\ Conducted(conductor')
    BY <1>5, EndedConducts DEF Typed
  <2> QED
    BY <2>4, <2>5, <2>7, <2>8 DEF Goes
<1> QED
  BY <1>3, <1>4, <1>5

\* A result stays what it is until it is in the branch.
LEMMA StageGoes ==
  ASSUME Typed, NEW c \in Calls, NEW stage \in {"returned", "dropped"},
         call[c].stage \in {"result", "returned"}, Faithful => call[c].same,
         call' = [call EXCEPT ![c].stage = stage], held' = held, Conducted(conductor')
  PROVE  Goes(c)
<1>1. PICK b \in Called : b = call[c] /\ call \in [Calls -> Called]
  BY DEF Typed
<1>2. PICK a : a = [b EXCEPT !.stage = stage]
  OBVIOUS
<1>3. a \in Called
  BY <1>2 DEF Called, Stages
<1>4. call' = [call EXCEPT ![c] = a]
  BY <1>1, <1>2
<1>5. /\ a.stage = stage /\ a.head = b.head /\ a.same = b.same /\ a.at = b.at
      /\ a.base = b.base /\ a.snapshot = b.snapshot /\ a.result = b.result
  BY <1>2 DEF Called
<1>6. ASSUME Faithful PROVE CallIsFaithful(a)
  <2>1. CallIsFaithful(b)
    BY <1>1, <1>6 DEF Faithful
  <2>2. b.same /\ b.stage # "idle" /\ b.stage \in {"result", "returned", "dropped"}
    BY <1>1, <1>6
  <2>3. b.head <= Len(Image) /\ b.at <= Len(branch) /\ b.base = Base(b.at)
        /\ b.result.through <= b.head /\ Telling(b.base, b.result)
    BY <2>1, <2>2 DEF CallIsFaithful
  <2>4. a.stage # "read"
    BY <1>5
  <2> QED
    BY <1>5, <2>2, <2>3, <2>4 DEF CallIsFaithful
<1> QED
  BY <1>3, <1>4, <1>6 DEF Goes, Typed

LEMMA FinishGoes ==
  ASSUME Typed, NEW c \in Calls, Finish(c)
  PROVE  Goes(c)
<1>1. CASE /\ Undisturbed(c) /\ call' = [call EXCEPT ![c].stage = "returned"] /\ UNCHANGED held
           /\ conductor' = IF call[c].auto THEN Published ELSE conductor
  <2>1. Conducted(conductor')
    BY <1>1, EndedConducts
  <2>2. call[c].same /\ call[c].stage = "result"
    BY <1>1 DEF Undisturbed, Finish
  <2> QED
    BY <1>1, <2>1, <2>2, StageGoes
<1>2. CASE End(c) /\ conductor' = Ended(c)
  BY <1>2, Ends, EndedConducts
<1> QED
  BY <1>1, <1>2 DEF Finish

LEMMA DropGoes ==
  ASSUME Typed, NEW c \in Calls, Drop(c)
  PROVE  Goes(c)
<1>1. call[c].stage = "returned" /\ call' = [call EXCEPT ![c].stage = "dropped"]
      /\ held' = held /\ conductor' = conductor
  BY DEF Drop
<1>2. Faithful => call[c].same
  BY <1>1 DEF Faithful, CallIsFaithful
<1> QED
  BY <1>1, <1>2, StageGoes, EndedConducts

LEMMA ExpireDroppedGoes ==
  ASSUME Typed, NEW c \in Calls, ExpireDropped(c)
  PROVE  Goes(c)
BY Ends, EndedConducts DEF ExpireDropped

-----------------------------------------------------------------------------
(* The steps of the branch.                                                *)

\* Who has read what an entry tells, from a base that is behind, has read up
\* to the entry.
LEMMA TakeIsHonest ==
  ASSUME JournalInv, NEW b \in Bases, NEW earlier \in Bases, NEW e \in Entry,
         Honest(b), earlier.cursor <= b.cursor, Telling(earlier, e)
  PROVE  Honest(Take(b, e))
<1>1. PICK r \in Bases : r = Take(b, e)
  BY TakeTyped
<1>2. CASE b.bound /\ e.through < b.cursor
  BY <1>2 DEF Take
<1>3. CASE ~ (b.bound /\ e.through < b.cursor)
  <2>1. /\ r.cursor = e.through /\ r.seen = b.seen \cup e.seen
        /\ r.covered = IF e.snapshot THEN e.through ELSE b.covered
    BY <1>1, <1>3 DEF Take
  <2>2. ASSUME NEW i \in 1..Len(Image), Image[i].fact = WorkerFact, i <= r.cursor PROVE IsRead(i, r)
    <3>1. CASE e.snapshot
      BY <2>1, <2>2, <3>1 DEF IsRead
    <3>2. CASE ~e.snapshot /\ earlier.cursor < i
      <4>1. Image[i].id \in e.seen
        BY <2>1, <2>2, <3>2 DEF Telling
      <4> QED
        BY <2>1, <4>1 DEF IsRead
    <3>3. CASE ~e.snapshot /\ ~ (earlier.cursor < i)
      <4>1. i \in Nat /\ earlier.cursor \in Nat /\ b.cursor \in Nat
        BY ImageFacts, LenProperties, JournalAssumption DEF Bases
      <4>2. IsRead(i, b)
        BY <2>2, <3>3, <4>1 DEF Honest
      <4> QED
        BY <2>1, <3>3, <4>2 DEF IsRead
    <3> QED
      BY <3>1, <3>2, <3>3
  <2>3. Honest(r)
    BY <2>2 DEF Honest
  <2> QED
    BY <1>1, <2>3
<1> QED
  BY <1>2, <1>3

\* An entry comes into the branch.
LEMMA PersistKeeps ==
  ASSUME Typed, JournalInv', Faithful, NEW c \in Calls, Persist(c), Image' = Image,
         branch' \in Seq(Entry)
  PROVE  Faithful'
<1>0. PICK s \in Seq(Entry), l \in Nat : s = branch /\ l = Len(s)
  BY LenProperties DEF Typed
<1>1. PICK a \in Called : a = call[c] /\ a.stage = "returned" /\ CallIsFaithful(a)
  BY DEF Typed, Persist, Faithful
<1>2. PICK e \in Entry : e = a.result
  BY DEF Called
<1>3. branch' = Append(s, e) /\ call' = [call EXCEPT ![c] = NoCall]
  BY <1>0, <1>1, <1>2 DEF Persist
<1>4. PICK t \in Seq(Entry) : t = Append(s, e) /\ Len(t) = l + 1 /\ t[l + 1] = e
                             /\ \A i \in 1..l : t[i] = s[i]
  <2>1. Append(s, e) \in Seq(Entry) /\ Len(Append(s, e)) = l + 1 /\ Append(s, e)[l + 1] = e
        /\ \A i \in 1..l : Append(s, e)[i] = s[i]
    BY <1>0, AppendProperties
  <2> QED
    BY <2>1, Zenon
<1>5. /\ a.head <= Len(Image) /\ a.at <= l /\ a.base = BaseOf(s, a.at)
      /\ e.through <= a.head /\ Telling(a.base, e)
  BY <1>0, <1>1, <1>2 DEF CallIsFaithful, Base
<1>6. a.at \in 0..l /\ a.base \in Bases /\ a.head \in Nat /\ e.through \in Nat /\ Len(Image) \in Nat
  BY <1>5, ImageFacts, LenProperties, JournalAssumption DEF Called, Entry, Typed
<1>7. \A n \in 0..l : BaseOf(t, n) = BaseOf(s, n)
  BY <1>0, <1>4, FirstEntries DEF BaseOf
<1>8. BaseOf(t, l + 1) = Take(BaseOf(s, l), e)
  <2>1. l + 1 \in 1..Len(t) /\ (l + 1) - 1 = l /\ l \in 0..l
    BY <1>4
  <2>2. BaseOf(t, l + 1) = Take(BaseOf(t, l), t[l + 1])
    BY <2>1, BaseSteps
  <2> QED
    BY <1>4, <1>7, <2>1, <2>2
<1>9. \A n \in 0..l : Honest(BaseOf(s, n))
  BY <1>0 DEF Faithful, BranchIsFaithful, Base
<1>10. Honest(BaseOf(t, l + 1))
  <2>1. l \in 0..Len(s)
    BY <1>0
  <2>2. BaseOf(s, l) \in Bases /\ a.base.cursor <= BaseOf(s, l).cursor
    BY <1>0, <1>5, <1>6, <2>1, BaseFacts
  <2>3. Honest(BaseOf(s, l)) /\ JournalInv
    BY <1>0, <1>9, <2>1 DEF Typed
  <2> QED
    BY <1>5, <1>6, <1>8, <2>2, <2>3, TakeIsHonest
<1>11. \A n \in 0..(l + 1) : Honest(BaseOf(t, n))
  <2>1. \A n \in 0..(l + 1) : n \in 0..l \/ n = l + 1
    OBVIOUS
  <2> QED
    BY <1>7, <1>9, <1>10, <2>1
<1>12. \A i \in 1..(l + 1) : t[i].through <= Len(Image)
  <2>1. \A i \in 1..l : t[i].through <= Len(Image)
    BY <1>0, <1>4 DEF Faithful, BranchIsFaithful
  <2>2. t[l + 1].through <= Len(Image)
    BY <1>4, <1>5, <1>6
  <2>3. \A i \in 1..(l + 1) : i \in 1..l \/ i = l + 1
    OBVIOUS
  <2> QED
    BY <2>1, <2>2, <2>3
<1>13. BranchIsFaithful'
  <2>1. branch' = t /\ Len(t) = l + 1
    BY <1>3, <1>4
  <2>2. \A n \in 0..(l + 1) : Honest(BaseOf(t, n))'
    BY <1>11 DEF Honest, IsRead
  <2> QED
    BY <1>12, <2>1, <2>2 DEF BranchIsFaithful, Base, Honest, IsRead
<1>14. ASSUME NEW d \in Calls PROVE CallIsFaithful(call[d])'
  <2>1. PICK x : x = call'[d]
    OBVIOUS
  <2>2. CASE d = c
    <3>1. x = NoCall
      BY <1>3, <2>1, <2>2 DEF Typed
    <3> QED
      BY <2>1, <3>1 DEF CallIsFaithful, NoCall
  <2>3. CASE d # c
    <3>1. x = call[d] /\ x \in Called /\ CallIsFaithful(x)
      BY <1>3, <2>1, <2>3 DEF Typed, Faithful
    <3>2. SameImage /\ JournalInv
      BY DEF SameImage, Typed
    <3>3. x.stage # "idle" => x.head <= Len(Image')
      BY <3>1 DEF CallIsFaithful
    <3>4. x.stage # "idle" /\ x.same =>
            x.at <= Len(branch') /\ BaseOf(branch', x.at) = BaseOf(branch, x.at)
      <4> SUFFICES ASSUME x.stage # "idle", x.same
                   PROVE  x.at <= Len(branch') /\ BaseOf(branch', x.at) = BaseOf(branch, x.at)
        OBVIOUS
      <4>1. x.at <= l /\ x.at \in Nat
        BY <1>0, <3>1 DEF CallIsFaithful, Called
      <4>2. x.at \in 0..l
        BY <4>1
      <4> QED
        BY <1>0, <1>3, <1>4, <1>7, <4>1, <4>2
    <3>5. CallIsFaithful(x)'
      BY <3>1, <3>2, <3>3, <3>4, CallKeeps
    <3> QED
      BY <2>1, <3>5 DEF CallIsFaithful
  <2> QED
    BY <2>2, <2>3
<1> QED
  BY <1>13, <1>14 DEF Faithful

\* A person goes back.
LEMMA NavigateKeeps ==
  ASSUME Typed, JournalInv', Faithful, Navigate, Image' = Image
  PROVE  Faithful'
<1>0. PICK s \in Seq(Entry), l \in Nat : s = branch /\ l = Len(s)
  BY LenProperties DEF Typed
<1>1. PICK k \in 0..(l - 1) :
        /\ branch' = SubSeq(s, 1, k)
        /\ call' = [c \in Calls |-> IF call[c].stage = "idle" THEN call[c] ELSE
             [call[c] EXCEPT !.same = @ /\ ~call[c].auto /\ call[c].at <= k]]
  BY <1>0 DEF Navigate
<1>2. k \in 0..l
  BY <1>0
<1>3. PICK t \in Seq(Entry) : t = SubSeq(s, 1, k) /\ Len(t) = k /\ \A i \in 1..k : t[i] = s[i]
  BY <1>0, <1>2, FirstEntries
<1>4. \A n \in 0..k : BaseOf(t, n) = BaseOf(s, n)
  BY <1>0, <1>2, <1>3, FirstEntries DEF BaseOf
<1>5. BranchIsFaithful'
  <2>1. \A n \in 0..k : n \in 0..l
    BY <1>2
  <2>2. \A n \in 0..k : Honest(BaseOf(t, n))
    BY <1>0, <1>4, <2>1 DEF Faithful, BranchIsFaithful, Base
  <2>3. \A n \in 0..k : Honest(BaseOf(t, n))'
    BY <2>2 DEF Honest, IsRead
  <2>4. \A i \in 1..k : i \in 1..l
    BY <1>2
  <2>5. \A i \in 1..k : t[i].through <= Len(Image)
    BY <1>0, <1>3, <2>4 DEF Faithful, BranchIsFaithful
  <2>6. branch' = t /\ Len(t) = k
    BY <1>1, <1>3
  <2> QED
    BY <2>3, <2>5, <2>6 DEF BranchIsFaithful, Base, Honest, IsRead
<1>6. ASSUME NEW d \in Calls PROVE CallIsFaithful(call[d])'
  <2>1. PICK b \in Called : b = call[d] /\ CallIsFaithful(b)
    BY DEF Typed, Faithful
  <2>2. PICK x : x = call'[d]
    OBVIOUS
  <2>3. SameImage /\ JournalInv
    BY DEF SameImage, Typed
  <2>4. CASE b.stage = "idle"
    <3>1. x = b
      BY <1>1, <2>1, <2>2, <2>4
    <3>2. CallIsFaithful(x)'
      BY <2>1, <2>3, <2>4, <3>1, CallKeeps
    <3> QED
      BY <2>2, <3>2 DEF CallIsFaithful
  <2>5. CASE b.stage # "idle"
    <3>1. PICK same \in BOOLEAN : same = (b.same /\ ~b.auto /\ b.at <= k)
      OBVIOUS
    <3>2. x = [b EXCEPT !.same = same]
      BY <1>1, <2>1, <2>2, <2>5, <3>1
    <3>3. x \in Called
      BY <3>2 DEF Called
    <3>4. /\ x.stage = b.stage /\ x.head = b.head /\ x.same = same /\ x.at = b.at /\ x.events = b.events
          /\ x.base = b.base /\ x.snapshot = b.snapshot /\ x.result = b.result
      BY <3>2 DEF Called
    <3>5. b.stage \notin {"returned", "dropped"}
      BY <2>1 DEF Navigate
    <3>6. CallIsFaithful(x)
      BY <2>1, <3>1, <3>4, <3>5 DEF CallIsFaithful
    <3>7. x.stage # "idle" => x.head <= Len(Image')
      BY <3>6 DEF CallIsFaithful
    <3>8. x.stage # "idle" /\ x.same =>
            x.at <= Len(branch') /\ BaseOf(branch', x.at) = BaseOf(branch, x.at)
      <4> SUFFICES ASSUME x.same
                   PROVE  x.at <= Len(branch') /\ BaseOf(branch', x.at) = BaseOf(branch, x.at)
        OBVIOUS
      <4>1. x.at <= k /\ x.at \in 0..k
        BY <3>1, <3>3, <3>4 DEF Called
      <4> QED
        BY <1>0, <1>1, <1>3, <1>4, <4>1
    <3>9. CallIsFaithful(x)'
      BY <2>3, <3>3, <3>6, <3>7, <3>8, CallKeeps
    <3> QED
      BY <2>2, <3>9 DEF CallIsFaithful
  <2> QED
    BY <2>4, <2>5
<1> QED
  BY <1>5, <1>6 DEF Faithful

\* The journal moves, and nobody had read behind the place where it is cut.
LEMMA JournalKeeps ==
  ASSUME Typed, TailIsNext, Faithful, Journal, ~misled'
  PROVE  Faithful'
<1>1. JournalInv /\ JournalInv' /\ SameImage
  BY JournalWorks DEF Journal, Typed
<1>2. ~ReadBeyond(Len(Image')) /\ branch' = branch /\ call' = call
  BY DEF Journal
<1>3. PICK s \in Seq(Entry) : s = branch
  BY DEF Typed
<1>4. Len(s) \in Nat /\ Len(Image') \in Nat /\ Len(Image) \in Nat
  BY <1>1, ImageFacts, NextImage, LenProperties
<1>5. \A i \in 1..Len(s) : s[i] \in Entry /\ s[i] \in ToSet(s)
  <2>1. DOMAIN s = 1..Len(s) /\ \A i \in 1..Len(s) : s[i] \in Entry
    BY LenProperties, ElementOfSeq
  <2> QED
    BY <2>1 DEF ToSet
<1>6. \A i \in 1..Len(s) : s[i].through \in Nat /\ s[i].through <= Len(Image')
  BY <1>2, <1>3, <1>4, <1>5, JournalAssumption DEF ReadBeyond, Entry
<1>7. ASSUME NEW n \in 0..Len(s) PROVE Honest(BaseOf(s, n))'
  <2>1. BaseOf(s, n) \in Bases
    BY BaseFacts
  <2>2. BaseOf(s, n).cursor <= Len(Image)
    <3>1. \A i \in 1..Len(s) : s[i].through <= Len(Image)
      BY <1>3 DEF Faithful, BranchIsFaithful
    <3> QED
      BY <1>4, <3>1, BaseFacts
  <2>3. Honest(BaseOf(s, n))
    BY <1>3 DEF Faithful, BranchIsFaithful, Base
  <2>4. PICK b \in Bases : b = BaseOf(s, n)
    BY <2>1
  <2>5. Honest(b)'
    BY <1>1, <2>2, <2>3, <2>4, HonestKeeps
  <2> QED
    BY <2>4, <2>5 DEF Honest, IsRead
<1>8. BranchIsFaithful'
  BY <1>2, <1>3, <1>6, <1>7 DEF BranchIsFaithful, Base, Honest, IsRead
<1>9. ASSUME NEW d \in Calls PROVE CallIsFaithful(call[d])'
  <2>1. PICK x \in Called : x = call[d] /\ CallIsFaithful(x)
    BY DEF Typed, Faithful
  <2>2. x.stage # "idle" => x.head <= Len(Image')
    BY <1>2, <1>4, <2>1, JournalAssumption DEF ReadBeyond, Called
  <2>3. x.stage # "idle" /\ x.same =>
          x.at <= Len(branch') /\ BaseOf(branch', x.at) = BaseOf(branch, x.at)
    BY <1>2, <2>1 DEF CallIsFaithful
  <2>4. CallIsFaithful(x)'
    BY <1>1, <2>1, <2>2, <2>3, CallKeeps
  <2> QED
    BY <1>2, <2>1, <2>4 DEF CallIsFaithful
<1> QED
  BY <1>8, <1>9 DEF Faithful

-----------------------------------------------------------------------------
(* The invariant.                                                          *)

LEMMA InitInv == ASSUME Init PROVE OInv
<1>1. JournalInv
  BY InitJournalInv DEF Init
<1>2. [t \in Tasks |-> 0] \in Cards /\ [t \in Tasks |-> "lead"] \in [Tasks -> {"lead", "worker"}]
  BY ObservationAssumption DEF Cards
<1>3. branch = <<>> /\ <<>> \in Seq(Entry) /\ Len(<<>>) = 0
  BY DEF Init
<1>4. "step" \in DOMAIN conductor /\ conductor.step \in Steps
  BY DEF Init, Steps
<1>5. call \in [Calls -> Called] /\ \A c \in Calls : call[c] = NoCall
  BY NoCallTyped DEF Init
<1>6. unpublished = {} /\ held = None /\ working = FALSE /\ misled = FALSE
      /\ version = [t \in Tasks |-> 0] /\ authors = [t \in Tasks |-> "lead"]
  BY DEF Init
<1>7. Typed
  BY <1>1, <1>2, <1>3, <1>4, <1>5, <1>6 DEF Typed
<1>8. TailIsNext
  BY DEF Init, JournalInit, TailIsNext, Idle
<1>9. Len(Image) = 0
  BY DEF Init, JournalInit, Image, Clean
<1>10. Faithful
  <2>1. BranchIsFaithful
    BY <1>3, <1>9 DEF BranchIsFaithful, Honest
  <2> QED
    BY <1>5, <2>1, IdleIsFaithful DEF Faithful
<1> QED
  BY <1>7, <1>8, <1>10 DEF OInv

\* A step that leaves the branch, the calls and the image alone.
LEMMA OutsideKeeps ==
  ASSUME OInv, JournalInv', TailIsNext', Image' = Image, UNCHANGED <<branch, call, misled>>,
         version' \in Cards, authors' \in [Tasks -> {"lead", "worker"}],
         unpublished' \subseteq Seq(TaskFacts) \ {<<>>}, held' \in Calls \cup {None},
         Conducted(conductor'), working' \in BOOLEAN
  PROVE  OInv'
<1>1. Typed'
  BY DEF OInv, Typed, Conducted
<1>2. misled' \/ Faithful'
  BY FaithfulRests DEF OInv
<1> QED
  BY <1>1, <1>2 DEF OInv

\* A step of one call.
LEMMA CallKeepsInv ==
  ASSUME OInv, JournalInv', TailIsNext', Image' = Image, UNCHANGED <<authority, branch, misled>>,
         NEW c \in Calls, Goes(c), working' \in BOOLEAN
  PROVE  OInv'
<1>1. PICK a \in Called : call' = [call EXCEPT ![c] = a] /\ (Faithful => CallIsFaithful(a))
  BY DEF Goes
<1>2. call \in [Calls -> Called] /\ call' \in [Calls -> Called]
  BY <1>1 DEF OInv, Typed
<1>3. Typed'
  BY <1>2 DEF OInv, Typed, Goes, Conducted, authority
<1>4. misled' \/ Faithful'
  BY <1>1, <1>2, FaithfulGoesOn DEF OInv
<1> QED
  BY <1>3, <1>4 DEF OInv

\* What stands still in a step that is none of the journal.
LEMMA Rests ==
  ASSUME OInv, UNCHANGED journal \/ (Fault /\ UNCHANGED <<lines, tail, append, promised, offered>>)
  PROVE  JournalInv' /\ TailIsNext' /\ Image' = Image
<1>1. UNCHANGED <<lines, tail, append, promised, offered>> /\ (faults' = faults \/ Fault)
  BY DEF journal
<1> QED
  BY <1>1, JournalRests DEF OInv, Typed

LEMMA CommitKeeps ==
  ASSUME OInv, NEW T \in SUBSET Tasks, NEW by \in {"lead", "worker"}, Commit(T, by)
  PROVE  OInv'
<1>1. JournalInv' /\ TailIsNext' /\ Image' = Image
  BY Rests DEF Commit
<1>2. version \in Cards /\ authors \in [Tasks -> {"lead", "worker"}]
      /\ unpublished \subseteq Seq(TaskFacts) \ {<<>>} /\ held \in Calls \cup {None}
      /\ working \in BOOLEAN
  BY DEF OInv, Typed
<1>3. version' \in Cards /\ \A t \in T : version'[t] # 0
  BY <1>2, ObservationAssumption DEF Commit, Cards
<1>4. authors' \in [Tasks -> {"lead", "worker"}]
  BY <1>2 DEF Commit
<1>5. PICK v \in Cards : v = version'
  BY <1>3
<1>6. FactsOf(T, by, v) \in Seq(TaskFacts) \ {<<>>}
  BY <1>3, <1>5, FactsTyped DEF Commit
<1>7. unpublished' \subseteq Seq(TaskFacts) \ {<<>>}
  BY <1>2, <1>5, <1>6 DEF Commit
<1>8. Conducted(conductor)
  BY EndedConducts DEF OInv, Typed, Conducted
<1> QED
  BY <1>1, <1>2, <1>3, <1>4, <1>7, <1>8, OutsideKeeps DEF Commit, leader

LEMMA PublishKeeps ==
  ASSUME OInv, Publish \/ LosePublication \/ WorkerEvent
  PROVE  OInv'
<1>1. version \in Cards /\ authors \in [Tasks -> {"lead", "worker"}]
      /\ unpublished \subseteq Seq(TaskFacts) \ {<<>>} /\ held \in Calls \cup {None}
      /\ working \in BOOLEAN /\ JournalInv
  BY DEF OInv, Typed
<1>2. Conducted(conductor)
  BY DEF OInv, Typed, Conducted
<1>3. UNCHANGED <<version, authors, leader>> /\ unpublished' \subseteq unpublished
  BY DEF Publish, LosePublication, WorkerEvent, authority
<1>4. JournalInv' /\ TailIsNext' /\ Image' = Image
  <2>1. CASE Publish
    <3>1. PICK batch \in unpublished : Begin(batch)
      BY <2>1 DEF Publish
    <3>2. batch \in Seq(ObservedFacts)
      BY <1>1 DEF ObservedFacts
    <3> QED
      BY <1>1, <3>1, <3>2, Begins
  <2>2. CASE WorkerEvent
    <3>1. <<WorkerFact>> \in Seq(ObservedFacts)
      BY DEF ObservedFacts
    <3> QED
      BY <1>1, <2>2, <3>1, Begins DEF WorkerEvent
  <2>3. CASE LosePublication
    BY <2>3, Rests DEF LosePublication
  <2> QED
    BY <2>1, <2>2, <2>3
<1> QED
  BY <1>1, <1>2, <1>3, <1>4, OutsideKeeps DEF leader

LEMMA JournalKeepsInv ==
  ASSUME OInv, Journal
  PROVE  OInv'
<1>1. JournalInv' /\ TailIsNext'
  BY JournalWorks DEF OInv, Typed, Journal
<1>2. Typed'
  <2>1. misled' \in BOOLEAN
    BY DEF OInv, Typed, Journal
  <2> QED
    BY <1>1, <2>1 DEF OInv, Typed, Journal, authority
<1>3. ~misled' => Faithful'
  <2>1. ~misled' => ~misled
    BY DEF Journal
  <2> QED
    BY <2>1, JournalKeeps DEF OInv
<1> QED
  BY <1>1, <1>2, <1>3 DEF OInv

LEMMA TurnKeeps ==
  ASSUME OInv, TurnStart \/ TurnEnd \/ Expire \/ Notify \/ Deadline
  PROVE  OInv'
<1>1. version \in Cards /\ authors \in [Tasks -> {"lead", "worker"}]
      /\ unpublished \subseteq Seq(TaskFacts) \ {<<>>} /\ held \in Calls \cup {None}
      /\ working \in BOOLEAN /\ Conducted(conductor)
  BY DEF OInv, Typed, Conducted
<1>2. JournalInv' /\ TailIsNext' /\ Image' = Image
  BY Rests DEF TurnStart, TurnEnd, Expire, Notify, Deadline
<1>3. UNCHANGED <<authority, branch, call, misled>>
  BY DEF TurnStart, TurnEnd, Expire, Notify, Deadline
<1>4. held' \in Calls \cup {None} /\ working' \in BOOLEAN
  BY <1>1 DEF TurnStart, TurnEnd, Expire, Notify, Deadline
<1>5. Conducted(conductor')
  <2>1. CASE TurnStart \/ TurnEnd \/ Expire
    BY <1>1, <2>1 DEF TurnStart, TurnEnd, Expire
  <2>2. CASE Notify
    <3>1. PICK debt, arm :
            \/ conductor' = [conductor EXCEPT !.arm = NoArm]
            \/ conductor' = [conductor EXCEPT !.arm = arm]
            \/ conductor' = [conductor EXCEPT !.step = "present", !.debt = debt, !.arm = arm]
      BY <2>2 DEF Notify
    <3> QED
      BY <1>1, <3>1 DEF Conducted, Steps
  <2>3. CASE Deadline
    BY <1>1, <2>3 DEF Deadline, Conducted
  <2> QED
    BY <2>1, <2>2, <2>3
<1> QED
  BY <1>1, <1>2, <1>3, <1>4, <1>5, OutsideKeeps DEF authority

LEMMA CallStepKeeps ==
  ASSUME OInv, NEW c \in Calls,
         TeamSync(c) \/ Present(c) \/ ReadEvents(c) \/ ReadTasks(c) \/ Finish(c) \/ Drop(c) \/ ExpireDropped(c)
  PROVE  OInv'
<1>1. Goes(c)
  BY TeamSyncGoes, PresentGoes, ReadEventsGoes, ReadTasksGoes, FinishGoes, DropGoes, ExpireDroppedGoes
     DEF OInv
<1>2. JournalInv' /\ TailIsNext' /\ Image' = Image
  BY Rests DEF TeamSync, Present, ReadEvents, ReadTasks, Finish, Drop, ExpireDropped
<1>3. UNCHANGED <<authority, branch, misled>> /\ working' = working
  BY DEF TeamSync, Present, ReadEvents, ReadTasks, Finish, Drop, ExpireDropped
<1>4. working' \in BOOLEAN
  BY <1>3 DEF OInv, Typed
<1> QED
  BY <1>1, <1>2, <1>3, <1>4, CallKeepsInv

LEMMA PersistKeepsInv ==
  ASSUME OInv, NEW c \in Calls, Persist(c)
  PROVE  OInv'
<1>1. JournalInv' /\ TailIsNext' /\ Image' = Image
  BY Rests DEF Persist
<1>2. call[c] \in Called /\ call \in [Calls -> Called] /\ branch \in Seq(Entry)
      /\ held \in Calls \cup {None} /\ Conducted(conductor) /\ working \in BOOLEAN
      /\ misled \in BOOLEAN
  BY DEF OInv, Typed, Conducted
<1>3. branch' \in Seq(Entry)
  BY <1>2, AppendProperties DEF Persist, Called
<1>4. call' \in [Calls -> Called]
  BY <1>2, NoCallTyped DEF Persist
<1>5. held' \in Calls \cup {None}
  <2>1. held' = None \/ held' = held
    BY DEF Persist
  <2> QED
    BY <1>2, <2>1
<1>6. Conducted(conductor')
  BY <1>2 DEF Persist, Conducted
<1>7. UNCHANGED <<authority, misled>> /\ working' \in BOOLEAN
  BY <1>2 DEF Persist, Called
<1>8. Typed'
  BY <1>1, <1>3, <1>4, <1>5, <1>6, <1>7 DEF OInv, Typed, Conducted, authority
<1>9. misled' \/ Faithful'
  BY <1>1, <1>3, <1>7, PersistKeeps DEF OInv
<1> QED
  BY <1>1, <1>8, <1>9 DEF OInv

LEMMA NavigateKeepsInv ==
  ASSUME OInv, Navigate
  PROVE  OInv'
<1>1. JournalInv' /\ TailIsNext' /\ Image' = Image
  BY Rests DEF Navigate
<1>2. call \in [Calls -> Called] /\ branch \in Seq(Entry)
      /\ held \in Calls \cup {None} /\ Conducted(conductor)
  BY DEF OInv, Typed, Conducted
<1>3. branch' \in Seq(Entry)
  <2>1. PICK n \in 0..(Len(branch) - 1) : branch' = SubSeq(branch, 1, n)
    BY DEF Navigate
  <2>2. n \in 0..Len(branch)
    BY <1>2, LenProperties
  <2> QED
    BY <1>2, <2>1, <2>2, FirstEntries
<1>4. call' \in [Calls -> Called]
  <2>1. PICK n \in 0..(Len(branch) - 1) :
          call' = [c \in Calls |-> IF call[c].stage = "idle" THEN call[c] ELSE
            [call[c] EXCEPT !.same = @ /\ ~call[c].auto /\ call[c].at <= n]]
    BY DEF Navigate
  <2>2. ASSUME NEW a \in Called PROVE [a EXCEPT !.same = @ /\ ~a.auto /\ a.at <= n] \in Called
    <3>1. PICK same \in BOOLEAN : same = (a.same /\ ~a.auto /\ a.at <= n)
      OBVIOUS
    <3>2. [a EXCEPT !.same = same] \in Called
      BY DEF Called
    <3> QED
      BY <3>1, <3>2
  <2> QED
    BY <1>2, <2>1, <2>2
<1>5. held' \in Calls \cup {None} /\ Conducted(conductor')
  BY <1>2 DEF Navigate, Conducted
<1>6. UNCHANGED <<authority, working, misled>>
  BY DEF Navigate
<1>7. Typed'
  BY <1>1, <1>3, <1>4, <1>5, <1>6 DEF OInv, Typed, Conducted, authority
<1>8. misled' \/ Faithful'
  BY <1>1, <1>6, NavigateKeeps DEF OInv
<1> QED
  BY <1>1, <1>7, <1>8 DEF OInv

LEMMA RestartKeeps ==
  ASSUME OInv, Restart
  PROVE  OInv'
<1>1. JournalInv' /\ TailIsNext' /\ Image' = Image
  BY Rests DEF Restart
<1>2. /\ call' = [c \in Calls |-> NoCall] /\ held' = None /\ working' = FALSE
      /\ UNCHANGED <<authority, branch, misled>>
  BY DEF Restart
<1>3. Conducted(conductor')
  BY DEF Restart, Conducted, Steps
<1>4. Typed'
  BY <1>1, <1>2, <1>3, NoCallTyped DEF OInv, Typed, Conducted, authority
<1>5. ASSUME Faithful PROVE Faithful'
  <2>1. BranchIsFaithful'
    BY <1>1, <1>2, <1>5 DEF Faithful, BranchIsFaithful, Honest, IsRead, Base
  <2>2. ASSUME NEW d \in Calls PROVE CallIsFaithful(call[d])'
    <3>1. call'[d] = NoCall
      BY <1>2
    <3> QED
      BY <3>1 DEF CallIsFaithful, NoCall
  <2> QED
    BY <2>1, <2>2 DEF Faithful
<1> QED
  BY <1>1, <1>2, <1>4, <1>5 DEF OInv

LEMMA NextKeeps ==
  ASSUME OInv, [Next]_vars
  PROVE  OInv'
<1>1. ASSUME NEW T \in SUBSET Tasks, NEW by \in {"lead", "worker"}, Commit(T, by) PROVE OInv'
  BY <1>1, CommitKeeps
<1>2. CASE Publish \/ LosePublication \/ WorkerEvent
  BY <1>2, PublishKeeps
<1>3. CASE Journal
  BY <1>3, JournalKeepsInv
<1>4. CASE TurnStart \/ TurnEnd \/ Expire \/ Notify \/ Deadline
  BY <1>4, TurnKeeps
<1>5. CASE Navigate
  BY <1>5, NavigateKeepsInv
<1>6. CASE Restart
  BY <1>6, RestartKeeps
<1>7. ASSUME NEW c \in Calls, TeamSync(c) \/ Drop(c) \/ Present(c) \/ CallStep(c) PROVE OInv'
  <2>1. CASE Persist(c)
    BY <2>1, PersistKeepsInv
  <2>2. CASE ~Persist(c)
    BY <1>7, <2>2, CallStepKeeps DEF CallStep
  <2> QED
    BY <2>1, <2>2
<1>8. CASE UNCHANGED vars
  <2>1. UNCHANGED journal /\ UNCHANGED authority /\ UNCHANGED leader
    BY <1>8 DEF vars
  <2>2. JournalInv' /\ TailIsNext' /\ Image' = Image
    BY <2>1, Rests
  <2>3. version' \in Cards /\ authors' \in [Tasks -> {"lead", "worker"}]
        /\ unpublished' \subseteq Seq(TaskFacts) \ {<<>>} /\ held' \in Calls \cup {None}
        /\ Conducted(conductor') /\ working' \in BOOLEAN
    BY <2>1 DEF OInv, Typed, Conducted, authority, leader
  <2> QED
    BY <2>1, <2>2, <2>3, OutsideKeeps DEF leader
<1> QED
  BY <1>1, <1>2, <1>3, <1>4, <1>5, <1>6, <1>7, <1>8 DEF Next

-----------------------------------------------------------------------------
(* The theorems.                                                           *)

LEMMA Invariant == Spec => []OInv
<1>1. Init => OInv
  BY InitInv
<1>2. OInv /\ [Next]_vars => OInv'
  BY NextKeeps
<1> QED
  BY <1>1, <1>2, PTL DEF Spec

\* The variables have their types in every reachable state.
THEOREM TypeHolds == Spec => []TypeOK
<1>1. OInv => TypeOK
  <2> SUFFICES ASSUME OInv PROVE TypeOK
    OBVIOUS
  <2>1. ASSUME NEW c \in Calls PROVE call[c].stage \in Stages /\ call[c].result \in Entry
    BY DEF OInv, Typed, Called
  <2> QED
    BY <2>1 DEF OInv, Typed, JournalInv, TypeOK, Stages, Steps
<1> QED
  BY <1>1, Invariant, PTL

\* The branch never counts a Worker event as read that it neither tells of nor
\* covers by a snapshot, whatever expired, overlapped, was navigated away or
\* restarted, unless a rollback took back what had been read
\* (selected, observe, readBranchObservation).
THEOREM NothingMissed == Spec => []NothingIsPassedOver
<1>1. OInv => NothingIsPassedOver
  <2> SUFFICES ASSUME OInv, ~misled PROVE NothingIsPassedOver
    BY DEF NothingIsPassedOver
  <2>1. JournalInv /\ branch \in Seq(Entry) /\ Faithful
    BY DEF OInv, Typed
  <2>2. Len(branch) \in 0..Len(branch) /\ Base(Len(branch)) = Baseline(branch)
    BY <2>1, LenProperties, BaseSteps DEF Base
  <2>3. Honest(Baseline(branch))
    BY <2>1, <2>2 DEF Faithful, BranchIsFaithful
  <2>4. ASSUME NEW i \in 1..Len(lines)
        PROVE  i \in 1..Len(Image) /\ Image[i] = lines[i] /\ lines[i].cursor = i
    <3>1. Len(lines) <= Len(Image) /\ (\A k \in 1..Len(lines) : Image[k] = lines[k])
      BY <2>1, ImageFacts
    <3>2. \A k \in 1..Len(lines) : lines[k].cursor = k
      BY <2>1 DEF JournalInv, CursorsArePlaces
    <3>3. Len(Image) \in Nat /\ Len(lines) \in Nat
      BY <2>1, ImageFacts, LenProperties DEF JournalInv, JournalTypeOK
    <3> QED
      BY <3>1, <3>2, <3>3
  <2> QED
    BY <2>3, <2>4 DEF NothingIsPassedOver, Honest, IsRead
<1> QED
  BY <1>1, Invariant, PTL

\* Also among everything else that goes on, the journal keeps what it promised:
\* an event of an append that has returned is never removed or changed
\* (appendTeamEvents, readJournalTailCursor).
THEOREM PromisesKept == Spec => KeepsWhatItPromised
<1>1. Init => Log!Init
  BY DEF Init, JournalInit, Log!Init
<1>2. OInv /\ OInv' /\ [Next]_vars => [Log!Next]_<<lines, promised>>
  <2> SUFFICES ASSUME OInv, OInv', [Next]_vars PROVE [Log!Next]_<<lines, promised>>
    OBVIOUS
  <2>1. JournalInv /\ JournalInv' /\ TailIsNext /\ unpublished \subseteq Seq(TaskFacts)
    BY DEF OInv, Typed
  <2>2. CASE Publish \/ WorkerEvent
    <3>1. PICK facts \in Seq(ObservedFacts) : Begin(facts)
      <4>1. <<WorkerFact>> \in Seq(ObservedFacts) /\ Seq(TaskFacts) \subseteq Seq(ObservedFacts)
        BY DEF ObservedFacts
      <4> QED
        BY <2>1, <2>2, <4>1 DEF Publish, WorkerEvent
    <3> QED
      BY <2>1, <3>1, Begins, JournalSteps
  <2>3. CASE Journal
    BY <2>1, <2>3, JournalWorks, JournalSteps DEF Journal
  <2>4. CASE UNCHANGED <<lines, promised>>
    BY <2>4
  <2>5. ASSUME NEW T \in SUBSET Tasks, NEW by \in {"lead", "worker"}, Commit(T, by)
        PROVE  UNCHANGED <<lines, promised>>
    BY <2>5 DEF Commit, journal
  <2>6. CASE \/ LosePublication \/ TurnStart \/ TurnEnd \/ Expire \/ Navigate \/ Restart
             \/ Notify \/ Deadline
    BY <2>4, <2>6 DEF LosePublication, TurnStart, TurnEnd, Expire, Navigate, Restart, Notify, Deadline, journal
  <2>7. ASSUME NEW c \in Calls, TeamSync(c) \/ Drop(c) \/ Present(c) \/ CallStep(c)
        PROVE  UNCHANGED <<lines, promised>>
    BY <2>7 DEF TeamSync, Drop, Present, CallStep, ReadEvents, ReadTasks, Finish, Persist, ExpireDropped,
      journal
  <2>8. CASE UNCHANGED vars
    BY <2>4, <2>8 DEF vars, journal
  <2> QED
    BY <2>2, <2>3, <2>4, <2>5, <2>6, <2>7, <2>8 DEF Next
<1> QED
  BY <1>1, <1>2, Invariant, PTL DEF Spec, KeepsWhatItPromised, Log!Spec

=============================================================================
