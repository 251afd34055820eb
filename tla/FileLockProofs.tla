-------------------------- MODULE FileLockProofs --------------------------
(***************************************************************************)
(* withLock() excludes: for any number of callers, processes, crashes and   *)
(* restarts, at most one caller is in its protected function, its file is   *)
(* its own, and recovery removes only the lock that it found dead.          *)
(***************************************************************************)
EXTENDS FileLock, TLAPS

\* A caller knows itself by its token.
LEMMA MeIsCall ==
  ASSUME TypeOK, NEW c \in Owners
  PROVE  Me(c) \in Call /\ Me(c) # NoCall /\ Me(c)[1] = c
BY DEF TypeOK, Me, Call, NoCall

\* The files of nobody have nobody's name.
LEMMA FileFacts ==
  /\ NoFile.by = NoCall /\ ~NoFile.written
  /\ \A call \in Call : call # NoCall /\ New(call).by = call /\ ~New(call).written
                        /\ New(call) \in File
  /\ \A f \in File \ {NoFile} : f.by \in Call
  /\ NoFile \in File
BY DEF NoFile, New, File, Call, NoCall

\* To write a file, or to touch it, leaves it the file of the same call.
LEMMA SameFile ==
  ASSUME NEW f \in File, f.by \in Call, NEW b \in BOOLEAN
  PROVE  /\ Filled(f) \in File /\ Filled(f).by = f.by /\ Filled(f).written
         /\ [f EXCEPT !.old = b] \in File
         /\ [f EXCEPT !.old = b].by = f.by /\ [f EXCEPT !.old = b].written = f.written
<1>1. f # NoFile
  BY FileFacts, f.by \in Call
<1>2. f \in [by: Call, written: BOOLEAN, old: BOOLEAN]
  BY <1>1 DEF File
<1> QED
  BY <1>2 DEF File, Filled

\* Two callers that hold the lock are one, and so are two with the claim.
LEMMA OneHolder ==
  ASSUME IInv, NEW c \in Owners, NEW d \in Owners
  PROVE  /\ pc[c] \in Holding /\ pc[d] \in Holding => c = d
         /\ pc[c] \in Recovering /\ pc[d] \in Recovering => c = d
<1>1. Me(c) = Me(d) => c = d
  BY DEF Me
<1> QED
  BY <1>1 DEF IInv, HoldersOwn, ClaimersOwn

\* The program starts in the invariant.
LEMMA InitInv == ASSUME Init PROVE IInv
<1> USE DEF Init
<1>1. TypeOK
  BY FileFacts, ConstantsAssumption DEF TypeOK
<1>2. \A c \in Owners : pc[c] = "idle" /\ PidOf[c] \in alive
  BY ConstantsAssumption
<1> QED
  BY <1>1, <1>2 DEF IInv, HoldersOwn, HoldersWrote, ClaimersOwn, ObservedIsOver,
    CheckedIsThere, TheDeadDoNothing, Holding, Recovering, Deciding

\* A file that its holder fills, or that is touched, keeps its call.
LEMMA FileChanges ==
  ASSUME IInv
  PROVE  /\ \A c \in Owners :
              /\ Write(c) \/ Rewrite(c) => lock' \in File /\ lock'.by = lock.by /\ lock'.written
              /\ WriteClaim(c) => claim' \in File /\ claim'.by = claim.by
              /\ Heartbeat(c) => /\ lock' \in File /\ lock'.by = lock.by
                                 /\ lock'.written = lock.written
         /\ LockAges => lock' \in File /\ lock'.by = lock.by /\ lock'.written = lock.written
         /\ ClaimAges => claim' \in File /\ claim'.by = claim.by
<1>1. lock \in File /\ claim \in File
  BY DEF IInv, TypeOK
<1>2. ASSUME NEW c \in Owners, Write(c) \/ Rewrite(c)
      PROVE  lock' \in File /\ lock'.by = lock.by /\ lock'.written
  <2>1. lock.by \in Call
    BY <1>2, MeIsCall DEF IInv, HoldersOwn, Write, Rewrite, Holding
  <2> QED
    BY <1>1, <1>2, <2>1, SameFile, ZenonT(60) DEF Write, Rewrite
<1>3. ASSUME NEW c \in Owners, WriteClaim(c)
      PROVE  claim' \in File /\ claim'.by = claim.by
  <2>1. claim.by \in Call
    BY <1>3, MeIsCall DEF IInv, ClaimersOwn, WriteClaim, Recovering
  <2> QED
    BY <1>1, <1>3, <2>1, SameFile DEF WriteClaim
<1>4. ASSUME NEW c \in Owners, Heartbeat(c)
      PROVE  lock' \in File /\ lock'.by = lock.by /\ lock'.written = lock.written
  <2>1. lock.by \in Call
    BY <1>4, MeIsCall DEF IInv, HoldersOwn, Heartbeat, Holding
  <2> QED
    BY <1>1, <1>4, <2>1, SameFile DEF Heartbeat
<1>5. LockAges => lock' \in File /\ lock'.by = lock.by /\ lock'.written = lock.written
  <2> SUFFICES ASSUME LockAges
               PROVE  lock' \in File /\ lock'.by = lock.by /\ lock'.written = lock.written
    OBVIOUS
  <2>1. lock.by \in Call /\ lock' = [lock EXCEPT !.old = TRUE]
    BY <1>1, FileFacts DEF LockAges
  <2> QED
    BY <1>1, <2>1, SameFile
<1>6. ClaimAges => claim' \in File /\ claim'.by = claim.by
  <2> SUFFICES ASSUME ClaimAges PROVE claim' \in File /\ claim'.by = claim.by
    OBVIOUS
  <2>1. claim.by \in Call /\ claim' = [claim EXCEPT !.old = TRUE]
    BY <1>1, FileFacts DEF ClaimAges
  <2> QED
    BY <1>1, <2>1, SameFile
<1> QED
  BY <1>2, <1>3, <1>4, <1>5, <1>6

\* Every step of a caller keeps the invariant: what it does to a file it does
\* as the one that holds it, and a call that is observed dead never comes back.
LEMMA CallersKeep ==
  ASSUME IInv, NEW c \in Owners,
         Begin(c) \/ Retry(c) \/ GiveUp(c) \/ Step(c) \/ WriteFails(c) \/ Heartbeat(c) \/ Unlock(c)
  PROVE  IInv'
<1> USE FileFacts, OneHolder, MeIsCall, ConstantsAssumption
        DEF IInv, Goto, TypeOK, HoldersOwn, HoldersWrote, ClaimersOwn, ObservedIsOver,
            CheckedIsThere, TheDeadDoNothing, Holding, Recovering, Deciding, Running, Me
<1>1. CASE Begin(c)
  BY <1>1 DEF Begin, Fresh
<1>2. CASE Retry(c)
  BY <1>2 DEF Retry
<1>3. CASE GiveUp(c)
  BY <1>3 DEF GiveUp
<1>4. CASE Create(c)
  BY <1>4 DEF Create
<1>5. CASE Write(c)
  <2>1. lock' \in File /\ lock'.by = lock.by /\ lock'.written
    BY <1>5, FileChanges
  <2> QED
    BY <1>5, <2>1 DEF Write
<1>6. CASE Age(c)
  BY <1>6 DEF Age
<1>7. CASE Read(c)
  BY <1>7 DEF Read, OwnerOf
<1>8. CASE Reread(c)
  BY <1>8 DEF Reread, Return
<1>9. CASE CheckAlive(c)
  BY <1>9 DEF CheckAlive, Return, Alive
<1>10. CASE CreateClaim(c)
  BY <1>10 DEF CreateClaim
<1>11. CASE WriteClaim(c)
  <2>1. claim' \in File /\ claim'.by = claim.by
    BY <1>11, FileChanges
  <2> QED
    BY <1>11, <2>1 DEF WriteClaim
<1>12. CASE ClaimAge(c)
  BY <1>12 DEF ClaimAge, Return
<1>13. CASE ClaimRead(c)
  BY <1>13 DEF ClaimRead, Return
<1>14. CASE Check(c)
  BY <1>14 DEF Check, OwnerOf
<1>15. CASE CheckAge(c)
  BY <1>15 DEF CheckAge
<1>16. CASE Unlink(c)
  BY <1>16 DEF Unlink
<1>17. CASE Recreate(c)
  BY <1>17 DEF Recreate
<1>18. CASE Rewrite(c)
  <2>1. lock' \in File /\ lock'.by = lock.by /\ lock'.written
    BY <1>18, FileChanges
  <2> QED
    BY <1>18, <2>1 DEF Rewrite
<1>19. CASE Unclaim(c)
  BY <1>19 DEF Unclaim, Return, After, OwnerOf
<1>20. CASE UnlockUnlink(c)
  BY <1>20 DEF UnlockUnlink
<1>21. CASE WriteFails(c)
  BY <1>21 DEF WriteFails, Return, Unfilled
<1>22. CASE Heartbeat(c)
  <2>1. lock' \in File /\ lock'.by = lock.by /\ lock'.written = lock.written
    BY <1>22, FileChanges
  <2> QED
    BY <1>22, <2>1 DEF Heartbeat
<1>23. CASE Unlock(c)
  BY <1>23 DEF Unlock
<1> QED
  BY <1>1, <1>2, <1>3, <1>4, <1>5, <1>6, <1>7, <1>8, <1>9, <1>10, <1>11, <1>12,
     <1>13, <1>14, <1>15, <1>16, <1>17, <1>18, <1>19, <1>20, <1>21, <1>22, <1>23 DEF Step

\* So do the passing of time, crashes and restarts.
LEMMA WorldKeeps ==
  ASSUME IInv, LockAges \/ ClaimAges \/ (\E p \in Pids : Crash(p) \/ Restart(p))
  PROVE  IInv'
<1> USE ConstantsAssumption
        DEF IInv, TypeOK, HoldersOwn, HoldersWrote, ClaimersOwn, ObservedIsOver,
            CheckedIsThere, TheDeadDoNothing, Holding, Recovering, Deciding, Running, Me
<1>1. CASE LockAges
  BY <1>1, FileChanges DEF LockAges
<1>2. CASE ClaimAges
  BY <1>2, FileChanges DEF ClaimAges
<1>3. ASSUME NEW p \in Pids, Crash(p) PROVE IInv'
  BY <1>3 DEF Crash
<1>4. ASSUME NEW p \in Pids, Restart(p) PROVE IInv'
  BY <1>4 DEF Restart
<1> QED
  BY <1>1, <1>2, <1>3, <1>4

\* Doing nothing keeps the invariant.
LEMMA StutterKeeps == ASSUME IInv, UNCHANGED vars PROVE IInv'
BY DEF vars, IInv, TypeOK, HoldersOwn, HoldersWrote, ClaimersOwn, ObservedIsOver,
  CheckedIsThere, TheDeadDoNothing, Holding, Recovering, Deciding, Running, Me

\* The invariant is one: it holds at first, and every step keeps it.
THEOREM InductiveInvariant == Spec => []IInv
<1>1. Init => IInv
  BY InitInv
<1>2. IInv /\ [Next]_vars => IInv'
  BY CallersKeep, WorldKeeps, StutterKeeps DEF Next
<1> QED
  BY <1>1, <1>2, PTL DEF Spec

\* withLock() runs one protected function at a time, whatever crashes, however
\* long a process sleeps, and even when process numbers are used again.
THEOREM Excludes == Spec => []MutualExclusion
<1>1. IInv => MutualExclusion
  BY OneHolder DEF MutualExclusion, InCritical, Holding
<1> QED
  BY <1>1, InductiveInvariant, PTL

\* Whoever is in its protected function holds a file that names it.
THEOREM HoldersHaveTheFile == Spec => []HeldByFile
<1>1. IInv => HeldByFile
  BY DEF IInv, HeldByFile, HoldersOwn, HoldersWrote, InCritical, Holding
<1> QED
  BY <1>1, InductiveInvariant, PTL

\* Recovery removes the lock that it observed, never that of a successor.
THEOREM NoABA == Spec => []RemovesWhatItObserved
<1>1. IInv => RemovesWhatItObserved
  BY DEF IInv, RemovesWhatItObserved, CheckedIsThere
<1> QED
  BY <1>1, InductiveInvariant, PTL

\* The state keeps its types.
THEOREM TypeCorrect == Spec => []TypeOK
BY InductiveInvariant, PTL DEF IInv
=============================================================================
