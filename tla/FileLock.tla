------------------------------ MODULE FileLock ------------------------------
(***************************************************************************)
(* withLock() of src/src/utils/lock.ts: a lock among processes that share   *)
(* a directory.  The lock is a file created with O_EXCL that names its      *)
(* owner.  A file that its owner has not touched for 30 seconds and whose   *)
(* process is dead is removed by a contender that holds a second such file, *)
(* the recovery claim.                                                      *)
(*                                                                         *)
(* Each system call is a step of its own.  Code between two awaits runs to  *)
(* completion in its process, so that two owners in one process interleave  *)
(* only where withLock() awaits.                                            *)
(***************************************************************************)
EXTENDS Naturals

CONSTANTS
  Owners,      \* the callers of withLock()
  Pids,        \* the processes
  PidOf,       \* the process of each caller
  Tokens,      \* the tokens of single calls: random in the source
  MaxCrashes   \* bound of the model: crashes of processes

ASSUME ConstantsAssumption ==
  /\ PidOf \in [Owners -> Pids]
  /\ MaxCrashes \in Nat

Call == Owners \X Tokens

NoCall == << >>

\* A file: absent, or the call that created it, whether its text is complete
\* and whether it has not been touched for STALE_LOCK_TIMEOUT.
NoFile == [by |-> NoCall, written |-> FALSE, old |-> FALSE]

File == [by: Call, written: BOOLEAN, old: BOOLEAN] \cup {NoFile}

New(call) == [by |-> call, written |-> FALSE, old |-> FALSE]

VARIABLES
  lock,      \* the visible lock
  claim,     \* the recovery claim beside it
  pc,        \* where each caller is
  token,     \* the token of its present call
  observed,  \* the owner it has read from the stale lock
  alive,     \* the processes that run
  crashes    \* how many crashes there were

vars == <<lock, claim, pc, token, observed, alive, crashes>>

\* Between awaits: steps of one uninterrupted run of a process.
Running ==
  {"create", "write", "age", "read", "reread", "alive", "claim", "claimWrite",
   "claimAge", "claimRead", "check", "checkAge", "unlink", "recreate", "rewrite",
   "unclaimHeld", "unclaimLost", "unclaimFailed", "unlockUnlink"}

\* With the visible lock in hand, as far as the caller knows.
Holding == {"write", "rewrite", "unclaimHeld", "critical", "unlockUnlink"}

\* With the recovery claim in hand.
Recovering ==
  {"claimWrite", "check", "checkAge", "unlink", "recreate", "rewrite",
   "unclaimHeld", "unclaimLost", "unclaimFailed"}

TypeOK ==
  /\ lock \in File /\ claim \in File
  /\ pc \in [Owners -> Running \cup {"idle", "wait", "critical", "failed", "dead"}]
  /\ token \in [Owners -> Tokens]
  /\ observed \in [Owners -> Call \cup {NoCall}]
  /\ alive \in SUBSET Pids
  /\ crashes \in Nat

Me(c) == <<c, token[c]>>

\* What readOwner() returns: nothing for a file that is absent or incomplete.
OwnerOf(file) == IF file.written THEN file.by ELSE NoCall

Stale(file) == file # NoFile /\ file.old

\* Mutant: a process that refuses the signal (EPERM) is taken for dead.
AliveNever(call) == FALSE

\* processIsAlive() of the process that a file names.
Alive(call) == call # NoCall /\ PidOf[call[1]] \in alive

Goto(c, l) == pc' = [pc EXCEPT ![c] = l]

\* The end of tryAcquireVisibleLock(): what it had read is forgotten.
Return(c, l) == Goto(c, l) /\ observed' = [observed EXCEPT ![c] = NoCall]

\* The process of c is not in the middle of the work of another caller.
Turn(c) == \A d \in Owners : PidOf[d] = PidOf[c] => pc[d] \notin Running

\* A token that no file and no reader knows.
Fresh(call) ==
  /\ lock.by # call /\ claim.by # call
  /\ \A d \in Owners : observed[d] # call

-----------------------------------------------------------------------------
(* tryAcquireVisibleLock() *)

Begin(c) ==
  /\ pc[c] \in {"idle", "failed"} /\ PidOf[c] \in alive /\ Turn(c)
  /\ \E k \in Tokens : Fresh(<<c, k>>) /\ token' = [token EXCEPT ![c] = k]
  /\ Goto(c, "create")
  /\ UNCHANGED <<lock, claim, observed, alive, crashes>>

Retry(c) ==
  /\ pc[c] = "wait" /\ Turn(c)
  /\ Goto(c, "create")
  /\ UNCHANGED <<lock, claim, token, observed, alive, crashes>>

\* The budget of the wait or the deadline of the operation is used up.
GiveUp(c) ==
  /\ pc[c] = "wait" /\ Turn(c)
  /\ Goto(c, "failed")
  /\ UNCHANGED <<lock, claim, token, observed, alive, crashes>>

Create(c) ==
  /\ pc[c] = "create"
  /\ IF lock = NoFile
     THEN lock' = New(Me(c)) /\ Goto(c, "write")
     ELSE lock' = lock /\ Goto(c, "age")
  /\ UNCHANGED <<claim, token, observed, alive, crashes>>

\* createOwnerFile() once the file exists: the owner is written, the time set.
Filled(file) == [file EXCEPT !.written = TRUE, !.old = FALSE]

Write(c) ==
  /\ pc[c] = "write"
  /\ lock' = Filled(lock)
  /\ Goto(c, "critical")
  /\ UNCHANGED <<claim, token, observed, alive, crashes>>

\* The time cannot be set, and the file is removed again; or the text cannot
\* be written, and the file stays as it is.
Unfilled(file) == {NoFile, file}

WriteFails(c) ==
  /\ pc[c] \in {"write", "claimWrite", "rewrite"}
  /\ IF pc[c] = "claimWrite"
     THEN claim' \in Unfilled(claim) /\ lock' = lock
     ELSE lock' \in Unfilled(lock) /\ claim' = claim
  /\ IF pc[c] = "rewrite"
     THEN Goto(c, "unclaimFailed") /\ observed' = observed
     ELSE Return(c, "failed")
  /\ UNCHANGED <<token, alive, crashes>>

Age(c) ==
  /\ pc[c] = "age"
  /\ Goto(c, IF Stale(lock) THEN "read" ELSE "wait")
  /\ UNCHANGED <<lock, claim, token, observed, alive, crashes>>

Read(c) ==
  /\ pc[c] = "read"
  /\ observed' = [observed EXCEPT ![c] = OwnerOf(lock)]
  /\ Goto(c, IF OwnerOf(lock) = NoCall THEN "reread" ELSE "alive")
  /\ UNCHANGED <<lock, claim, token, alive, crashes>>

\* A lock that was unreadable is looked at again: if it is still stale, the
\* call fails and a person has to remove the file.
Reread(c) ==
  /\ pc[c] = "reread"
  /\ Return(c, IF Stale(lock) THEN "failed" ELSE "wait")
  /\ UNCHANGED <<lock, claim, token, alive, crashes>>

CheckAlive(c) ==
  /\ pc[c] = "alive"
  /\ IF Alive(observed[c]) THEN Return(c, "wait") ELSE Goto(c, "claim") /\ observed' = observed
  /\ UNCHANGED <<lock, claim, token, alive, crashes>>

-----------------------------------------------------------------------------
(* recoverStaleVisibleLock() *)

\* Mutant: a stale claim is taken over as a stale lock is.
CreateClaimOverStale(c) ==
  /\ pc[c] = "claim"
  /\ IF claim = NoFile \/ Stale(claim)
     THEN claim' = New(Me(c)) /\ Goto(c, "claimWrite")
     ELSE claim' = claim /\ Goto(c, "claimAge")
  /\ UNCHANGED <<lock, token, observed, alive, crashes>>

CreateClaim(c) ==
  /\ pc[c] = "claim"
  /\ IF claim = NoFile
     THEN claim' = New(Me(c)) /\ Goto(c, "claimWrite")
     ELSE claim' = claim /\ Goto(c, "claimAge")
  /\ UNCHANGED <<lock, token, observed, alive, crashes>>

WriteClaim(c) ==
  /\ pc[c] = "claimWrite"
  /\ claim' = Filled(claim)
  /\ Goto(c, "check")
  /\ UNCHANGED <<lock, token, observed, alive, crashes>>

ClaimAge(c) ==
  /\ pc[c] = "claimAge"
  /\ IF Stale(claim) THEN Goto(c, "claimRead") /\ observed' = observed ELSE Return(c, "wait")
  /\ UNCHANGED <<lock, claim, token, alive, crashes>>

\* A stale claim whose owner is not seen to be alive is never taken over.
ClaimRead(c) ==
  /\ pc[c] = "claimRead"
  /\ Return(c, IF Alive(OwnerOf(claim)) THEN "wait" ELSE "failed")
  /\ UNCHANGED <<lock, claim, token, alive, crashes>>

\* Mutant: the owner is not compared once the claim is held.
CheckNothing(c) ==
  /\ pc[c] = "check"
  /\ Goto(c, "checkAge")
  /\ UNCHANGED <<lock, claim, token, observed, alive, crashes>>

\* Mutant: the lock is compared with the contender, not with the observation.
CheckContender(c) ==
  /\ pc[c] = "check"
  /\ Goto(c, IF OwnerOf(lock) = Me(c) THEN "checkAge" ELSE "unclaimLost")
  /\ UNCHANGED <<lock, claim, token, observed, alive, crashes>>

\* With the claim: is it still the owner that was observed, ...
Check(c) ==
  /\ pc[c] = "check"
  /\ Goto(c, IF OwnerOf(lock) = observed[c] THEN "checkAge" ELSE "unclaimLost")
  /\ UNCHANGED <<lock, claim, token, observed, alive, crashes>>

\* ... is it still stale, and is its process still dead?
CheckAge(c) ==
  /\ pc[c] = "checkAge"
  /\ Goto(c, IF Stale(lock) /\ ~Alive(observed[c]) THEN "unlink" ELSE "unclaimLost")
  /\ UNCHANGED <<lock, claim, token, observed, alive, crashes>>

\* unlinkSync() removes whatever file has the name of the lock, and throws when
\* there is none.
Unlink(c) ==
  /\ pc[c] = "unlink"
  /\ lock' = NoFile
  /\ Goto(c, IF lock = NoFile THEN "unclaimFailed" ELSE "recreate")
  /\ UNCHANGED <<claim, token, observed, alive, crashes>>

Recreate(c) ==
  /\ pc[c] = "recreate"
  /\ IF lock = NoFile
     THEN lock' = New(Me(c)) /\ Goto(c, "rewrite")
     ELSE lock' = lock /\ Goto(c, "unclaimLost")
  /\ UNCHANGED <<claim, token, observed, alive, crashes>>

Rewrite(c) ==
  /\ pc[c] = "rewrite"
  /\ lock' = Filled(lock)
  /\ Goto(c, "unclaimHeld")
  /\ UNCHANGED <<claim, token, observed, alive, crashes>>

After ==
  [l \in {"unclaimHeld", "unclaimLost", "unclaimFailed"} |->
     CASE l = "unclaimHeld" -> "critical"
       [] l = "unclaimLost" -> "wait"
       [] l = "unclaimFailed" -> "failed"]

Unclaim(c) ==
  /\ pc[c] \in DOMAIN After
  /\ claim' = IF OwnerOf(claim) = Me(c) THEN NoFile ELSE claim
  /\ Return(c, After[pc[c]])
  /\ UNCHANGED <<lock, token, alive, crashes>>

-----------------------------------------------------------------------------
(* The owner, releaseVisibleLock() and the world *)

Heartbeat(c) ==
  /\ pc[c] = "critical" /\ Turn(c)
  /\ OwnerOf(lock) = Me(c) /\ lock.old
  /\ lock' = [lock EXCEPT !.old = FALSE]
  /\ UNCHANGED <<claim, pc, token, observed, alive, crashes>>

\* The protected function has ended, with or without an error.
Unlock(c) ==
  /\ pc[c] = "critical" /\ Turn(c)
  /\ Goto(c, IF OwnerOf(lock) = Me(c) THEN "unlockUnlink" ELSE "idle")
  /\ UNCHANGED <<lock, claim, token, observed, alive, crashes>>

UnlockUnlink(c) ==
  /\ pc[c] = "unlockUnlink"
  /\ lock' = NoFile
  /\ Goto(c, "idle")
  /\ UNCHANGED <<claim, token, observed, alive, crashes>>

\* Time passes without a heartbeat: a process may be suspended anywhere.
LockAges ==
  /\ lock # NoFile /\ ~lock.old
  /\ lock' = [lock EXCEPT !.old = TRUE]
  /\ UNCHANGED <<claim, pc, token, observed, alive, crashes>>

ClaimAges ==
  /\ claim # NoFile /\ ~claim.old
  /\ claim' = [claim EXCEPT !.old = TRUE]
  /\ UNCHANGED <<lock, pc, token, observed, alive, crashes>>

Crash(p) ==
  /\ p \in alive /\ crashes < MaxCrashes
  /\ alive' = alive \ {p}
  /\ crashes' = crashes + 1
  /\ pc' = [c \in Owners |-> IF PidOf[c] = p THEN "dead" ELSE pc[c]]
  /\ observed' = [c \in Owners |-> IF PidOf[c] = p THEN NoCall ELSE observed[c]]
  /\ UNCHANGED <<lock, claim, token>>

\* A new process may get the number of the one that crashed.
Restart(p) ==
  /\ p \notin alive
  /\ alive' = alive \cup {p}
  /\ pc' = [c \in Owners |-> IF PidOf[c] = p THEN "idle" ELSE pc[c]]
  /\ UNCHANGED <<lock, claim, token, observed, crashes>>

Init ==
  /\ lock = NoFile /\ claim = NoFile
  /\ pc = [c \in Owners |-> "idle"]
  /\ token \in [Owners -> Tokens]
  /\ observed = [c \in Owners |-> NoCall]
  /\ alive = Pids
  /\ crashes = 0

Step(c) ==
  \/ Create(c) \/ Write(c) \/ Age(c) \/ Read(c) \/ Reread(c) \/ CheckAlive(c)
  \/ CreateClaim(c) \/ WriteClaim(c) \/ ClaimAge(c) \/ ClaimRead(c)
  \/ Check(c) \/ CheckAge(c) \/ Unlink(c) \/ Recreate(c) \/ Rewrite(c) \/ Unclaim(c)
  \/ UnlockUnlink(c)

Next ==
  \/ \E c \in Owners :
       \/ Begin(c) \/ Retry(c) \/ GiveUp(c) \/ Step(c)
       \/ WriteFails(c) \/ Heartbeat(c) \/ Unlock(c)
  \/ LockAges \/ ClaimAges
  \/ \E p \in Pids : Crash(p) \/ Restart(p)

Spec == Init /\ [][Next]_vars

\* Callers come back to the lock; a process that runs takes its steps; time
\* passes; and the recovery claim is not refused by the file system for ever.
FairSpec ==
  /\ Spec
  /\ \A c \in Owners : WF_vars(Begin(c)) /\ WF_vars(Retry(c)) /\ WF_vars(Step(c))
                         /\ SF_vars(WriteClaim(c))
  /\ WF_vars(LockAges)

-----------------------------------------------------------------------------
(* What the lock promises *)

InCritical == {c \in Owners : pc[c] = "critical"}

\* At most one caller runs its protected function, whatever crashes, however
\* long a process is suspended, and even when process numbers are used again
\* (recoverStaleVisibleLock(): "no contender can unlink a successor").
MutualExclusion == \A c, d \in InCritical : c = d

\* The file of a caller in its protected function is there and names it: what
\* heartbeat() refreshes and releaseVisibleLock() removes is its own.
HeldByFile == \A c \in InCritical : lock.by = Me(c) /\ lock.written

\* What recovery removes is the very lock that it found dead, though it had
\* to claim, look and decide in steps of their own ("the previous ABA bug").
RemovesWhatItObserved ==
  \A c \in Owners : pc[c] = "unlink" => lock.by = observed[c] /\ lock.written

\* The inductive invariant.  A caller that holds the lock, or the claim, finds
\* itself in the file, so there is one; a caller that has found a lock dead
\* knows a call that is over, for no call comes back with the same token; and
\* a lock whose call is over is changed only by the holder of the claim.
Deciding == {"claim", "claimWrite", "claimAge", "claimRead", "check", "checkAge", "unlink"}

HoldersOwn == \A c \in Owners : pc[c] \in Holding => lock.by = Me(c)

HoldersWrote ==
  \A c \in Owners : pc[c] \in Holding \ {"write", "rewrite"} => lock.written

ClaimersOwn == \A c \in Owners : pc[c] \in Recovering => claim.by = Me(c)

ObservedIsOver ==
  \A c \in Owners :
    /\ pc[c] \in Deciding \cup {"alive"} => observed[c] \in Call
    /\ pc[c] \in Deciding =>
         \A d \in Owners : Me(d) = observed[c] => pc[d] \in {"dead", "idle"}

CheckedIsThere ==
  \A c \in Owners :
    pc[c] \in {"checkAge", "unlink"} => lock.by = observed[c] /\ lock.written

TheDeadDoNothing == \A c \in Owners : PidOf[c] \notin alive => pc[c] = "dead"

IInv ==
  /\ TypeOK /\ HoldersOwn /\ HoldersWrote /\ ClaimersOwn
  /\ ObservedIsOver /\ CheckedIsThere /\ TheDeadDoNothing

\* A lock left by a process that died does not stop the others for ever,
\* unless its number is used again, nobody is left, or a second crash or a
\* failed write has left a claim beside it: "not stolen recursively".
LeftBehind == lock.written /\ ~Alive(lock.by)

OrphanedClaim ==
  claim # NoFile /\ \A c \in Owners : pc[c] \in Recovering => Me(c) # claim.by

DeadLocksAreRecovered ==
  LeftBehind ~> (~LeftBehind \/ OrphanedClaim \/ alive = {})
=============================================================================
