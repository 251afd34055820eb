---------------------------- MODULE WorkerLaunch ----------------------------
(***************************************************************************)
(* The life of one Worker: the Membership machine (membership-machine.ts),  *)
(* the launches that ensure_worker makes (worker-launch-bridge.ts), the Pi  *)
(* processes that they start and admit (team-session-lifecycle-service.ts,  *)
(* runtime.ts), and the stop (team-lifecycle-service.ts).                   *)
(*                                                                         *)
(* A launch is the work of one ensure_worker call.  It starts at most one   *)
(* process, in a pane of its own, so that process and pane carry the number *)
(* of the launch.  Steps that the code takes under the Membership lease and *)
(* that nothing else can divide are one action; the admission of a process  *)
(* and the stop are not, for processes and terminals change in between.     *)
(***************************************************************************)
EXTENDS Naturals, FiniteSets

CONSTANTS
  Memberships,  \* numbers, used in their order
  Launches,     \* numbers from 1, used in their order
  TwoStage,     \* does the carrier make the pane before it starts the process (Herdr)?
  Located,      \* does a process know the pane that it runs in?
  MaxCrashes    \* bound of the model: crashes of the Leader

ASSUME ConstantsAssumption ==
  /\ Memberships \subseteq Nat \ {0} /\ Launches \subseteq Nat \ {0}
  /\ TwoStage \in BOOLEAN /\ Located \in BOOLEAN /\ MaxCrashes \in Nat

\* No launch, no process, no pane.
None == 0

Phases == {"requested", "started", "refused", "unknown"}

VARIABLES
  member,   \* the Memberships, as the machine parses them
  status,   \* the runtime record of the Worker: whose process it is, and whether it left
  lease,    \* who holds the lease of each Membership over several steps
  stage,    \* how far each launch is
  issued,   \* the Membership and the kind of each launch
  outcome,  \* what a launch will report, and whether with its pane
  old,      \* the Memberships whose launch was requested UNSTARTED_LAUNCH_RETRY_MS ago
  proc,     \* the process of each launch
  pane,     \* its pane
  crashes

vars == <<member, status, lease, stage, issued, outcome, old, proc, pane, crashes>>

Unused == [kind |-> "unused", capability |-> None, launch |-> None,
           phase |-> "requested", prior |-> None, target |-> None]

NoStatus == [of |-> None, process |-> None, left |-> FALSE]

Membership ==
  [kind: {"unused", "prepared", "bound", "inactive"}, capability: Launches \cup {None},
   launch: Launches \cup {None}, phase: Phases, prior: Launches \cup {None},
   target: Launches \cup {None}]

TypeOK ==
  /\ member \in [Memberships -> Membership]
  /\ status \in [of: Memberships \cup {None}, process: Launches \cup {None}, left: BOOLEAN]
  /\ lease \in [Memberships -> {"free", "process", "stop", "stopped", "left"}]
  /\ stage \in [Launches -> {"unused", "claimed", "prepared", "recorded", "reporting", "done"}]
  /\ issued \in [Launches -> [of: Memberships \cup {None}, resumes: BOOLEAN]]
  /\ outcome \in [Launches -> [phase: Phases, withTarget: BOOLEAN]]
  /\ old \subseteq Memberships
  /\ proc \in [Launches -> {"none", "starting", "claiming", "running", "left", "gone"}]
  /\ pane \in [Launches -> {"none", "open", "closed"}]
  /\ crashes \in Nat

Active(m) == member[m].kind \in {"prepared", "bound"}

Of(l) == issued[l].of

\* The runtime record speaks of this Membership, and its process is gone
\* (verifyRuntimeGeneration(), with a verifier that knows).
Recorded(m) == status # NoStatus /\ status.of = m
Gone(m)     == Recorded(m) /\ proc[status.process] = "gone"

\* mayOwnProcess()
MayOwnProcess(m) ==
  \/ member[m].kind = "bound"
  \/ member[m].kind = "prepared" /\ member[m].target # None
  \/ member[m].kind = "prepared" /\ member[m].phase # "refused" /\ ~TwoStage

-----------------------------------------------------------------------------
(* transitionMembership(): what the events of the machine do to a Membership *)

Relaunched(r, l, prior) ==
  [r EXCEPT !.launch = l, !.phase = "requested", !.prior = prior,
            !.capability = IF r.kind = "prepared" THEN l ELSE None]

Targeted(r, l) == [r EXCEPT !.target = l]

Completed(r, phase, target) == [r EXCEPT !.phase = phase, !.target = target]

Bound(r, target) == [r EXCEPT !.kind = "bound", !.capability = None, !.target = target]

Deactivated(r) == [r EXCEPT !.kind = "inactive"]

-----------------------------------------------------------------------------
(* ensure_worker: the plan *)

\* unstartedLaunchExpired()
Expired(m) ==
  /\ TwoStage /\ member[m].kind = "prepared" /\ member[m].target = None
  /\ member[m].phase \in {"requested", "unknown"}
  /\ m \in old

\* Mutant: a bound Worker that has died is launched again at once.
OutstandingPrepared(m) ==
  /\ member[m].phase # "refused"
  /\ member[m].kind = "prepared"

\* launchIsOutstanding()
Outstanding(m) ==
  /\ member[m].phase # "refused"
  /\ \/ member[m].kind = "prepared"
     \/ /\ member[m].prior # None
        /\ ~Recorded(m) \/ status.process = member[m].prior

\* The process of a launch that was refused and that had no forerunner.
NoProcess(m) == status = NoStatus /\ member[m].phase = "refused" /\ member[m].prior = None

\* planWorkerEnsure(), where it decides to launch again ...
MayRelaunch(m) ==
  \/ Expired(m)
  \/ member[m].kind = "prepared" /\ member[m].phase = "refused" /\ (Gone(m) \/ NoProcess(m))
  \/ /\ member[m].kind = "bound" /\ Gone(m) /\ ~status.left
     /\ ~Outstanding(m)

\* ... and where it asks to wait, for the launch may still bind.
LaunchPending(m) ==
  /\ Active(m) /\ ~Expired(m) /\ Outstanding(m)
  /\ ~(member[m].kind = "bound" /\ Recorded(m) /\ ~status.left /\ proc[status.process] = "running")

\* The next numbers.
NextMembership == {m \in Memberships : member[m].kind = "unused"
                     /\ \A n \in Memberships : n < m => member[n].kind = "inactive"}

NextLaunch == {l \in Launches : stage[l] = "unused"
                 /\ \A k \in Launches : k < l => stage[k] # "unused"}

Claim(l, m, resumes) ==
  /\ stage' = [stage EXCEPT ![l] = "claimed"]
  /\ issued' = [issued EXCEPT ![l] = [of |-> m, resumes |-> resumes]]

\* claim() without a current Membership: addMember().
Create ==
  \E m \in NextMembership, l \in NextLaunch :
    /\ member' = [member EXCEPT ![m] =
         [Unused EXCEPT !.kind = "prepared", !.capability = l, !.launch = l]]
    /\ Claim(l, m, FALSE)
    /\ UNCHANGED <<status, lease, outcome, old, proc, pane, crashes>>

\* claim() with one: the relaunch event of the machine.
Relaunch ==
  \E m \in Memberships, l \in NextLaunch :
    /\ Active(m) /\ lease[m] = "free" /\ MayRelaunch(m)
    /\ member' = [member EXCEPT ![m] = Relaunched(@, l, status.process)]
    /\ Claim(l, m, member[m].kind = "bound")
    /\ old' = old \ {m}
    /\ UNCHANGED <<status, lease, outcome, proc, pane, crashes>>

-----------------------------------------------------------------------------
(* ensure_worker: the launch *)

Goto(l, s) == stage' = [stage EXCEPT ![l] = s]

Report(l, phase, withTarget) ==
  /\ Goto(l, "reporting")
  /\ outcome' = [outcome EXCEPT ![l] = [phase |-> phase, withTarget |-> withTarget]]

\* Has a call been made that may have started the process?
Actuated(l) == ~TwoStage /\ stage[l] # "claimed"

\* prepareSpawn() has made the pane.
OpenPane(l) ==
  /\ pane' = [pane EXCEPT ![l] = "open"]
  /\ proc' = IF TwoStage THEN proc ELSE [proc EXCEPT ![l] = "starting"]

Prepare(l) ==
  /\ stage[l] = "claimed"
  /\ OpenPane(l)
  /\ Goto(l, "prepared")
  /\ UNCHANGED <<member, status, lease, issued, outcome, old, crashes>>

\* It fails, or its answer is lost.  A one-stage carrier may have started the
\* process; if Herdr has made a pane, nothing runs in it.
PrepareFails(l) ==
  /\ stage[l] = "claimed"
  /\ OpenPane(l) \/ UNCHANGED <<proc, pane>>
  /\ Report(l, IF TwoStage THEN "refused" ELSE "unknown", FALSE)
  /\ UNCHANGED <<member, status, lease, issued, old, crashes>>

\* The deadline of the receipt, or an error, before the start.
GiveUp(l) ==
  /\ stage[l] \in {"claimed", "prepared", "recorded"}
  /\ Report(l, IF Actuated(l) THEN "unknown" ELSE "refused", stage[l] # "claimed")
  /\ UNCHANGED <<member, status, lease, issued, old, proc, pane, crashes>>

\* Mutant: the target is recorded for whatever launch is current.
RecordAny(l) ==
  /\ stage[l] = "prepared" /\ lease[Of(l)] = "free" /\ Active(Of(l))
  /\ member' = [member EXCEPT ![Of(l)] = Targeted(@, l)]
  /\ Goto(l, "recorded")
  /\ UNCHANGED <<status, lease, issued, outcome, old, proc, pane, crashes>>

\* record_target: only for the launch that is current.
Record(l) ==
  /\ stage[l] = "prepared" /\ lease[Of(l)] = "free"
  /\ IF Active(Of(l)) /\ member[Of(l)].launch = l
     THEN /\ member' = [member EXCEPT ![Of(l)] = Targeted(@, l)]
          /\ Goto(l, "recorded") /\ outcome' = outcome
     ELSE /\ Report(l, IF Actuated(l) THEN "unknown" ELSE "refused", TRUE)
          /\ member' = member
  /\ UNCHANGED <<status, lease, issued, old, proc, pane, crashes>>

\* startPrepared() on Herdr.  A pane that is closed or busy is a refusal; the
\* answer to a start may be lost.
Start(l) ==
  /\ TwoStage /\ stage[l] = "recorded"
  /\ \/ /\ pane[l] = "open"
        /\ proc' = [proc EXCEPT ![l] = "starting"]
        /\ Report(l, "started", FALSE) \/ Report(l, "unknown", FALSE)
     \/ /\ proc' = proc
        /\ Report(l, "refused", FALSE) \/ Report(l, "unknown", FALSE)
  /\ UNCHANGED <<member, status, lease, issued, old, pane, crashes>>

\* On every other carrier the process runs already.
StartDone(l) ==
  /\ ~TwoStage /\ stage[l] = "recorded"
  /\ Report(l, "started", FALSE)
  /\ UNCHANGED <<member, status, lease, issued, old, proc, pane, crashes>>

\* Mutant: the outcome of a launch is recorded on whatever launch is current.
CompleteAny(l) ==
  /\ stage[l] = "reporting" /\ lease[Of(l)] = "free"
  /\ member' = IF Active(Of(l))
               THEN [member EXCEPT ![Of(l)] =
                       Completed(@, outcome[l].phase,
                                 IF outcome[l].withTarget THEN l ELSE @.target)]
               ELSE member
  /\ Goto(l, "done")
  /\ UNCHANGED <<status, lease, issued, outcome, old, proc, pane, crashes>>

\* complete_launch: a completion of another launch changes nothing.
Complete(l) ==
  /\ stage[l] = "reporting" /\ lease[Of(l)] = "free"
  /\ member' = IF Active(Of(l)) /\ member[Of(l)].launch = l
               THEN [member EXCEPT ![Of(l)] =
                       Completed(@, outcome[l].phase,
                                 IF outcome[l].withTarget THEN l ELSE @.target)]
               ELSE member
  /\ Goto(l, "done")
  /\ UNCHANGED <<status, lease, issued, outcome, old, proc, pane, crashes>>

\* The deadline passes between the claim and the launch, or the completion
\* cannot be written: nobody pursues the launch any more.
Abandon(l) ==
  /\ stage[l] \in {"claimed", "reporting"}
  /\ Goto(l, "done")
  /\ UNCHANGED <<member, status, lease, issued, outcome, old, proc, pane, crashes>>

\* The process of the Leader ends: its launches and its stop stay as they are.
LeaderCrash ==
  /\ crashes < MaxCrashes
  /\ stage' = [l \in Launches |-> IF stage[l] = "unused" THEN "unused" ELSE "done"]
  /\ lease' = [m \in Memberships |-> IF lease[m] = "process" THEN "process" ELSE "free"]
  /\ crashes' = crashes + 1
  /\ UNCHANGED <<member, status, issued, outcome, old, proc, pane>>

\* Time passes; only on Herdr does a decision depend on it.
Age(m) ==
  /\ TwoStage /\ Active(m) /\ m \notin old
  /\ old' = old \cup {m}
  /\ UNCHANGED <<member, status, lease, stage, issued, outcome, proc, pane, crashes>>

-----------------------------------------------------------------------------
(* The process: admitWorker(), admitRuntimeStartup() *)

SameLaunch(l) == member[Of(l)].launch = l

Admissible(l) ==
  /\ Active(Of(l)) /\ SameLaunch(l)
  /\ \/ /\ member[Of(l)].kind = "prepared" /\ member[Of(l)].capability = l
        /\ status = NoStatus \/ Gone(Of(l))
     \/ /\ member[Of(l)].kind = "bound" /\ issued[l].resumes
        /\ Gone(Of(l))

\* Under the lease: the runtime record is claimed, or the process exits.
Admit(l) ==
  /\ proc[l] = "starting" /\ lease[Of(l)] = "free"
  /\ IF Admissible(l)
     THEN /\ status' = [of |-> Of(l), process |-> l, left |-> FALSE]
          /\ proc' = [proc EXCEPT ![l] = "claiming"]
          /\ lease' = [lease EXCEPT ![Of(l)] = "process"]
     ELSE /\ proc' = [proc EXCEPT ![l] = "gone"]
          /\ UNCHANGED <<status, lease>>
  /\ UNCHANGED <<member, stage, issued, outcome, old, pane, crashes>>

\* Mutant: the binding keeps the target that was recorded before.
BindUnplaced(l) ==
  /\ proc[l] = "claiming"
  /\ member' = [member EXCEPT ![Of(l)] = Bound(@, @.target)]
  /\ proc' = [proc EXCEPT ![l] = "running"]
  /\ lease' = [lease EXCEPT ![Of(l)] = "free"]
  /\ UNCHANGED <<status, stage, issued, outcome, old, pane, crashes>>

\* Still under the lease: bind_session consumes the capability, and the target
\* is where the process runs, if it knows.
Bind(l) ==
  /\ proc[l] = "claiming"
  /\ member' = [member EXCEPT ![Of(l)] = Bound(@, IF Located THEN l ELSE @.target)]
  /\ proc' = [proc EXCEPT ![l] = "running"]
  /\ lease' = [lease EXCEPT ![Of(l)] = "free"]
  /\ UNCHANGED <<status, stage, issued, outcome, old, pane, crashes>>

\* The process ends; a lease that it held is recovered (FileLock).
Exit(l) ==
  /\ proc[l] \in {"starting", "claiming", "running", "left"}
  /\ proc' = [proc EXCEPT ![l] = "gone"]
  /\ lease' = IF proc[l] = "claiming" THEN [lease EXCEPT ![Of(l)] = "free"] ELSE lease
  /\ UNCHANGED <<member, status, stage, issued, outcome, old, pane, crashes>>

\* A person opens another Session in the process: recordStop() with new,
\* resume or fork, under the lease of a binding that is current.
Leave(l) ==
  /\ proc[l] = "running" /\ lease[Of(l)] = "free"
  /\ member[Of(l)].kind = "bound" /\ status.process = l
  /\ proc' = [proc EXCEPT ![l] = "left"]
  /\ status' = [status EXCEPT !.left = TRUE]
  /\ UNCHANGED <<member, lease, stage, issued, outcome, old, pane, crashes>>

\* The person opens the Session of the Worker again: it is re-admitted.
Return(l) ==
  /\ proc[l] = "left" /\ lease[Of(l)] = "free"
  /\ member[Of(l)].kind = "bound" /\ SameLaunch(l) /\ Recorded(Of(l)) /\ status.process = l
  /\ proc' = [proc EXCEPT ![l] = "running"]
  /\ status' = [status EXCEPT !.left = FALSE]
  /\ UNCHANGED <<member, lease, stage, issued, outcome, old, pane, crashes>>

-----------------------------------------------------------------------------
(* stopWorker(): killTeammate() and the deactivation, under the lease *)

\* Mutant: the stop does not wait for the pane to be gone.
CloseUnconfirmed(t) ==
  /\ pane' = [pane EXCEPT ![t] = "closed"]
  /\ proc' = [proc EXCEPT ![t] = IF @ = "none" THEN "none" ELSE "gone"] \/ proc' = proc

\* kill() and isAlive() or their like for windows: the pane is closed, and the
\* process in it has ended.
Close(t) ==
  /\ pane' = [pane EXCEPT ![t] = "closed"]
  /\ proc' = [proc EXCEPT ![t] = IF @ = "none" THEN "none" ELSE "gone"]

Kill(m) ==
  LET t == member[m].target IN
  /\ Active(m) /\ \A n \in Memberships : lease[n] \notin {"stop", "stopped", "left"}
  /\ lease[m] = "free"
  /\ \/ /\ Recorded(m) /\ status.left
        /\ lease' = [lease EXCEPT ![m] = "left"]
        /\ UNCHANGED <<status, proc, pane>>
     \/ /\ Gone(m) /\ ~status.left
        /\ status' = NoStatus
        /\ lease' = [lease EXCEPT ![m] = "stopped"]
        /\ UNCHANGED <<proc, pane>>
     \/ /\ ~Gone(m) /\ ~(Recorded(m) /\ status.left) /\ t # None
        /\ Close(t)
        /\ status' = IF Recorded(m) THEN NoStatus ELSE status
        /\ lease' = [lease EXCEPT ![m] = "stopped"]
     \/ /\ t = None /\ ~Recorded(m) /\ ~MayOwnProcess(m)
        /\ lease' = [lease EXCEPT ![m] = "stop"]
        /\ UNCHANGED <<status, proc, pane>>
  /\ UNCHANGED <<member, stage, issued, outcome, old, crashes>>

Deactivate(m) ==
  /\ lease[m] \in {"stop", "stopped", "left"}
  /\ member' = IF lease[m] = "stop" /\ MayOwnProcess(m)
               THEN member ELSE [member EXCEPT ![m] = Deactivated(@)]
  /\ old' = old \ {m}
  /\ lease' = [lease EXCEPT ![m] = "free"]
  /\ UNCHANGED <<status, stage, issued, outcome, proc, pane, crashes>>

-----------------------------------------------------------------------------

Init ==
  /\ member = [m \in Memberships |-> Unused]
  /\ status = NoStatus
  /\ lease = [m \in Memberships |-> "free"]
  /\ stage = [l \in Launches |-> "unused"]
  /\ issued = [l \in Launches |-> [of |-> None, resumes |-> FALSE]]
  /\ outcome = [l \in Launches |-> [phase |-> "requested", withTarget |-> FALSE]]
  /\ old = {}
  /\ proc = [l \in Launches |-> "none"]
  /\ pane = [l \in Launches |-> "none"]
  /\ crashes = 0

Next ==
  \/ Create \/ Relaunch \/ LeaderCrash
  \/ \E l \in Launches :
       \/ Prepare(l) \/ PrepareFails(l) \/ GiveUp(l) \/ Record(l) \/ Start(l) \/ StartDone(l)
       \/ Complete(l) \/ Abandon(l)
       \/ Admit(l) \/ Bind(l) \/ Exit(l) \/ Leave(l) \/ Return(l)
  \/ \E m \in Memberships : Kill(m) \/ Deactivate(m) \/ Age(m)

Spec == Init /\ [][Next]_vars

-----------------------------------------------------------------------------

Alive == {l \in Launches : proc[l] \in {"starting", "claiming", "running"}}

Working == {l \in Launches : proc[l] \in {"claiming", "running"}}

\* "One current Membership admits one live Pi process generation": the Worker
\* never has two processes, of one Membership or of two.
OneWorker == \A k, l \in Working : k = l

\* No Membership has two processes under way, whatever is retried, however
\* late a launch is: "unknown launch evidence never authorizes another spawn".
OneLaunchActuates == \A k, l \in Alive : Of(k) = Of(l) => k = l

\* "`refused` asserts that no process started for this launch".
RefusedNeverRuns ==
  \A m \in Memberships :
    Active(m) /\ member[m].launch # None /\ member[m].phase = "refused"
    => proc[member[m].launch] = "none"

\* When a Worker has been stopped, no process of it works on.
StoppedMeansStopped ==
  \A m \in Memberships : member[m].kind = "inactive" => \A l \in Working : Of(l) # m

\* The process that works is the one that the runtime record names, so that
\* its exit can be seen and it can be replaced.
WorkersAreRecorded ==
  \A l \in Working : status.process = l /\ status.of = Of(l) /\ Active(Of(l))

-----------------------------------------------------------------------------
(* Why this holds, whatever the carrier.  "Under way" is a process that has  *)
(* not ended and has not left.                                             *)

UnderWay == {"starting", "claiming", "running"}

\* Nothing has been started for a launch before its start; a launch that is
\* used is of a Membership that is used.
LaunchesStartOnce == \A l \in Launches :
  /\ stage[l] # "unused" => Of(l) \in Memberships /\ member[Of(l)].kind # "unused"
  /\ \/ stage[l] \in {"unused", "claimed"}
     \/ TwoStage /\ stage[l] \in {"prepared", "recorded"}
     \/ stage[l] = "reporting" /\ outcome[l].phase = "refused"
     => proc[l] = "none"

\* A launch that can still start a process is current, and on Herdr its pane
\* is the target; so is one that has.
StartsAreCurrent == \A l \in Launches :
  /\ \/ stage[l] = "claimed" /\ ~TwoStage
     \/ stage[l] = "recorded" /\ TwoStage
     \/ proc[l] \in UnderWay
     => member[Of(l)].launch = l
  /\ TwoStage /\ (stage[l] = "recorded" \/ proc[l] \in UnderWay \cup {"left"})
       /\ member[Of(l)].launch = l
     => member[Of(l)].target = l

\* A launch that is refused is over.
RefusedIsOver == \A m \in Memberships, l \in Launches :
  member[m].launch = l /\ member[m].phase = "refused" => stage[l] = "done" /\ proc[l] = "none"

\* The runtime record of a Membership is that of its launch or of the one that
\* this launch replaces.
RecordIsKnown ==
  /\ status # NoStatus => /\ status.process \in Launches /\ status.of = Of(status.process)
                          /\ proc[status.process] \in {"claiming", "running", "left", "gone"}
  /\ \A m \in Memberships : member[m].kind # "unused" /\ Recorded(m) =>
       status.process \in {member[m].launch, member[m].prior}

LaunchInv == LaunchesStartOnce /\ StartsAreCurrent /\ RefusedIsOver /\ RecordIsKnown

(* Why a stop ends the process, where the target is known.                  *)

\* The process that works is recorded and of the current launch.
WorkersAreCurrent == \A l \in Working :
  /\ status = [of |-> Of(l), process |-> l, left |-> FALSE]
  /\ member[Of(l)].launch = l
  /\ member[Of(l)].kind = "bound" \/ (member[Of(l)].kind = "prepared" /\ proc[l] = "claiming")
  /\ proc[l] = "claiming" => lease[Of(l)] = "process"

\* The pane of a process that is bound is the target of its Membership.
TargetsAreKnown == \A l \in Launches :
  proc[l] \in {"running", "left"} /\ member[Of(l)].launch = l => member[Of(l)].target = l

\* Nobody works while the stop holds the lease.
StopsAreAlone == \A m \in Memberships :
  lease[m] \in {"stop", "stopped", "left"} => \A l \in Working : Of(l) # m

StopInv == WorkersAreCurrent /\ TargetsAreKnown /\ StopsAreAlone

\* "An expired launch that never started retries automatically": a launch that
\* nobody pursues any more and that recorded no target does not keep its
\* Membership waiting.
ExpiredLaunchesAreRetried ==
  \A m \in Memberships :
    LET l == member[m].launch IN
    /\ Active(m) /\ TwoStage /\ m \in old
    /\ stage[l] = "done" /\ proc[l] = "none" /\ member[m].target # l
    => ~LaunchPending(m)
=============================================================================
