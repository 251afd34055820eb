------------------------ MODULE WorkerLaunchProofs ------------------------
(***************************************************************************)
(* A Worker has one process: for any number of Memberships, launches,       *)
(* crashes of the Leader and lost answers, on every carrier.               *)
(***************************************************************************)
EXTENDS WorkerLaunch, TLAPS

\* Nobody has the number of a launch or of a Membership.
LEMMA NobodyIsNone == None \notin Launches /\ None \notin Memberships
BY ConstantsAssumption DEF None

\* What the events of the machine leave of a Membership.
LEMMA RelaunchedFacts ==
  ASSUME NEW r \in Membership, NEW l \in Launches,
         NEW t \in Launches \cup {None}
  PROVE  LET s == Relaunched(r, l, t) IN
           /\ s \in Membership /\ s.kind = r.kind /\ s.target = r.target
           /\ s.launch = l /\ s.phase = "requested" /\ s.prior = t
BY DEF Membership, Phases, Relaunched

\* The record of a target changes the target alone.
LEMMA TargetedFacts ==
  ASSUME NEW r \in Membership, NEW l \in Launches
  PROVE  LET s == Targeted(r, l) IN
           /\ s \in Membership /\ s.kind = r.kind /\ s.target = l
           /\ s.launch = r.launch /\ s.phase = r.phase /\ s.prior = r.prior
BY DEF Membership, Targeted

\* A completion changes the phase and the target.
LEMMA CompletedFacts ==
  ASSUME NEW r \in Membership, NEW p \in Phases,
         NEW t \in Launches \cup {None}
  PROVE  LET s == Completed(r, p, t) IN
           /\ s \in Membership /\ s.kind = r.kind /\ s.target = t
           /\ s.launch = r.launch /\ s.phase = p /\ s.prior = r.prior
BY DEF Membership, Completed

\* A binding keeps the launch and its phase.
LEMMA BoundFacts ==
  ASSUME NEW r \in Membership, NEW t \in Launches \cup {None}
  PROVE  LET s == Bound(r, t) IN
           /\ s \in Membership /\ s.kind = "bound" /\ s.target = t
           /\ s.launch = r.launch /\ s.phase = r.phase /\ s.prior = r.prior
BY DEF Membership, Bound

\* A deactivation changes the kind alone.
LEMMA DeactivatedFacts ==
  ASSUME NEW r \in Membership
  PROVE  LET s == Deactivated(r) IN
           /\ s \in Membership /\ s.kind = "inactive" /\ s.target = r.target
           /\ s.launch = r.launch /\ s.phase = r.phase /\ s.prior = r.prior
BY DEF Membership, Deactivated

\* The types hold at first.
LEMMA TypeInit == ASSUME Init PROVE TypeOK
BY DEF Init, TypeOK, Membership, Unused, NoStatus, Phases

\* What a launch that is over reports.
LEMMA ReportTypes ==
  ASSUME TypeOK, NEW l \in Launches, NEW p \in Phases, NEW b \in BOOLEAN, Report(l, p, b)
  PROVE  /\ outcome' \in [Launches -> [phase: Phases, withTarget: BOOLEAN]]
         /\ stage' \in [Launches -> {"unused", "claimed", "prepared", "recorded", "reporting",
                                     "done"}]
BY DEF TypeOK, Report, Goto

\* Every step of a launch keeps the types.
LEMMA LaunchesKeepTypes ==
  ASSUME TypeOK, NEW l \in Launches,
         \/ Prepare(l) \/ PrepareFails(l) \/ GiveUp(l) \/ Record(l) \/ Start(l)
         \/ StartDone(l) \/ Complete(l) \/ Abandon(l)
  PROVE  TypeOK'
<1> USE DEF TypeOK
<1>0. {"started", "refused", "unknown"} \subseteq Phases
  BY DEF Phases
<1>1. CASE Prepare(l)
  BY <1>1 DEF Prepare, OpenPane, Goto
<1>2. CASE PrepareFails(l)
  <2> DEFINE p == IF TwoStage THEN "refused" ELSE "unknown"
  <2>1. p \in Phases /\ Report(l, p, FALSE)
    BY <1>0, <1>2 DEF PrepareFails
  <2>2. /\ outcome' \in [Launches -> [phase: Phases, withTarget: BOOLEAN]]
        /\ stage' \in [Launches -> {"unused", "claimed", "prepared", "recorded", "reporting",
                                    "done"}]
    BY <2>1, ReportTypes
  <2>3. /\ proc' \in [Launches -> {"none", "starting", "claiming", "running", "left", "gone"}]
        /\ pane' \in [Launches -> {"none", "open", "closed"}]
    BY <1>2 DEF PrepareFails, OpenPane
  <2> QED
    BY <1>2, <2>2, <2>3 DEF PrepareFails
<1>3. CASE GiveUp(l)
  BY <1>0, <1>3, ReportTypes DEF GiveUp
<1>4. CASE Record(l)
  <2>1. \A m \in Memberships : Targeted(member[m], l) \in Membership
    BY TargetedFacts
  <2>2. CASE Active(Of(l)) /\ member[Of(l)].launch = l
    <3>1. /\ member' = [member EXCEPT ![Of(l)] = Targeted(@, l)]
          /\ stage' = [stage EXCEPT ![l] = "recorded"]
          /\ UNCHANGED <<status, lease, issued, outcome, old, proc, pane, crashes>>
      BY <1>4, <2>2 DEF Record, Goto
    <3>2. member' \in [Memberships -> Membership]
      BY <2>1, <3>1
    <3> QED
      BY <3>1, <3>2
  <2>3. CASE ~(Active(Of(l)) /\ member[Of(l)].launch = l)
    BY <1>0, <1>4, <2>3, ReportTypes DEF Record
  <2> QED
    BY <2>2, <2>3
<1>5. CASE Start(l)
  <2>1. proc' \in [Launches -> {"none", "starting", "claiming", "running", "left", "gone"}]
    BY <1>5 DEF Start
  <2> QED
    BY <1>0, <1>5, <2>1, ReportTypes DEF Start
<1>6. CASE StartDone(l)
  BY <1>0, <1>6, ReportTypes DEF StartDone
<1>7. CASE Complete(l)
  <2> DEFINE After(m) ==
        Completed(member[m], outcome[l].phase,
                  IF outcome[l].withTarget THEN l ELSE member[m].target)
  <2>1. \A m \in Memberships : member[m].target \in Launches \cup {None}
    BY DEF Membership
  <2>2. outcome[l].phase \in Phases
    OBVIOUS
  <2>3. \A m \in Memberships : After(m) \in Membership
    <3> TAKE m \in Memberships
    <3>1. (IF outcome[l].withTarget THEN l ELSE member[m].target) \in Launches \cup {None}
      BY <2>1
    <3>2. member[m] \in Membership
      OBVIOUS
    <3> QED
      BY <2>2, <3>1, <3>2, CompletedFacts
  <2> QED
    BY <1>7, <2>3 DEF Complete, Goto
<1>8. CASE Abandon(l)
  BY <1>8 DEF Abandon, Goto
<1> QED
  BY <1>1, <1>2, <1>3, <1>4, <1>5, <1>6, <1>7, <1>8

\* So does every step of a process ...
LEMMA ProcessesKeepTypes ==
  ASSUME TypeOK, NEW l \in Launches,
         Admit(l) \/ Bind(l) \/ Exit(l) \/ Leave(l) \/ Return(l)
  PROVE  TypeOK'
<1> USE DEF TypeOK, Phases
<1>1. CASE Admit(l)
  <2>1. Of(l) \in Memberships \cup {None}
    BY DEF Of
  <2>2. status' \in [of: Memberships \cup {None}, process: Launches \cup {None}, left: BOOLEAN]
    <3>1. [of |-> Of(l), process |-> l, left |-> FALSE]
            \in [of: Memberships \cup {None}, process: Launches \cup {None}, left: BOOLEAN]
      BY <2>1
    <3>2. status' \in {status, [of |-> Of(l), process |-> l, left |-> FALSE]}
      BY <1>1 DEF Admit
    <3> QED
      BY <3>1, <3>2
  <2>3. /\ proc' \in [Launches -> {"none", "starting", "claiming", "running", "left", "gone"}]
        /\ lease' \in [Memberships -> {"free", "process", "stop", "stopped", "left"}]
    BY <1>1 DEF Admit
  <2>4. UNCHANGED <<member, stage, issued, outcome, old, pane, crashes>>
    BY <1>1 DEF Admit
  <2> QED
    BY <2>2, <2>3, <2>4
<1>2. CASE Bind(l)
  <2> DEFINE After(m) == Bound(member[m], IF Located THEN l ELSE member[m].target)
  <2>1. \A m \in Memberships : member[m].target \in Launches \cup {None}
    BY DEF Membership
  <2>2. \A m \in Memberships : After(m) \in Membership
    BY <2>1, BoundFacts
  <2> QED
    BY <1>2, <2>2 DEF Bind
<1>3. CASE Exit(l)
  BY <1>3 DEF Exit
<1>4. CASE Leave(l)
  BY <1>4 DEF Leave
<1>5. CASE Return(l)
  BY <1>5 DEF Return
<1> QED
  BY <1>1, <1>2, <1>3, <1>4, <1>5

\* ... and everything else.
LEMMA OthersKeepTypes ==
  ASSUME TypeOK,
         \/ Create \/ Relaunch \/ LeaderCrash \/ UNCHANGED vars
         \/ \E m \in Memberships : Kill(m) \/ Deactivate(m) \/ Age(m)
  PROVE  TypeOK'
<1> USE DEF TypeOK, Phases
<1>1. CASE Create
  <2>1. \A l \in Launches :
          [Unused EXCEPT !.kind = "prepared", !.capability = l, !.launch = l] \in Membership
    BY DEF Unused, Membership
  <2> QED
    <3>1. PICK m \in Memberships, l \in Launches :
            /\ member' = [member EXCEPT ![m] =
                  [Unused EXCEPT !.kind = "prepared", !.capability = l, !.launch = l]]
            /\ Claim(l, m, FALSE)
            /\ UNCHANGED <<status, lease, outcome, old, proc, pane, crashes>>
      BY <1>1 DEF Create, NextMembership, NextLaunch
    <3>2. member' \in [Memberships -> Membership]
      BY <2>1, <3>1
    <3> QED
      BY <3>1, <3>2 DEF Claim
<1>2. CASE Relaunch
  <2>1. \A m \in Memberships, l \in Launches :
          Relaunched(member[m], l, status.process) \in Membership
    BY RelaunchedFacts
  <2> QED
    BY <1>2, <2>1 DEF Relaunch, Claim, NextLaunch
<1>3. CASE LeaderCrash
  BY <1>3, ConstantsAssumption DEF LeaderCrash
<1>4. CASE UNCHANGED vars
  BY <1>4 DEF vars
<1>5. ASSUME NEW m \in Memberships, Kill(m) PROVE TypeOK'
  <2>1. status' \in [of: Memberships \cup {None}, process: Launches \cup {None}, left: BOOLEAN]
    <3>1. NoStatus \in [of: Memberships \cup {None}, process: Launches \cup {None}, left: BOOLEAN]
      BY DEF NoStatus
    <3> QED
      BY <1>5, <3>1 DEF Kill
  <2>2. /\ proc' \in [Launches -> {"none", "starting", "claiming", "running", "left", "gone"}]
        /\ pane' \in [Launches -> {"none", "open", "closed"}]
    BY <1>5 DEF Kill, Close
  <2> QED
    BY <1>5, <2>1, <2>2 DEF Kill
<1>6. ASSUME NEW m \in Memberships, Deactivate(m) PROVE TypeOK'
  <2>1. Deactivated(member[m]) \in Membership
    BY DeactivatedFacts
  <2> QED
    BY <1>6, <2>1 DEF Deactivate
<1>7. ASSUME NEW m \in Memberships, Age(m) PROVE TypeOK'
  BY <1>7 DEF Age
<1> QED
  BY <1>1, <1>2, <1>3, <1>4, <1>5, <1>6, <1>7

\* Every step keeps the types.
LEMMA TypeStep == ASSUME TypeOK, [Next]_vars PROVE TypeOK'
BY LaunchesKeepTypes, ProcessesKeepTypes, OthersKeepTypes DEF Next

-----------------------------------------------------------------------------
(* What the steps change *)

\* A report ends a launch and records its outcome.
LEMMA ReportEffect ==
  ASSUME TypeOK, NEW l \in Launches, NEW p \in Phases, NEW b \in BOOLEAN, Report(l, p, b)
  PROVE  \A k \in Launches :
           /\ stage'[k] = IF k = l THEN "reporting" ELSE stage[k]
           /\ outcome'[k].phase = IF k = l THEN p ELSE outcome[k].phase
BY DEF TypeOK, Report, Goto

\* The target is recorded only for the launch that is current.
LEMMA RecordEffect ==
  ASSUME TypeOK, NEW l \in Launches, Record(l)
  PROVE  /\ \A m \in Memberships :
              /\ member'[m].kind = member[m].kind /\ member'[m].launch = member[m].launch
              /\ member'[m].phase = member[m].phase /\ member'[m].prior = member[m].prior
              /\ \/ member'[m].target = member[m].target
                 \/ m = Of(l) /\ member[m].launch = l /\ member'[m].target = l
         /\ \/ /\ stage' = [stage EXCEPT ![l] = "recorded"] /\ outcome' = outcome
               /\ member[Of(l)].launch = l
               /\ Of(l) \in Memberships => member'[Of(l)].target = l
            \/ Report(l, IF Actuated(l) THEN "unknown" ELSE "refused", TRUE)
<1>1. CASE Active(Of(l)) /\ member[Of(l)].launch = l
  <2>1. \A m \in Memberships : member'[m] = IF m = Of(l) THEN Targeted(member[m], l) ELSE member[m]
    BY <1>1 DEF TypeOK, Record
  <2>2. \A m \in Memberships : member[m] \in Membership
    BY DEF TypeOK
  <2>3. \A m \in Memberships :
          /\ member'[m].kind = member[m].kind /\ member'[m].launch = member[m].launch
          /\ member'[m].phase = member[m].phase /\ member'[m].prior = member[m].prior
          /\ member'[m].target = IF m = Of(l) THEN l ELSE member[m].target
    BY <2>1, <2>2, TargetedFacts
  <2>4. stage' = [stage EXCEPT ![l] = "recorded"] /\ outcome' = outcome
    BY <1>1 DEF Record, Goto
  <2> QED
    BY <1>1, <2>3, <2>4
<1>2. CASE ~(Active(Of(l)) /\ member[Of(l)].launch = l)
  BY <1>2 DEF Record
<1> QED
  BY <1>1, <1>2

\* A completion reaches its Membership only for the launch that is current.
LEMMA CompleteEffect ==
  ASSUME TypeOK, NEW l \in Launches, Complete(l)
  PROVE  \A m \in Memberships :
           /\ member'[m].kind = member[m].kind /\ member'[m].launch = member[m].launch
           /\ member'[m].prior = member[m].prior
           /\ \/ member'[m] = member[m]
              \/ /\ m = Of(l) /\ member[m].launch = l
                 /\ member'[m].phase = outcome[l].phase
                 /\ member'[m].target \in {l, member[m].target}
<1>1. CASE Active(Of(l)) /\ member[Of(l)].launch = l
  <2> DEFINE Target(m) == IF outcome[l].withTarget THEN l ELSE member[m].target
  <2>1. \A m \in Memberships :
          member'[m] = IF m = Of(l) THEN Completed(member[m], outcome[l].phase, Target(m))
                                    ELSE member[m]
    BY <1>1 DEF TypeOK, Complete
  <2>2. outcome[l].phase \in Phases /\ \A m \in Memberships : member[m] \in Membership
    BY DEF TypeOK
  <2>3. \A m \in Memberships : Target(m) \in Launches \cup {None}
    <3>1. \A m \in Memberships : member[m].target \in Launches \cup {None}
      BY <2>2 DEF Membership
    <3> QED
      BY <3>1
  <2>4. \A m \in Memberships : Target(m) \in {l, member[m].target}
    OBVIOUS
  <2> HIDE DEF Target
  <2> QED
    BY <1>1, <2>1, <2>2, <2>3, <2>4, CompletedFacts
<1>2. CASE ~(Active(Of(l)) /\ member[Of(l)].launch = l)
  BY <1>2 DEF Complete
<1> QED
  BY <1>1, <1>2

\* A binding changes the kind and the target of one Membership.
LEMMA BindEffect ==
  ASSUME TypeOK, NEW l \in Launches, Bind(l)
  PROVE  \A m \in Memberships :
           /\ member'[m].kind = IF m = Of(l) THEN "bound" ELSE member[m].kind
           /\ member'[m].launch = member[m].launch
           /\ member'[m].phase = member[m].phase /\ member'[m].prior = member[m].prior
           /\ member'[m].target = IF m = Of(l) /\ Located THEN l ELSE member[m].target
<1> DEFINE Target(m) == IF Located THEN l ELSE member[m].target
<1>1. \A m \in Memberships :
        member'[m] = IF m = Of(l) THEN Bound(member[m], Target(m)) ELSE member[m]
  BY DEF TypeOK, Bind
<1>2. \A m \in Memberships : member[m] \in Membership
  BY DEF TypeOK
<1>3. \A m \in Memberships : Target(m) \in Launches \cup {None}
  BY <1>2 DEF Membership
<1>4. \A m \in Memberships : Target(m) = IF Located THEN l ELSE member[m].target
  OBVIOUS
<1> HIDE DEF Target
<1> QED
  BY <1>1, <1>2, <1>3, <1>4, BoundFacts

\* A deactivation changes the kind of one Membership.
LEMMA DeactivateEffect ==
  ASSUME TypeOK, NEW m \in Memberships, Deactivate(m)
  PROVE  \A n \in Memberships :
           /\ member'[n].kind \in {member[n].kind, IF n = m THEN "inactive" ELSE member[n].kind}
           /\ member'[n].launch = member[n].launch /\ member'[n].target = member[n].target
           /\ member'[n].phase = member[n].phase /\ member'[n].prior = member[n].prior
<1>1. member' \in {member, [member EXCEPT ![m] = Deactivated(member[m])]}
  BY DEF TypeOK, Deactivate
<1>2. \A n \in Memberships : member[n] \in Membership
  BY DEF TypeOK
<1> QED
  BY <1>1, <1>2, DeactivatedFacts DEF TypeOK

\* A new Membership comes with a launch that was not used.
LEMMA CreateEffect ==
  ASSUME TypeOK, Create
  PROVE  \E m \in Memberships, l \in Launches :
           /\ member[m].kind = "unused" /\ stage[l] = "unused"
           /\ member'[m].kind = "prepared" /\ member'[m].launch = l
           /\ member'[m].phase = "requested"
           /\ \A n \in Memberships \ {m} : member'[n] = member[n]
           /\ stage'[l] = "claimed" /\ Of(l)' = m
           /\ \A k \in Launches \ {l} : stage'[k] = stage[k] /\ Of(k)' = Of(k)
           /\ UNCHANGED <<status, lease, outcome, proc>>
<1>1. PICK m \in Memberships, l \in Launches :
        /\ member[m].kind = "unused" /\ stage[l] = "unused"
        /\ member' = [member EXCEPT ![m] =
              [Unused EXCEPT !.kind = "prepared", !.capability = l, !.launch = l]]
        /\ Claim(l, m, FALSE)
        /\ UNCHANGED <<status, lease, outcome, old, proc, pane, crashes>>
  BY DEF Create, NextMembership, NextLaunch
<1>2. /\ member'[m].kind = "prepared" /\ member'[m].launch = l /\ member'[m].phase = "requested"
      /\ \A n \in Memberships \ {m} : member'[n] = member[n]
  <2>1. member'[m] = [Unused EXCEPT !.kind = "prepared", !.capability = l, !.launch = l]
    BY <1>1 DEF TypeOK
  <2>2. \A n \in Memberships \ {m} : member'[n] = member[n]
    BY <1>1 DEF TypeOK
  <2> QED
    BY <2>1, <2>2 DEF Unused
<1>3. /\ stage'[l] = "claimed" /\ Of(l)' = m
      /\ \A k \in Launches \ {l} : stage'[k] = stage[k] /\ Of(k)' = Of(k)
  BY <1>1 DEF TypeOK, Claim, Of
<1> QED
  BY <1>1, <1>2, <1>3

\* A relaunch gives a Membership a launch that was not used.
LEMMA RelaunchEffect ==
  ASSUME TypeOK, Relaunch
  PROVE  \E m \in Memberships, l \in Launches :
           /\ Active(m) /\ lease[m] = "free" /\ MayRelaunch(m) /\ stage[l] = "unused"
           /\ member'[m].kind = member[m].kind /\ member'[m].launch = l
           /\ member'[m].phase = "requested" /\ member'[m].prior = status.process
           /\ \A n \in Memberships \ {m} : member'[n] = member[n]
           /\ stage'[l] = "claimed" /\ Of(l)' = m
           /\ \A k \in Launches \ {l} : stage'[k] = stage[k] /\ Of(k)' = Of(k)
           /\ UNCHANGED <<status, lease, outcome, proc>>
<1>1. PICK m \in Memberships, l \in Launches :
        /\ Active(m) /\ lease[m] = "free" /\ MayRelaunch(m) /\ stage[l] = "unused"
        /\ member' = [member EXCEPT ![m] = Relaunched(@, l, status.process)]
        /\ Claim(l, m, member[m].kind = "bound")
        /\ UNCHANGED <<status, lease, outcome, proc>>
  BY DEF Relaunch, NextLaunch
<1>2. member[m] \in Membership /\ status.process \in Launches \cup {None}
  BY DEF TypeOK
<1>3. /\ member'[m].kind = member[m].kind /\ member'[m].launch = l
      /\ member'[m].phase = "requested" /\ member'[m].prior = status.process
      /\ \A n \in Memberships \ {m} : member'[n] = member[n]
  BY <1>1, <1>2, RelaunchedFacts DEF TypeOK
<1>4. /\ stage'[l] = "claimed" /\ Of(l)' = m
      /\ \A k \in Launches \ {l} : stage'[k] = stage[k] /\ Of(k)' = Of(k)
  BY <1>1 DEF TypeOK, Claim, Of
<1> QED
  BY <1>1, <1>3, <1>4

-----------------------------------------------------------------------------
(* LaunchInv: every launch acts at most once *)

\* The invariant of the launches holds at first.
LEMMA LaunchInvInit == ASSUME Init PROVE LaunchInv
BY NobodyIsNone DEF Init, LaunchInv, LaunchesStartOnce, StartsAreCurrent, RefusedIsOver,
  RecordIsKnown, Recorded, NoStatus, Unused, UnderWay

\* Every step of a launch keeps it.
LEMMA LaunchesKeepLaunchInv ==
  ASSUME TypeOK, LaunchInv, NEW l \in Launches,
         \/ Prepare(l) \/ PrepareFails(l) \/ GiveUp(l) \/ Record(l) \/ Start(l)
         \/ StartDone(l) \/ Complete(l) \/ Abandon(l)
  PROVE  LaunchInv'
<1> USE NobodyIsNone DEF LaunchInv, UnderWay
<1>0. \A k \in Launches : Of(k) \in Memberships \cup {None}
  BY DEF TypeOK, Of
<1>1. CASE Prepare(l)
  <2>1. LaunchesStartOnce'
    BY <1>1 DEF TypeOK, Of, LaunchesStartOnce, Prepare, OpenPane, Goto
  <2>2. StartsAreCurrent'
    BY <1>1 DEF Of, StartsAreCurrent, Prepare, OpenPane, Goto
  <2>3. RefusedIsOver'
    BY <1>1 DEF RefusedIsOver, Prepare, OpenPane, Goto
  <2>4. RecordIsKnown'
    BY <1>1 DEF Of, LaunchesStartOnce, RecordIsKnown, Recorded, Prepare, OpenPane
  <2> QED
    BY <2>1, <2>2, <2>3, <2>4
<1>2. CASE PrepareFails(l)
  <2>1. LaunchesStartOnce'
    BY <1>2 DEF TypeOK, Of, LaunchesStartOnce, PrepareFails, OpenPane, Report, Goto
  <2>2. StartsAreCurrent'
    BY <1>2 DEF TypeOK, Of, StartsAreCurrent, PrepareFails, OpenPane, Report, Goto
  <2>3. RefusedIsOver'
    <3>1. /\ UNCHANGED member /\ stage[l] = "claimed"
          /\ \A k \in Launches \ {l} : stage'[k] = stage[k] /\ proc'[k] = proc[k]
      BY <1>2 DEF TypeOK, PrepareFails, OpenPane, Report, Goto
    <3> QED
      BY <3>1 DEF RefusedIsOver
  <2>4. RecordIsKnown'
    BY <1>2
       DEF TypeOK, Of, LaunchesStartOnce, RecordIsKnown, Recorded, PrepareFails, OpenPane
  <2> QED
    BY <2>1, <2>2, <2>3, <2>4
<1>3. CASE GiveUp(l)
  <2>1. LaunchesStartOnce'
    BY <1>3 DEF TypeOK, Of, LaunchesStartOnce, GiveUp, Actuated, Report, Goto
  <2>2. StartsAreCurrent'
    BY <1>3 DEF Of, StartsAreCurrent, GiveUp, Report, Goto
  <2>3. RefusedIsOver'
    BY <1>3 DEF RefusedIsOver, GiveUp, Report, Goto
  <2>4. RecordIsKnown'
    BY <1>3 DEF Of, RecordIsKnown, Recorded, GiveUp
  <2> QED
    BY <2>1, <2>2, <2>3, <2>4
<1>4. CASE Record(l)
  <2>1. UNCHANGED <<status, issued, proc>> /\ stage[l] = "prepared"
    BY <1>4 DEF Record
  <2>2. \A m \in Memberships :
          /\ member'[m].kind = member[m].kind /\ member'[m].launch = member[m].launch
          /\ member'[m].phase = member[m].phase /\ member'[m].prior = member[m].prior
          /\ \/ member'[m].target = member[m].target
             \/ m = Of(l) /\ member[m].launch = l /\ member'[m].target = l
    BY <1>4, RecordEffect
  <2>3. /\ \A k \in Launches \ {l} :
             stage'[k] = stage[k] /\ outcome'[k].phase = outcome[k].phase
        /\ \/ /\ stage'[l] = "recorded" /\ member[Of(l)].launch = l
              /\ Of(l) \in Memberships => member'[Of(l)].target = l
           \/ stage'[l] = "reporting" /\ (outcome'[l].phase = "refused" => TwoStage)
    <3> DEFINE p == IF Actuated(l) THEN "unknown" ELSE "refused"
    <3>1. p \in Phases /\ (p = "refused" => TwoStage)
      BY <2>1 DEF Actuated, Phases
    <3>2. \/ /\ stage' = [stage EXCEPT ![l] = "recorded"] /\ outcome' = outcome
             /\ member[Of(l)].launch = l
             /\ Of(l) \in Memberships => member'[Of(l)].target = l
          \/ Report(l, p, TRUE)
      BY <1>4, RecordEffect
    <3>3. CASE Report(l, p, TRUE)
      BY <3>1, <3>3, ReportEffect
    <3> QED
      BY <3>2, <3>3 DEF TypeOK
  <2>4. LaunchesStartOnce'
    BY <1>0, <2>1, <2>2, <2>3 DEF Of, LaunchesStartOnce
  <2>5. StartsAreCurrent'
    BY <1>0, <2>1, <2>2, <2>3 DEF Of, LaunchesStartOnce, StartsAreCurrent
  <2>6. RefusedIsOver'
    BY <2>1, <2>2, <2>3 DEF Of, RefusedIsOver
  <2>7. RecordIsKnown'
    BY <2>1, <2>2 DEF Of, RecordIsKnown, Recorded
  <2> QED
    BY <2>4, <2>5, <2>6, <2>7
<1>5. CASE Start(l)
  <2>1. LaunchesStartOnce'
    BY <1>0, <1>5 DEF TypeOK, Of, LaunchesStartOnce, Start, Report, Goto
  <2>2. StartsAreCurrent'
    BY <1>0, <1>5 DEF TypeOK, Of, LaunchesStartOnce, StartsAreCurrent, Start, Report, Goto
  <2>3. RefusedIsOver'
    BY <1>0, <1>5, SMTT(60) DEF TypeOK, Of, LaunchesStartOnce, RefusedIsOver, Start, Report, Goto
  <2>4. RecordIsKnown'
    BY <1>0, <1>5
       DEF TypeOK, Of, LaunchesStartOnce, StartsAreCurrent, RecordIsKnown, Recorded, Start,
           Report, Goto
  <2> QED
    BY <2>1, <2>2, <2>3, <2>4
<1>6. CASE StartDone(l)
  <2>1. LaunchesStartOnce'
    BY <1>0, <1>6 DEF TypeOK, Of, LaunchesStartOnce, StartDone, Report, Goto
  <2>2. StartsAreCurrent'
    BY <1>0, <1>6
       DEF TypeOK, Of, LaunchesStartOnce, StartsAreCurrent, StartDone, Report, Goto
  <2>3. RefusedIsOver'
    BY <1>0, <1>6 DEF TypeOK, Of, LaunchesStartOnce, RefusedIsOver, StartDone, Report, Goto
  <2>4. RecordIsKnown'
    BY <1>0, <1>6
       DEF TypeOK, Of, LaunchesStartOnce, StartsAreCurrent, RecordIsKnown, Recorded,
           StartDone, Report, Goto
  <2> QED
    BY <2>1, <2>2, <2>3, <2>4
<1>7. CASE Complete(l)
  <2>1. /\ stage' = [stage EXCEPT ![l] = "done"] /\ stage[l] = "reporting"
        /\ UNCHANGED <<status, issued, outcome, proc>>
    BY <1>7 DEF Complete, Goto
  <2>2. \A m \in Memberships :
          /\ member'[m].kind = member[m].kind /\ member'[m].launch = member[m].launch
          /\ member'[m].prior = member[m].prior
          /\ \/ member'[m] = member[m]
             \/ /\ m = Of(l) /\ member[m].launch = l
                /\ member'[m].phase = outcome[l].phase
                /\ member'[m].target \in {l, member[m].target}
    BY <1>7, CompleteEffect
  <2>3. LaunchesStartOnce'
    BY <1>0, <2>1, <2>2 DEF TypeOK, Of, LaunchesStartOnce
  <2>4. StartsAreCurrent'
    <3>1. \A k \in Launches : stage'[k] = IF k = l THEN "done" ELSE stage[k]
      BY <2>1 DEF TypeOK
    <3>2. \A k \in Launches : Of(k)' = Of(k) /\ (Of(k) \in Memberships \/ Of(k) = None)
      BY <1>0, <2>1 DEF Of
    <3>3. \A k \in Launches : stage[k] # "unused" \/ proc[k] # "none" => Of(k) \in Memberships
      BY DEF LaunchesStartOnce
    <3> QED
      BY <2>1, <2>2, <3>1, <3>2, <3>3 DEF StartsAreCurrent
  <2>5. RefusedIsOver'
    BY <1>0, <2>1, <2>2 DEF TypeOK, Of, LaunchesStartOnce, RefusedIsOver
  <2>6. RecordIsKnown'
    BY <1>0, <2>1, <2>2
       DEF TypeOK, Of, LaunchesStartOnce, StartsAreCurrent, RecordIsKnown, Recorded
  <2> QED
    BY <2>3, <2>4, <2>5, <2>6
<1>8. CASE Abandon(l)
  <2>1. /\ UNCHANGED <<member, status, issued, outcome, proc>>
        /\ stage' = [stage EXCEPT ![l] = "done"] /\ stage[l] \in {"claimed", "reporting"}
    BY <1>8 DEF Abandon, Goto
  <2>2. LaunchesStartOnce'
    BY <1>0, <2>1 DEF TypeOK, Of, LaunchesStartOnce
  <2>3. StartsAreCurrent'
    BY <1>0, <2>1 DEF TypeOK, Of, StartsAreCurrent
  <2>4. RefusedIsOver'
    BY <1>0, <2>1 DEF TypeOK, Of, RefusedIsOver
  <2>5. RecordIsKnown'
    BY <1>0, <2>1 DEF Of, RecordIsKnown, Recorded
  <2> QED
    BY <2>2, <2>3, <2>4, <2>5
<1> QED
  BY <1>1, <1>2, <1>3, <1>4, <1>5, <1>6, <1>7, <1>8

\* So does every step of a process ...
LEMMA ProcessesKeepLaunchInv ==
  ASSUME TypeOK, LaunchInv, NEW l \in Launches,
         Admit(l) \/ Bind(l) \/ Exit(l) \/ Leave(l) \/ Return(l)
  PROVE  LaunchInv'
<1> USE NobodyIsNone DEF LaunchInv, UnderWay
<1>0. \A k \in Launches : Of(k) \in Memberships \cup {None}
  BY DEF TypeOK, Of
<1>1. CASE Admit(l)
  <2>1. LaunchesStartOnce'
    BY <1>0, <1>1 DEF TypeOK, Of, LaunchesStartOnce, Admit, Admissible, SameLaunch, NoStatus
  <2>2. StartsAreCurrent'
    BY <1>0, <1>1
       DEF TypeOK, Of, LaunchesStartOnce, StartsAreCurrent, Admit, Admissible, SameLaunch,
           NoStatus
  <2>3. RefusedIsOver'
    BY <1>0, <1>1, SMTT(60)
       DEF TypeOK, Of, LaunchesStartOnce, RefusedIsOver, Admit, Admissible, SameLaunch,
           NoStatus
  <2>4. RecordIsKnown'
    BY <1>0, <1>1
       DEF TypeOK, Of, LaunchesStartOnce, StartsAreCurrent, RecordIsKnown, Recorded, Admit,
           Admissible, SameLaunch, NoStatus
  <2> QED
    BY <2>1, <2>2, <2>3, <2>4
<1>2. CASE Bind(l)
  <2>1. /\ proc' = [proc EXCEPT ![l] = "running"] /\ proc[l] = "claiming"
        /\ UNCHANGED <<status, stage, issued, outcome>>
    BY <1>2 DEF Bind
  <2>2. \A m \in Memberships :
          /\ member'[m].kind = IF m = Of(l) THEN "bound" ELSE member[m].kind
          /\ member'[m].launch = member[m].launch
          /\ member'[m].phase = member[m].phase /\ member'[m].prior = member[m].prior
          /\ member'[m].target = IF m = Of(l) /\ Located THEN l ELSE member[m].target
    BY <1>2, BindEffect
  <2>3. Of(l) \in Memberships /\ member[Of(l)].kind # "unused" /\ member[Of(l)].launch = l
    BY <2>1 DEF LaunchesStartOnce, StartsAreCurrent
  <2>4. \A k \in Launches : /\ Of(k)' = Of(k)
                             /\ proc'[k] = IF k = l THEN "running" ELSE proc[k]
    BY <2>1 DEF TypeOK, Of
  <2>5. LaunchesStartOnce'
    BY <2>1, <2>2, <2>4 DEF LaunchesStartOnce
  <2>6. StartsAreCurrent'
    BY <1>0, <2>1, <2>2, <2>3, SMTT(60) DEF TypeOK, Of, LaunchesStartOnce, StartsAreCurrent
  <2>7. RefusedIsOver'
    BY <1>0, <2>1, <2>2 DEF TypeOK, Of, LaunchesStartOnce, RefusedIsOver
  <2>8. RecordIsKnown'
    BY <1>0, <2>1, <2>2, <2>3 DEF TypeOK, Of, RecordIsKnown, Recorded
  <2> QED
    BY <2>5, <2>6, <2>7, <2>8
<1>3. CASE Exit(l)
  <2>1. LaunchesStartOnce'
    BY <1>0, <1>3 DEF TypeOK, Of, LaunchesStartOnce, Exit
  <2>2. StartsAreCurrent'
    BY <1>0, <1>3 DEF TypeOK, Of, LaunchesStartOnce, StartsAreCurrent, Exit
  <2>3. RefusedIsOver'
    BY <1>0, <1>3 DEF TypeOK, Of, LaunchesStartOnce, RefusedIsOver, Exit
  <2>4. RecordIsKnown'
    BY <1>0, <1>3
       DEF TypeOK, Of, LaunchesStartOnce, StartsAreCurrent, RecordIsKnown, Recorded, Exit
  <2> QED
    BY <2>1, <2>2, <2>3, <2>4
<1>4. CASE Leave(l)
  <2>1. LaunchesStartOnce'
    BY <1>0, <1>4 DEF TypeOK, Of, LaunchesStartOnce, Leave, NoStatus
  <2>2. StartsAreCurrent'
    BY <1>0, <1>4 DEF TypeOK, Of, LaunchesStartOnce, StartsAreCurrent, Leave, NoStatus
  <2>3. RefusedIsOver'
    BY <1>0, <1>4 DEF TypeOK, Of, LaunchesStartOnce, RefusedIsOver, Leave, NoStatus
  <2>4. RecordIsKnown'
    BY <1>0, <1>4
       DEF TypeOK, Of, LaunchesStartOnce, StartsAreCurrent, RecordIsKnown, Recorded, Leave,
           NoStatus
  <2> QED
    BY <2>1, <2>2, <2>3, <2>4
<1>5. CASE Return(l)
  <2>1. LaunchesStartOnce'
    BY <1>0, <1>5 DEF TypeOK, Of, LaunchesStartOnce, Return, SameLaunch, NoStatus
  <2>2. StartsAreCurrent'
    BY <1>0, <1>5
       DEF TypeOK, Of, LaunchesStartOnce, StartsAreCurrent, Return, SameLaunch, NoStatus
  <2>3. RefusedIsOver'
    BY <1>0, <1>5
       DEF TypeOK, Of, LaunchesStartOnce, RefusedIsOver, Return, SameLaunch, NoStatus
  <2>4. RecordIsKnown'
    BY <1>0, <1>5
       DEF TypeOK, Of, LaunchesStartOnce, StartsAreCurrent, RecordIsKnown, Recorded, Return,
           SameLaunch, NoStatus
  <2> QED
    BY <2>1, <2>2, <2>3, <2>4
<1> QED
  BY <1>1, <1>2, <1>3, <1>4, <1>5

\* ensure_worker launches again only where no launch acts or will act.
LEMMA RelaunchIsIdle ==
  ASSUME LaunchInv, NEW m \in Memberships, MayRelaunch(m), NEW k \in Launches, Of(k) = m,
         \/ stage[k] = "claimed" /\ ~TwoStage
         \/ stage[k] = "recorded" /\ TwoStage
         \/ proc[k] \in UnderWay
  PROVE  FALSE
<1> USE NobodyIsNone DEF LaunchInv, UnderWay
<1>1. member[m].launch = k
  BY DEF StartsAreCurrent
<1>2. member[m].phase # "refused"
  BY <1>1 DEF RefusedIsOver
<1>3. ~Expired(m)
  BY <1>1 DEF Expired, StartsAreCurrent
<1>4. member[m].kind = "bound" /\ Gone(m) /\ ~Outstanding(m)
  BY <1>2, <1>3 DEF MayRelaunch
<1>5. status.process = k
  BY <1>1, <1>2, <1>4 DEF Gone, Outstanding, RecordIsKnown, Recorded
<1> QED
  BY <1>4, <1>5 DEF Gone, LaunchesStartOnce

\* ... and everything else.
LEMMA OthersKeepLaunchInv ==
  ASSUME TypeOK, LaunchInv,
         \/ Create \/ Relaunch \/ LeaderCrash \/ UNCHANGED vars
         \/ \E m \in Memberships : Kill(m) \/ Deactivate(m) \/ Age(m)
  PROVE  LaunchInv'
<1> USE NobodyIsNone DEF LaunchInv, UnderWay
<1>0. \A k \in Launches : Of(k) \in Memberships \cup {None}
  BY DEF TypeOK, Of
<1>1. CASE Create
  <2>1. PICK m \in Memberships, l \in Launches :
           /\ member[m].kind = "unused" /\ stage[l] = "unused"
           /\ member'[m].kind = "prepared" /\ member'[m].launch = l
           /\ member'[m].phase = "requested"
           /\ \A n \in Memberships \ {m} : member'[n] = member[n]
           /\ stage'[l] = "claimed" /\ Of(l)' = m
           /\ \A k \in Launches \ {l} : stage'[k] = stage[k] /\ Of(k)' = Of(k)
           /\ UNCHANGED <<status, lease, outcome, proc>>
    BY <1>1, CreateEffect
  <2>2. \A k \in Launches : Of(k) = m => stage[k] = "unused" /\ proc[k] = "none"
    BY <2>1 DEF LaunchesStartOnce
  <2>3. LaunchesStartOnce'
    BY <1>0, <2>1, <2>2 DEF LaunchesStartOnce
  <2>4. StartsAreCurrent'
    <3>1. proc[l] = "none"
      BY <2>1 DEF LaunchesStartOnce
    <3>2. \A k \in Launches \ {l} :
            (stage[k] # "unused" \/ proc[k] # "none") => Of(k) \in Memberships \ {m}
      BY <1>0, <2>2 DEF LaunchesStartOnce
    <3> QED
      BY <2>1, <3>1, <3>2 DEF StartsAreCurrent
  <2>5. RefusedIsOver'
    BY <2>1 DEF RefusedIsOver
  <2>6. RecordIsKnown'
    <3>1. status # NoStatus => status.process # l /\ status.of # m
      BY <2>1, <2>2 DEF RecordIsKnown, LaunchesStartOnce
    <3> QED
      BY <2>1, <3>1 DEF RecordIsKnown, Recorded
  <2> QED
    BY <2>3, <2>4, <2>5, <2>6
<1>2. CASE Relaunch
  <2>1. PICK m \in Memberships, l \in Launches :
           /\ Active(m) /\ lease[m] = "free" /\ MayRelaunch(m) /\ stage[l] = "unused"
           /\ member'[m].kind = member[m].kind /\ member'[m].launch = l
           /\ member'[m].phase = "requested" /\ member'[m].prior = status.process
           /\ \A n \in Memberships \ {m} : member'[n] = member[n]
           /\ stage'[l] = "claimed" /\ Of(l)' = m
           /\ \A k \in Launches \ {l} : stage'[k] = stage[k] /\ Of(k)' = Of(k)
           /\ UNCHANGED <<status, lease, outcome, proc>>
    BY <1>2, RelaunchEffect
  <2>2. proc[l] = "none"
    BY <2>1 DEF LaunchesStartOnce
  <2>3. ASSUME NEW k \in Launches, Of(k) = m,
               \/ stage[k] = "claimed" /\ ~TwoStage
               \/ stage[k] = "recorded" /\ TwoStage
               \/ proc[k] \in UnderWay
        PROVE  FALSE
    BY <2>1, <2>3, RelaunchIsIdle
  <2>4. LaunchesStartOnce'
    BY <2>1, <2>2 DEF LaunchesStartOnce, Active
  <2>5. StartsAreCurrent'
    <3>1. \A k \in Launches \ {l} :
            (stage[k] # "unused" \/ proc[k] # "none") => Of(k) \in Memberships
      BY <1>0 DEF LaunchesStartOnce
    <3> QED
      BY <2>1, <2>2, <2>3, <3>1 DEF StartsAreCurrent
  <2>6. RefusedIsOver'
    BY <2>1 DEF RefusedIsOver
  <2>7. RecordIsKnown'
    <3>1. status # NoStatus => status.process # l
      BY <2>2 DEF RecordIsKnown
    <3> QED
      BY <2>1, <3>1 DEF RecordIsKnown, Recorded
  <2> QED
    BY <2>4, <2>5, <2>6, <2>7
<1>3. CASE LeaderCrash
  <2>1. LaunchesStartOnce'
    BY <1>0, <1>3 DEF TypeOK, Of, LaunchesStartOnce, LeaderCrash
  <2>2. StartsAreCurrent'
    BY <1>0, <1>3 DEF TypeOK, Of, LaunchesStartOnce, StartsAreCurrent, LeaderCrash
  <2>3. RefusedIsOver'
    BY <1>0, <1>3 DEF TypeOK, Of, LaunchesStartOnce, RefusedIsOver, LeaderCrash
  <2>4. RecordIsKnown'
    BY <1>0, <1>3
       DEF TypeOK, Of, LaunchesStartOnce, StartsAreCurrent, RecordIsKnown, Recorded,
           LeaderCrash
  <2> QED
    BY <2>1, <2>2, <2>3, <2>4
<1>4. CASE UNCHANGED vars
  <2>1. LaunchesStartOnce'
    BY <1>0, <1>4 DEF TypeOK, Of, LaunchesStartOnce, vars
  <2>2. StartsAreCurrent'
    BY <1>0, <1>4 DEF TypeOK, Of, LaunchesStartOnce, StartsAreCurrent, vars
  <2>3. RefusedIsOver'
    BY <1>0, <1>4 DEF TypeOK, Of, LaunchesStartOnce, RefusedIsOver, vars
  <2>4. RecordIsKnown'
    BY <1>0, <1>4
       DEF TypeOK, Of, LaunchesStartOnce, StartsAreCurrent, RecordIsKnown, Recorded, vars
  <2> QED
    BY <2>1, <2>2, <2>3, <2>4
<1>5. ASSUME NEW m \in Memberships, Kill(m) PROVE LaunchInv'
  <2>1. LaunchesStartOnce'
    BY <1>0, <1>5 DEF TypeOK, Of, LaunchesStartOnce, Kill, Close, NoStatus
  <2>2. StartsAreCurrent'
    BY <1>0, <1>5 DEF TypeOK, Of, LaunchesStartOnce, StartsAreCurrent, Kill, Close, NoStatus
  <2>3. RefusedIsOver'
    BY <1>0, <1>5 DEF TypeOK, Of, LaunchesStartOnce, RefusedIsOver, Kill, Close, NoStatus
  <2>4. RecordIsKnown'
    BY <1>0, <1>5
       DEF TypeOK, Of, LaunchesStartOnce, StartsAreCurrent, RecordIsKnown, Recorded, Kill,
           Close, NoStatus
  <2> QED
    BY <2>1, <2>2, <2>3, <2>4
<1>6. ASSUME NEW m \in Memberships, Deactivate(m) PROVE LaunchInv'
  <2>1. UNCHANGED <<status, stage, issued, outcome, proc>>
    BY <1>6 DEF Deactivate
  <2>2. \A n \in Memberships :
          /\ member'[n].kind \in {member[n].kind, IF n = m THEN "inactive" ELSE member[n].kind}
          /\ member'[n].launch = member[n].launch /\ member'[n].target = member[n].target
          /\ member'[n].phase = member[n].phase /\ member'[n].prior = member[n].prior
    BY <1>6, DeactivateEffect
  <2>3. LaunchesStartOnce'
    BY <1>0, <2>1, <2>2 DEF TypeOK, Of, LaunchesStartOnce
  <2>4. StartsAreCurrent'
    BY <1>0, <2>1, <2>2 DEF TypeOK, Of, LaunchesStartOnce, StartsAreCurrent
  <2>5. RefusedIsOver'
    BY <1>0, <2>1, <2>2 DEF TypeOK, Of, LaunchesStartOnce, RefusedIsOver
  <2>6. RecordIsKnown'
    BY <1>0, <2>1, <2>2
       DEF TypeOK, Of, LaunchesStartOnce, StartsAreCurrent, RecordIsKnown, Recorded
  <2> QED
    BY <2>3, <2>4, <2>5, <2>6
<1>7. ASSUME NEW m \in Memberships, Age(m) PROVE LaunchInv'
  <2>1. LaunchesStartOnce'
    BY <1>0, <1>7 DEF TypeOK, Of, LaunchesStartOnce, Age
  <2>2. StartsAreCurrent'
    BY <1>0, <1>7 DEF TypeOK, Of, LaunchesStartOnce, StartsAreCurrent, Age
  <2>3. RefusedIsOver'
    BY <1>0, <1>7 DEF TypeOK, Of, LaunchesStartOnce, RefusedIsOver, Age
  <2>4. RecordIsKnown'
    BY <1>0, <1>7
       DEF TypeOK, Of, LaunchesStartOnce, StartsAreCurrent, RecordIsKnown, Recorded, Age
  <2> QED
    BY <2>1, <2>2, <2>3, <2>4
<1> QED
  BY <1>1, <1>2, <1>3, <1>4, <1>5, <1>6, <1>7

-----------------------------------------------------------------------------
(* StopInv: where the target is known, a stop ends the process *)

\* The invariant of the stops holds at first.
LEMMA StopInvInit == ASSUME Init PROVE StopInv
BY DEF Init, StopInv, WorkersAreCurrent, TargetsAreKnown, StopsAreAlone, Working

\* There is one process that works, and the runtime record is of it.
LEMMA OneWorks ==
  ASSUME StopInv, NEW k \in Working
  PROVE  status # NoStatus /\ status.process = k /\ status.of = Of(k) /\ ~status.left
BY NobodyIsNone DEF StopInv, WorkersAreCurrent, NoStatus, Working

\* Every step of a launch keeps it.
LEMMA LaunchesKeepStopInv ==
  ASSUME TypeOK, LaunchInv, StopInv, TwoStage \/ Located, NEW l \in Launches,
         \/ Prepare(l) \/ PrepareFails(l) \/ GiveUp(l) \/ Record(l) \/ Start(l)
         \/ StartDone(l) \/ Complete(l) \/ Abandon(l)
  PROVE  StopInv'
<1> USE NobodyIsNone DEF LaunchInv, StopInv, Working
<1>0. \A k \in Launches : /\ Of(k) \in Memberships \cup {None}
                          /\ proc[k] # "none" => Of(k) \in Memberships
  BY DEF TypeOK, Of, LaunchesStartOnce
<1>1. CASE Prepare(l)
  <2>1. WorkersAreCurrent'
    BY <1>0, <1>1 DEF Of, WorkersAreCurrent, TypeOK, Prepare, OpenPane, LaunchesStartOnce
  <2>2. TargetsAreKnown'
    BY <1>0, <1>1 DEF Of, TargetsAreKnown, TypeOK, Prepare, OpenPane, LaunchesStartOnce
  <2>3. StopsAreAlone'
    BY <1>0, <1>1 DEF Of, StopsAreAlone, TypeOK, Prepare, OpenPane, LaunchesStartOnce
  <2> QED
    BY <2>1, <2>2, <2>3
<1>2. CASE PrepareFails(l)
  <2>1. WorkersAreCurrent'
    BY <1>0, <1>2
       DEF Of, WorkersAreCurrent, TypeOK, PrepareFails, OpenPane, LaunchesStartOnce
  <2>2. TargetsAreKnown'
    BY <1>0, <1>2 DEF Of, TargetsAreKnown, TypeOK, PrepareFails, OpenPane, LaunchesStartOnce
  <2>3. StopsAreAlone'
    BY <1>0, <1>2 DEF Of, StopsAreAlone, TypeOK, PrepareFails, OpenPane, LaunchesStartOnce
  <2> QED
    BY <2>1, <2>2, <2>3
<1>3. CASE GiveUp(l)
  <2>1. WorkersAreCurrent'
    BY <1>0, <1>3 DEF Of, WorkersAreCurrent, GiveUp
  <2>2. TargetsAreKnown'
    BY <1>0, <1>3 DEF Of, TargetsAreKnown, GiveUp
  <2>3. StopsAreAlone'
    BY <1>0, <1>3 DEF Of, StopsAreAlone, GiveUp
  <2> QED
    BY <2>1, <2>2, <2>3
<1>4. CASE Record(l)
  <2>1. UNCHANGED <<status, lease, issued, proc>>
    BY <1>4 DEF Record
  <2>2. \A m \in Memberships :
          /\ member'[m].kind = member[m].kind /\ member'[m].launch = member[m].launch
          /\ \/ member'[m].target = member[m].target
             \/ m = Of(l) /\ member[m].launch = l /\ member'[m].target = l
    BY <1>4, RecordEffect
  <2>3. WorkersAreCurrent'
    BY <1>0, <2>1, <2>2 DEF Of, WorkersAreCurrent
  <2>4. TargetsAreKnown'
    BY <1>0, <2>1, <2>2 DEF Of, TargetsAreKnown
  <2>5. StopsAreAlone'
    BY <1>0, <2>1 DEF Of, StopsAreAlone
  <2> QED
    BY <2>3, <2>4, <2>5
<1>5. CASE Start(l)
  <2>1. /\ UNCHANGED <<member, status, lease, issued>>
        /\ proc' \in {proc, [proc EXCEPT ![l] = "starting"]} /\ proc[l] = "none"
    BY <1>5 DEF Start, LaunchesStartOnce
  <2>2. WorkersAreCurrent'
    BY <1>0, <2>1 DEF Of, WorkersAreCurrent, TypeOK
  <2>3. TargetsAreKnown'
    BY <1>0, <2>1 DEF Of, TargetsAreKnown, TypeOK
  <2>4. StopsAreAlone'
    BY <1>0, <2>1 DEF Of, StopsAreAlone, TypeOK
  <2> QED
    BY <2>2, <2>3, <2>4
<1>6. CASE StartDone(l)
  <2>1. WorkersAreCurrent'
    BY <1>0, <1>6 DEF Of, WorkersAreCurrent, StartDone
  <2>2. TargetsAreKnown'
    BY <1>0, <1>6 DEF Of, TargetsAreKnown, StartDone
  <2>3. StopsAreAlone'
    BY <1>0, <1>6 DEF Of, StopsAreAlone, StartDone
  <2> QED
    BY <2>1, <2>2, <2>3
<1>7. CASE Complete(l)
  <2>1. UNCHANGED <<status, lease, issued, proc>>
    BY <1>7 DEF Complete
  <2>2. WorkersAreCurrent'
    BY <1>0, <2>1, <1>7, CompleteEffect DEF Of, WorkersAreCurrent
  <2>3. TargetsAreKnown'
    BY <1>0, <2>1, <1>7, CompleteEffect DEF Of, TargetsAreKnown
  <2>4. StopsAreAlone'
    BY <1>0, <2>1, <1>7, CompleteEffect DEF Of, StopsAreAlone
  <2> QED
    BY <2>2, <2>3, <2>4
<1>8. CASE Abandon(l)
  <2>1. UNCHANGED <<member, status, lease, issued, proc>>
    BY <1>8 DEF Abandon
  <2>2. WorkersAreCurrent'
    BY <1>0, <2>1 DEF Of, WorkersAreCurrent
  <2>3. TargetsAreKnown'
    BY <1>0, <2>1 DEF Of, TargetsAreKnown
  <2>4. StopsAreAlone'
    BY <1>0, <2>1 DEF Of, StopsAreAlone
  <2> QED
    BY <2>2, <2>3, <2>4
<1> QED
  BY <1>1, <1>2, <1>3, <1>4, <1>5, <1>6, <1>7, <1>8

\* So does every step of a process ...
LEMMA ProcessesKeepStopInv ==
  ASSUME TypeOK, LaunchInv, StopInv, TwoStage \/ Located, NEW l \in Launches,
         Admit(l) \/ Bind(l) \/ Exit(l) \/ Leave(l) \/ Return(l)
  PROVE  StopInv'
<1> USE NobodyIsNone DEF LaunchInv, StopInv, Working
<1>0. \A k \in Launches : /\ Of(k) \in Memberships \cup {None}
                          /\ proc[k] # "none" => Of(k) \in Memberships
  BY DEF TypeOK, Of, LaunchesStartOnce
<1>1. CASE Admit(l)
  <2>1. WorkersAreCurrent'
    BY <1>0, <1>1, OneWorks
       DEF Of, WorkersAreCurrent, TypeOK, Admit, Admissible, SameLaunch, Active, Gone,
           Recorded
  <2>2. TargetsAreKnown'
    BY <1>0, <1>1, OneWorks
       DEF Of, TargetsAreKnown, TypeOK, Admit, Admissible, SameLaunch, Active, Gone,
           Recorded
  <2>3. StopsAreAlone'
    BY <1>0, <1>1, OneWorks
       DEF Of, StopsAreAlone, TypeOK, Admit, Admissible, SameLaunch, Active, Gone, Recorded
  <2> QED
    BY <2>1, <2>2, <2>3
<1>2. CASE Bind(l)
  <2>1. /\ proc' = [proc EXCEPT ![l] = "running"] /\ proc[l] = "claiming"
        /\ lease' = [lease EXCEPT ![Of(l)] = "free"]
        /\ UNCHANGED <<status, issued>>
    BY <1>2 DEF Bind
  <2>2. \A m \in Memberships :
          /\ member'[m].kind = IF m = Of(l) THEN "bound" ELSE member[m].kind
          /\ member'[m].launch = member[m].launch
          /\ member'[m].target = IF m = Of(l) /\ Located THEN l ELSE member[m].target
    BY <1>2, BindEffect
  <2>3. Of(l) \in Memberships /\ member[Of(l)].launch = l
    BY <1>0, <2>1 DEF StartsAreCurrent, UnderWay
  <2>4. TwoStage => member[Of(l)].target = l
    BY <2>1, <2>3 DEF StartsAreCurrent, UnderWay
  <2>5. member'[Of(l)].target = l
    BY <2>2, <2>3, <2>4
  <2>6. WorkersAreCurrent'
    BY <1>0, <2>1, <2>2, <2>3, OneWorks DEF Of, WorkersAreCurrent, TypeOK
  <2>7. TargetsAreKnown'
    <3>1. ASSUME NEW k \in Launches, k # l, proc'[k] \in {"running", "left"},
                 member'[Of(k)].launch = k
          PROVE  member'[Of(k)].target = k
      <4>1. proc[k] = proc'[k] /\ Of(k) \in Memberships
        BY <1>0, <2>1, <3>1 DEF TypeOK
      <4>2. member[Of(k)].launch = k
        BY <2>2, <3>1, <4>1
      <4>3. Of(k) # Of(l) /\ member[Of(k)].target = k
        BY <2>3, <3>1, <4>1, <4>2 DEF TargetsAreKnown
      <4> QED
        BY <2>2, <4>1, <4>3
    <3> QED
      BY <2>1, <2>5, <3>1 DEF Of, TargetsAreKnown
  <2>8. StopsAreAlone'
    BY <1>0, <2>1, <2>3, OneWorks DEF Of, StopsAreAlone, TypeOK
  <2> QED
    BY <2>6, <2>7, <2>8
<1>3. CASE Exit(l)
  <2>1. WorkersAreCurrent'
    BY <1>0, <1>3, OneWorks DEF Of, WorkersAreCurrent, TypeOK, Exit
  <2>2. TargetsAreKnown'
    BY <1>0, <1>3, OneWorks DEF Of, TargetsAreKnown, TypeOK, Exit
  <2>3. StopsAreAlone'
    BY <1>0, <1>3, OneWorks DEF Of, StopsAreAlone, TypeOK, Exit
  <2> QED
    BY <2>1, <2>2, <2>3
<1>4. CASE Leave(l)
  <2>1. WorkersAreCurrent'
    BY <1>0, <1>4, OneWorks DEF Of, WorkersAreCurrent, TypeOK, Leave
  <2>2. TargetsAreKnown'
    BY <1>0, <1>4, OneWorks DEF Of, TargetsAreKnown, TypeOK, Leave
  <2>3. StopsAreAlone'
    BY <1>0, <1>4, OneWorks DEF Of, StopsAreAlone, TypeOK, Leave
  <2> QED
    BY <2>1, <2>2, <2>3
<1>5. CASE Return(l)
  <2>1. /\ UNCHANGED <<member, issued, lease>> /\ proc[l] = "left"
        /\ proc' = [proc EXCEPT ![l] = "running"] /\ lease[Of(l)] = "free"
        /\ member[Of(l)].kind = "bound" /\ member[Of(l)].launch = l
        /\ status.of = Of(l) /\ status.process = l
    BY <1>5 DEF Return, SameLaunch, Recorded
  <2>2. status' = [of |-> Of(l), process |-> l, left |-> FALSE]
    BY <1>5, <2>1 DEF Return, TypeOK
  <2>3. \A k \in Working : k = l
    BY <2>1, OneWorks
  <2>4. \A k \in Working' : k = l
    BY <2>1, <2>3 DEF TypeOK
  <2>5. proc'[l] = "running" /\ Of(l)' = Of(l)
    BY <2>1 DEF TypeOK, Of
  <2>6. WorkersAreCurrent'
    <3>1. /\ status' = [of |-> Of(l)', process |-> l, left |-> FALSE]
          /\ member'[Of(l)'].launch = l /\ member'[Of(l)'].kind = "bound"
          /\ proc'[l] # "claiming"
      BY <2>1, <2>2, <2>5
    <3> QED
      BY <2>4, <3>1 DEF WorkersAreCurrent
  <2>7. TargetsAreKnown'
    BY <1>0, <1>5, OneWorks DEF Of, TargetsAreKnown, TypeOK, Return, SameLaunch, Recorded
  <2>8. StopsAreAlone'
    BY <1>0, <1>5, OneWorks DEF Of, StopsAreAlone, TypeOK, Return, SameLaunch, Recorded
  <2> QED
    BY <2>6, <2>7, <2>8
<1> QED
  BY <1>1, <1>2, <1>3, <1>4, <1>5

\* ... and everything else.
LEMMA OthersKeepStopInv ==
  ASSUME TypeOK, LaunchInv, StopInv, TwoStage \/ Located,
         \/ Create \/ Relaunch \/ LeaderCrash \/ UNCHANGED vars
         \/ \E m \in Memberships : Kill(m) \/ Deactivate(m) \/ Age(m)
  PROVE  StopInv'
<1> USE NobodyIsNone DEF LaunchInv, StopInv, Working
<1>0. \A k \in Launches : /\ Of(k) \in Memberships \cup {None}
                          /\ proc[k] # "none" => Of(k) \in Memberships
  BY DEF TypeOK, Of, LaunchesStartOnce
<1>1. CASE Create
  <2>1. PICK m \in Memberships, l \in Launches :
           /\ member[m].kind = "unused" /\ stage[l] = "unused"
           /\ \A n \in Memberships \ {m} : member'[n] = member[n]
           /\ \A k \in Launches \ {l} : Of(k)' = Of(k)
           /\ UNCHANGED <<status, lease, outcome, proc>>
    BY <1>1, CreateEffect
  <2>2. \A k \in Launches : proc[k] # "none" => k # l /\ Of(k) \in Memberships \ {m}
    BY <2>1 DEF LaunchesStartOnce
  <2>3. WorkersAreCurrent'
    BY <2>1, <2>2 DEF WorkersAreCurrent
  <2>4. TargetsAreKnown'
    BY <2>1, <2>2 DEF TargetsAreKnown
  <2>5. StopsAreAlone'
    BY <2>1, <2>2 DEF StopsAreAlone
  <2> QED
    BY <2>3, <2>4, <2>5
<1>2. CASE Relaunch
  <2>1. PICK m \in Memberships, l \in Launches :
           /\ MayRelaunch(m) /\ stage[l] = "unused" /\ member'[m].launch = l
           /\ \A n \in Memberships \ {m} : member'[n] = member[n]
           /\ \A k \in Launches \ {l} : Of(k)' = Of(k)
           /\ UNCHANGED <<status, lease, outcome, proc>>
    BY <1>2, RelaunchEffect
  <2>2. \A k \in Launches : proc[k] # "none" => k # l /\ Of(k) \in Memberships
    BY <2>1 DEF LaunchesStartOnce
  <2>3. \A k \in Working : Of(k) # m
    BY <2>1, RelaunchIsIdle DEF UnderWay
  <2>4. WorkersAreCurrent'
    BY <2>1, <2>2, <2>3 DEF WorkersAreCurrent
  <2>5. TargetsAreKnown'
    BY <2>1, <2>2 DEF TargetsAreKnown
  <2>6. StopsAreAlone'
    BY <2>1, <2>2 DEF StopsAreAlone
  <2> QED
    BY <2>4, <2>5, <2>6
<1>3. CASE LeaderCrash
  <2>1. WorkersAreCurrent'
    BY <1>0, <1>3 DEF Of, WorkersAreCurrent, TypeOK, LeaderCrash
  <2>2. TargetsAreKnown'
    BY <1>0, <1>3 DEF Of, TargetsAreKnown, TypeOK, LeaderCrash
  <2>3. StopsAreAlone'
    BY <1>0, <1>3 DEF Of, StopsAreAlone, TypeOK, LeaderCrash
  <2> QED
    BY <2>1, <2>2, <2>3
<1>4. CASE UNCHANGED vars
  <2>1. WorkersAreCurrent'
    BY <1>0, <1>4 DEF Of, WorkersAreCurrent, vars
  <2>2. TargetsAreKnown'
    BY <1>0, <1>4 DEF Of, TargetsAreKnown, vars
  <2>3. StopsAreAlone'
    BY <1>0, <1>4 DEF Of, StopsAreAlone, vars
  <2> QED
    BY <2>1, <2>2, <2>3
<1>5. ASSUME NEW m \in Memberships, Kill(m) PROVE StopInv'
  <2>1. /\ UNCHANGED <<member, issued>> /\ Working' \subseteq Working
        /\ \A n \in Memberships \ {m} : lease'[n] = lease[n]
        /\ \A k \in Launches : proc'[k] \in {proc[k], "gone"}
    BY <1>5 DEF TypeOK, Kill, Close
  <2>2. ASSUME NEW k \in Working, Of(k) = m PROVE k \notin Working'
    <3>1. Recorded(m) /\ ~status.left /\ ~Gone(m)
      BY <2>2, OneWorks DEF Recorded, Gone
    <3>2. member[m].target = k
      BY <1>5, <2>2 DEF Kill, WorkersAreCurrent, TargetsAreKnown
    <3> QED
      BY <1>5, <3>1, <3>2 DEF TypeOK, Kill, Close
  <2>3. ASSUME NEW k \in Working, Of(k) # m PROVE status' = status
    BY <1>5, <2>3, OneWorks DEF Kill, Recorded, Gone
  <2>4. \A k \in Working' : Of(k) # m /\ status' = status
    BY <2>1, <2>2, <2>3
  <2>5. WorkersAreCurrent'
    BY <1>0, <2>1, <2>4 DEF Of, WorkersAreCurrent
  <2>6. TargetsAreKnown'
    BY <2>1 DEF Of, TargetsAreKnown
  <2>7. StopsAreAlone'
    BY <1>0, <2>1, <2>4 DEF Of, StopsAreAlone
  <2> QED
    BY <2>5, <2>6, <2>7
<1>6. ASSUME NEW m \in Memberships, Deactivate(m) PROVE StopInv'
  <2>1. /\ UNCHANGED <<status, issued, proc>>
        /\ lease[m] \in {"stop", "stopped", "left"} /\ lease' = [lease EXCEPT ![m] = "free"]
    BY <1>6 DEF Deactivate
  <2>2. \A n \in Memberships :
          /\ n # m => member'[n].kind = member[n].kind
          /\ member'[n].launch = member[n].launch /\ member'[n].target = member[n].target
    BY <1>6, DeactivateEffect
  <2>3. \A k \in Working : Of(k) # m
    BY <2>1 DEF StopsAreAlone
  <2>4. WorkersAreCurrent'
    BY <1>0, <2>1, <2>2, <2>3 DEF Of, WorkersAreCurrent, TypeOK
  <2>5. TargetsAreKnown'
    BY <1>0, <2>1, <2>2 DEF Of, TargetsAreKnown
  <2>6. StopsAreAlone'
    BY <1>0, <2>1, <1>6, DeactivateEffect DEF Of, StopsAreAlone, TypeOK, StopsAreAlone
  <2> QED
    BY <2>4, <2>5, <2>6
<1>7. ASSUME NEW m \in Memberships, Age(m) PROVE StopInv'
  <2>1. WorkersAreCurrent'
    BY <1>0, <1>7 DEF Of, WorkersAreCurrent, Age
  <2>2. TargetsAreKnown'
    BY <1>0, <1>7 DEF Of, TargetsAreKnown, Age
  <2>3. StopsAreAlone'
    BY <1>0, <1>7 DEF Of, StopsAreAlone, Age
  <2> QED
    BY <2>1, <2>2, <2>3
<1> QED
  BY <1>1, <1>2, <1>3, <1>4, <1>5, <1>6, <1>7

-----------------------------------------------------------------------------

\* The state keeps its types.
THEOREM TypeCorrect == Spec => []TypeOK
<1>1. Init => TypeOK
  BY TypeInit
<1>2. TypeOK /\ [Next]_vars => TypeOK'
  BY TypeStep
<1> QED
  BY <1>1, <1>2, PTL DEF Spec

\* The invariant of the launches, on every carrier.
THEOREM LaunchesAct == Spec => []LaunchInv
<1>1. Init => LaunchInv
  BY LaunchInvInit
<1>2. TypeOK /\ LaunchInv /\ [Next]_vars => LaunchInv'
  BY LaunchesKeepLaunchInv, ProcessesKeepLaunchInv, OthersKeepLaunchInv DEF Next
<1> QED
  BY <1>1, <1>2, TypeCorrect, PTL DEF Spec

\* However often a launch is retried, and however late its answers are, a
\* Membership never has two processes under way.
THEOREM NoSecondLaunch == Spec => []OneLaunchActuates
<1>1. LaunchInv => OneLaunchActuates
  BY DEF LaunchInv, StartsAreCurrent, OneLaunchActuates, Alive, UnderWay
<1> QED
  BY <1>1, LaunchesAct, PTL

\* A launch that is recorded as refused has started nothing, and starts nothing.
THEOREM Refusals == Spec => []RefusedNeverRuns
<1>1. TypeOK /\ LaunchInv => RefusedNeverRuns
  BY DEF TypeOK, Membership, LaunchInv, RefusedIsOver, RefusedNeverRuns
<1> QED
  BY <1>1, TypeCorrect, LaunchesAct, PTL

\* The invariant of the stops, where the target of a process is known: because
\* it was recorded before the start, or because the process knows its pane.
THEOREM StopsEnd == ASSUME TwoStage \/ Located PROVE Spec => []StopInv
<1>1. Init => StopInv
  BY StopInvInit
<1>2. TypeOK /\ LaunchInv /\ StopInv /\ [Next]_vars => StopInv'
  BY LaunchesKeepStopInv, ProcessesKeepStopInv, OthersKeepStopInv DEF Next
<1> QED
  BY <1>1, <1>2, TypeCorrect, LaunchesAct, PTL DEF Spec

\* The process that works is the one that the runtime record names, and its
\* Membership is current.
THEOREM WorkersAreKnown ==
  ASSUME TwoStage \/ Located PROVE Spec => []WorkersAreRecorded
<1>1. StopInv => WorkersAreRecorded
  BY DEF StopInv, WorkersAreCurrent, WorkersAreRecorded, Working, Active
<1> QED
  BY <1>1, StopsEnd, PTL

\* The Worker never has two processes, of one Membership or of two.
THEOREM NoSecondWorker == ASSUME TwoStage \/ Located PROVE Spec => []OneWorker
<1>1. StopInv => OneWorker
  BY OneWorks DEF OneWorker
<1> QED
  BY <1>1, StopsEnd, PTL

\* When a Worker has been stopped, no process of it works on.
THEOREM StopsStop == ASSUME TwoStage \/ Located PROVE Spec => []StoppedMeansStopped
<1>1. StopInv => StoppedMeansStopped
  BY DEF StopInv, WorkersAreCurrent, StoppedMeansStopped, Working
<1> QED
  BY <1>1, StopsEnd, PTL
=============================================================================
