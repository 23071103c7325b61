---------------------------- MODULE OperatorProofs ----------------------------
(***************************************************************************)
(* Proofs about Operator: for any number of pods, any templates and any    *)
(* order of rollouts, two pods that exclude each other are never both in a *)
(* reconcile, and the client of the CR sees steps of StatusContract only.  *)
(* What StartupProofs says of a step of the pods, and ReconcilerProofs of  *)
(* a step of the CR, holds of the same step here.                          *)
(***************************************************************************)
EXTENDS Operator, TLAPS

P == INSTANCE StartupProofs WITH changes <- 0, MaxChanges <- 0

C == INSTANCE ReconcilerProofs WITH up <- Up

\* What StartupProofs assumes of the constants is assumed here, too.
LEMMA StartupAssumptions ==
  /\ Nobody \notin Pods /\ P!IsFiniteSet(Pods)
  /\ {Home, P!DefaultNamespace} \subseteq Namespaces /\ P!Unset \notin Namespaces
  /\ P!DefaultLeaseID \in LeaseIDs
  /\ Templates \subseteq P!Arguments
  /\ 0 \in Nat /\ MaxFaults \in Nat
BY PodsAssumption, NamespacesAssumption, LeaseIDsAssumption, TemplatesAssumption, BoundsAssumption
DEF IsFiniteSet, P!IsFiniteSet, S!DefaultNamespace, P!DefaultNamespace, S!Unset, P!Unset,
    S!DefaultLeaseID, P!DefaultLeaseID, S!Arguments, P!Arguments

\* And so is what ReconcilerProofs does.
LEMMA ReconcilerAssumptions ==
  /\ Nobody \notin Pods
  /\ InvalidSpecs \cup UnselectableSpecs \cup BadIntervalSpecs \subseteq Specs
  /\ HealthyPhases \cup BrokenPhases \subseteq C!TerminalPhases
  /\ MaxEdits \in Nat /\ MaxFaults \in Nat /\ MaxRv \in Nat
BY PodsAssumption, SpecsAssumption, PhasesAssumption, BoundsAssumption
DEF R!TerminalPhases, C!TerminalPhases

\* The pods and leases are those of Startup.
LEMMA SameInvariant == (S!PodInv <=> P!PodInv) /\ (S!PodInv' <=> P!PodInv')
BY DEF S!PodInv, S!PodsTypeOK, S!Admitted, S!Guarded, S!Reconciles, S!Fit, S!LeaseNamespace,
       S!LeaseOf, S!Leases, S!StartsManager, S!NoLeaseID, S!Arguments, S!Unset, S!DefaultNamespace,
       P!PodInv, P!PodsTypeOK, P!Admitted, P!Guarded, P!Reconciles, P!Fit, P!LeaseNamespace,
       P!LeaseOf, P!Leases, P!StartsManager, P!NoLeaseID, P!Arguments, P!Unset, P!DefaultNamespace

\* What is a step of one is a step of the other.
LEMMA SameSteps ==
  ASSUME NEW p, NEW t, NEW l
  PROVE  /\ S!ExpireLease(l) => P!ExpireLease(l)
         /\ S!CreatePod(p, t) => P!CreatePod(p, t)
         /\ S!DeletePod(p) => P!DeletePod(p)
         /\ S!RemovePod(p) => P!RemovePod(p)
         /\ S!StartProcess(p) => P!StartProcess(p)
         /\ S!ParseFlags(p) => P!ParseFlags(p)
         /\ S!PassGuard(p) => P!PassGuard(p)
         /\ S!RefuseStart(p) => P!RefuseStart(p)
         /\ S!StartUnelected(p) => P!StartUnelected(p)
         /\ S!AcquireLease(p) => P!AcquireLease(p)
         /\ S!FinishStop(p) => P!FinishStop(p)
         /\ S!Crash(p) => P!Crash(p)
         /\ S!LoseLease(p) => P!LoseLease(p)
         /\ S!Restart(p) => P!Restart(p)
<1> USE DEF S!LeaseNamespace, S!LeaseOf, S!Unset, S!DefaultNamespace,
            P!LeaseNamespace, P!LeaseOf, P!Unset, P!DefaultNamespace
<1>1. S!GuardAdmits(p) <=> P!GuardAdmits(p)
  BY DEF S!GuardAdmits, S!ExpectsOne, S!CanList, S!ActivePods, S!ActivePhases,
         S!Listed, S!Cardinality,
         P!GuardAdmits, P!ExpectsOne, P!CanList, P!ActivePods, P!ActivePhases,
         P!Listed, P!Cardinality
<1>2. /\ S!PassGuard(p) => P!PassGuard(p)
      /\ S!RefuseStart(p) => P!RefuseStart(p)
  BY <1>1 DEF S!PassGuard, P!PassGuard, S!RefuseStart, P!RefuseStart, S!Refuse, P!Refuse
<1>3. /\ S!CreatePod(p, t) => P!CreatePod(p, t)
      /\ S!DeletePod(p) => P!DeletePod(p)
      /\ S!RemovePod(p) => P!RemovePod(p)
      /\ S!Crash(p) => P!Crash(p)
      /\ S!Restart(p) => P!Restart(p)
  BY DEF S!CreatePod, S!DeletePod, S!RemovePod, S!Crash, S!Restart, S!Signal,
         S!Defaults, S!DefaultLeaseID,
         P!CreatePod, P!DeletePod, P!RemovePod, P!Crash, P!Restart, P!Signal,
         P!Defaults, P!DefaultLeaseID
<1>4. /\ S!StartProcess(p) => P!StartProcess(p)
      /\ S!ParseFlags(p) => P!ParseFlags(p)
      /\ S!StartUnelected(p) => P!StartUnelected(p)
  BY DEF S!StartProcess, S!ParseFlags, S!StartsManager, S!NoLeaseID, S!StartUnelected,
         P!StartProcess, P!ParseFlags, P!StartsManager, P!NoLeaseID, P!StartUnelected
<1>5. /\ S!ExpireLease(l) => P!ExpireLease(l)
      /\ S!AcquireLease(p) => P!AcquireLease(p)
      /\ S!FinishStop(p) => P!FinishStop(p)
      /\ S!LoseLease(p) => P!LoseLease(p)
  BY DEF S!ExpireLease, S!AcquireLease, S!FinishStop, S!LoseLease, S!Take, S!Release, S!Holds,
         P!ExpireLease, P!AcquireLease, P!FinishStop, P!LoseLease, P!Take, P!Release, P!Holds
<1>6. QED
  BY <1>2, <1>3, <1>4, <1>5

-----------------------------------------------------------------------------
(* The CR, its runs and its requests are those of Reconciler.              *)

LEMMA SameCR ==
  /\ R!CopiesInv <=> C!CopiesInv
  /\ R!CopiesInv' <=> C!CopiesInv'
  /\ R!Init => C!Init
<1> USE DEF
  R!NoCR, R!NoStatus, R!NoOutcome, R!NoPhase, R!NoSpec,
  C!NoCR, C!NoStatus, C!NoOutcome, C!NoPhase, C!NoSpec
<1>1. (R!CopiesInv <=> C!CopiesInv) /\ (R!CopiesInv' <=> C!CopiesInv')
  BY DEF
  R!CopiesInv, R!TypeOK, R!Sound, R!RunInv, R!RequestInv, R!OneRequest, R!NoLostWork, R!Remembered,
  R!Known, R!Settled, R!GoodOutcome, R!Progress, R!Verdict, R!PhaseStatus, R!FinalStatus,
  R!RejectedSpecs, R!Rejections, R!TerminalPhases, R!CRs, R!Statuses, R!Outcomes,
  R!OutcomeKinds, R!Requests, R!Phases, R!Steps, R!WaitSteps,
  C!CopiesInv, C!TypeOK, C!Sound, C!RunInv, C!RequestInv, C!OneRequest, C!NoLostWork, C!Remembered,
  C!Known, C!Settled, C!GoodOutcome, C!Progress, C!Verdict, C!PhaseStatus, C!FinalStatus,
  C!RejectedSpecs, C!Rejections, C!TerminalPhases, C!CRs, C!Statuses, C!Outcomes,
  C!OutcomeKinds, C!Requests, C!Phases, C!Steps, C!WaitSteps
<1>2. R!Init => C!Init
  BY DEF R!Init, C!Init
<1>3. QED
  BY <1>1, <1>2

\* So is what the client sees of it.
LEMMA SameContract ==
  /\ C!Contract!Init => R!Contract!Init
  /\ [C!Contract!Next]_(C!Contract!card) => [R!Contract!Next]_(R!Contract!card)
<1> USE DEF
  R!Contract!card, R!Contract!Blank, R!Contract!NoVerdict, R!Contract!NoPhase,
  R!Grounds, R!Ground, R!Rejections, R!NoSpec,
  C!Contract!card, C!Contract!Blank, C!Contract!NoVerdict, C!Contract!NoPhase,
  C!Grounds, C!Ground, C!Rejections, C!NoSpec
<1>1. C!Contract!Init => R!Contract!Init
  BY DEF R!Contract!Init, C!Contract!Init
<1>2. C!Contract!Next => R!Contract!Next
  BY DEF
  R!Contract!Next, R!Contract!Create, R!Contract!EditSpec, R!Contract!Delete,
  R!Contract!ShowProgress, R!Contract!Judge, R!Contract!Grounded, R!Contract!Judged,
  R!Contract!TerminalPhases, R!RejectedSpecs,
  C!Contract!Next, C!Contract!Create, C!Contract!EditSpec, C!Contract!Delete,
  C!Contract!ShowProgress, C!Contract!Judge, C!Contract!Grounded, C!Contract!Judged,
  C!Contract!TerminalPhases, C!RejectedSpecs
<1>3. QED
  BY <1>1, <1>2

\* And so is each step.
LEMMA SameWork ==
  ASSUME NEW p, NEW r
  PROVE  /\ R!User => C!User
         /\ R!Serve(r) => C!Serve(r)
         /\ R!Start(p) => C!Start(p)
         /\ R!Reconcile(p) => C!Reconcile(p)
         /\ R!GiveUp(p) => C!GiveUp(p)
         /\ R!CacheSync(p) => C!CacheSync(p)
         /\ R!RequeueAfter(p) => C!RequeueAfter(p)
         /\ R!Boot(p) => C!Boot(p)
         /\ R!BeginStop(p) => C!BeginStop(p)
         /\ R!Exit(p) => C!Exit(p)
         /\ R!Disown(p) => C!Disown(p)
         /\ R!Gone(p) => C!Gone(p)
<1> USE DEF
  R!runVars, R!podVars, R!envVars, R!NoCR, R!NoStatus, R!NoOutcome, R!NoPhase, R!NoSpec,
  C!runVars, C!podVars, C!envVars, C!NoCR, C!NoStatus, C!NoOutcome, C!NoPhase, C!NoSpec
<1>1. R!User => C!User
  BY DEF
  R!User, R!Create, R!EditSpec, R!EditMetadata, R!Delete, R!Edit, R!NextVersion,
  C!User, C!Create, C!EditSpec, C!EditMetadata, C!Delete, C!Edit, C!NextVersion
<1>2. ASSUME NEW q, NEW e PROVE R!Return(q, e) <=> C!Return(q, e)
  BY DEF R!Return, C!Return
<1>3. ASSUME NEW q, NEW step PROVE R!Goto(q, step) <=> C!Goto(q, step)
  BY DEF R!Goto, C!Goto
<1>4. ASSUME NEW q, NEW status, NEW wait PROVE R!Send(q, status, wait) <=> C!Send(q, status, wait)
  BY <1>2, <1>3 DEF R!Send, R!CanSend, R!RequestFor, C!Send, C!CanSend, C!RequestFor
<1>5. R!Serve(r) => C!Serve(r)
  BY <1>2, <1>3 DEF
  R!Serve, R!Store, R!Refuse, R!Matches, R!NextVersion, R!Answered, R!EndsInError, R!Fault,
  C!Serve, C!Store, C!Refuse, C!Matches, C!NextVersion, C!Answered, C!EndsInError, C!Fault
<1>6. R!Start(p) => C!Start(p)
  BY <1>3 DEF
  R!Start, R!StartNotFound, R!StartSkip, R!StartRun, R!Dequeue, R!IsAlreadyReconciled,
  R!TerminalPhases,
  C!Start, C!StartNotFound, C!StartSkip, C!StartRun, C!Dequeue, C!IsAlreadyReconciled,
  C!TerminalPhases
<1>7. R!MarkPending(p) \/ R!MarkRunning(p) => C!Reconcile(p)
  BY <1>3, <1>4 DEF
  R!MarkPending, R!MarkRunning, R!MarkPhase, R!PhaseStatus,
  C!MarkPending, C!MarkRunning, C!MarkPhase, C!PhaseStatus, C!Reconcile
<1>8. R!Validate(p) \/ R!RunChecks(p) \/ R!WriteStatus(p) => C!Reconcile(p)
  BY <1>3, <1>4 DEF
  R!Validate, R!RunChecks, R!WriteStatus, R!FinalStatus, R!OutcomeFor, R!MergeIntervalWarning,
  R!EscalatePhase, R!PhaseRank, R!RejectedSpecs, R!CheckPhases,
  C!Validate, C!RunChecks, C!WriteStatus, C!FinalStatus, C!OutcomeFor, C!MergeIntervalWarning,
  C!EscalatePhase, C!PhaseRank, C!RejectedSpecs, C!CheckPhases, C!Reconcile
<1>9. (R!Disown(p) => C!Disown(p)) /\ (R!Gone(p) => C!Gone(p))
  BY DEF R!Disown, R!Gone, C!Disown, C!Gone
<1>10. (R!GiveUp(p) => C!GiveUp(p)) /\ (R!Exit(p) => C!Exit(p))
  BY <1>2, <1>9 DEF
  R!GiveUp, R!WaitSteps, R!CanSend, R!Fault, R!Exit,
  C!GiveUp, C!WaitSteps, C!CanSend, C!Fault, C!Exit
<1>11. /\ R!CacheSync(p) => C!CacheSync(p)
       /\ R!RequeueAfter(p) => C!RequeueAfter(p)
       /\ R!Boot(p) => C!Boot(p)
       /\ R!BeginStop(p) => C!BeginStop(p)
  BY DEF R!CacheSync, R!RequeueAfter, R!Boot, R!BeginStop,
         C!CacheSync, C!RequeueAfter, C!Boot, C!BeginStop
<1>12. QED
  BY <1>1, <1>5, <1>6, <1>7, <1>8, <1>9, <1>10, <1>11 DEF R!Reconcile

-----------------------------------------------------------------------------
(* One run at a time, and runs under controllers.                          *)

\* No reconcile begins but where the controllers are up.
NoneBegins ==
  /\ pc' \in [Pods -> R!Steps]
  /\ \A q \in Pods : pc'[q] # "idle" => pc[q] # "idle" \/ proc[q] = "reconciling"

\* The controllers of a pod run while Startup has it reconcile.
LEMMA UpReconciles ==
  ASSUME NEW p \in Pods
  PROVE  /\ Up[p] # "down" <=> S!Reconciles(p)
         /\ Up[p] = "up" <=> proc[p] = "reconciling"
BY DEF Up, S!Reconciles

\* Users, the API server and the reconciles themselves (Reconcile).
LEMMA WorkBegins ==
  ASSUME pc \in [Pods -> R!Steps],
         \/ UserActs
         \/ \E r \in net : ServerActs(r)
         \/ \E p \in Pods : Work(p)
  PROVE  NoneBegins
<1> USE DEF NoneBegins, R!Steps, R!WaitSteps
<1>1. CASE UserActs
  BY <1>1 DEF UserActs, R!User, R!Create, R!EditSpec, R!EditMetadata, R!Delete, R!runVars
<1>2. ASSUME NEW r \in net, R!Store(r) PROVE NoneBegins
  BY <1>2 DEF R!Store, R!Answered, R!Goto, R!Return, R!runVars
<1>3. ASSUME NEW r \in net, R!Refuse(r) PROVE NoneBegins
  BY <1>3 DEF R!Refuse, R!Return, R!runVars
<1>4. ASSUME NEW p \in Pods, R!Start(p) PROVE NoneBegins
  <2>1. proc[p] = "reconciling"
    BY <1>4, UpReconciles
    DEF R!Start, R!StartNotFound, R!StartSkip, R!StartRun, R!Dequeue
  <2>2. QED
    BY <1>4, <2>1
    DEF R!Start, R!StartNotFound, R!StartSkip, R!StartRun, R!Goto, R!runVars
<1>5. ASSUME NEW p \in Pods, R!Reconcile(p) PROVE NoneBegins
  <2>1. CASE R!MarkPending(p) \/ R!MarkRunning(p)
    BY <2>1 DEF R!MarkPending, R!MarkRunning, R!MarkPhase, R!Send, R!Return, R!Goto
  <2>2. CASE R!Validate(p) \/ R!RunChecks(p)
    BY <2>2 DEF R!Validate, R!RunChecks, R!Goto
  <2>3. CASE R!WriteStatus(p)
    BY <2>3 DEF R!WriteStatus, R!Send, R!Return, R!Goto
  <2>4. QED
    BY <1>5, <2>1, <2>2, <2>3 DEF R!Reconcile
<1>6. ASSUME NEW p \in Pods, R!GiveUp(p) \/ R!CacheSync(p) \/ R!RequeueAfter(p)
      PROVE  NoneBegins
  BY <1>6 DEF R!GiveUp, R!Return, R!CacheSync, R!RequeueAfter, R!runVars
<1>7. QED
  BY <1>1, <1>2, <1>3, <1>4, <1>5, <1>6 DEF ServerActs, R!Serve, Work

\* The pods keep what Startup promises of them, whatever else a step does.
LEMMA PodsKept ==
  ASSUME S!PodInv, [Next]_vars
  PROVE  S!PodInv'
<1>1. ASSUME \/ \E l \in P!Leases : P!ExpireLease(l)
             \/ \E p \in Pods : P!Go(p) \/ P!Change(p) \/ P!Fail(p)
             \/ UNCHANGED podVars
      PROVE  S!PodInv'
  BY <1>1, SameInvariant, StartupAssumptions, P!PodStepHolds DEF podVars
<1>2. CASE UNCHANGED podVars
  BY <1>1, <1>2
<1>3. ASSUME NEW l \in S!Leases, FreeLease(l) PROVE S!PodInv'
  BY <1>1, <1>3, SameSteps DEF FreeLease, S!Leases, P!Leases
<1>4. ASSUME NEW p \in Pods, NEW t \in Templates, ReplacePod(p, t) PROVE S!PodInv'
  BY <1>1, <1>4, SameSteps DEF ReplacePod, P!Change
<1>5. ASSUME NEW p \in Pods, SurplusPod(p) PROVE S!PodInv'
  BY <1>1, <1>5, SameSteps DEF SurplusPod, P!Change
<1>6. ASSUME NEW p \in Pods, Prepare(p) PROVE S!PodInv'
  BY <1>1, <1>6, SameSteps DEF Prepare, P!Go, P!Run
<1>7. ASSUME NEW p \in Pods, Lead(p) PROVE S!PodInv'
  BY <1>1, <1>7, SameSteps DEF Lead, P!Go, P!Run
<1>8. ASSUME NEW p \in Pods, End(p) PROVE S!PodInv'
  BY <1>1, <1>8, SameSteps DEF End, P!Go
<1>9. ASSUME NEW p \in Pods, Break(p) PROVE S!PodInv'
  BY <1>1, <1>9, SameSteps DEF Break, P!Fail
<1>10. ASSUME \/ \E t \in Templates : NewTemplate(t) \/ ScaleDown(t)
              \/ ScaleUp \/ UserActs \/ UNCHANGED vars
              \/ \E r \in net : ServerActs(r)
              \/ \E p \in Pods : Work(p)
       PROVE  S!PodInv'
  BY <1>2, <1>10 DEF NewTemplate, ScaleDown, ScaleUp, UserActs, ServerActs, Work, Steady, vars
<1>11. QED
  BY <1>3, <1>4, <1>5, <1>6, <1>7, <1>8, <1>9, <1>10 DEF Next

\* A run never outlives the controllers of its pod (Stopped, Killed, Exit).
LEMMA RunsOwned ==
  ASSUME IInv, [Next]_vars, pc \in [Pods -> R!Steps]
  PROVE  \A q \in Pods : pc'[q] # "idle" => S!Reconciles(q)'
<1> DEFINE Owned == /\ pc' \in [Pods -> R!Steps]
                    /\ \A q \in Pods : pc'[q] # "idle" => S!Reconciles(q)'
<1> USE DEF IInv, S!Reconciles, S!PodInv, S!PodsTypeOK, R!Steps
<1>1. CASE UNCHANGED pc /\ UNCHANGED proc
  BY <1>1
<1>2. ASSUME \/ \E t \in Templates : NewTemplate(t) \/ ScaleDown(t)
             \/ ScaleUp \/ UNCHANGED vars
             \/ \E l \in S!Leases : FreeLease(l)
             \/ \E p \in Pods, t \in Templates : ReplacePod(p, t)
      PROVE  Owned
  BY <1>1, <1>2 DEF NewTemplate, ScaleDown, ScaleUp, FreeLease, ReplacePod, vars, podVars, crVars,
                    S!ExpireLease, S!CreatePod
<1>3. ASSUME UserActs \/ (\E r \in net : ServerActs(r)) \/ (\E p \in Pods : Work(p))
      PROVE  Owned
  <2>1. NoneBegins
    BY <1>3, WorkBegins
  <2>2. UNCHANGED proc
    BY <1>3 DEF UserActs, ServerActs, Work, Steady, podVars
  <2>3. QED
    BY <2>1, <2>2 DEF NoneBegins
<1>4. ASSUME NEW p \in Pods, Stopped(p) PROVE UNCHANGED pc
  BY <1>4 DEF Stopped, R!BeginStop, crVars
<1>5. ASSUME NEW p \in Pods, Killed(p) PROVE pc' = [pc EXCEPT ![p] = "idle"]
  <2>1. CASE Up[p] = "down"
    <3>1. pc[p] = "idle"
      BY <2>1, UpReconciles
    <3>2. QED
      BY <1>5, <2>1, <3>1 DEF Killed, crVars
  <2>2. CASE Up[p] # "down"
    BY <1>5, <2>2 DEF Killed, R!Gone
  <2>3. QED
    BY <2>1, <2>2
<1>6. ASSUME NEW p \in Pods, SurplusPod(p) PROVE Owned
  BY <1>4, <1>6 DEF SurplusPod, S!DeletePod, S!Signal
<1>7. ASSUME NEW p \in Pods, Prepare(p) PROVE Owned
  BY <1>7 DEF Prepare, S!StartProcess, S!ParseFlags, S!PassGuard, S!RefuseStart, S!Refuse,
              S!RemovePod, crVars
<1>8. ASSUME NEW p \in Pods, Lead(p) PROVE Owned
  BY <1>8 DEF Lead, S!AcquireLease, S!StartUnelected, R!Boot, R!runVars
<1>9. ASSUME NEW p \in Pods, End(p) PROVE Owned
  BY <1>9 DEF End, S!FinishStop, R!Exit, R!Gone
<1>10. ASSUME NEW p \in Pods, Break(p) PROVE Owned
  <2>1. CASE S!Restart(p) /\ Stopped(p)
    BY <1>4, <2>1 DEF S!Restart, S!Signal
  <2>2. CASE (S!Crash(p) \/ S!LoseLease(p)) /\ Killed(p)
    BY <1>5, <2>2 DEF S!Crash, S!LoseLease
  <2>3. QED
    BY <1>10, <2>1, <2>2 DEF Break
<1>11. QED
  BY <1>2, <1>3, <1>6, <1>7, <1>8, <1>9, <1>10 DEF Next

-----------------------------------------------------------------------------
(* The CR under the operator as it is deployed.                            *)

\* Faults are counted up to their bound.
LEMMA FaultsBounded ==
  ASSUME faults \in 0 .. MaxFaults, Fault \/ UNCHANGED faults
  PROVE  faults' \in 0 .. MaxFaults
BY BoundsAssumption DEF Fault

\* A signal ends what waits for the lease, and asks a leader to stop.
LEMMA SignalSteps ==
  ASSUME S!PodsTypeOK, NEW p \in Pods, S!Signal(p), Stopped(p), faults' \in 0 .. MaxFaults
  PROVE  C!Step
<1>1. CASE Up[p] = "up"
  BY <1>1, SameWork DEF Stopped, C!Step
<1>2. CASE Up[p] # "up"
  <2>1. Up' = Up
    BY <1>2 DEF Up, S!Signal, S!PodsTypeOK
  <2>2. QED
    BY <1>2, <2>1 DEF Stopped, crVars, C!Step
<1>3. QED
  BY <1>1, <1>2

\* A process that dies takes its run with it, or had none.
LEMMA DeathSteps ==
  ASSUME S!PodsTypeOK, faults \in 0 .. MaxFaults, NEW p \in Pods, Fault,
         S!Crash(p) \/ S!LoseLease(p), Killed(p)
  PROVE  C!Step
<1>1. CASE Up[p] # "down"
  <2>1. C!Disown(p) /\ C!Gone(p)
    BY <1>1, SameWork DEF Killed
  <2>2. C!Crash(p)
    BY <1>1, <2>1 DEF Fault, C!Crash, C!Fault
  <2>3. QED
    BY <2>2 DEF C!Step, C!Next, C!Process
<1>2. CASE Up[p] = "down"
  <2>1. proc' = [proc EXCEPT ![p] = "none"]
    BY DEF S!Crash, S!LoseLease
  <2>2. Up' = Up
    BY <1>2, <2>1 DEF Up, S!PodsTypeOK
  <2>3. QED
    BY <1>2, <2>2, FaultsBounded DEF Killed, crVars, C!Step
<1>3. QED
  BY <1>1, <1>2

\* Whatever the Deployment, its pods and the users do is a step of Reconciler, or
\* one it is indifferent to.
LEMMA CRSteps == ASSUME IInv, [Next]_vars PROVE C!Step
<1>1. S!PodsTypeOK /\ faults \in 0 .. MaxFaults
  BY DEF IInv, S!PodInv, R!CopiesInv, R!TypeOK
<1>2. ASSUME UNCHANGED crVars, Up' = Up, UNCHANGED faults PROVE C!Step
  BY <1>1, <1>2 DEF crVars, C!Step
<1>3. ASSUME \/ \E t \in Templates : NewTemplate(t) \/ ScaleDown(t)
             \/ ScaleUp \/ UNCHANGED vars
             \/ \E l \in S!Leases : FreeLease(l)
             \/ \E p \in Pods, t \in Templates : ReplacePod(p, t)
      PROVE  C!Step
  <2>1. UNCHANGED <<proc, faults>> /\ UNCHANGED crVars
    BY <1>3 DEF NewTemplate, ScaleDown, ScaleUp, FreeLease, ReplacePod, vars, podVars,
                S!ExpireLease, S!CreatePod
  <2>2. QED
    BY <1>2, <2>1 DEF Up
<1>4. ASSUME NEW p \in Pods, Prepare(p) PROVE C!Step
  <2>1. UNCHANGED crVars /\ UNCHANGED faults
    BY <1>4 DEF Prepare
  <2>2. \/ UNCHANGED proc
        \/ \E to \in {"none", "flags", "guard", "manager"} :
             /\ proc[p] \in {"none", "flags", "guard"}
             /\ proc' = [proc EXCEPT ![p] = to]
    BY <1>4 DEF Prepare, S!StartProcess, S!ParseFlags, S!PassGuard, S!RefuseStart, S!Refuse,
                S!RemovePod
  <2>3. Up' = Up
    BY <1>1, <2>2 DEF Up, S!PodsTypeOK
  <2>4. QED
    BY <1>2, <2>1, <2>3
<1>5. ASSUME NEW p \in Pods, SurplusPod(p) PROVE C!Step
  BY <1>1, <1>5, SignalSteps, FaultsBounded DEF SurplusPod, S!DeletePod
<1>6. ASSUME NEW p \in Pods, Lead(p) \/ End(p) PROVE C!Step
  BY <1>6, SameWork DEF Lead, End, C!Step, C!Next, C!Process
<1>7. ASSUME NEW p \in Pods, Break(p) PROVE C!Step
  BY <1>1, <1>7, SignalSteps, DeathSteps, FaultsBounded DEF Break, S!Restart
<1>8. ASSUME UserActs \/ (\E r \in net : ServerActs(r)) \/ (\E p \in Pods : Work(p))
      PROVE  C!Step
  BY <1>8, SameWork DEF UserActs, ServerActs, Work, C!Step, C!Next, C!Process
<1>9. QED
  BY <1>3, <1>4, <1>5, <1>6, <1>7, <1>8 DEF Next

\* The invariant holds of every run of the deployed operator.
THEOREM InvariantHolds == Spec => []IInv
<1>1. Init => IInv
  <2>1. ASSUME Init PROVE S!PodInv
    BY <2>1, NamespacesAssumption, LeaseIDsAssumption
    DEF Init, S!PodInv, S!PodsTypeOK, S!Admitted, S!Guarded, S!Reconciles, S!Defaults,
        S!Arguments, S!DefaultLeaseID
  <2>2. ASSUME Init PROVE R!CopiesInv
    BY <2>2, SameCR, ReconcilerAssumptions, C!InitHolds DEF Init
  <2>3. ASSUME Init, NEW p \in Pods PROVE pc[p] = "idle"
    BY <2>3 DEF Init, R!Init
  <2>4. QED
    BY <2>1, <2>2, <2>3 DEF IInv
<1>2. IInv /\ [Next]_vars => IInv'
  <2> SUFFICES ASSUME IInv, [Next]_vars PROVE IInv'
    OBVIOUS
  <2>1. R!CopiesInv'
    BY CRSteps, SameCR, ReconcilerAssumptions, C!StepHolds DEF IInv
  <2>2. S!PodInv'
    BY PodsKept DEF IInv
  <2>3. pc \in [Pods -> R!Steps]
    BY DEF IInv, R!CopiesInv, R!TypeOK
  <2>4. QED
    BY <2>1, <2>2, <2>3, RunsOwned DEF IInv
<1>3. QED
  BY <1>1, <1>2, PTL DEF Spec

\* Pods that exclude each other are never both in a reconcile, through any
\* rollouts, restarts, crashes and lost leases (EnforceSinglePodTopology, the
\* manager's lease, Reconcile).
THEOREM RunsExclude == Spec => []OneRunAtATime
<1>1. IInv => OneRunAtATime
  BY DEF IInv, OneRunAtATime, S!PodInv, S!PodsTypeOK, S!Admitted, S!Guarded, S!Reconciles,
         S!Exclusive
<1>2. QED
  BY <1>1, InvariantHolds, PTL

\* A client of the CR sees steps of StatusContract only, whichever pods come, go
\* and find the work of others (Reconcile, main and the Deployment).
THEOREM ContractMet == Spec => MeetsContract
<1>1. Init => R!Contract!Init
  BY SameContract, SameCR, ReconcilerAssumptions, C!InitMeetsContract DEF Init
<1>2. IInv /\ [Next]_vars => [R!Contract!Next]_(R!Contract!card)
  BY CRSteps, SameContract, SameCR, ReconcilerAssumptions, C!StepMeetsContract DEF IInv
<1>3. QED
  BY <1>1, <1>2, InvariantHolds, PTL DEF Spec, MeetsContract, R!MeetsContract, R!Contract!Spec

\* What ReconcilerProofs says of the status of the CR holds of the deployed
\* operator, too: labels, verdicts, results cut short, and work that is left.
THEOREM StatusSafe ==
  Spec => [](R!OutcomeLabelled /\ R!SettledVerdict /\ R!NoCutShortStored /\ R!NoLostWork)
<1>1. IInv => R!OutcomeLabelled /\ R!SettledVerdict /\ R!NoCutShortStored /\ R!NoLostWork
  BY DEF IInv, R!CopiesInv, R!Sound, R!OutcomeLabelled, R!SettledVerdict, R!GoodOutcome,
         R!NoCutShortStored
<1>2. QED
  BY <1>1, InvariantHolds, PTL

\* And so does what they say of its steps: verdicts are final, and
\* observedGeneration grows.
THEOREM StatusStepsSafe == Spec => R!VerdictIsFinal /\ R!ObservedGenerationGrows
<1>1. ASSUME IInv, [Next]_vars, obj.exists, obj'.exists, obj'.uid = obj.uid
      PROVE  /\ R!Settled(obj) /\ obj'.gen = obj.gen => obj'.status = obj.status
             /\ obj'.status.og >= obj.status.og
  BY <1>1, CRSteps, SameCR, ReconcilerAssumptions, C!VerdictSteps DEF IInv, R!Settled, C!Settled
<1>2. IInv /\ [Next]_vars =>
        [obj.exists /\ R!Settled(obj) /\ obj'.exists /\ obj'.uid = obj.uid /\ obj'.gen = obj.gen
         => obj'.status = obj.status]_(R!vars)
  BY <1>1
<1>3. IInv /\ [Next]_vars =>
        [obj.exists /\ obj'.exists /\ obj'.uid = obj.uid
         => obj'.status.og >= obj.status.og]_(R!vars)
  BY <1>1
<1>4. QED
  BY <1>2, <1>3, InvariantHolds, PTL DEF Spec, R!VerdictIsFinal, R!ObservedGenerationGrows

=============================================================================
