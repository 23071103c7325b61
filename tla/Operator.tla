------------------------------ MODULE Operator ------------------------------
(***************************************************************************)
(* The operator as it is deployed: the Deployment rolls pods from template *)
(* to template, Startup says which of them reconciles, Reconciler what it  *)
(* does.  A pod's controllers run exactly while its process reconciles, so *)
(* that work begun by one pod is taken up by the next.                     *)
(***************************************************************************)
EXTENDS Integers, FiniteSets

LOCAL INSTANCE FiniteSetsExt

CONSTANTS Pods, Nobody, Home, Namespaces, LeaseIDs, Templates, MayList,
          Specs, InvalidSpecs, UnselectableSpecs, BadIntervalSpecs,
          HealthyPhases, BrokenPhases,
          Replicas,    \* spec.replicas of the Deployment
          Installed,   \* bound: the templates the Deployment may begin with
          Rollouts,    \* bound: which template may follow which
          MaxRollouts, \* bound: how many do
          MaxEdits, MaxFaults, MaxRv

\* The default rolling update of so few pods: one more, and none less.
ASSUME ReplicasAssumption == Replicas \in 1 .. 3
ASSUME RolloutsAssumption ==
  /\ Installed \subseteq Templates
  /\ Rollouts \subseteq Templates \X Templates
ASSUME BoundsAssumption ==
  MaxRollouts \in Nat /\ MaxEdits \in Nat /\ MaxFaults \in Nat /\ MaxRv \in Nat
ASSUME PodsAssumption == Nobody \notin Pods /\ IsFiniteSet(Pods)

VARIABLES
  template, desired, rollouts,                \* the Deployment, its ReplicaSets
  args, pod, proc, lease,                     \* Startup
  obj, cache, pc, cr, ctx, out, net, queued, timer, cluster, edits, \* Reconciler
  faults

deployment == <<template, desired, rollouts>>
podVars == <<args, pod, proc, lease>>
crVars == <<obj, cache, pc, cr, ctx, out, net, queued, timer, cluster, edits>>
vars == <<deployment, podVars, crVars, faults>>

S == INSTANCE Startup WITH changes <- 0, MaxChanges <- 0

ASSUME NamespacesAssumption ==
  {Home, S!DefaultNamespace} \subseteq Namespaces /\ S!Unset \notin Namespaces
ASSUME LeaseIDsAssumption == S!DefaultLeaseID \in LeaseIDs
ASSUME TemplatesAssumption == Templates \subseteq S!Arguments

\* The controllers of a pod are up while its process reconciles.
Up == [p \in Pods |-> CASE proc[p] = "reconciling" -> "up"
                        [] proc[p] = "stopping"    -> "stopping"
                        [] OTHER                   -> "down"]

R == INSTANCE Reconciler WITH up <- Up

ASSUME SpecsAssumption ==
  InvalidSpecs \cup UnselectableSpecs \cup BadIntervalSpecs \subseteq Specs
ASSUME PhasesAssumption == HealthyPhases \cup BrokenPhases \subseteq R!TerminalPhases

Init ==
  /\ template \in Installed
  /\ desired = [t \in Templates |-> 0]
  /\ rollouts = 0
  /\ args = [p \in Pods |-> S!Defaults]
  /\ pod = [p \in Pods |-> "absent"]
  /\ proc = [p \in Pods |-> "none"]
  /\ lease = [l \in S!Leases |-> Nobody]
  /\ R!Init /\ cluster = "healthy"

-----------------------------------------------------------------------------
(* The Deployment and its ReplicaSets, one for each template.              *)

\* Mutant: the readiness that architecture.md describes, of the leader only.
LeaderReady(p) == proc[p] = "reconciling"

\* The readiness probe asks for ping only, which any manager answers.
Ready(p) == proc[p] \in {"manager", "reconciling"}

PodsOf(t) == {p \in Pods : S!Stays(p) /\ args[p] = t}
Available(t) == Cardinality({p \in PodsOf(t) : Ready(p)})
Total == MapThenSumSet(LAMBDA t : desired[t], Templates)
AllAvailable == MapThenSumSet(Available, Templates)

\* kubectl apply, helm upgrade; not before what is there has come up (a bound).
NewTemplate(t) ==
  /\ AllAvailable >= Replicas
  /\ rollouts < MaxRollouts /\ rollouts' = rollouts + 1
  /\ <<template, t>> \in Rollouts /\ template' = t
  /\ UNCHANGED <<desired, podVars, crVars, faults>>

\* One pod more than the replicas may be wanted while a rollout lasts.
ScaleUp ==
  /\ desired[template] < Replicas /\ Total < Replicas + 1
  /\ desired' = [desired EXCEPT ![template] = @ + 1]
  /\ UNCHANGED <<template, rollouts, podVars, crVars, faults>>

\* An old pod is given up once the new ones that are wanted are available and,
\* unless it is itself unavailable, enough others are.
ScaleDown(t) ==
  /\ t # template /\ desired[t] > 0
  /\ Total - Replicas > desired[template] - Available(template)
  /\ Available(t) < desired[t] \/ AllAvailable > Replicas
  /\ desired' = [desired EXCEPT ![t] = @ - 1]
  /\ UNCHANGED <<template, rollouts, podVars, crVars, faults>>

ReplacePod(p, t) ==
  /\ Cardinality(PodsOf(t)) < desired[t]
  /\ S!CreatePod(p, t)
  /\ UNCHANGED <<deployment, crVars, faults>>

-----------------------------------------------------------------------------
(* Pods, and what their controllers do with it.                            *)

\* runCtx is canceled, and no new reconcile begins.
Stopped(p) == IF Up[p] = "up" THEN R!BeginStop(p) ELSE UNCHANGED crVars

\* Whatever the process held in memory is gone.
Killed(p) ==
  IF Up[p] = "down" THEN UNCHANGED crVars ELSE R!Disown(p) /\ R!Gone(p)

\* ReplicaSets prefer to delete a pod that is not ready.
SurplusPod(p) ==
  /\ S!Stays(p) /\ Cardinality(PodsOf(args[p])) > desired[args[p]]
  /\ Ready(p) => \A q \in PodsOf(args[p]) : Ready(q)
  /\ S!DeletePod(p)
  /\ Stopped(p)
  /\ UNCHANGED <<deployment, faults>>

Prepare(p) ==
  /\ \/ S!StartProcess(p) \/ S!ParseFlags(p) \/ S!PassGuard(p) \/ S!RefuseStart(p)
     \/ S!RemovePod(p)
  /\ UNCHANGED <<deployment, crVars, faults>>

\* mgr.Start: the controllers start with the lease, or without election.
Lead(p) ==
  /\ S!AcquireLease(p) \/ S!StartUnelected(p)
  /\ R!Boot(p)
  /\ UNCHANGED <<deployment, faults>>

FreeLease(l) == S!ExpireLease(l) /\ UNCHANGED <<deployment, crVars, faults>>

\* The worker has ended its run before the lease is released.
End(p) ==
  /\ S!FinishStop(p)
  /\ R!Exit(p)
  /\ UNCHANGED deployment

Fault == faults < MaxFaults /\ faults' = faults + 1

Break(p) ==
  /\ Fault
  /\ \/ (S!Crash(p) \/ S!LoseLease(p)) /\ Killed(p)
     \/ S!Restart(p) /\ Stopped(p)
  /\ UNCHANGED deployment

-----------------------------------------------------------------------------
(* The user of the CR, the API server, and the reconciles.                 *)

\* Deadlines, panics and calls that fail are faults Reconciler looks at alone.
Steady == UNCHANGED <<deployment, podVars, faults>>

UserActs == Steady /\ R!User
ServerActs(r) == Steady /\ R!Serve(r)
Work(p) ==
  /\ Steady
  /\ \/ R!Start(p) \/ R!Reconcile(p) \/ R!GiveUp(p)
     \/ R!CacheSync(p) \/ R!RequeueAfter(p)

Next ==
  \/ \E t \in Templates : NewTemplate(t) \/ ScaleDown(t)
  \/ ScaleUp \/ UserActs
  \/ \E l \in S!Leases : FreeLease(l)
  \/ \E r \in net : ServerActs(r)
  \/ \E p \in Pods :
       \/ \E t \in Templates : ReplacePod(p, t)
       \/ SurplusPod(p) \/ Prepare(p) \/ Lead(p) \/ End(p) \/ Break(p) \/ Work(p)

Spec == Init /\ [][Next]_vars

\* Controllers, kubelets and processes go on; a free lease is taken.  Users,
\* rollouts and faults need not happen.
Fairness ==
  /\ WF_vars(ScaleUp)
  /\ \A t \in Templates : WF_vars(ScaleDown(t))
  /\ WF_vars(\E p \in Pods, t \in Templates : ReplacePod(p, t))
  /\ WF_vars(\E l \in S!Leases : FreeLease(l))
  /\ \A p \in Pods :
       /\ WF_vars(SurplusPod(p)) /\ WF_vars(Prepare(p)) /\ WF_vars(End(p))
       /\ SF_vars(Lead(p))
       /\ WF_vars(Steady /\ R!Start(p)) /\ WF_vars(Steady /\ R!Reconcile(p))
       /\ WF_vars(Steady /\ R!CacheSync(p)) /\ WF_vars(Steady /\ R!RequeueAfter(p))
       /\ WF_vars(Steady /\ \E r \in net : r.from = p /\ R!Serve(r))

FairSpec == Spec /\ Fairness

-----------------------------------------------------------------------------
(* Properties.                                                             *)

\* What Startup says of the pods holds as they roll, and what Reconciler says of
\* the CR as pods come and go for reasons of their own.  A run has its
\* controllers, which only an end of the run or of the process can take from it.
IInv ==
  /\ S!PodInv
  /\ R!CopiesInv
  /\ \A p \in Pods : pc[p] # "idle" => S!Reconciles(p)

\* What architecture.md (AR-026) gives as the aim: pods that exclude each other
\* are never both in a reconcile, through rollouts, restarts and lost leases.
OneRunAtATime ==
  \A p, q \in Pods :
    p # q /\ S!Exclusive(args[p], args[q]) => pc[p] = "idle" \/ pc[q] = "idle"

\* What a client of the CR sees is what StatusContract allows, whichever pods
\* come, go and find the work of others (Reconcile under main and the Deployment).
MeetsContract == R!MeetsContract

\* With leader election in the template that stays, the rollout to it ends: its
\* pods become ready beside a leader, and the old ones go (AddReadyzCheck).
RolloutEnds ==
  <>[](template.leaderElect)
  => <>[](\A p \in Pods : S!Stays(p) => args[p] = template)

\* A CR gets its verdict whichever pods come and go meanwhile: what a pod has
\* left Pending or Running when it stopped, died or lost the lease is taken up
\* by the next one (Reconcile, and the first list of its informer).
EventuallyServed ==
  <>[](\E p \in Pods : S!Stays(p) /\ (args[p].leaderElect \/ S!Alone(p)))
  => []<>(obj.exists => R!Settled(obj))

=============================================================================
