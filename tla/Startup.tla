------------------------------- MODULE Startup -------------------------------
(***************************************************************************)
(* The start and the end of operator pods (main.go) and what keeps two of  *)
(* them from reconciling: the lease when leader election is on, and        *)
(* EnforceSinglePodTopology (leader_topology.go) when it is off.           *)
(*                                                                         *)
(* Pods are created with any flags a Deployment may give them, so that     *)
(* those of several rollouts meet; they are deleted and evicted at any     *)
(* time, and a process that ends is restarted while its pod is to run.     *)
(***************************************************************************)
EXTENDS Integers, FiniteSets

CONSTANTS Pods, Nobody,
          Home,       \* the namespace of the operator pods
          Namespaces,
          LeaseIDs,   \* names a lease may be given, or none
          Templates,  \* the flags and the environment pods are created with
          MayList,    \* where the operator is granted to list pods
          MaxChanges, \* bound: pods created, deleted or evicted
          MaxFaults   \* bound: crashes, restarts, failed lists, lost leases

\* What the metav1.NamespaceDefault fallback names, and an unset flag.
DefaultNamespace == "default"
Unset == "unset"

\* The name of the lease when no flag gives one, and what NewManager refuses.
DefaultLeaseID == "k-deskflight-operator"
NoLeaseID == ""

ASSUME PodsAssumption == Nobody \notin Pods /\ IsFiniteSet(Pods)
ASSUME NamespacesAssumption ==
  {Home, DefaultNamespace} \subseteq Namespaces /\ Unset \notin Namespaces
ASSUME LeaseIDsAssumption == DefaultLeaseID \in LeaseIDs

\* What a pod template gives to main: flags, environment, and all the rest.
Arguments == [leaderElect : BOOLEAN,
              replicas : Int,                      \* --expected-replica-count
              leaseFlag : Namespaces \cup {Unset}, \* --leader-election-namespace
              leaseID : LeaseIDs,                  \* --leader-election-id
              podNamespace : BOOLEAN,              \* POD_NAMESPACE by the Downward API
              scopeFlag : BOOLEAN,                 \* --namespace, as the chart passes it
              revision : Nat]                      \* image and resources
Defaults == [leaderElect |-> TRUE, replicas |-> 1, leaseFlag |-> Unset,
             leaseID |-> DefaultLeaseID, podNamespace |-> FALSE,
             scopeFlag |-> FALSE, revision |-> 0]

ASSUME TemplatesAssumption == Templates \subseteq Arguments
ASSUME BoundsAssumption == MaxChanges \in Nat /\ MaxFaults \in Nat

\* A lease is an object of its namespace, with its name.
Leases == Namespaces \X LeaseIDs

VARIABLES
  args,    \* [Pods -> the template the pod was created from, while there is one]
  pod,     \* [Pods -> phase of the pod object; Terminating once it is to go]
  proc,    \* [Pods -> how far its process has come]
  lease,   \* [Leases -> its holder]
  changes, faults

budgets == <<changes, faults>>
vars == <<args, pod, proc, lease, changes, faults>>

Init ==
  /\ args = [p \in Pods |-> Defaults]
  /\ pod = [p \in Pods |-> "absent"]
  /\ proc = [p \in Pods |-> "none"]
  /\ lease = [l \in Leases |-> Nobody]
  /\ changes = 0
  /\ faults = 0

-----------------------------------------------------------------------------
(* The cluster.                                                            *)

CreatePod(p, template) ==
  /\ pod[p] = "absent"
  /\ pod' = [pod EXCEPT ![p] = "Pending"]
  /\ args' = [args EXCEPT ![p] = template]
  /\ UNCHANGED <<proc, lease>>

\* SIGTERM.  mgr.Start installs the handler, so that a process still busy with
\* its start dies at once; one that waits for the lease has nothing to end.
Signal(p) ==
  proc' = [proc EXCEPT ![p] = IF @ \in {"reconciling", "stopping"} THEN "stopping" ELSE "none"]

\* A pod that is to go keeps its status.phase, and its process gets a signal.
DeletePod(p) ==
  /\ pod[p] \in {"Pending", "Running"}
  /\ pod' = [pod EXCEPT ![p] = "Terminating"]
  /\ Signal(p)
  /\ UNCHANGED <<args, lease>>

\* The object of a pod outlives its process.
RemovePod(p) ==
  /\ pod[p] \in {"Terminating", "Failed"} /\ proc[p] = "none"
  /\ pod' = [pod EXCEPT ![p] = "absent"]
  /\ args' = [args EXCEPT ![p] = Defaults]
  /\ UNCHANGED <<proc, lease>>

\* An evicted pod is not restarted, and its object stays.
Evict(p) ==
  /\ pod[p] \in {"Pending", "Running"}
  /\ pod' = [pod EXCEPT ![p] = "Failed"]
  /\ proc' = [proc EXCEPT ![p] = "none"]
  /\ UNCHANGED <<args, lease>>

\* The kubelet starts the container, for the first time or again.
StartProcess(p) ==
  /\ pod[p] \in {"Pending", "Running"} /\ proc[p] = "none"
  /\ pod' = [pod EXCEPT ![p] = "Running"]
  /\ proc' = [proc EXCEPT ![p] = "flags"]
  /\ UNCHANGED <<args, lease>>

Crash(p) ==
  /\ proc[p] # "none"
  /\ proc' = [proc EXCEPT ![p] = "none"]
  /\ UNCHANGED <<args, pod, lease>>

\* The liveness probe has failed: a signal, and a new start in the same pod.
Restart(p) ==
  /\ pod[p] = "Running" /\ proc[p] # "none"
  /\ Signal(p)
  /\ UNCHANGED <<args, pod, lease>>

-----------------------------------------------------------------------------
(* main, up to the guard.                                                  *)

\* Mutant: flag.Parse passes over a flag that main does not define.
AnyFlagParses(a) == a.leaderElect => a.leaseID # NoLeaseID

\* flag.Parse ends a process that is given a flag main does not define, and
\* NewManager one that is to elect a leader by a lease without a name.
StartsManager(a) == ~a.scopeFlag /\ (a.leaderElect => a.leaseID # NoLeaseID)

ParseFlags(p) ==
  /\ proc[p] = "flags"
  /\ proc' = [proc EXCEPT ![p] = IF StartsManager(args[p]) THEN "guard" ELSE "none"]
  /\ UNCHANGED <<args, pod, lease>>

\* resolveLeaderElectionNamespace: flag, then POD_NAMESPACE, then default.
LeaseNamespace(a) ==
  IF a.leaseFlag # Unset THEN a.leaseFlag
  ELSE IF a.podNamespace THEN Home ELSE DefaultNamespace

\* The lease the manager is given.
LeaseOf(a) == <<LeaseNamespace(a), a.leaseID>>

\* Mutant: every pod that has an object counts.
EveryPhase == {"Pending", "Running", "Terminating", "Failed"}

\* Mutant: a pod that is about to go does not count.
PhasesToStay == {"Pending", "Running"}

\* Those whose status.phase is Pending or Running.
ActivePhases == {"Pending", "Running", "Terminating"}

\* The guard's list: all operator pods carry the same labels and are in Home.
Listed(p) ==
  IF LeaseNamespace(args[p]) = Home THEN {q \in Pods : pod[q] # "absent"} ELSE {}
ActivePods(p) == {q \in Listed(p) : pod[q] \in ActivePhases}

\* A count below one is taken as one.
ExpectsOne(p) == args[p].replicas <= 1
CanList(p) == LeaseNamespace(args[p]) \in MayList

\* Mutant: a list that is refused shows no pod.
RefusedShowsNone(p) ==
  \/ args[p].leaderElect
  \/ ExpectsOne(p) /\ (CanList(p) => Cardinality(ActivePods(p)) <= 1)

GuardAdmits(p) ==
  args[p].leaderElect \/ (ExpectsOne(p) /\ CanList(p) /\ Cardinality(ActivePods(p)) <= 1)

PassGuard(p) ==
  /\ proc[p] = "guard" /\ GuardAdmits(p)
  /\ proc' = [proc EXCEPT ![p] = "manager"]
  /\ UNCHANGED <<args, pod, lease>>

\* SinglePodTopologyMismatch: the process exits with an error.
Refuse(p) ==
  /\ proc[p] = "guard"
  /\ proc' = [proc EXCEPT ![p] = "none"]
  /\ UNCHANGED <<args, pod, lease>>

RefuseStart(p) == ~GuardAdmits(p) /\ Refuse(p)

\* The list fails, or takes longer than guardCtx lets it.
ListFails(p) == ~args[p].leaderElect /\ ExpectsOne(p) /\ Refuse(p)

-----------------------------------------------------------------------------
(* mgr.Start.                                                              *)

\* Without leader election the controllers start at once.
StartUnelected(p) ==
  /\ proc[p] = "manager" /\ ~args[p].leaderElect
  /\ proc' = [proc EXCEPT ![p] = "reconciling"]
  /\ UNCHANGED <<args, pod, lease>>

Take(p) == lease' = [lease EXCEPT ![LeaseOf(args[p])] = p]

\* Mutant: the manager does not wait for the lease.
StartAnyway(p) ==
  /\ proc[p] = "manager" /\ args[p].leaderElect
  /\ Take(p)
  /\ proc' = [proc EXCEPT ![p] = "reconciling"]
  /\ UNCHANGED <<args, pod>>

\* A new process has a new identity: its own old lease must expire, too.
AcquireLease(p) ==
  /\ proc[p] = "manager" /\ args[p].leaderElect
  /\ lease[LeaseOf(args[p])] = Nobody
  /\ Take(p)
  /\ proc' = [proc EXCEPT ![p] = "reconciling"]
  /\ UNCHANGED <<args, pod>>

Holds(l, p) == lease[l] = p /\ args[p].leaderElect /\ LeaseOf(args[p]) = l

\* The renew deadline of the holder is shorter than the lease: a holder that
\* cannot renew exits, without a grace period, before others may take it.
LoseLease(p) ==
  /\ proc[p] \in {"reconciling", "stopping"} /\ args[p].leaderElect
  /\ proc' = [proc EXCEPT ![p] = "none"]
  /\ UNCHANGED <<args, pod, lease>>

\* Nobody renews the lease of a process that is gone.
ExpireLease(l) ==
  /\ lease[l] # Nobody
  /\ ~(Holds(l, lease[l]) /\ proc[lease[l]] \in {"reconciling", "stopping"})
  /\ lease' = [lease EXCEPT ![l] = Nobody]
  /\ UNCHANGED <<args, pod, proc>>

Release(p) ==
  lease' = [lease EXCEPT ![LeaseOf(args[p])] = IF args[p].leaderElect THEN Nobody ELSE @]

\* Mutant: the lease is released first, then the controllers stop.
ReleaseFirst(p) ==
  /\ proc[p] = "stopping"
  /\ IF Holds(LeaseOf(args[p]), p)
     THEN Release(p) /\ UNCHANGED proc
     ELSE proc' = [proc EXCEPT ![p] = "none"] /\ UNCHANGED lease
  /\ UNCHANGED <<args, pod>>

\* The controllers have stopped: the lease is released, the process ends.
FinishStop(p) ==
  /\ proc[p] = "stopping"
  /\ proc' = [proc EXCEPT ![p] = "none"]
  /\ Release(p)
  /\ UNCHANGED <<args, pod>>

-----------------------------------------------------------------------------

Run(p) ==
  StartProcess(p) \/ ParseFlags(p) \/ PassGuard(p) \/ RefuseStart(p) \/ StartUnelected(p)

Go(p) == Run(p) \/ AcquireLease(p) \/ FinishStop(p) \/ RemovePod(p)
Change(p) == (\E template \in Templates : CreatePod(p, template)) \/ DeletePod(p) \/ Evict(p)
Fail(p) == Crash(p) \/ Restart(p) \/ LoseLease(p) \/ ListFails(p)

Next ==
  \/ /\ (\E l \in Leases : ExpireLease(l)) \/ (\E p \in Pods : Go(p))
     /\ UNCHANGED budgets
  \/ /\ \E p \in Pods : Change(p)
     /\ changes < MaxChanges /\ changes' = changes + 1 /\ UNCHANGED faults
  \/ /\ \E p \in Pods : Fail(p)
     /\ faults < MaxFaults /\ faults' = faults + 1 /\ UNCHANGED changes

Spec == Init /\ [][Next]_vars

\* The kubelet restarts and cleans up, a process goes on, a lease that is not
\* renewed expires, and one that is free is taken.
Fairness ==
  /\ WF_vars((\E l \in Leases : ExpireLease(l)) /\ UNCHANGED budgets)
  /\ \A p \in Pods :
       /\ WF_vars(Run(p) /\ UNCHANGED budgets)
       /\ SF_vars(AcquireLease(p) /\ UNCHANGED budgets)
       /\ WF_vars(FinishStop(p) /\ UNCHANGED budgets)
       /\ WF_vars(pod[p] = "Terminating" /\ RemovePod(p) /\ UNCHANGED budgets)

FairSpec == Spec /\ Fairness

-----------------------------------------------------------------------------
(* Properties.                                                             *)

PodsTypeOK ==
  /\ args \in [Pods -> Arguments]
  /\ pod \in [Pods -> {"absent", "Pending", "Running", "Terminating", "Failed"}]
  /\ proc \in [Pods -> {"none", "flags", "guard", "manager", "reconciling", "stopping"}]
  /\ lease \in [Leases -> Pods \cup {Nobody}]

TypeOK ==
  /\ PodsTypeOK
  /\ changes \in 0 .. MaxChanges
  /\ faults \in 0 .. MaxFaults

\* A process that is told to stop still ends the runs it has begun.
Reconciles(p) == proc[p] \in {"reconciling", "stopping"}

\* Two pods exclude each other by one lease, or because either counts the
\* other.  A mixed pair does not (a rollout from one mode to the other), nor do
\* elected pods that are given leases of different names or namespaces.
Exclusive(a, b) ==
  \/ a.leaderElect /\ b.leaderElect /\ LeaseOf(a) = LeaseOf(b)
  \/ ~a.leaderElect /\ ~b.leaderElect /\ LeaseNamespace(a) = Home /\ LeaseNamespace(b) = Home

\* Pods whose flags exclude each other never reconcile at the same time,
\* whatever other pods there are and however each of them ends: by the lease,
\* or because a pod is active from its creation on and the later one counts
\* the earlier (EnforceSinglePodTopology before mgr.Start).
OneReconciler ==
  \A p, q \in Pods :
    p # q /\ Exclusive(args[p], args[q]) => ~(Reconciles(p) /\ Reconciles(q))

\* Flags that name a configuration error keep a pod from reconciling for good:
\* more than one expected replica without election, a namespace the operator
\* may not list, a flag main does not know, election without a name.
Fit(a) ==
  /\ ~a.scopeFlag
  /\ IF a.leaderElect THEN a.leaseID # NoLeaseID
     ELSE a.replicas <= 1 /\ LeaseNamespace(a) \in MayList

OnlyFitReconcile == \A p \in Pods : Reconciles(p) => Fit(args[p])

Stays(p) == pod[p] \in {"Pending", "Running"}
Alone(p) == \A q \in Pods : q # p => pod[q] \in {"absent", "Failed"}

\* An operator comes up again after whatever happened to it and to the pods
\* before it: with election if any fit pod stays, without if it is the only
\* one.  Evicted pods, lost leases and their old holders do not keep it out.
OneComesUp ==
  \A p \in Pods :
    <>[](Stays(p) /\ Fit(args[p]) /\ (args[p].leaderElect \/ Alone(p)))
    => []<>(\E q \in Pods : proc[q] = "reconciling"
                            /\ args[q].leaderElect = args[p].leaderElect
                            /\ LeaseOf(args[q]) = LeaseOf(args[p]))

-----------------------------------------------------------------------------
(* The inductive invariant behind OneReconciler.                           *)

\* Past the guard: what it has once admitted it never looks at again.
Admitted(p) == proc[p] \in {"manager", "reconciling", "stopping"}

\* Admitted by a guard that looks where the pods are, which would count it, too.
Guarded(p) == Admitted(p) /\ ~args[p].leaderElect /\ LeaseNamespace(args[p]) = Home

\* A process belongs to an active pod, so the guard counts it; of those whose
\* guard looks where the pods are at most one has been admitted, and a lease
\* names the pod that reconciles under it.
PodInv ==
  /\ PodsTypeOK
  /\ \A p \in Pods : proc[p] # "none" => pod[p] \in {"Running", "Terminating"}
  /\ \A p \in Pods : Admitted(p) => Fit(args[p])
  /\ \A p \in Pods : proc[p] = "guard" => StartsManager(args[p])
  /\ \A p, q \in Pods : Guarded(p) /\ Guarded(q) => p = q
  /\ \A p \in Pods : args[p].leaderElect /\ Reconciles(p) => lease[LeaseOf(args[p])] = p

IInv == TypeOK /\ PodInv

-----------------------------------------------------------------------------
(* What the documentation says and the code does not do.                   *)

\* What docs/user/installation.md says of the chart's namespace-scope mode,
\* which passes --namespace: the operator then reconciles in its namespace.
NamespaceScopeReconciles ==
  \A p \in Pods :
    <>[](Stays(p) /\ args[p].scopeFlag /\ args[p].leaderElect) => []<>(proc[p] = "reconciling")

=============================================================================
