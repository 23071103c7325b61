---------------------------- MODULE StartupProofs ----------------------------
(***************************************************************************)
(* Proofs about Startup: for any finite number of pods, any templates they *)
(* are created from and any number of restarts, evictions and lost leases, *)
(* two pods whose flags exclude each other never reconcile at once.        *)
(***************************************************************************)
EXTENDS Startup, FiniteSetTheorems, TLAPS

\* A set of at most one element has no two.
LEMMA AtMostOne ==
  ASSUME NEW S, IsFiniteSet(S), Cardinality(S) <= 1, NEW a \in S, NEW b \in S
  PROVE  a = b
<1> SUFFICES ASSUME a # b PROVE FALSE
  OBVIOUS
<1>1. IsFiniteSet({a}) /\ Cardinality({a}) = 1
  BY FS_Singleton
<1>2. Cardinality({a} \cup {b}) = 2
  BY <1>1, FS_AddElement, b \notin {a}
<1>3. Cardinality({a} \cup {b}) <= Cardinality(S)
  BY FS_Subset, {a} \cup {b} \subseteq S
<1>4. Cardinality(S) \in Nat
  BY FS_CardinalityType
<1> QED
  BY <1>2, <1>3, <1>4

\* The lease a manager is given is one (resolveLeaderElectionNamespace).
LEMMA LeaseType ==
  ASSUME NEW a \in Arguments
  PROVE  LeaseOf(a) \in Leases
BY NamespacesAssumption DEF LeaseOf, Leases, LeaseNamespace, Arguments

LEMMA DefaultsType == Defaults \in Arguments
BY LeaseIDsAssumption DEF Defaults, Arguments

\* In the initial state no process runs.
LEMMA InitHolds == Init => IInv
  BY DefaultsType, PodsAssumption, NamespacesAssumption, BoundsAssumption
  DEF Init, IInv, PodInv, TypeOK, PodsTypeOK, Admitted, Guarded, Reconciles

\* What the guard admits is the only active pod, if it looks where the pods
\* are, and its flags are no configuration error (GuardAdmits, ActivePods).
LEMMA GuardExcludes ==
  ASSUME PodInv, NEW p \in Pods, PassGuard(p)
  PROVE  /\ Fit(args[p])
         /\ ~args[p].leaderElect /\ LeaseNamespace(args[p]) = Home =>
              \A q \in Pods : proc[q] # "none" => q = p
<1>1. StartsManager(args[p])
  BY DEF PodInv, PassGuard
<1>2. args[p].leaderElect \/ (ExpectsOne(p) /\ CanList(p) /\ Cardinality(ActivePods(p)) <= 1)
  BY DEF PassGuard, GuardAdmits
<1>3. Fit(args[p])
  BY <1>1, <1>2 DEF Fit, StartsManager, ExpectsOne, CanList
<1>4. ASSUME ~args[p].leaderElect, LeaseNamespace(args[p]) = Home,
             NEW q \in Pods, proc[q] # "none"
      PROVE  q = p
  <2>1. pod[p] \in {"Running", "Terminating"} /\ pod[q] \in {"Running", "Terminating"}
    BY <1>4 DEF PodInv, PassGuard
  <2>2. p \in ActivePods(p) /\ q \in ActivePods(p)
    BY <1>4, <2>1 DEF ActivePods, ActivePhases, Listed
  <2>3. IsFiniteSet(ActivePods(p))
    BY PodsAssumption, FS_Subset, ActivePods(p) \subseteq Pods DEF ActivePods, Listed
  <2>4. QED
    BY <1>2, <1>4, <2>2, <2>3, AtMostOne
<1>5. QED
  BY <1>3, <1>4

\* Whatever the bounds, every step of the pods and their leases keeps PodInv.
LEMMA PodStepHolds ==
  ASSUME PodInv,
         \/ \E l \in Leases : ExpireLease(l)
         \/ \E p \in Pods : Go(p) \/ Change(p) \/ Fail(p)
         \/ UNCHANGED <<args, pod, proc, lease>>
  PROVE  PodInv'
<1> USE PodsAssumption, LeaseType
    DEF PodInv, PodsTypeOK, Admitted, Guarded, Reconciles
<1>1. CASE UNCHANGED <<args, pod, proc, lease>>
  BY <1>1
<1>2. ASSUME NEW p \in Pods, NEW template \in Templates, CreatePod(p, template) PROVE PodInv'
  BY <1>2, TemplatesAssumption DEF CreatePod
<1>3. ASSUME NEW p \in Pods, DeletePod(p) PROVE PodInv'
  BY <1>3 DEF DeletePod, Signal
<1>4. ASSUME NEW p \in Pods, RemovePod(p) PROVE PodInv'
  BY <1>4, DefaultsType DEF RemovePod
<1>5. ASSUME NEW p \in Pods, Evict(p) PROVE PodInv'
  BY <1>5 DEF Evict
<1>6. ASSUME NEW p \in Pods, Crash(p) PROVE PodInv'
  BY <1>6 DEF Crash
<1>7. ASSUME NEW p \in Pods, Restart(p) PROVE PodInv'
  BY <1>7 DEF Restart, Signal
<1>8. ASSUME NEW p \in Pods, StartProcess(p) PROVE PodInv'
  BY <1>8 DEF StartProcess
<1>9. ASSUME NEW p \in Pods, ParseFlags(p) PROVE PodInv'
  BY <1>9 DEF ParseFlags
<1>10. ASSUME NEW p \in Pods, PassGuard(p) PROVE PodInv'
  <2>1. /\ Fit(args[p])
        /\ ~args[p].leaderElect /\ LeaseNamespace(args[p]) = Home =>
             \A q \in Pods : proc[q] # "none" => q = p
    BY <1>10, GuardExcludes
  <2>2. proc[p] = "guard" /\ proc' = [proc EXCEPT ![p] = "manager"]
        /\ UNCHANGED <<args, pod, lease>>
    BY <1>10 DEF PassGuard
  <2>3. \A q, r \in Pods : Guarded(q)' /\ Guarded(r)' => q = r
    BY <2>1, <2>2
  <2>4. \A q \in Pods : Admitted(q)' => Fit(args[q])
    BY <2>1, <2>2
  <2>5. QED
    BY <2>2, <2>3, <2>4
<1>11. ASSUME NEW p \in Pods, RefuseStart(p) PROVE PodInv'
  BY <1>11 DEF RefuseStart, Refuse
<1>12. ASSUME NEW p \in Pods, StartUnelected(p) PROVE PodInv'
  BY <1>12 DEF StartUnelected
<1>13. ASSUME NEW p \in Pods, AcquireLease(p) PROVE PodInv'
  <2>1. LeaseOf(args[p]) \in Leases
    OBVIOUS
  <2>2. lease[LeaseOf(args[p])] = Nobody
    BY <1>13 DEF AcquireLease
  <2>3. \A q \in Pods : args[q].leaderElect /\ Reconciles(q)
                        => LeaseOf(args[q]) # LeaseOf(args[p])
    BY <2>2
  <2>4. QED
    BY <1>13, <2>1, <2>3 DEF AcquireLease, Take
<1>14. ASSUME NEW p \in Pods, LoseLease(p) PROVE PodInv'
  BY <1>14 DEF LoseLease
<1>15. ASSUME NEW l \in Leases, ExpireLease(l) PROVE PodInv'
  <2>1. \A q \in Pods : args[q].leaderElect /\ Reconciles(q) => LeaseOf(args[q]) # l
    BY <1>15 DEF ExpireLease, Holds
  <2>2. QED
    BY <1>15, <2>1 DEF ExpireLease
<1>16. ASSUME NEW p \in Pods, FinishStop(p) PROVE PodInv'
  <2>1. LeaseOf(args[p]) \in Leases
    OBVIOUS
  <2>2. CASE ~args[p].leaderElect
    BY <1>16, <2>1, <2>2 DEF FinishStop, Release
  <2>3. CASE args[p].leaderElect
    <3>1. \A q \in Pods : q # p /\ args[q].leaderElect /\ Reconciles(q)
                          => LeaseOf(args[q]) # LeaseOf(args[p])
      BY <1>16, <2>3 DEF FinishStop
    <3>2. QED
      BY <1>16, <2>1, <2>3, <3>1 DEF FinishStop, Release
  <2>4. QED
    BY <2>2, <2>3
<1>17. ASSUME NEW p \in Pods, ListFails(p) PROVE PodInv'
  BY <1>17 DEF ListFails, Refuse
<1> QED
  BY <1>1, <1>2, <1>3, <1>4, <1>5, <1>6, <1>7, <1>8, <1>9, <1>10, <1>11, <1>12, <1>13,
     <1>14, <1>15, <1>16, <1>17
  DEF Run, Go, Change, Fail

\* Every step keeps the invariant.
LEMMA StepHolds ==
  ASSUME IInv, [Next]_vars
  PROVE  IInv'
<1>1. changes' \in 0 .. MaxChanges /\ faults' \in 0 .. MaxFaults
  BY BoundsAssumption DEF IInv, TypeOK, Next, budgets, vars
<1>2. PodInv'
  BY PodStepHolds DEF IInv, Next, vars
<1>3. QED
  BY <1>1, <1>2 DEF IInv, TypeOK, PodInv

\* The invariant holds of every run of the operator's pods
\* (EnforceSinglePodTopology, manager options).
THEOREM InvariantHolds == Spec => []IInv
  BY InitHolds, StepHolds, PTL DEF Spec

\* Pods whose flags exclude each other never reconcile at the same time,
\* whether by the lease or by the guard (EnforceSinglePodTopology).
THEOREM NeverTwo == Spec => []OneReconciler
<1>1. IInv => OneReconciler
  BY DEF IInv, PodInv, PodsTypeOK, Admitted, Guarded, Reconciles, Exclusive, OneReconciler
<1> QED
  BY <1>1, InvariantHolds, PTL

\* Flags that are a configuration error start nobody (EnforceSinglePodTopology,
\* flag.Parse).
THEOREM UnfitNeverStart == Spec => []OnlyFitReconcile
<1>1. IInv => OnlyFitReconcile
  BY DEF IInv, PodInv, Admitted, Reconciles, OnlyFitReconcile
<1> QED
  BY <1>1, InvariantHolds, PTL

=============================================================================
