# k-deskflight in TLA+

Specifications of the OpenDesk Preflight Operator: what happens between an
edit of an `OpenDeskPreflightCheck` (the *CR*) and the verdict in its status.
TLC checks them on small instances, TLAPS proves the main results for every
value of the constants. Paths below are relative to the repository.

1. [The system](#1-the-system) – inventory of its components
2. [Modules](#2-modules) – which module stands for what
3. [Runs](#3-runs) – what TLC checks, bounds, fairness
4. [Proofs](#4-proofs) – what TLAPS proves, and along which argument
5. [Where documents and code disagree](#5-where-documents-and-code-disagree)
6. [What is not modelled](#6-what-is-not-modelled)
7. [Plan](#7-plan)

`PROJECT.json` lists, for each definition, the source lines it translates; for
each property, a mutant of the code that breaks it; and the hazards the
properties are for.

## 1. The system

One operator pod (Deployment, one replica, leader election on by default)
watches the CR and, for each generation of its spec, looks at the cluster
once and stores a verdict: a phase, a summary and one condition per check.

| component | source | state | operations |
|---|---|---|---|
| deployment | `src/deploy/manifests/deployment.yaml`, the chart's `templates/deployment.yaml` | template, ReplicaSets, pods | rolling update, replacement of pods, probes |
| operator process | `src/cmd/operator/main.go` | flags, lease, work queue, informer cache | start, guard, acquire or lose the lease, stop |
| topology guard | `src/internal/hexagon/application/leader_topology.go` | none; lists pods | admit or refuse a start without leader election |
| reconciler | `src/internal/hexagon/application/reconciler.go` | one local `cr` and one context per run; the CR in the API server | Get, skip, `markPhase`, validate, select, run, `writeStatus`, panic handler |
| check runner | `src/internal/hexagon/application/runner.go` | permission cache of a run, goroutine and channel of each check | `classifyPermissions`, `runWithTimeout`, `classifyContextEnd` |
| aggregator | `src/internal/hexagon/application/aggregator.go` | none | counters, phase, one condition per type |
| interval normaliser | `src/internal/hexagon/application/interval.go` | none | `NormalizeInterval` |
| checks and their registry | `src/internal/adapter/check/` | the registry, filled before the start | `ListByProfile`, five `Run` |
| domain and Kubernetes adapters | `src/internal/hexagon/domain/`, `src/internal/adapter/k8s/` | none | `Validate`, lists, access reviews |
| API types | `src/api/v1alpha1/` | the CR | – |

How they interact. The API server sends watch events to the informer cache
and from there keys to the work queue; a single worker of the pod takes a key
and calls `Reconcile`. That reads the CR **from the cache**, writes phase
Pending, validates, writes phase Running, lets the runner call the checks one
after the other (each in a goroutine of its own, since discovery calls take no
context), aggregates, and stores everything with `Status().Update`. Every
write carries the resourceVersion of the copy the run holds; the API server
refuses it if the stored one is another. An error or a conflict puts the key
back into the queue; a clean return asks for another reconcile after the
interval. Which pod does all this is settled before: by the lease, or, with
`--leader-elect=false`, by the guard, which counts the operator's pods once.

What is hard about it, and the properties that make it correct:

* **Stale copies.** The cache lags behind, the spec is edited during a run,
  the CR is deleted and created again with generation 1 again, two pods
  overlap, a request is applied after its client gave up. Then conditions must
  still belong to the object and generation that `observedGeneration` names,
  and a verdict must not be replaced or taken back
  (`OutcomeLabelled`, `SettledVerdict`, `VerdictIsFinal`,
  `ObservedGenerationGrows`; in the reader's terms, `MeetsContract`).
* **Interrupted runs.** Crash, SIGTERM, deadline, panic, lost answer, at any
  step: no work is forgotten, no truncated result is stored, and a verdict
  comes in the end (`NoLostWork`, `NoCutShortStored`, `EventuallySettled`), if
  need be from another pod (`EventuallyServed`).
* **Races in the runner.** A result, three causes for the end of a context and
  the deferred cancel arrive in any order; late goroutines outlive their check
  (`OneResultEach`, `CauseIsTrue`, `TooLateIsDropped`, `NoGoroutineLeak`,
  `RunEnds`), and a failed access review must count neither as a permission nor
  as a denial (`NeverUnpermitted`, `FailureComesFirst`, `AnsweredOnce`).
* **What Passed means.** A check left out or cut short, a merge of conditions
  that hides one, a cluster that changes between two checks, a quantity that
  does not fit into 64 bits (`PassedMeansChecked`, `PassedMeansMet`,
  `MoreIsNeverWorse`, `ConditionsShowInPhase`).
* **Two operators.** The lease, or without it the guard, which looks once and
  never again, while pods of several templates come, linger and go
  (`OneReconciler`, `OneRunAtATime`, `OnlyFitReconcile`, `OneComesUp`).
* **Rollouts.** New pod, lease and old pod may wait for each other
  (`RolloutEnds`), and what one pod leaves behind, in the CR or on the way to
  it, meets the work of the next (`MeetsContract` of `Operator`).

## 2. Modules

| module | extends | instantiates | proofs |
|---|---|---|---|
| `Phases` | | | |
| `StatusContract` | `Phases` | | |
| `Reconciler` | `Phases` | `StatusContract` (refinement) | `ReconcilerProofs` |
| `Interval`, `Sorting` | | | `SortingProofs`, which `AggregationProofs` and `ChecksProofs` cite |
| `Aggregation` | `Interval`, `Sorting`, `Phases` | | `AggregationProofs` |
| `CheckRunner` | | | `CheckRunnerProofs` |
| `Pipeline` | `CheckRunner` | `Aggregation` (refinement) | `PipelineProofs` |
| `Checks` | `Sorting` | `Aggregation` (refinement) | `ChecksProofs` |
| `Startup` | | | `StartupProofs` |
| `Operator` | | `Startup`, `Reconciler` (composition, refinement) | `OperatorProofs` |

* **`Phases`** – the phases and their ranks, `EscalatePhase`.
* **`StatusContract`** – what a reader of the CR's status may rely on: a
  generation of an object has no verdict, then shows progress, then one
  verdict that fits its spec and does not change; versions appear in order.
  No pods, caches or requests.
* **`Reconciler`** – the core. `obj` is the CR in the API server; per pod
  `cache` (informer), `cr`, `ctx`, `out` and `pc` (local variables of the
  running `Reconcile`), `up`, `queued` and `timer` (process, work queue,
  RequeueAfter); `net` holds status updates that were sent and are not handled.
  A `Status().Update` is three steps: `Send` by the client (or no request at
  all when the context has ended), `Store` or `Refuse` by the server, and the
  answer. A client that gives up (`GiveUp`, `Crash`) leaves its request to be
  lost or to take effect at any later time. `StartNotFound`, `StartSkip` and
  `StartRun` are the early returns of `Reconcile`; `MarkPending`, `Validate`,
  `MarkRunning`, `RunChecks` and `WriteStatus` are its steps; `Panic` is
  `handleReconcilePanic`; `Deadline` and `BeginStop` end `runCtx`. A spec is a
  model value, and what matters of it is which of the sets `InvalidSpecs`,
  `UnselectableSpecs` and `BadIntervalSpecs` it is in. The outcome of a run is
  a label (kind, object, generation) and a phase: that is all its properties
  tell apart. Which phases the checks can yield is given by constants;
  `CheckRunner`, `Checks` and `Aggregation` are about how they come to be.
  `MeetsContract` says that it implements `StatusContract`.
* **`CheckRunner`** – one call of `runChecks`. A check's context ends by its
  own timer, by the run's context (which reaches it a moment later) or by the
  deferred cancel; `select` may take either branch when both are ready;
  `Receive` and `Judge` are two steps, as the code looks at the context again
  after the receive. Goroutines of checks that were given up go on beside
  those that follow. `CanI` gives the three answers of an access review.
* **`Interval`, `Aggregation`** – `NormalizeInterval`, `Aggregate` and
  `mergeIntervalWarning` as operators over lists of results. The state is the
  list as `runChecks` grows it, so that one more result is a step.
* **`Sorting`** – the order of `sort.SliceStable` and `sortConditionsByType`,
  which only ever sort what has no two elements of the same key: the k-th
  element is the one with k - 1 smaller ones.
* **`Pipeline`** – `CheckRunner` with its results read as results of
  `Aggregation` (status and severity per reason as the checks and `runner.go`
  set them); `ResultsOnlyGrow` states that the runner implements the
  specification of `Aggregation` under that mapping.
* **`Checks`** – `buildSpecMap`, `ListByProfile` and the five `Run` functions
  over a cluster that changes while they look, with the decisions their
  adapters take (`IsNodeReady`, `IsDefault`, `HasAPIGroup`). An optional field
  is a set of at most one element, a version a tuple, a quantity a number that
  `MilliValue` and `Value` bring into an int64. `A` reads its findings as results
  of `Aggregation`.
* **`Startup`** – pods created from any of several templates (flags and
  environment), the guard, the manager and its lease; pods are deleted (with a
  grace period) and evicted, processes crash, are restarted and lose the lease.
  A lease is an object with a namespace and a name (`LeaseOf`), both of which a
  template can set. `Exclusive` says which templates exclude each other: elected
  ones by one lease, the others by guards that look where the pods are.
* **`Operator`** – the composition. A Deployment and its ReplicaSets create and
  delete the pods of `Startup` (rolling update, one more and none less), and a
  pod's controllers in `Reconciler` are up while `Startup` has it reconcile:
  `Up` maps one state to the other, `Lead` is `AcquireLease` or
  `StartUnelected` together with `Boot`, `End` is `FinishStop` with `Exit`.
* **`MC…`** – instances for TLC; **`…Proofs`** – theorems.

Definitions whose comment begins with "Mutant" are not part of a
specification: each is a plausible slip in the operator that follows it, and
takes its place to show that a property notices it.

## 3. Runs

| run | distinct states | what it asks |
|---|---:|---|
| `reconciler_one` | 1 744 930 | one pod, every kind of spec, three actions of the user, one fault of any kind: always a verdict in the end, which fits the spec; no lost work, nothing cut short is stored |
| `reconciler_two` | 2 663 634 | two pods with nothing between them but the resourceVersion: finality of verdicts, `observedGeneration` and the contract of the status; the inductive invariant, with the labels and verdicts |
| `aggregation` | 1 242 395 | all lists of up to three results, every kind of interval and both edges of both bounds: phase, counters, conditions and the warning agree |
| `pipeline` | 169 897 | three checks that share permissions and one without a spec, in every order of answers, timers, ends and panics: the runner's promises, what Passed means, and that the runner implements `Aggregation`; the inductive invariant |
| `checks` | 1 541 495 | all defaults, overrides, invalid forms and a minimum beyond 64 bits against a cluster that changes twice |
| `startup` | 454 607 | three pods from eight templates that come, go, crash, are restarted and are evicted: never two that exclude each other, never one that is misconfigured, and the last one does reconcile |
| `operator` | 284 524 | a Deployment that rolls its pods and rolls them back, with a crash, a restart or a lost lease and a CR to judge: one run at a time, rollouts end, the CR is served by whoever leads, and its status keeps the contract; the inductive invariant, that of `Reconciler` included |

Five more runs each show a sentence of a document that the code does not
keep; see section 5.

**Bounds.** `MaxEdits`, `MaxFaults` and `MaxChanges` cap the actions of the
user, the faults and the changes of the cluster. The cluster of `Reconciler`
may change at any time without a bound. One fault is enough for each single
hazard (a crash between two writes, a lost answer, a late request, a panic);
faults that meet, such as a panic under an ended context, are left to the
proofs, which know no bound. Three actions of the user make the
delete-and-recreate case, two the edit during a run. `MaxRv` caps the
resourceVersion where two pods could refuse each other without end. With one
pod it is never reached. With two it is 6: creation, the two writes of a
rejected spec, an edit and the two writes of the next verdict fit into it; at
the bound the server answers with an error. Three results and two types are the
least for which a replacement, a tie and a third party meet in
`dedupeAndSortConditions`; the intervals are the neighbours of 30 s and 24 h.
`CheckRunner` needs three checks for a late result that comes while another
check waits and for a permission that is shared and was cached as failed.
`Checks` takes 2^20 for `CPUWidth` and `MemWidth`, which stand for 2^63 and
which every other number of the instance stays below; minima just below, at and
beyond them, with a decimal and a binary suffix, are among the demands.
`Startup` needs three pods for an evicted, an old and a new one, and four
changes to create three and take one away. Its eight templates are: election
under either of two leases, guards that look in the namespace of the pods, in
another one, and in one that is not in `MayList`, and the errors of
configuration (two replicas expected without election, a flag main does not
define, a lease without a name), so that each conjunct of `Fit` keeps somebody
out. `Operator` has
the two pods that one replica and a surge of one make. `Installed`, `Rollouts`
and `MaxRollouts` bound what the Deployment is given: a new image and the way
back to the old one, and leaving election, which is undone by no rollout of the
instance (section 6 says why). A rollout begins once the one before
has come up. Deadlines, panics and refused calls, which `reconciler_one` has,
are not repeated there.

**Symmetry** is used for the pods of `reconciler_two`, which checks safety only.

**Fairness.** `Reconciler`: the worker takes a queued key and goes on, a watch
delivers, a RequeueAfter fires, the API server handles a request somebody
waits for, a stopped process exits and the kubelet starts it again: weak
fairness per pod, as each stays possible until it happens. Users, faults, the
cluster and orphaned requests need never act. `CheckRunner`: the runner, timers,
the propagation of contexts and goroutines that have *returned* go on; nothing
says that a check returns, which is the case `runWithTimeout` is for.
`Startup`: weak fairness for the kubelet, a process that goes on and the expiry
of leases nobody renews (of all of them together, which is the weaker
assumption); strong
fairness for taking the lease, because client-go tries again and again while
the lease may be free only from time to time. The antecedent of `OneComesUp`
(one fit pod that stays, and is alone if it has no election) leaves it without a
competitor. `Operator`: that of both, and weak fairness for the controllers of
the Deployment; strong fairness for `Lead`, for the same reason.

**Liveness of a single CR is claimed for one pod, or for pods under one lease.**
Two pods that overlap for good could refuse each other's updates by turns;
nothing in the code bounds that. `OneRunAtATime` shows that the overlap is
excluded, and `EventuallyServed` that the verdict then comes.

**Deadlock** is checked for `Reconciler`, which never stops (the cluster can
always change). `CheckRunner`, `Pipeline`, `Checks`, `Aggregation`,
`Startup` and `Operator` model runs that end or use up their bounds.

## 4. Proofs

For all values of the constants under the named `ASSUME`s (no pod is
`Nobody`; special specs are specs; `Aggregate` yields terminal phases; main's
default name of the lease is a name; 0 < minimum ≤ default ≤ maximum; a finite
set of pods; checks of a run are
distinct; templates are made of flags main has; demands, clusters and findings
have the form the CRD and the API give them; the CPU and memory of the ready
nodes of a cluster add up to less than 2^63 milli-CPU and bytes, far above what
any cluster has, so that `MoreIsNeverWorse` speaks of sums that have not wrapped
around).

**`ReconcilerProofs`.** The properties are not inductive by themselves: what a
pod or the network holds decides what may be stored next. `CopiesInv` says of every
copy of the CR that it is *out of date by its resourceVersion, or is the stored
one* (`Known`), and of every request that it is refused, or that what it
carries may be stored over the CR as it is: a phase of a running reconcile, or
a verdict labelled with object and generation (`RequestInv`). A run only holds
copies without a verdict (`RunInv`), which is what the skip test gives; hence a
request that matches never replaces a verdict, whoever sent it and whenever it
arrives. `Sound` is what holds of each version ever stored. The proof is one
lemma per action: `StoreSafe` for the server, with `StoredSound` for the new
version, `StoreOthers` for what everybody else holds, which `rv + 1` makes out
of date, and `StoreOwner` for the run that waited; `SendSafe`, `StartSafe`,
`LeaveSafe` and so on for the pod. From it follow

* `InvariantHolds`: `Spec => []CopiesInv`; `TypeCorrect`: `[]TypeOK`
* `OutcomesLabelled`, `VerdictsFit`, `NothingCutShort`, `WorkRemembered`: the
  four state properties of the runs
* `VerdictsFinal`, `GenerationsGrow`: the action properties, from the same
  invariant by `VerdictSteps`
* `ContractMet`: `Reconciler` implements `StatusContract`. Storing a request is
  a step of progress or the verdict of the contract, edits are its edits, and
  every other action leaves the status alone.

**`CheckRunnerProofs`.** `IInv` divides the checks by the place of the loop:
those before it have results or no spec, the one at it has as much of a
goroutine as `step` says, those after it have none (`InTurn`); what is in a
channel was sent by its own check (`ChannelInv`), the cache says what was
answered (`ReviewInv`), and a context ends by the cause it names
(`ContextInv`). The step lemma has a case per action. The seven other theorems
are consequences: one result each, each permission answered once, no check
without permission, causes that are true, late results dropped.

**`SortingProofs`.** A theorem of the library that takes an operator, such as
induction over the naturals or over finite sets, cannot be used here. What a
fold, a sort or a sum yields is proved in closed form instead: `LeastElement`
(a set of naturals that is not empty has a least element, from the
well-foundedness of `<`) gives `SmallestSet`: among the finite sets with a
property there is one of which no subset of one element less has it, which is
what an induction over finite sets would have to rule out. `SortByLists`: the
rank of an element, the number of smaller ones, is an injection of a finite set
into as many numbers, hence onto them, so that a sort lists each element once
and in order.

**`AggregationProofs`.** `TypeCorrect`; `RequeueBounded` and `WarnedExactly`
for every text and all bounds, over lemmas about `NormalizeInterval`
(`NormalizeBounded`, `NormalizeStable`); `PhaseOnlyWorsens` for lists of any
length, since a flag that is raised stays raised (`AppendHas`);
`PhaseMatchesSummary`, since the four counters count disjoint sets of places
whose union is all of them (`DisjointUnion`). `WinnersWin` is about the fold of
`dedupeAndSortConditions`: what it keeps are the results that no other one of
their type beats (`BeatsOrders`: severity, age and place are a strict order;
`KeptStep`: one more `Put` keeps that), as there is no smallest set of places at
which that fails (`FoldKeeps`, by `SmallestSet`). `ConditionsShow` adds what the merge of the
interval warning does to that list (`PutWarningLists`) and to the phase
(`MergeRaises`).

**`PipelineProofs`.** `RunnerAggregates`: a `Finish` of the runner is an
`AppendResult` of `Aggregation`, all else a stutter. `PassedIsChecked`: that
the phase is Passed means that every configured check sent a result of its own
after all its permissions were granted, from the runner's invariant and the
definition of `DerivePhase`. `ChecksShow`: as the runner's results are those
of the selected checks and the fold keeps one of each type, the conditions are
those of the selected checks. `CutShortIsSeen`: from the moment the context of
the run has ended before a review, either a result is there that is no pass or
the review in hand must yield one (`CutShort`), which every step keeps
(`CutShortKept`).

**`ChecksProofs`.** `IInv` says that the results and what is still to come are
the selection in its order (`Account`), and that each result is what its check
says of a state of the cluster the run has seen, or that it could not look
(`Sighted`). From it follow

* `NothingMissing`, and `ChecksAggregate`: the loop implements `Aggregation`,
  so that what `AggregationProofs` says of lists of results is about its results
* `PassedMet`: a phase that is Passed has only results that passed; each passed
  at a sighting, and there the comparison of the check is the user's demand
  (`ResourcesMet`, `VersionMet`, `ClassesMet`), written or default
  (`MinimumMet`)
* `MoreNeverWorse`: check by check (`MoreForResources`, `MoreForVersion`,
  `MoreForTheRest`), then through `DerivePhase`

The sum over the nodes is the number of their units (`SumCountsUnits`: by
`SmallestSet` on the sets for which it is not), so that more nodes have no
smaller sum (`SumGrows`).

**`StartupProofs`.** `InvariantHolds`, `NeverTwo` and `UnfitNeverStart`.
A process belongs to a pod that is Running or Terminating, which the guard
counts, so that a guard that looks where the pods are and counts at most one
has seen all other processes: nobody else is past it (`GuardExcludes`). A pod
that appears later counts the first, and is refused. With election the lease
names the one that reconciles. Nothing is assumed of namespaces or names of
leases: `Exclusive`, in the statement, says which pairs of templates are meant. `PodStepHolds` is
the step without the bounds of the instance.

**`OperatorProofs`.** Each step of the composition is a step of the pods of
`Startup` or leaves them alone, so `PodStepHolds` carries over (`PodsKept`); a
run begins only where the controllers are up, and whatever ends them ends it
(`WorkBegins`, `RunsOwned`). With that, each step is a step of `Reconciler` as
well, or one its proofs are indifferent to (`CRSteps`): a pod that stops,
crashes or loses its lease is `BeginStop` or `Crash` there, except that a
Deployment that deletes a pod needs no fault for it. `Step` in
`ReconcilerProofs` is `Reconciler`'s next-state relation with orderly stops that
are not counted and steps that are not seen, and its lemmas are about `Step`.
Hence

* `InvariantHolds`, which includes the invariant of `Reconciler`; `RunsExclude`
* `ContractMet`: the deployed operator implements `StatusContract`, for any
  number of pods, rollouts and faults
* `StatusSafe`, `StatusStepsSafe`: the other safety properties of `Reconciler`

**Only model-checked:** liveness (`EventuallySettled`, `RunEnds`,
`NoGoroutineLeak`, `OneComesUp`, `RolloutEnds`, `EventuallyServed`), which TLAPS
does not do under fairness. Every invariant and every action property of the
passing runs is proved. The invariant of `Checks` and the type invariant of
`Aggregation` are proved and not among the invariants of a run; TLC finds both
to hold on the instances of `checks` and `aggregation`.

## 5. Where documents and code disagree

Each of the first has a run that shows a behaviour of the code against the sentence.

| run | the document | the code |
|---|---|---|
| `reconciler_deadline` | a run that exceeds its deadline ends with phase Unknown and reason ReconcileTimeout (`src/spec/architecture.md:346`) | the final write uses the ended context and is never sent; the CR stays Pending or Running |
| `reconciler_rerun` | a CR in a terminal phase is reconciled again after the interval (`src/docs/user/installation.md:285`) | that reconcile takes the skip path; a verdict stands until the spec changes |
| `aggregation_unknown` | the interval warning leaves phase Unknown alone (`reconciler.go:240`) | `phaseRank` puts Unknown below Warning, so that it is raised |
| `pipeline_canceled` | canceled checks turn the phase to Warning (`runner.go:323`) | the phase is Unknown: status decides, severity info does not matter |
| `startup_scope` | in the chart's namespace-scope mode the operator reconciles its namespace (`src/docs/user/installation.md:443`) | the chart passes `--namespace`, which main does not define: every process ends in `flag.Parse` |

`reconciler_rerun` is a liveness counterexample under `FairSpec`: the timer
fires again and again, and the skip path answers each time. `startup_scope`
is one, too: the kubelet starts the process again and again.

More, seen in the code while modelling and without a run of their own:

* Lookups that fail are reported as critical (`kubernetesversion.go:135` and
  its like), which `src/docs/user/conditions.md:84` gives as warning.
* Unusable `storageClass.names` do not show at the condition of that check, as
  `src/docs/user/conditions.md:102` has it; `buildSpecMap` rejects the spec.
* `src/docs/user/conditions.md:146` has the sums at least the minima. A minimum
  that does not fit into an int64 of milli-CPU or bytes becomes 0 (`"10P"` cores,
  `"20E"` bytes), which every cluster meets, or wraps around to another number
  (`"10Pi"` cores to a negative one; decimals of 19 digits and more wrap, too):
  `PassedMeansMet` holds below `CPUWidth` and `MemWidth` only and says so.
* The guard counts in the namespace it is given, which is that of the lease;
  its comment (`leader_topology.go:24`) speaks of the operator's.
* No manifest of the repository grants the `pods` list the guard needs, so that
  `--leader-elect=false` ends in an error with the shipped RBAC (`MayList`).
* `src/spec/architecture.md` (AR-026) makes readiness that of the leader and has
  the topology checked again and again. The code answers the readiness probe
  with a ping and runs the guard once. `RolloutEnds` holds because of the ping:
  its mutant `LeaderReady`, which is the readiness of AR-026, makes new pod,
  lease and old pod wait for each other.

## 6. What is not modelled

* The secret filter and the result log: `SanitizeMessage` is the identity, the
  rest is logging.
* Ports (interfaces), deep copies, metrics and the wiring of adapters.
* The parser of RBAC markers: it reads Go comments for two tests.
* RBAC objects, Makefile and scripts. What RBAC decides at run time is there:
  the answers of `CanI`, and `MayList` for the guard.
* Rollouts from a template without election to one with it: while both pods
  live nothing but the resourceVersion is between them, which is what
  `reconciler_two` is about. A rolling update between templates without
  election never ends, as the new pod is refused while the old one is there;
  `RolloutEnds` is about the ones with election.
* A pod that is deleted by force while its process lives on a lost node: an
  object of a pod goes after its process, as in an ordinary deletion. Clocks
  that drift further than the margin between renew deadline and lease duration.
* Arithmetic of `resource.Quantity` beyond what does not fit into an int64
  (rounding of fractions), and of semver beyond the order of versions: libraries.
* `Register` of the registry runs before the manager starts; its lock has no
  writer afterwards.
* A mismatch between a check and the type of its spec, which selection by name
  excludes.
* A panic between Get and the skip test (`reconciler.go:137-148`), which
  `handleReconcilePanic` provides for: what stands there, `NormalizeInterval`, the
  clock and the comparison of generations, has no step that can panic. Code
  added there could: the handler would write its outcome over a verdict that the
  skip test protects, so that `VerdictIsFinal` depends on it.
* Results with a status outside its enum: the switch of `Aggregate` would count
  them nowhere, but no check and no path of the runner yields one.
* Two results of one condition type in one run: no producer yields them today.
  `Aggregation` has them all the same, as the code does (`WinnersKept`), and the
  interval warning with a condition of its own type (`ConditionsShowInPhase`).
* Several CRs: they share nothing but the worker.

## 7. Plan

Written, in the order of importance: `Reconciler` with `StatusContract`,
`Aggregation` with `Interval`, `CheckRunner`, `Pipeline`, `Startup`, `Checks`,
`Operator`, and the proofs of their safety. What is left:

1. `Checks` over `CheckRunner`: the results of one as the goroutines of the
   other, so that cut-short checks and changing clusters meet, and
   `Reconciler`'s constants `HealthyPhases` and `BrokenPhases` derived from it.
2. Bounds on the Deployment: that a rolling update never has more pods than the
   replicas and the surge, counting those that are about to go.
3. An abstract specification of what the lease and the guard promise together,
   and `Startup` as an implementation of it.
