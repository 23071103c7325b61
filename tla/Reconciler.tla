----------------------------- MODULE Reconciler -----------------------------
(***************************************************************************)
(* One OpenDeskPreflightCheck (the CR) in the API server, and the operator *)
(* pods that reconcile it.  A pod reads the CR from an informer cache that *)
(* lags behind, marks it Pending and Running, runs the checks, and stores  *)
(* the outcome with Status().Update, which the API server refuses when the *)
(* resourceVersion of the request is not the stored one.                   *)
(*                                                                         *)
(* Around Reconcile are modelled: spec edits, metadata edits, deletion and *)
(* re-creation of the CR; the work queue of each pod with its retries and  *)
(* RequeueAfter; the 120 s deadline of a run and its cancellation when the *)
(* manager stops; answers that never arrive and requests that take effect  *)
(* after the client gave up; panics; pods that crash and restart, and pods *)
(* that overlap.                                                           *)
(***************************************************************************)
EXTENDS Phases, FiniteSets

CONSTANTS Pods,              \* operator pods
          Nobody,            \* owner of a request nobody waits for any more
          Specs,             \* contents spec can have
          InvalidSpecs,      \* those for which buildSpecMap reports errors
          UnselectableSpecs, \* those naming a check the registry lacks
          BadIntervalSpecs,  \* those whose interval is normalised with a warning
          HealthyPhases,     \* what Aggregate may yield while the cluster is healthy
          BrokenPhases,      \* ... and while it is broken
          MaxEdits,          \* bound: creations, edits, deletions by the user
          MaxFaults,         \* bound: crashes, shutdowns, deadlines, panics, failed calls
          MaxRv              \* bound: highest resourceVersion the server hands out

ASSUME PodsAssumption == Nobody \notin Pods
ASSUME SpecsAssumption ==
  InvalidSpecs \cup UnselectableSpecs \cup BadIntervalSpecs \subseteq Specs
ASSUME PhasesAssumption == HealthyPhases \cup BrokenPhases \subseteq TerminalPhases
ASSUME BoundsAssumption ==
  MaxEdits \in Nat /\ MaxFaults \in Nat /\ MaxRv \in Nat

VARIABLES
  obj,      \* the CR as the API server stores it
  cache,    \* [Pods -> CR]: what the pod's informer last delivered
  pc,       \* [Pods -> step of the running reconcile]
  cr,       \* [Pods -> CR]: the local variable cr of the running reconcile
  ctx,      \* [Pods -> state of runCtx]
  out,      \* [Pods -> outcome computed by the running reconcile]
  net,      \* status updates sent and not yet handled by the API server
  up,       \* [Pods -> state of the operator process]
  queued,   \* [Pods -> whether the work queue holds the CR's key]
  timer,    \* [Pods -> whether a RequeueAfter is pending]
  cluster,  \* whether the cluster meets the requirements that are checked
  edits,    \* actions of the user so far
  faults    \* faults so far

vars == <<obj, cache, pc, cr, ctx, out, net, up, queued, timer, cluster, edits, faults>>
runVars == <<pc, cr, ctx, out>>
podVars == <<cache, up, queued, timer>>
envVars == <<cluster, edits, faults>>

-----------------------------------------------------------------------------
(* Data.                                                                   *)

\* What produced Conditions and Summary, and for which CR and generation.
\* "cutShort" are results of checks that ran into the end of runCtx.
OutcomeKinds == {"none", "checks", "cutShort", "specInvalid", "selection", "panic"}
Outcomes == [kind : OutcomeKinds, uid : Nat, gen : Nat, phase : Phases \cup {NoPhase}]
NoOutcome == [kind |-> "none", uid |-> 0, gen |-> 0, phase |-> NoPhase]

\* No check is run for such a spec, and the outcome says so.
RejectedSpecs == InvalidSpecs \cup UnselectableSpecs
Rejections == {"specInvalid", "selection"}

\* status: phase, observedGeneration, and the outcome in conditions/summary.
Statuses == [phase : Phases \cup {NoPhase}, og : Nat, out : Outcomes]
NoStatus == [phase |-> NoPhase, og |-> 0, out |-> NoOutcome]

\* A version of the CR: identity, generation, resourceVersion, spec, status.
NoSpec == "none"
CRs == [exists : BOOLEAN, uid : Nat, gen : Nat, rv : Nat,
        spec : Specs \cup {NoSpec}, status : Statuses]
NoCR == [exists |-> FALSE, uid |-> 0, gen |-> 0, rv |-> 0,
         spec |-> NoSpec, status |-> NoStatus]

\* A status update on its way to the API server; rv 0 sets no precondition.
Requests == [from : Pods \cup {Nobody}, rv : Nat, status : Statuses]

WaitSteps == {"pendingSent", "runningSent", "finalSent"}
Steps == {"idle", "pending", "validate", "running", "checks", "write"} \cup WaitSteps

\* Mutant: any terminal phase will do.
SkipsAnyGeneration(c) == c.status.phase \in TerminalPhases

\* isAlreadyReconciled: this generation already has a terminal phase.
IsAlreadyReconciled(c) == c.status.og = c.gen /\ c.status.phase \in TerminalPhases

\* mergeIntervalWarning, as far as the phase goes.
MergeIntervalWarning(spec, phase) ==
  IF spec \in BadIntervalSpecs THEN EscalatePhase(phase, "Warning") ELSE phase

\* The AggregationOutput a run makes for the version c of the CR.
OutcomeFor(c, kind, phase) ==
  [kind |-> kind, uid |-> c.uid, gen |-> c.gen,
   phase |-> MergeIntervalWarning(c.spec, phase)]

\* Mutant: markPhase raises observedGeneration already.
PhaseStatusRaised(c, phase) == [c.status EXCEPT !.phase = phase, !.og = c.gen]

\* markPhase touches the phase only, writeStatus everything.
PhaseStatus(c, phase) == [phase |-> phase, og |-> c.status.og, out |-> c.status.out]
FinalStatus(c, o) == [phase |-> o.phase, og |-> c.gen, out |-> o]

\* The phases Aggregate can yield.
CheckPhases == IF cluster = "healthy" THEN HealthyPhases ELSE BrokenPhases

Init ==
  /\ obj = NoCR
  /\ cache = [p \in Pods |-> NoCR]
  /\ pc = [p \in Pods |-> "idle"]
  /\ cr = [p \in Pods |-> NoCR]
  /\ ctx = [p \in Pods |-> "live"]
  /\ out = [p \in Pods |-> NoOutcome]
  /\ net = {}
  /\ up = [p \in Pods |-> "down"]
  /\ queued = [p \in Pods |-> FALSE]
  /\ timer = [p \in Pods |-> FALSE]
  /\ cluster \in {"healthy", "broken"}
  /\ edits = 0
  /\ faults = 0

-----------------------------------------------------------------------------
(* The user and the cluster.                                               *)

\* Every change that is stored gives the CR a new resourceVersion.
NextVersion(gen, spec, status) ==
  [exists |-> TRUE, uid |-> obj.uid, gen |-> gen, rv |-> obj.rv + 1,
   spec |-> spec, status |-> status]

Edit == edits < MaxEdits /\ obj.rv < MaxRv /\ edits' = edits + 1

Create(spec) ==
  /\ Edit /\ ~obj.exists
  /\ obj' = [exists |-> TRUE, uid |-> obj.uid + 1, gen |-> 1, rv |-> obj.rv + 1,
             spec |-> spec, status |-> NoStatus]
  /\ UNCHANGED <<runVars, podVars, net, cluster, faults>>

\* Only a change of spec raises the generation.
EditSpec(spec) ==
  /\ Edit /\ obj.exists /\ spec # obj.spec
  /\ obj' = NextVersion(obj.gen + 1, spec, obj.status)
  /\ UNCHANGED <<runVars, podVars, net, cluster, faults>>

\* A label or annotation: a new resourceVersion, the same generation.
EditMetadata ==
  /\ Edit /\ obj.exists
  /\ obj' = NextVersion(obj.gen, obj.spec, obj.status)
  /\ UNCHANGED <<runVars, podVars, net, cluster, faults>>

Delete ==
  /\ Edit /\ obj.exists
  /\ obj' = [exists |-> FALSE, uid |-> obj.uid, gen |-> 0, rv |-> obj.rv + 1,
             spec |-> NoSpec, status |-> NoStatus]
  /\ UNCHANGED <<runVars, podVars, net, cluster, faults>>

ClusterChanges ==
  /\ cluster' = IF cluster = "healthy" THEN "broken" ELSE "healthy"
  /\ UNCHANGED <<obj, runVars, podVars, net, edits, faults>>

Fault == faults < MaxFaults /\ faults' = faults + 1

-----------------------------------------------------------------------------
(* How a reconcile ends.  An error or Requeue puts the key back into the   *)
(* queue, a clean return sets RequeueAfter.                                *)

\* handleReconcilePanic returns an error even when its write succeeded.
EndsInError(o) == o.kind = "panic"

\* Mutant: an error is logged and swallowed.
ReturnSwallowed(p, error) ==
  /\ pc' = [pc EXCEPT ![p] = "idle"]
  /\ cr' = [cr EXCEPT ![p] = NoCR]
  /\ ctx' = [ctx EXCEPT ![p] = "live"]
  /\ out' = [out EXCEPT ![p] = NoOutcome]
  /\ timer' = [timer EXCEPT ![p] = @ \/ ~error]
  /\ UNCHANGED queued

Return(p, error) ==
  /\ pc' = [pc EXCEPT ![p] = "idle"]
  /\ cr' = [cr EXCEPT ![p] = NoCR]
  /\ ctx' = [ctx EXCEPT ![p] = "live"]
  /\ out' = [out EXCEPT ![p] = NoOutcome]
  /\ queued' = [queued EXCEPT ![p] = @ \/ error]
  /\ timer' = [timer EXCEPT ![p] = @ \/ ~error]

Goto(p, step) == pc' = [pc EXCEPT ![p] = step]

-----------------------------------------------------------------------------
(* Status().Update, client side and server side.                           *)

\* Mutants: a merge patch without precondition; a refetch before the write
\* that keeps the outcome at hand.
PatchRequest(p, status) == [from |-> p, rv |-> 0, status |-> status]
RefetchRequest(p, status) ==
  [from |-> p, rv |-> obj.rv,
   status |-> [status EXCEPT !.og = IF @ = cr[p].gen THEN obj.gen ELSE @]]

\* The request carries the resourceVersion of the cr the run read or got back.
RequestFor(p, status) == [from |-> p, rv |-> cr[p].rv, status |-> status]

\* Mutant: the write uses a context of its own.
CanAlwaysSend(p) == pc[p] # "idle"

\* The client sends nothing once runCtx has ended.
CanSend(p) == ctx[p] = "live"

Send(p, status, wait) ==
  \/ /\ CanSend(p)
     /\ net' = net \cup {RequestFor(p, status)}
     /\ Goto(p, wait)
     /\ UNCHANGED <<cr, ctx, out, queued, timer>>
  \/ /\ ~CanSend(p)
     /\ Return(p, TRUE)
     /\ UNCHANGED net

\* The stored object replaces cr, and the run goes on.
Answered(p) ==
  \/ /\ pc[p] \in {"pendingSent", "runningSent"}
     /\ cr' = [cr EXCEPT ![p] = obj']
     /\ Goto(p, IF pc[p] = "pendingSent" THEN "validate" ELSE "checks")
     /\ UNCHANGED <<ctx, out, queued, timer>>
  \/ /\ pc[p] = "finalSent"
     /\ Return(p, EndsInError(out[p]))

\* The server stores an update whose resourceVersion is the stored one.
Matches(r) == obj.exists /\ r.rv \in {0, obj.rv}

Store(r) ==
  /\ r \in net /\ Matches(r) /\ obj.rv < MaxRv
  /\ obj' = NextVersion(obj.gen, obj.spec, r.status)
  /\ net' = net \ {r}
  /\ \/ r.from = Nobody /\ UNCHANGED <<runVars, queued, timer>>
     \/ r.from # Nobody /\ Answered(r.from)
  /\ UNCHANGED <<cache, up, envVars>>

\* Conflict, NotFound, or (a fault, or the bound on rv) any other error.
Refuse(r) ==
  /\ r \in net
  /\ \/ (~Matches(r) \/ obj.rv = MaxRv) /\ UNCHANGED faults
     \/ Fault
  /\ net' = net \ {r}
  /\ \/ r.from = Nobody /\ UNCHANGED <<runVars, queued, timer>>
     \/ r.from # Nobody /\ Return(r.from, TRUE)
  /\ UNCHANGED <<obj, cache, up, cluster, edits>>

\* p no longer waits: its request is lost, or is handled some time later.
Disown(p) ==
  LET mine == {r \in net : r.from = p}
  IN  \/ net' = net \ mine
      \/ net' = (net \ mine) \cup {[r EXCEPT !.from = Nobody] : r \in mine}

\* The call fails at the client: connection lost (a fault), or runCtx ended.
GiveUp(p) ==
  /\ pc[p] \in WaitSteps
  /\ \/ ~CanSend(p) /\ UNCHANGED faults
     \/ Fault
  /\ Disown(p)
  /\ Return(p, TRUE)
  /\ UNCHANGED <<obj, cache, up, cluster, edits>>

-----------------------------------------------------------------------------
(* Reconcile.                                                              *)

\* The work queue hands out the key to the pod's single worker.
Dequeue(p) == up[p] = "up" /\ pc[p] = "idle" /\ queued[p]

\* Get: NotFound ends the reconcile without requeue.
StartNotFound(p) ==
  /\ Dequeue(p) /\ ~cache[p].exists
  /\ queued' = [queued EXCEPT ![p] = FALSE]
  /\ UNCHANGED <<obj, cache, runVars, net, up, timer, envVars>>

\* The skip path: nothing is written, RequeueAfter is set.
StartSkip(p) ==
  /\ Dequeue(p) /\ cache[p].exists /\ IsAlreadyReconciled(cache[p])
  /\ queued' = [queued EXCEPT ![p] = FALSE]
  /\ timer' = [timer EXCEPT ![p] = TRUE]
  /\ UNCHANGED <<obj, cache, runVars, net, up, envVars>>

StartRun(p) ==
  /\ Dequeue(p) /\ cache[p].exists /\ ~IsAlreadyReconciled(cache[p])
  /\ queued' = [queued EXCEPT ![p] = FALSE]
  /\ cr' = [cr EXCEPT ![p] = cache[p]]
  /\ Goto(p, "pending")
  /\ UNCHANGED <<obj, cache, ctx, out, net, up, timer, envVars>>

\* markPhase writes nothing when the CR it holds shows the phase already.
MarkPhase(p, phase, wait, next) ==
  /\ \/ /\ cr[p].status.phase = phase
        /\ Goto(p, next)
        /\ UNCHANGED <<cr, ctx, out, net, queued, timer>>
     \/ /\ cr[p].status.phase # phase
        /\ Send(p, PhaseStatus(cr[p], phase), wait)
  /\ UNCHANGED <<obj, cache, up, envVars>>

MarkPending(p) == pc[p] = "pending" /\ MarkPhase(p, "Pending", "pendingSent", "validate")
MarkRunning(p) == pc[p] = "running" /\ MarkPhase(p, "Running", "runningSent", "checks")

\* Mutant: errors of buildSpecMap are not looked at.
ValidateSelectionOnly(p) ==
  /\ pc[p] = "validate"
  /\ \/ /\ cr[p].spec \in UnselectableSpecs
        /\ out' = [out EXCEPT ![p] = OutcomeFor(cr[p], "selection", "Failed")]
        /\ Goto(p, "write")
     \/ /\ cr[p].spec \notin UnselectableSpecs
        /\ Goto(p, "running")
        /\ UNCHANGED out
  /\ UNCHANGED <<obj, cr, ctx, net, podVars, envVars>>

\* buildSpecMap and ListByProfile: the first that reports ends in Failed.
Validate(p) ==
  /\ pc[p] = "validate"
  /\ LET Fail(kind) == /\ out' = [out EXCEPT ![p] = OutcomeFor(cr[p], kind, "Failed")]
                       /\ Goto(p, "write")
     IN \/ cr[p].spec \in InvalidSpecs /\ Fail("specInvalid")
        \/ cr[p].spec \in UnselectableSpecs \ InvalidSpecs /\ Fail("selection")
        \/ /\ cr[p].spec \notin RejectedSpecs
           /\ Goto(p, "running")
           /\ UNCHANGED out
  /\ UNCHANGED <<obj, cr, ctx, net, podVars, envVars>>

\* runChecks, Aggregate and mergeIntervalWarning.  Under an ended runCtx any
\* check that has not answered yields Unknown, so that nothing is Passed.
RunChecks(p) ==
  /\ pc[p] = "checks"
  /\ \/ /\ ctx[p] = "live"
        /\ \E phase \in CheckPhases :
             out' = [out EXCEPT ![p] = OutcomeFor(cr[p], "checks", phase)]
     \/ /\ ctx[p] # "live"
        /\ \E phase \in (CheckPhases \cup {"Unknown"}) \ {"Passed"} :
             out' = [out EXCEPT ![p] = OutcomeFor(cr[p], "cutShort", phase)]
  /\ Goto(p, "write")
  /\ UNCHANGED <<obj, cr, ctx, net, podVars, envVars>>

\* writeStatus, of a regular outcome or from handleReconcilePanic.
WriteStatus(p) ==
  /\ pc[p] = "write"
  /\ Send(p, FinalStatus(cr[p], out[p]), "finalSent")
  /\ UNCHANGED <<obj, cache, up, envVars>>

\* A panic anywhere after the skip test goes to handleReconcilePanic (between
\* Get and the test there is only NormalizeInterval, the clock and the test, none
\* of which can panic).  A second one, in the writeStatus of the handler, is
\* recovered there and nothing is written.
Panic(p) ==
  /\ Fault
  /\ pc[p] \in Steps \ ({"idle"} \cup WaitSteps)
  /\ \/ /\ out[p].kind # "panic"
        /\ out' = [out EXCEPT ![p] = OutcomeFor(cr[p], "panic", "Unknown")]
        /\ Goto(p, "write")
        /\ UNCHANGED <<cr, ctx, queued, timer>>
     \/ /\ out[p].kind = "panic"
        /\ Return(p, TRUE)
  /\ UNCHANGED <<obj, cache, net, up, cluster, edits>>

\* runCtx reaches its deadline of defaultReconcileTimeout.
Deadline(p) ==
  /\ Fault
  /\ pc[p] # "idle" /\ ctx[p] = "live"
  /\ ctx' = [ctx EXCEPT ![p] = "deadline"]
  /\ UNCHANGED <<obj, pc, cr, out, podVars, net, cluster, edits>>

-----------------------------------------------------------------------------
(* The operator process, its informer and its timer.                       *)

\* A watch event reaches the cache and enqueues the key.
CacheSync(p) ==
  /\ up[p] = "up" /\ cache[p] # obj
  /\ cache' = [cache EXCEPT ![p] = obj]
  /\ queued' = [queued EXCEPT ![p] = TRUE]
  /\ UNCHANGED <<obj, runVars, net, up, timer, envVars>>

RequeueAfter(p) ==
  /\ up[p] = "up" /\ timer[p]
  /\ timer' = [timer EXCEPT ![p] = FALSE]
  /\ queued' = [queued EXCEPT ![p] = TRUE]
  /\ UNCHANGED <<obj, cache, runVars, net, up, envVars>>

\* Mutant: the first list fills the cache, but only later events enqueue.
BootSilently(p) ==
  /\ up[p] = "down"
  /\ up' = [up EXCEPT ![p] = "up"]
  /\ cache' = [cache EXCEPT ![p] = obj]
  /\ UNCHANGED <<obj, runVars, net, queued, timer, envVars>>

\* The informer's first list enqueues every CR it finds.
Boot(p) ==
  /\ up[p] = "down"
  /\ up' = [up EXCEPT ![p] = "up"]
  /\ cache' = [cache EXCEPT ![p] = obj]
  /\ queued' = [queued EXCEPT ![p] = obj.exists]
  /\ UNCHANGED <<obj, runVars, net, timer, envVars>>

\* SIGTERM: no new reconcile, and runCtx is canceled.
BeginStop(p) ==
  /\ up[p] = "up"
  /\ up' = [up EXCEPT ![p] = "stopping"]
  /\ ctx' = [ctx EXCEPT ![p] = IF pc[p] # "idle" /\ @ = "live" THEN "canceled" ELSE @]
  /\ UNCHANGED <<obj, cache, pc, cr, out, net, queued, timer, cluster, edits>>

Shutdown(p) == Fault /\ BeginStop(p)

\* The process is gone, and with it everything it held in memory.
Gone(p) ==
  /\ up' = [up EXCEPT ![p] = "down"]
  /\ cache' = [cache EXCEPT ![p] = NoCR]
  /\ queued' = [queued EXCEPT ![p] = FALSE]
  /\ timer' = [timer EXCEPT ![p] = FALSE]
  /\ pc' = [pc EXCEPT ![p] = "idle"]
  /\ cr' = [cr EXCEPT ![p] = NoCR]
  /\ ctx' = [ctx EXCEPT ![p] = "live"]
  /\ out' = [out EXCEPT ![p] = NoOutcome]
  /\ UNCHANGED <<obj, cluster, edits>>

Exit(p) ==
  /\ up[p] = "stopping" /\ pc[p] = "idle"
  /\ Gone(p)
  /\ UNCHANGED <<net, faults>>

\* Killed or out of memory, at any step.
Crash(p) ==
  /\ Fault
  /\ up[p] # "down"
  /\ Disown(p)
  /\ Gone(p)

-----------------------------------------------------------------------------

User == (\E s \in Specs : Create(s) \/ EditSpec(s)) \/ EditMetadata \/ Delete

Serve(r) == Store(r) \/ Refuse(r)

Start(p) == StartNotFound(p) \/ StartSkip(p) \/ StartRun(p)

Reconcile(p) ==
  MarkPending(p) \/ Validate(p) \/ MarkRunning(p) \/ RunChecks(p) \/ WriteStatus(p)

Process(p) ==
  CacheSync(p) \/ RequeueAfter(p) \/ Boot(p) \/ Shutdown(p) \/ Exit(p) \/ Crash(p)

Next ==
  \/ User \/ ClusterChanges
  \/ \E r \in net : Serve(r)
  \/ \E p \in Pods : \/ Start(p) \/ Reconcile(p) \/ GiveUp(p)
                     \/ Panic(p) \/ Deadline(p) \/ Process(p)

Spec == Init /\ [][Next]_vars

\* What runs is given its turn: a process that is down is restarted by the
\* kubelet, a watch delivers, a queued key is handed out, a run goes on, the
\* API server handles what a pod waits for.  Users and faults need not act.
Fairness ==
  \A p \in Pods :
    /\ WF_vars(Start(p)) /\ WF_vars(Reconcile(p))
    /\ WF_vars(\E r \in net : r.from = p /\ Serve(r))
    /\ WF_vars(CacheSync(p)) /\ WF_vars(RequeueAfter(p))
    /\ WF_vars(Boot(p)) /\ WF_vars(Exit(p))

FairSpec == Spec /\ Fairness

-----------------------------------------------------------------------------
(* Properties.                                                             *)

TypeOK ==
  /\ obj \in CRs
  /\ cache \in [Pods -> CRs]
  /\ pc \in [Pods -> Steps]
  /\ cr \in [Pods -> CRs]
  /\ ctx \in [Pods -> {"live", "deadline", "canceled"}]
  /\ out \in [Pods -> Outcomes]
  /\ net \in SUBSET Requests
  /\ up \in [Pods -> {"down", "up", "stopping"}]
  /\ queued \in [Pods -> BOOLEAN]
  /\ timer \in [Pods -> BOOLEAN]
  /\ cluster \in {"healthy", "broken"}
  /\ edits \in 0 .. MaxEdits
  /\ faults \in 0 .. MaxFaults

\* The stored generation has a verdict.
Settled(c) == c.status.og = c.gen

\* Conditions and summary are always those of the generation (of this very
\* object, not of a deleted one of the same name) that observedGeneration
\* names, whatever phase is shown beside them (markPhase, writeStatus).
OutcomeLabelled ==
  obj.exists /\ obj.status.out.kind # "none" =>
    /\ obj.status.out.uid = obj.uid
    /\ obj.status.out.gen = obj.status.og
    /\ obj.status.og <= obj.gen

\* A reader who finds observedGeneration up to date sees a finished verdict on
\* the spec that is stored now: the phase is the outcome's, and Failed for a
\* spec that buildSpecMap or ListByProfile rejects (writeStatus, markPhase).
SettledVerdict ==
  obj.exists /\ Settled(obj) =>
    /\ obj.status.phase \in TerminalPhases
    /\ obj.status.phase = obj.status.out.phase
    /\ obj.status.out.kind # "panic" =>
         /\ (obj.spec \in RejectedSpecs) <=> (obj.status.out.kind \in Rejections)
         /\ (obj.status.out.kind \in Rejections) => obj.status.phase = "Failed"

\* Results cut short by the end of runCtx never reach the CR (runChecks, then
\* writeStatus with the same runCtx).
NoCutShortStored == obj.exists => obj.status.out.kind # "cutShort"

Remembered(p) ==
  /\ up[p] = "up" /\ pc[p] = "idle"
  /\ cache[p] = obj /\ obj.exists /\ ~Settled(obj)
  => queued[p]

\* No work is forgotten: a running pod that knows the current CR and is not
\* reconciling it has its key in the queue while the CR has no verdict
\* (error and conflict returns of Reconcile, watch events).
NoLostWork == \A p \in Pods : Remembered(p)

\* Once a generation has its verdict no step of any pod changes the status,
\* until the user edits the spec or deletes the CR (isAlreadyReconciled,
\* writeStatus under the conflict check).
VerdictIsFinal ==
  [][obj.exists /\ Settled(obj)
     /\ obj'.exists /\ obj'.uid = obj.uid /\ obj'.gen = obj.gen
     => obj'.status = obj.status]_vars

\* observedGeneration of an object never falls back (writeStatus of an older
\* run, of a second pod or of a request that was thought lost).
ObservedGenerationGrows ==
  [][obj.exists /\ obj'.exists /\ obj'.uid = obj.uid
     => obj'.status.og >= obj.status.og]_vars

\* What a client sees of the CR: the refinement mapping to StatusContract.
Ground(o) == IF o.kind \in Rejections THEN "rejected" ELSE o.kind

Grounds == [uid |-> obj.status.out.uid, gen |-> obj.status.out.gen,
            phase |-> obj.status.out.phase, ground |-> Ground(obj.status.out)]

Contract == INSTANCE StatusContract
  WITH WarnedSpecs <- BadIntervalSpecs,
       exists <- obj.exists, uid <- obj.uid, gen <- obj.gen, spec <- obj.spec,
       phase <- obj.status.phase, observed <- obj.status.og, verdict <- Grounds

\* Caches, conflicts, lost and late writes, deadlines, panics and further pods
\* stay hidden from the client: each stored change of the CR is one the
\* contract allows (Reconcile as a whole, under Status().Update).
MeetsContract == Contract!Spec

\* A CR that stays gets a verdict on its last spec, whatever crashes,
\* conflicts, lost answers, deadlines and panics happened before.
EventuallySettled == []<>(obj.exists => Settled(obj))

\* What spec/architecture.md says of a run that exceeds its deadline (AR-009,
\* phase 1): it ends with phase Unknown.  Stated for a run whose last write
\* nothing else has made stale.
DeadlineEndsUnknown ==
  [][\A p \in Pods :
       /\ ctx[p] = "deadline" /\ pc[p] = "write" /\ cr[p].rv = obj.rv
       /\ up'[p] # "down" /\ pc'[p] = "idle"
       => obj'.status.phase = "Unknown"]_vars

\* What docs/user says of spec.interval: a CR in a terminal phase is reconciled
\* again after the interval, and that run turns the conditions to what the
\* cluster is like by then.
VerdictFollowsCluster ==
  <>[](obj.exists /\ obj.spec \notin RejectedSpecs
       /\ cluster = "healthy")
  => []<>(obj.status.phase \in HealthyPhases)

-----------------------------------------------------------------------------
(* The inductive invariant behind the safety properties.                   *)

\* A verdict for the version c of the CR: its labels and kind are c's.
GoodOutcome(c, o) ==
  /\ o.uid = c.uid /\ o.gen = c.gen
  /\ o.phase \in TerminalPhases
  /\ o.kind # "none"
  /\ o.kind # "panic" => ((c.spec \in RejectedSpecs) <=> (o.kind \in Rejections))
  /\ o.kind \in Rejections => o.phase = "Failed"
  /\ o.phase = "Passed" => o.kind # "panic" /\ c.spec \notin BadIntervalSpecs

\* What holds of every version of the CR that was ever stored.
Sound(c) ==
  c.exists =>
    /\ c.gen >= 1 /\ c.rv >= 1
    /\ c.status.og <= c.gen
    /\ c.status.out.kind # "cutShort"
    /\ c.status.out.kind # "none" =>
         c.status.out.uid = c.uid /\ c.status.out.gen = c.status.og
    /\ Settled(c) => c.status.phase = c.status.out.phase /\ GoodOutcome(c, c.status.out)

\* A copy of the CR is the stored one if the resourceVersion says so.
Known(c) == c.rv <= obj.rv /\ (obj.exists /\ c.rv = obj.rv => c = obj)

\* A status the server may store over c: progress, or a verdict.
Progress(c, status) ==
  status = PhaseStatus(c, "Pending") \/ status = PhaseStatus(c, "Running")
Verdict(c, status) ==
  /\ status = FinalStatus(c, status.out)
  /\ GoodOutcome(c, status.out)
  /\ status.out.kind # "cutShort"

RunInv(p) ==
  /\ Sound(cache[p]) /\ Known(cache[p])
  /\ pc[p] # "idle" => /\ cr[p].exists /\ ~Settled(cr[p])
                       /\ Sound(cr[p]) /\ Known(cr[p])
  /\ pc[p] \in {"running", "runningSent", "checks"} => cr[p].spec \notin RejectedSpecs
  /\ pc[p] = "write" => GoodOutcome(cr[p], out[p])
  /\ pc[p] = "write" /\ ctx[p] = "live" => out[p].kind # "cutShort"

RequestInv(r) ==
  /\ r.rv >= 1 /\ r.rv <= obj.rv
  /\ obj.exists /\ r.rv = obj.rv =>
       ~Settled(obj) /\ (Progress(obj, r.status) \/ Verdict(obj, r.status))
  /\ r.from # Nobody =>
       /\ r.rv = cr[r.from].rv
       /\ \/ pc[r.from] \in {"pendingSent", "runningSent"}
             /\ Progress(cr[r.from], r.status)
          \/ pc[r.from] = "finalSent" /\ Verdict(cr[r.from], r.status)

\* A pod waits for one answer at a time.
OneRequest ==
  \A r, s \in net : r.from = s.from /\ r.from # Nobody => r = s

\* Whatever a pod or the network holds is either out of date by its
\* resourceVersion or may be stored: the core of why verdicts are safe.
CopiesInv ==
  /\ TypeOK
  /\ Sound(obj)
  /\ \A p \in Pods : RunInv(p)
  /\ \A r \in net : RequestInv(r)
  /\ OneRequest
  /\ NoLostWork

=============================================================================
