-------------------------- MODULE ReconcilerProofs --------------------------
(***************************************************************************)
(* Proofs about Reconciler, for any number of pods, any set of specs and   *)
(* any bounds.                                                             *)
(***************************************************************************)
EXTENDS Reconciler, TLAPS

-----------------------------------------------------------------------------
(* Types.                                                                  *)

\* The values a CR, its status and its outcome start from are well formed.
LEMMA BlankTypes ==
  NoOutcome \in Outcomes /\ NoStatus \in Statuses /\ NoCR \in CRs
BY DEF NoOutcome, Outcomes, OutcomeKinds, NoStatus, Statuses, NoCR, CRs

\* Escalation stays within the phases, and keeps a terminal phase terminal.
LEMMA EscalateTypes ==
  ASSUME NEW phase \in TerminalPhases, NEW spec
  PROVE  /\ MergeIntervalWarning(spec, phase) \in TerminalPhases
         /\ MergeIntervalWarning(spec, phase) \in Phases
BY DEF MergeIntervalWarning, EscalatePhase, TerminalPhases, Phases

\* What a run computes is a well-formed outcome.
LEMMA OutcomeTypes ==
  ASSUME NEW c \in CRs, NEW kind \in OutcomeKinds, NEW phase \in TerminalPhases
  PROVE  OutcomeFor(c, kind, phase) \in Outcomes
BY EscalateTypes DEF OutcomeFor, Outcomes, CRs

\* The statuses markPhase and writeStatus send are well formed.
LEMMA StatusTypes ==
  ASSUME NEW c \in CRs, NEW o \in Outcomes, NEW phase \in Phases
  PROVE  PhaseStatus(c, phase) \in Statuses /\ FinalStatus(c, o) \in Statuses
BY DEF PhaseStatus, FinalStatus, Statuses, CRs, Outcomes

\* A stored change of the CR makes a well-formed version of it.
LEMMA VersionTypes ==
  ASSUME TypeOK, NEW gen \in Nat, NEW spec \in Specs \cup {NoSpec}, NEW status \in Statuses
  PROVE  NextVersion(gen, spec, status) \in CRs
BY DEF TypeOK, NextVersion, CRs

\* Returning from Reconcile leaves the pod's variables well formed.
LEMMA ReturnTypes ==
  ASSUME TypeOK, NEW p \in Pods, NEW e \in BOOLEAN, Return(p, e)
  PROVE  /\ pc' \in [Pods -> Steps]
         /\ cr' \in [Pods -> CRs]
         /\ ctx' \in [Pods -> {"live", "deadline", "canceled"}]
         /\ out' \in [Pods -> Outcomes]
         /\ queued' \in [Pods -> BOOLEAN]
         /\ timer' \in [Pods -> BOOLEAN]
BY BlankTypes DEF TypeOK, Return, Steps

\* So does sending a status.
LEMMA SendTypes ==
  ASSUME TypeOK, NEW p \in Pods, NEW s \in Statuses, NEW wait \in WaitSteps,
         Send(p, s, wait)
  PROVE  /\ pc' \in [Pods -> Steps]
         /\ cr' \in [Pods -> CRs]
         /\ ctx' \in [Pods -> {"live", "deadline", "canceled"}]
         /\ out' \in [Pods -> Outcomes]
         /\ net' \in SUBSET Requests
         /\ queued' \in [Pods -> BOOLEAN]
         /\ timer' \in [Pods -> BOOLEAN]
<1>1. CASE CanSend(p) /\ net' = net \cup {RequestFor(p, s)} /\ Goto(p, wait)
           /\ UNCHANGED <<cr, ctx, out, queued, timer>>
  <2>1. RequestFor(p, s) \in Requests
    BY DEF RequestFor, Requests, TypeOK, CRs
  <2>2. QED
    BY <1>1, <2>1 DEF TypeOK, Goto, Steps
<1>2. CASE ~CanSend(p) /\ Return(p, TRUE) /\ UNCHANGED net
  BY <1>2, ReturnTypes DEF TypeOK
<1>3. QED
  BY <1>1, <1>2 DEF Send

\* Abandoning its requests leaves the network well formed.
LEMMA DisownTypes ==
  ASSUME TypeOK, NEW p \in Pods, Disown(p)
  PROVE  net' \in SUBSET Requests
BY DEF TypeOK, Disown, Requests

\* A step of Reconciler, or what its environment may do when it is a part of
\* something larger: stop a pod without a fault, or change nothing that is seen
\* here, with or without one (Operator, where pods are replaced).
Step ==
  \/ [Next]_vars
  \/ /\ faults' \in 0 .. MaxFaults
     /\ (\E p \in Pods : BeginStop(p))
        \/ UNCHANGED <<obj, cache, pc, cr, ctx, out, net, up, queued, timer, cluster, edits>>

\* Every variable keeps its type in a step (all of Reconcile and its environment).
LEMMA StepTypes == ASSUME TypeOK, Step PROVE TypeOK'
<1> USE DEF runVars, podVars, envVars
<1>1. ASSUME NEW s \in Specs, Create(s) PROVE TypeOK'
  BY <1>1, BlankTypes, BoundsAssumption DEF TypeOK, Create, Edit, CRs
<1>2. ASSUME NEW s \in Specs, EditSpec(s) PROVE TypeOK'
  BY <1>2, BoundsAssumption, VersionTypes DEF TypeOK, EditSpec, Edit, CRs
<1>3. CASE EditMetadata
  <2>1. obj.gen \in Nat /\ obj.spec \in Specs \cup {NoSpec} /\ obj.status \in Statuses
    BY DEF TypeOK, CRs
  <2>2. obj' \in CRs
    BY <1>3, <2>1, VersionTypes DEF EditMetadata
  <2>3. QED
    BY <1>3, <2>2, BoundsAssumption DEF TypeOK, EditMetadata, Edit
<1>4. CASE Delete
  <2>1. obj' \in CRs
    BY <1>4, BlankTypes DEF TypeOK, Delete, CRs
  <2>2. QED
    BY <1>4, <2>1, BoundsAssumption DEF TypeOK, Delete, Edit
<1>5. CASE ClusterChanges
  BY <1>5 DEF TypeOK, ClusterChanges
<1>6. ASSUME NEW r \in net, Store(r) PROVE TypeOK'
  <2>1. obj' \in CRs
    BY <1>6, VersionTypes DEF TypeOK, Store, CRs, Requests
  <2>2. CASE r.from = Nobody
    BY <1>6, <2>1, <2>2 DEF TypeOK, Store
  <2>3. CASE r.from # Nobody
    <3>1. r.from \in Pods /\ Answered(r.from)
      BY <1>6, <2>3 DEF TypeOK, Store, Requests
    <3>2. CASE Return(r.from, EndsInError(out[r.from]))
      <4>1. EndsInError(out[r.from]) \in BOOLEAN
        BY DEF EndsInError
      <4>2. QED
        BY <1>6, <2>1, <3>1, <3>2, <4>1, ReturnTypes DEF TypeOK, Store
    <3>3. CASE /\ cr' = [cr EXCEPT ![r.from] = obj']
               /\ Goto(r.from, IF pc[r.from] = "pendingSent" THEN "validate" ELSE "checks")
               /\ UNCHANGED <<ctx, out, queued, timer>>
      BY <1>6, <2>1, <3>1, <3>3 DEF TypeOK, Store, Goto, Steps
    <3>4. QED
      BY <3>1, <3>2, <3>3 DEF Answered
  <2>4. QED
    BY <2>2, <2>3
<1>7. ASSUME NEW r \in net, Refuse(r) PROVE TypeOK'
  <2>1. faults' \in 0 .. MaxFaults
    BY <1>7, BoundsAssumption DEF TypeOK, Refuse, Fault
  <2>2. CASE r.from = Nobody
    BY <1>7, <2>1, <2>2 DEF TypeOK, Refuse
  <2>3. CASE r.from # Nobody
    <3>1. r.from \in Pods /\ Return(r.from, TRUE)
      BY <1>7, <2>3 DEF TypeOK, Refuse, Requests
    <3>2. QED
      BY <1>7, <2>1, <3>1, ReturnTypes DEF TypeOK, Refuse
  <2>4. QED
    BY <2>2, <2>3
<1>8. ASSUME NEW p \in Pods, Start(p) PROVE TypeOK'
  <2>1. CASE StartNotFound(p)
    BY <2>1 DEF TypeOK, StartNotFound
  <2>2. CASE StartSkip(p)
    BY <2>2 DEF TypeOK, StartSkip
  <2>3. CASE StartRun(p)
    BY <2>3 DEF TypeOK, StartRun, Goto, Steps
  <2>4. QED
    BY <1>8, <2>1, <2>2, <2>3 DEF Start
<1>9. ASSUME NEW p \in Pods, NEW phase \in Phases, NEW wait \in WaitSteps,
             NEW next \in Steps, MarkPhase(p, phase, wait, next)
      PROVE TypeOK'
  <2>1. CASE Goto(p, next) /\ UNCHANGED <<cr, ctx, out, net, queued, timer>>
    BY <1>9, <2>1 DEF TypeOK, MarkPhase, Goto
  <2>2. CASE Send(p, PhaseStatus(cr[p], phase), wait)
    <3>1. PhaseStatus(cr[p], phase) \in Statuses
      BY BlankTypes, StatusTypes DEF TypeOK
    <3>2. QED
      BY <1>9, <2>2, <3>1, SendTypes DEF TypeOK, MarkPhase
  <2>3. QED
    BY <1>9, <2>1, <2>2 DEF MarkPhase
<1>10. ASSUME NEW p \in Pods, MarkPending(p) PROVE TypeOK'
  BY <1>9, <1>10 DEF MarkPending, Phases, WaitSteps, Steps
<1>11. ASSUME NEW p \in Pods, MarkRunning(p) PROVE TypeOK'
  BY <1>9, <1>11 DEF MarkRunning, Phases, WaitSteps, Steps
<1>12. ASSUME NEW p \in Pods, Validate(p) PROVE TypeOK'
  <2>1. /\ OutcomeFor(cr[p], "specInvalid", "Failed") \in Outcomes
        /\ OutcomeFor(cr[p], "selection", "Failed") \in Outcomes
    BY OutcomeTypes DEF TypeOK, OutcomeKinds, TerminalPhases
  <2>2. QED
    BY <1>12, <2>1 DEF TypeOK, Validate, Goto, Steps
<1>13. ASSUME NEW p \in Pods, RunChecks(p) PROVE TypeOK'
  <2>1. ASSUME NEW phase \in CheckPhases \cup {"Unknown"}
        PROVE  /\ OutcomeFor(cr[p], "checks", phase) \in Outcomes
               /\ OutcomeFor(cr[p], "cutShort", phase) \in Outcomes
    <3>1. phase \in TerminalPhases
      BY PhasesAssumption DEF CheckPhases, TerminalPhases
    <3>2. QED
      BY <3>1, OutcomeTypes DEF TypeOK, OutcomeKinds
  <2>2. QED
    BY <1>13, <2>1 DEF TypeOK, RunChecks, Goto, Steps
<1>14. ASSUME NEW p \in Pods, WriteStatus(p) PROVE TypeOK'
  <2>1. FinalStatus(cr[p], out[p]) \in Statuses
    BY StatusTypes DEF TypeOK, Phases
  <2>2. Send(p, FinalStatus(cr[p], out[p]), "finalSent") /\ "finalSent" \in WaitSteps
    BY <1>14 DEF WriteStatus, WaitSteps
  <2>3. QED
    BY <1>14, <2>1, <2>2, SendTypes DEF TypeOK, WriteStatus
<1>15. ASSUME NEW p \in Pods, GiveUp(p) PROVE TypeOK'
  <2>1. faults' \in 0 .. MaxFaults
    BY <1>15, BoundsAssumption DEF TypeOK, GiveUp, Fault
  <2>2. QED
    BY <1>15, <2>1, ReturnTypes, DisownTypes DEF TypeOK, GiveUp
<1>16. ASSUME NEW p \in Pods, Panic(p) PROVE TypeOK'
  <2>1. faults' \in 0 .. MaxFaults
    BY <1>16, BoundsAssumption DEF TypeOK, Panic, Fault
  <2>2. OutcomeFor(cr[p], "panic", "Unknown") \in Outcomes
    BY OutcomeTypes DEF TypeOK, OutcomeKinds, TerminalPhases
  <2>3. CASE Return(p, TRUE)
    BY <1>16, <2>1, <2>3, ReturnTypes DEF TypeOK, Panic
  <2>4. CASE ~Return(p, TRUE)
    BY <1>16, <2>1, <2>2, <2>4 DEF TypeOK, Panic, Goto, Steps
  <2>5. QED
    BY <2>3, <2>4
<1>17. ASSUME NEW p \in Pods, Deadline(p) PROVE TypeOK'
  BY <1>17, BoundsAssumption DEF TypeOK, Deadline, Fault
<1>18. ASSUME NEW p \in Pods, CacheSync(p) \/ RequeueAfter(p) \/ Boot(p) PROVE TypeOK'
  <2>1. obj.exists \in BOOLEAN
    BY DEF TypeOK, CRs
  <2>2. CASE CacheSync(p)
    BY <2>2 DEF TypeOK, CacheSync
  <2>3. CASE RequeueAfter(p)
    BY <2>3 DEF TypeOK, RequeueAfter
  <2>4. CASE Boot(p)
    BY <2>1, <2>4 DEF TypeOK, Boot
  <2>5. QED
    BY <1>18, <2>2, <2>3, <2>4
<1>19. ASSUME NEW p \in Pods, BeginStop(p), faults' \in 0 .. MaxFaults PROVE TypeOK'
  BY <1>19 DEF TypeOK, BeginStop
<1>20. ASSUME NEW p \in Pods, Shutdown(p) PROVE TypeOK'
  BY <1>19, <1>20, BoundsAssumption DEF TypeOK, Shutdown, Fault
<1>21. ASSUME NEW p \in Pods, Exit(p) PROVE TypeOK'
  BY <1>21, BlankTypes DEF TypeOK, Exit, Gone, Steps
<1>22. ASSUME NEW p \in Pods, Crash(p) PROVE TypeOK'
  BY <1>22, BlankTypes, BoundsAssumption, DisownTypes DEF TypeOK, Crash, Gone, Steps, Fault
<1>23. CASE UNCHANGED <<obj, cache, pc, cr, ctx, out, net, up, queued, timer, cluster, edits>>
            /\ faults' \in 0 .. MaxFaults
  BY <1>23 DEF TypeOK
<1>24. CASE UNCHANGED vars
  BY <1>24 DEF vars, TypeOK
<1>25. QED
  BY <1>1, <1>2, <1>3, <1>4, <1>5, <1>6, <1>7, <1>8, <1>10, <1>11, <1>12, <1>13,
     <1>14, <1>15, <1>16, <1>17, <1>18, <1>19, <1>20, <1>21, <1>22, <1>23, <1>24
  DEF Step, Next, User, Serve, Reconcile, Process

\* The type invariant of the specification.
THEOREM TypeCorrect == Spec => []TypeOK
<1>1. Init => TypeOK
  BY BlankTypes, BoundsAssumption DEF Init, TypeOK, Steps
<1>2. TypeOK /\ [Next]_vars => TypeOK'
  BY StepTypes DEF Step
<1>3. QED
  BY <1>1, <1>2, PTL DEF Spec

-----------------------------------------------------------------------------
(* Every stored version carries a sound status.                            *)

\* Pods other than p do not notice the step.
Others(p) ==
  \A q \in Pods \ {p} :
    /\ cache'[q] = cache[q] /\ pc'[q] = pc[q] /\ cr'[q] = cr[q]
    /\ ctx'[q] = ctx[q] /\ out'[q] = out[q]
    /\ up'[q] = up[q] /\ queued'[q] = queued[q]

\* What a step of p has to establish for p itself.
Own(p) == RunInv(p) /\ Remembered(p)

\* Every outcome a run computes is one for the version of the CR it read.
LEMMA ComputedOutcomes ==
  ASSUME NEW c \in CRs, NEW kind \in OutcomeKinds, NEW phase \in TerminalPhases,
         kind # "none",
         kind # "panic" => ((c.spec \in RejectedSpecs) <=> (kind \in Rejections)),
         kind \in Rejections => phase = "Failed",
         kind = "panic" => phase = "Unknown"
  PROVE  /\ GoodOutcome(c, OutcomeFor(c, kind, phase))
         /\ OutcomeFor(c, kind, phase).kind = kind
<1>1. MergeIntervalWarning(c.spec, phase) \in TerminalPhases
  BY EscalateTypes
<1>2. MergeIntervalWarning(c.spec, "Failed") = "Failed"
  <2>1. PhaseRank("Failed") = 4
    BY DEF PhaseRank
  <2>2. PhaseRank("Warning") = 3
    BY DEF PhaseRank
  <2>3. QED
    BY <2>1, <2>2 DEF MergeIntervalWarning, EscalatePhase
<1>3. MergeIntervalWarning(c.spec, phase) = "Passed" =>
        phase = "Passed" /\ c.spec \notin BadIntervalSpecs
  <2>1. PhaseRank("Passed") = 1 /\ PhaseRank("Warning") = 3
    BY DEF PhaseRank
  <2>2. QED
    BY <2>1 DEF MergeIntervalWarning, EscalatePhase
<1>4. QED
  BY <1>1, <1>2, <1>3 DEF GoodOutcome, OutcomeFor

\* A change that is stored makes every copy held elsewhere an old one.
LEMMA StoredStep ==
  ASSUME CopiesInv, TypeOK', obj'.rv = obj.rv + 1, Sound(obj)'
  PROVE  /\ \A c \in CRs : Known(c) => c.rv < obj'.rv
         /\ \A c \in CRs : Known(c) => Known(c)'
         /\ \A r \in net : r.rv >= 1 /\ r.rv < obj'.rv
<1>1. obj.rv \in Nat
  BY DEF CopiesInv, TypeOK, CRs
<1>2. ASSUME NEW c \in CRs, Known(c)
      PROVE  c.rv < obj'.rv /\ c.rv <= obj'.rv
  BY <1>1, <1>2 DEF Known, CRs
<1>3. ASSUME NEW r \in net PROVE r.rv >= 1 /\ r.rv < obj'.rv
  BY <1>1 DEF CopiesInv, TypeOK, Requests, RequestInv
<1>4. ASSUME NEW c \in CRs, Known(c) PROVE Known(c)'
  <2>1. c.rv < obj'.rv /\ c.rv <= obj'.rv /\ c.rv \in Nat /\ obj'.rv \in Nat
    BY <1>1, <1>2, <1>4 DEF CRs
  <2>2. c.rv # obj'.rv
    BY <2>1
  <2>3. QED
    BY <2>1, <2>2 DEF Known
<1>5. QED
  BY <1>2, <1>3, <1>4

\* The user changes the CR and nothing else.
LEMMA UserStep ==
  ASSUME CopiesInv, TypeOK', obj'.rv = obj.rv + 1, Sound(obj)',
         UNCHANGED <<cache, pc, cr, ctx, out, net, up, queued>>
  PROVE  CopiesInv'
<1>1. ASSUME NEW p \in Pods PROVE RunInv(p)' /\ Remembered(p)'
  <2>1. RunInv(p) /\ cache[p] \in CRs /\ cr[p] \in CRs
    BY DEF CopiesInv, TypeOK
  <2>2. Known(cache[p]) => Known(cache[p])' /\ cache[p].rv < obj'.rv
    BY <2>1, StoredStep
  <2>3. Known(cr[p]) => Known(cr[p])'
    BY <2>1, StoredStep
  <2>4. RunInv(p)'
    BY <2>1, <2>2, <2>3 DEF RunInv, Sound, Settled, GoodOutcome
  <2>5. cache'[p] # obj'
    <3>1. cache[p].rv < obj'.rv /\ cache[p].rv \in Nat
      BY <2>1, <2>2 DEF RunInv, CRs
    <3>2. cache[p].rv # obj'.rv
      BY <3>1
    <3>3. QED
      BY <3>2
  <2>6. QED
    BY <2>4, <2>5 DEF Remembered
<1>2. ASSUME NEW r \in net' PROVE RequestInv(r)'
  <2>1. r \in net /\ RequestInv(r)
    BY DEF CopiesInv
  <2>2. r.rv \in Nat /\ obj'.rv \in Nat /\ r.rv >= 1 /\ r.rv < obj'.rv
    BY <2>1, StoredStep DEF CopiesInv, TypeOK, CRs, Requests
  <2>3. QED
    BY <2>1, <2>2 DEF RequestInv, Progress, Verdict, PhaseStatus, FinalStatus, GoodOutcome
<1>3. QED
  BY <1>1, <1>2 DEF CopiesInv, NoLostWork, OneRequest

\* A step of p that leaves the stored CR alone does not disturb the others.
LEMMA OthersStep ==
  ASSUME CopiesInv, NEW p \in Pods, UNCHANGED obj, Others(p)
  PROVE  \A q \in Pods \ {p} : Own(q)'
<1>1. ASSUME NEW q \in Pods \ {p} PROVE RunInv(q)' /\ Remembered(q)'
  <2>1. RunInv(q) /\ Remembered(q)
    BY DEF CopiesInv, NoLostWork
  <2>2. QED
    BY <2>1 DEF Others, RunInv, Remembered, Sound, Known, Settled, GoodOutcome
<1>2. QED
  BY <1>1 DEF Own

\* The request r is s, or s disowned, and is not one p waits for.
Left(p, r, s) ==
  /\ r.rv = s.rv /\ r.status = s.status
  /\ r.from = Nobody \/ (r.from # p /\ r = s)

\* A pod stops waiting: its requests are gone, or belong to nobody.
LEMMA LeaveStep ==
  ASSUME CopiesInv, TypeOK', NEW p \in Pods, UNCHANGED obj, Others(p), Own(p)',
         \A r \in net' : \E s \in net : Left(p, r, s)
  PROVE  CopiesInv'
<1>1. \A q \in Pods : RunInv(q)' /\ Remembered(q)'
  BY OthersStep DEF Own
<1>2. ASSUME NEW r \in net' PROVE RequestInv(r)'
  <2>1. PICK s \in net : Left(p, r, s)
    OBVIOUS
  <2>2. RequestInv(s) /\ s \in Requests
    BY DEF CopiesInv, TypeOK
  <2>3. r.from # Nobody => /\ r.from = s.from
                           /\ pc'[r.from] = pc[r.from] /\ cr'[r.from] = cr[r.from]
    BY <2>1, <2>2 DEF Left, Others, Requests
  <2>4. QED
    BY <2>1, <2>2, <2>3 DEF Left, RequestInv, Progress, Verdict, PhaseStatus, FinalStatus,
                            GoodOutcome, Settled
<1>3. OneRequest'
  BY DEF CopiesInv, OneRequest, Left
<1>4. QED
  BY <1>1, <1>2, <1>3 DEF CopiesInv, NoLostWork, Sound, Settled, GoodOutcome

\* A pod that waits for no answer has no request under way.
LEMMA NoRequest ==
  ASSUME CopiesInv, NEW p \in Pods, pc[p] \notin WaitSteps
  PROVE  \A r \in net : r.from # p
BY PodsAssumption DEF CopiesInv, RequestInv, WaitSteps

\* A pod that waits for no answer changes only what is its own.
LEMMA PodStep ==
  ASSUME CopiesInv, TypeOK', NEW p \in Pods, UNCHANGED <<obj, net>>, Others(p), Own(p)',
         pc[p] \notin WaitSteps
  PROVE  CopiesInv'
<1>1. \A r \in net' : Left(p, r, r)
  BY NoRequest DEF Left
<1>2. QED
  BY <1>1, LeaveStep

\* A pod sends a status that the server may store.
LEMMA SendStep ==
  ASSUME CopiesInv, TypeOK', NEW p \in Pods, UNCHANGED obj, Others(p), Own(p)',
         pc[p] \notin WaitSteps,
         NEW r \in Requests, r.from = p, RequestInv(r)', net' = net \cup {r}
  PROVE  CopiesInv'
<1>1. \A q \in Pods : RunInv(q)' /\ Remembered(q)'
  BY OthersStep DEF Own
<1>2. ASSUME NEW s \in net PROVE RequestInv(s)'
  <2>1. RequestInv(s) /\ s \in Requests /\ s.from # p
    BY NoRequest DEF CopiesInv, TypeOK
  <2>2. s.from # Nobody => pc'[s.from] = pc[s.from] /\ cr'[s.from] = cr[s.from]
    BY <2>1 DEF Others, Requests
  <2>3. QED
    BY <2>1, <2>2 DEF RequestInv, Progress, Verdict, PhaseStatus, FinalStatus,
                      GoodOutcome, Settled
<1>3. OneRequest'
  BY NoRequest DEF CopiesInv, OneRequest
<1>4. QED
  BY <1>1, <1>2, <1>3 DEF CopiesInv, NoLostWork, Sound, Settled, GoodOutcome

-----------------------------------------------------------------------------
(* The actions, each against the invariant.                                *)

\* A reconcile that ends in an error leaves its key in the queue.
LEMMA ReturnOwn ==
  ASSUME CopiesInv, NEW p \in Pods, NEW e \in BOOLEAN, Return(p, e), UNCHANGED <<obj, cache, up>>
  PROVE  Others(p) /\ (e => Own(p)')
<1>1. pc'[p] = "idle" /\ (e => queued'[p])
  BY DEF CopiesInv, TypeOK, Return
<1>2. RunInv(p)
  BY DEF CopiesInv
<1>3. Others(p)
  BY DEF CopiesInv, TypeOK, Return, Others
<1>4. RunInv(p)'
  BY <1>1, <1>2 DEF RunInv, Sound, Known, Settled, GoodOutcome
<1>5. QED
  BY <1>1, <1>3, <1>4 DEF Own, Remembered

\* The user's changes: a new version starts without a verdict, or keeps the
\* spec and the generation its verdict is about.
LEMMA UserSafe ==
  ASSUME CopiesInv, TypeOK', User
  PROVE  CopiesInv'
<1> USE DEF runVars, podVars, envVars
<1>1. obj \in CRs /\ obj.rv \in Nat /\ obj.gen \in Nat /\ obj.uid \in Nat /\ Sound(obj)
  BY DEF CopiesInv, TypeOK, CRs
<1>2. ASSUME NEW s \in Specs, Create(s) PROVE CopiesInv'
  <2>1. obj' = [exists |-> TRUE, uid |-> obj.uid + 1, gen |-> 1, rv |-> obj.rv + 1,
                spec |-> s, status |-> NoStatus]
    BY <1>2 DEF Create
  <2>2. Sound(obj)'
    BY <1>1, <2>1 DEF Sound, Settled, NoStatus, NoOutcome
  <2>3. QED
    BY <1>2, <2>1, <2>2, UserStep DEF Create
<1>3. ASSUME NEW s \in Specs, EditSpec(s) PROVE CopiesInv'
  <2>1. obj' = [exists |-> TRUE, uid |-> obj.uid, gen |-> obj.gen + 1, rv |-> obj.rv + 1,
                spec |-> s, status |-> obj.status] /\ obj.exists
    BY <1>3 DEF EditSpec, NextVersion
  <2>2. obj.status.og \in Nat
    BY <1>1 DEF CRs, Statuses
  <2>3. Sound(obj)'
    BY <1>1, <2>1, <2>2 DEF Sound, Settled
  <2>4. QED
    BY <1>3, <2>1, <2>3, UserStep DEF EditSpec
<1>4. CASE EditMetadata
  <2>1. obj' = [exists |-> TRUE, uid |-> obj.uid, gen |-> obj.gen, rv |-> obj.rv + 1,
                spec |-> obj.spec, status |-> obj.status] /\ obj.exists
    BY <1>4 DEF EditMetadata, NextVersion
  <2>2. Sound(obj)'
    BY <1>1, <2>1 DEF Sound, Settled, GoodOutcome
  <2>3. QED
    BY <1>4, <2>1, <2>2, UserStep DEF EditMetadata
<1>5. CASE Delete
  <2>1. obj' = [exists |-> FALSE, uid |-> obj.uid, gen |-> 0, rv |-> obj.rv + 1,
                spec |-> NoSpec, status |-> NoStatus]
    BY <1>5 DEF Delete
  <2>2. Sound(obj)'
    BY <2>1 DEF Sound
  <2>3. QED
    BY <1>5, <2>1, <2>2, UserStep DEF Delete
<1>6. QED
  BY <1>2, <1>3, <1>4, <1>5 DEF User

\* Start of a reconcile: what is not skipped has no verdict.
LEMMA StartSafe ==
  ASSUME CopiesInv, TypeOK', NEW p \in Pods, Start(p)
  PROVE  CopiesInv'
<1> USE DEF runVars, podVars, envVars, Dequeue
<1>1. RunInv(p) /\ Sound(cache[p]) /\ Known(cache[p])
  BY DEF CopiesInv, RunInv
<1>2. pc[p] = "idle" /\ pc[p] \notin WaitSteps
  BY DEF Start, StartNotFound, StartSkip, StartRun, WaitSteps
<1>3. CASE StartNotFound(p)
  <2>1. Others(p)
    BY <1>3 DEF StartNotFound, Others, CopiesInv, TypeOK
  <2>2. Own(p)'
    BY <1>1, <1>2, <1>3 DEF StartNotFound, Own, RunInv, Remembered, Sound, Known, Settled, GoodOutcome
  <2>3. QED
    BY <1>2, <1>3, <2>1, <2>2, PodStep DEF StartNotFound
<1>4. CASE StartSkip(p)
  <2>1. Others(p)
    BY <1>4 DEF StartSkip, Others, CopiesInv, TypeOK
  <2>2. Own(p)'
    BY <1>1, <1>2, <1>4 DEF StartSkip, IsAlreadyReconciled, Own, RunInv, Remembered, Sound, Known, Settled, GoodOutcome
  <2>3. QED
    BY <1>2, <1>4, <2>1, <2>2, PodStep DEF StartSkip
<1>5. CASE StartRun(p)
  <2>1. Others(p)
    BY <1>5 DEF StartRun, Goto, Others, CopiesInv, TypeOK
  <2>2. ~Settled(cache[p]) /\ cache[p].exists
    BY <1>1, <1>5 DEF StartRun, IsAlreadyReconciled, Sound, Settled, GoodOutcome
  <2>3. cr'[p] = cache[p] /\ pc'[p] = "pending"
    BY <1>5 DEF StartRun, Goto, CopiesInv, TypeOK
  <2>4. Own(p)'
    BY <1>1, <1>5, <2>2, <2>3 DEF StartRun, Own, RunInv, Remembered, Sound, Known, Settled, GoodOutcome
  <2>5. QED
    BY <1>2, <1>5, <2>1, <2>4, PodStep DEF StartRun
<1>6. QED
  BY <1>3, <1>4, <1>5 DEF Start

\* A request a pod sends may be stored unless the stored CR has changed.
LEMMA SendSafe ==
  ASSUME CopiesInv, TypeOK', NEW p \in Pods, UNCHANGED <<obj, cache, up>>,
         pc[p] \in {"pending", "running", "write"},
         NEW status \in Statuses, NEW wait \in WaitSteps, Send(p, status, wait),
         wait = "runningSent" => pc[p] = "running",
         \/ wait \in {"pendingSent", "runningSent"} /\ Progress(cr[p], status)
         \/ wait = "finalSent" /\ (CanSend(p) => Verdict(cr[p], status))
  PROVE  CopiesInv'
<1>1. /\ RunInv(p) /\ pc[p] # "idle" /\ pc[p] \notin WaitSteps /\ pc \in [Pods -> Steps]
      /\ cr[p] \in CRs /\ obj.rv \in Nat
  BY DEF CopiesInv, TypeOK, WaitSteps, CRs
<1>2. CASE Return(p, TRUE) /\ UNCHANGED net
  BY <1>1, <1>2, ReturnOwn, PodStep
<1>3. CASE /\ CanSend(p) /\ net' = net \cup {RequestFor(p, status)} /\ Goto(p, wait)
           /\ UNCHANGED <<cr, ctx, out, queued, timer>>
  <2>1. Others(p) /\ pc'[p] = wait /\ wait # "idle" /\ wait # "write"
    BY <1>1, <1>3 DEF Goto, Others, WaitSteps
  <2>2. Own(p)'
    BY <1>1, <1>3, <2>1 DEF Own, RunInv, Remembered, WaitSteps, Sound, Known, Settled, GoodOutcome
  <2>3. PICK r \in Requests : r = RequestFor(p, status)
    BY <1>1 DEF RequestFor, Requests, CRs
  <2>4. r.from = p /\ r.rv = cr[p].rv /\ r.status = status
    BY <2>3 DEF RequestFor
  <2>5. r.rv >= 1 /\ r.rv <= obj.rv
    BY <1>1, <2>4 DEF RunInv, Sound, Known
  <2>6. obj.exists /\ r.rv = obj.rv => obj = cr[p] /\ ~Settled(obj)
    BY <1>1, <2>4 DEF RunInv, Known
  <2>7. RequestInv(r)'
    <3>1. cr'[p] = cr[p] /\ obj' = obj
      BY <1>3
    <3>2. CASE wait \in {"pendingSent", "runningSent"} /\ Progress(cr[p], status)
      BY <2>1, <2>4, <2>5, <2>6, <3>1, <3>2 DEF RequestInv, Settled, Progress, PhaseStatus
    <3>3. CASE wait = "finalSent" /\ Verdict(cr[p], status)
      BY <2>1, <2>4, <2>5, <2>6, <3>1, <3>3
      DEF RequestInv, Settled, Verdict, FinalStatus, GoodOutcome
    <3>4. QED
      BY <1>3, <3>2, <3>3
  <2>8. QED
    BY <1>1, <1>3, <2>1, <2>2, <2>3, <2>4, <2>7, SendStep
<1>4. QED
  BY <1>2, <1>3 DEF Send

\* markPhase: the phase it sends is progress towards a verdict, not one.
LEMMA MarkSafe ==
  ASSUME CopiesInv, TypeOK', NEW p \in Pods, MarkPending(p) \/ MarkRunning(p)
  PROVE  CopiesInv'
<1> USE DEF podVars, envVars
<1>1. RunInv(p) /\ pc \in [Pods -> Steps] /\ cr[p] \in CRs
  BY DEF CopiesInv, TypeOK
<1>2. UNCHANGED <<obj, cache, up>> /\ pc[p] \in {"pending", "running"}
  BY DEF MarkPending, MarkRunning, MarkPhase
<1>3. ASSUME NEW next \in {"validate", "checks"}, Goto(p, next),
             next = "checks" => pc[p] = "running",
             UNCHANGED <<cr, ctx, out, net, queued, timer>>
      PROVE  CopiesInv'
  <2>1. Others(p) /\ pc'[p] = next
    BY <1>1, <1>2, <1>3 DEF Goto, Others
  <2>2. Own(p)'
    BY <1>1, <1>2, <1>3, <2>1 DEF Own, RunInv, Remembered, Sound, Known, Settled, GoodOutcome
  <2>3. QED
    BY <1>2, <1>3, <2>1, <2>2, PodStep DEF WaitSteps
<1>4. ASSUME NEW phase \in {"Pending", "Running"}, NEW wait \in {"pendingSent", "runningSent"},
             wait = "runningSent" => pc[p] = "running", Send(p, PhaseStatus(cr[p], phase), wait)
      PROVE  CopiesInv'
  <2>1. PhaseStatus(cr[p], phase) \in Statuses
    BY <1>1 DEF PhaseStatus, Statuses, CRs, Phases
  <2>2. Progress(cr[p], PhaseStatus(cr[p], phase))
    BY DEF Progress
  <2>3. QED
    BY <1>2, <1>4, <2>1, <2>2, SendSafe DEF WaitSteps
<1>5. CASE MarkPending(p)
  BY <1>3, <1>4, <1>5 DEF MarkPending, MarkPhase
<1>6. CASE MarkRunning(p)
  BY <1>3, <1>4, <1>6 DEF MarkRunning, MarkPhase
<1>7. QED
  BY <1>5, <1>6

\* writeStatus: with a live context, the outcome is a verdict on what was read.
LEMMA WriteSafe ==
  ASSUME CopiesInv, TypeOK', NEW p \in Pods, WriteStatus(p)
  PROVE  CopiesInv'
<1>1. RunInv(p) /\ pc[p] = "write" /\ cr[p] \in CRs /\ out[p] \in Outcomes
  BY DEF CopiesInv, TypeOK, WriteStatus
<1>2. FinalStatus(cr[p], out[p]) \in Statuses
  BY <1>1, StatusTypes DEF Phases
<1>3. CanSend(p) => Verdict(cr[p], FinalStatus(cr[p], out[p]))
  BY <1>1 DEF Verdict, FinalStatus, RunInv, CanSend
<1>4. QED
  BY <1>1, <1>2, <1>3, SendSafe DEF WriteStatus, WaitSteps, envVars

\* A run that neither returns nor sends, and only moves on with its outcome.
LEMMA StepSafe ==
  ASSUME CopiesInv, TypeOK', NEW p \in Pods, UNCHANGED <<obj, cache, cr, ctx, net, up, queued>>,
         pc[p] \notin WaitSteps \cup {"idle"},
         NEW step \in {"running", "write"}, NEW o \in Outcomes,
         pc' = [pc EXCEPT ![p] = step], out' = [out EXCEPT ![p] = o],
         step = "running" => cr[p].spec \notin RejectedSpecs,
         step = "write" => GoodOutcome(cr[p], o) /\ (ctx[p] = "live" => o.kind # "cutShort")
  PROVE  CopiesInv'
<1>1. RunInv(p) /\ pc \in [Pods -> Steps] /\ out \in [Pods -> Outcomes]
  BY DEF CopiesInv, TypeOK
<1>2. Others(p) /\ pc'[p] = step /\ out'[p] = o
  BY <1>1 DEF Others
<1>3. Own(p)'
  BY <1>1, <1>2 DEF Own, RunInv, Remembered, Sound, Known, Settled, GoodOutcome
<1>4. QED
  BY <1>2, <1>3, PodStep

\* Validate: Failed for a spec that is rejected, no outcome yet for another.
LEMMA ValidateSafe ==
  ASSUME CopiesInv, TypeOK', NEW p \in Pods, Validate(p)
  PROVE  CopiesInv'
<1> USE DEF podVars, envVars, Validate, Goto
<1>1. cr[p] \in CRs /\ out \in [Pods -> Outcomes] /\ pc[p] \notin WaitSteps \cup {"idle"}
  BY DEF CopiesInv, TypeOK, WaitSteps
<1>2. CASE cr[p].spec \in InvalidSpecs
  <2> DEFINE o == OutcomeFor(cr[p], "specInvalid", "Failed")
  <2>1. o \in Outcomes /\ GoodOutcome(cr[p], o) /\ o.kind = "specInvalid"
    BY <1>1, <1>2, OutcomeTypes, ComputedOutcomes
       DEF OutcomeKinds, TerminalPhases, RejectedSpecs, Rejections
  <2>2. pc' = [pc EXCEPT ![p] = "write"] /\ out' = [out EXCEPT ![p] = o]
    BY <1>2 DEF RejectedSpecs
  <2>3. QED
    BY <1>1, <2>1, <2>2, StepSafe
<1>3. CASE cr[p].spec \in UnselectableSpecs \ InvalidSpecs
  <2> DEFINE o == OutcomeFor(cr[p], "selection", "Failed")
  <2>1. o \in Outcomes /\ GoodOutcome(cr[p], o) /\ o.kind = "selection"
    BY <1>1, <1>3, OutcomeTypes, ComputedOutcomes
       DEF OutcomeKinds, TerminalPhases, RejectedSpecs, Rejections
  <2>2. pc' = [pc EXCEPT ![p] = "write"] /\ out' = [out EXCEPT ![p] = o]
    BY <1>3 DEF RejectedSpecs
  <2>3. QED
    BY <1>1, <2>1, <2>2, StepSafe
<1>4. CASE cr[p].spec \notin RejectedSpecs
  <2>1. pc' = [pc EXCEPT ![p] = "running"] /\ out' = [out EXCEPT ![p] = out[p]]
    BY <1>1, <1>4 DEF RejectedSpecs
  <2>2. QED
    BY <1>1, <1>4, <2>1, StepSafe
<1>5. QED
  BY <1>2, <1>3, <1>4 DEF RejectedSpecs

\* runChecks: results are labelled with what was read, and marked when the
\* context has ended.
LEMMA RunChecksSafe ==
  ASSUME CopiesInv, TypeOK', NEW p \in Pods, RunChecks(p)
  PROVE  CopiesInv'
<1> USE DEF podVars, envVars, RunChecks, Goto
<1>1. /\ cr[p] \in CRs /\ out \in [Pods -> Outcomes] /\ pc[p] \notin WaitSteps \cup {"idle"}
      /\ cr[p].spec \notin RejectedSpecs
  BY DEF CopiesInv, TypeOK, WaitSteps, RunInv
<1>2. PICK kind \in {"checks", "cutShort"}, phase \in CheckPhases \cup {"Unknown"} :
        /\ out' = [out EXCEPT ![p] = OutcomeFor(cr[p], kind, phase)]
        /\ ctx[p] = "live" => kind = "checks"
  OBVIOUS
<1>3. phase \in TerminalPhases
  BY PhasesAssumption DEF CheckPhases, TerminalPhases
<1>4. /\ OutcomeFor(cr[p], kind, phase) \in Outcomes
      /\ GoodOutcome(cr[p], OutcomeFor(cr[p], kind, phase))
      /\ OutcomeFor(cr[p], kind, phase).kind = kind
  BY <1>1, <1>3, OutcomeTypes, ComputedOutcomes DEF OutcomeKinds, Rejections
<1>5. pc' = [pc EXCEPT ![p] = "write"]
  OBVIOUS
<1>6. UNCHANGED <<obj, cache, cr, ctx, net, up, queued>>
  OBVIOUS
<1>7. QED
  BY <1>1, <1>2, <1>4, <1>5, <1>6, StepSafe

\* handleReconcilePanic: the outcome Unknown for what was read, or an error.
LEMMA PanicSafe ==
  ASSUME CopiesInv, TypeOK', NEW p \in Pods, Panic(p)
  PROVE  CopiesInv'
<1> USE DEF podVars, envVars, Panic, Goto
<1>1. cr[p] \in CRs /\ pc[p] \notin WaitSteps \cup {"idle"} /\ UNCHANGED <<obj, cache, net, up>>
  BY DEF CopiesInv, TypeOK
<1>2. CASE Return(p, TRUE)
  BY <1>1, <1>2, ReturnOwn, PodStep
<1>3. CASE ~Return(p, TRUE)
  <2> DEFINE o == OutcomeFor(cr[p], "panic", "Unknown")
  <2>1. o \in Outcomes /\ GoodOutcome(cr[p], o) /\ o.kind = "panic"
    BY <1>1, OutcomeTypes, ComputedOutcomes DEF OutcomeKinds, TerminalPhases, Rejections
  <2>2. /\ pc' = [pc EXCEPT ![p] = "write"] /\ out' = [out EXCEPT ![p] = o]
        /\ UNCHANGED <<cr, ctx, queued>>
    BY <1>3
  <2>3. QED
    BY <1>1, <2>1, <2>2, StepSafe
<1>4. QED
  BY <1>2, <1>3

\* A step beside the run of p: what the run holds and awaits stays.
LEMMA BesideStep ==
  ASSUME CopiesInv, TypeOK', NEW p \in Pods, UNCHANGED <<obj, net, pc, cr>>, Others(p), Own(p)'
  PROVE  CopiesInv'
<1>1. \A q \in Pods : RunInv(q)' /\ Remembered(q)'
  BY OthersStep DEF Own
<1>2. ASSUME NEW r \in net' PROVE RequestInv(r)'
  <2>1. r \in net /\ RequestInv(r)
    BY DEF CopiesInv
  <2>2. QED
    BY <2>1 DEF RequestInv, Progress, Verdict, PhaseStatus, FinalStatus, GoodOutcome, Settled
<1>3. QED
  BY <1>1, <1>2 DEF CopiesInv, NoLostWork, OneRequest, Sound, Settled, GoodOutcome

\* The deadline, the informer, the timer, start and orderly stop of a pod.
LEMMA BesideSafe ==
  ASSUME CopiesInv, TypeOK', NEW p \in Pods,
         Deadline(p) \/ CacheSync(p) \/ RequeueAfter(p) \/ Boot(p) \/ BeginStop(p)
  PROVE  CopiesInv'
<1> USE DEF runVars, podVars, envVars
<1>1. /\ RunInv(p) /\ Remembered(p) /\ Sound(obj) /\ obj.rv \in Nat
      /\ ctx \in [Pods -> {"live", "deadline", "canceled"}] /\ cache \in [Pods -> CRs]
      /\ up \in [Pods -> {"down", "up", "stopping"}] /\ queued \in [Pods -> BOOLEAN]
  BY DEF CopiesInv, TypeOK, NoLostWork, CRs
<1>2. Known(obj)
  BY <1>1 DEF Known
<1>3. CASE Deadline(p)
  <2>1. Others(p)
    BY <1>1, <1>3 DEF Deadline, Others
  <2>2. Own(p)'
    BY <1>1, <1>3 DEF Deadline, Own, RunInv, Remembered, Sound, Known, Settled, GoodOutcome
  <2>3. QED
    BY <1>3, <2>1, <2>2, BesideStep DEF Deadline
<1>4. CASE CacheSync(p)
  <2>1. Others(p) /\ cache'[p] = obj /\ queued'[p]
    BY <1>1, <1>4 DEF CacheSync, Others
  <2>2. Own(p)'
    BY <1>1, <1>2, <1>4, <2>1 DEF CacheSync, Own, RunInv, Remembered, Sound, Known, Settled, GoodOutcome
  <2>3. QED
    BY <1>4, <2>1, <2>2, BesideStep DEF CacheSync
<1>5. CASE RequeueAfter(p)
  <2>1. Others(p) /\ queued'[p]
    BY <1>1, <1>5 DEF RequeueAfter, Others
  <2>2. Own(p)'
    BY <1>1, <1>5, <2>1 DEF RequeueAfter, Own, RunInv, Remembered, Sound, Known, Settled, GoodOutcome
  <2>3. QED
    BY <1>5, <2>1, <2>2, BesideStep DEF RequeueAfter
<1>6. CASE Boot(p)
  <2>1. Others(p) /\ cache'[p] = obj /\ queued'[p] = obj.exists
    BY <1>1, <1>6 DEF Boot, Others
  <2>2. Own(p)'
    BY <1>1, <1>2, <1>6, <2>1 DEF Boot, Own, RunInv, Remembered, Sound, Known, Settled, GoodOutcome
  <2>3. QED
    BY <1>6, <2>1, <2>2, BesideStep DEF Boot
<1>7. CASE BeginStop(p)
  <2>1. Others(p) /\ up'[p] = "stopping" /\ (ctx'[p] = "live" => ctx[p] = "live")
    BY <1>1, <1>7 DEF BeginStop, Others
  <2>2. Own(p)'
    BY <1>1, <1>7, <2>1 DEF BeginStop, Own, RunInv, Remembered, Sound, Known, Settled, GoodOutcome
  <2>3. QED
    BY <1>7, <2>1, <2>2, BesideStep DEF BeginStop
<1>8. QED
  BY <1>3, <1>4, <1>5, <1>6, <1>7

\* A pod that is gone has nothing left that could be wrong.
LEMMA GoneOwn ==
  ASSUME CopiesInv, NEW p \in Pods, Gone(p)
  PROVE  Others(p) /\ Own(p)'
<1>1. Others(p)
  BY DEF Gone, Others, CopiesInv, TypeOK
<1>2. /\ up'[p] = "down" /\ cache'[p] = NoCR /\ pc'[p] = "idle" /\ obj' = obj
      /\ obj.rv \in Nat
  BY DEF Gone, CopiesInv, TypeOK, CRs
<1>3. Sound(cache[p])' /\ Remembered(p)'
  BY <1>2 DEF Remembered, Sound, NoCR
<1>4. Known(cache[p])'
  <2>1. NoCR.rv = 0
    BY DEF NoCR
  <2>2. obj.exists => obj.rv >= 1
    BY DEF CopiesInv, Sound
  <2>3. QED
    BY <1>2, <2>1, <2>2 DEF Known
<1>5. RunInv(p)'
  BY <1>2, <1>3, <1>4 DEF RunInv
<1>6. QED
  BY <1>1, <1>3, <1>5 DEF Own

\* A disowned request is lost, or handled on nobody's behalf.
LEMMA DisownLeaves ==
  ASSUME CopiesInv, NEW p \in Pods, Disown(p)
  PROVE  \A r \in net' : \E s \in net : Left(p, r, s)
<1>1. ASSUME NEW r \in net, r.from # p PROVE Left(p, r, r)
  BY <1>1 DEF Left
<1>2. ASSUME NEW r \in net PROVE Left(p, [r EXCEPT !.from = Nobody], r)
  BY DEF Left, CopiesInv, TypeOK, Requests
<1>3. QED
  BY <1>1, <1>2 DEF Disown

\* Exit, crash, and a call that fails at the client.
LEMMA LeaveSafe ==
  ASSUME CopiesInv, TypeOK', NEW p \in Pods, Exit(p) \/ Crash(p) \/ GiveUp(p)
  PROVE  CopiesInv'
<1>1. CASE Exit(p)
  <2>1. pc[p] \notin WaitSteps /\ Gone(p) /\ UNCHANGED <<obj, net>>
    BY <1>1 DEF Exit, Gone, WaitSteps
  <2>2. QED
    BY <2>1, GoneOwn, PodStep
<1>2. CASE Crash(p)
  BY <1>2, GoneOwn, DisownLeaves, LeaveStep DEF Crash, Gone
<1>3. CASE GiveUp(p)
  BY <1>3, ReturnOwn, DisownLeaves, LeaveStep DEF GiveUp
<1>4. QED
  BY <1>1, <1>2, <1>3

\* A refused update ends the reconcile that sent it in an error.
LEMMA RefuseSafe ==
  ASSUME CopiesInv, TypeOK', NEW r \in net, Refuse(r)
  PROVE  CopiesInv'
<1> USE DEF runVars, podVars, envVars
<1>1. r \in Requests /\ UNCHANGED <<obj, cache, up>> /\ net' = net \ {r}
  BY DEF Refuse, CopiesInv, TypeOK
<1>2. CASE r.from = Nobody
  <2>1. UNCHANGED <<obj, cache, pc, cr, ctx, out, up, queued>>
    BY <1>1, <1>2 DEF Refuse
  <2>2. \A p \in Pods : RunInv(p)' /\ Remembered(p)'
    BY <2>1 DEF CopiesInv, NoLostWork, RunInv, Remembered, Sound, Known, Settled, GoodOutcome
  <2>3. ASSUME NEW s \in net' PROVE RequestInv(s)'
    <3>1. s \in net /\ RequestInv(s)
      BY <1>1 DEF CopiesInv
    <3>2. QED
      BY <2>1, <3>1 DEF RequestInv, Progress, Verdict, PhaseStatus, FinalStatus, GoodOutcome, Settled
  <2>4. QED
    BY <1>1, <2>1, <2>2, <2>3 DEF CopiesInv, NoLostWork, OneRequest, Sound, Settled, GoodOutcome
<1>3. CASE r.from # Nobody
  <2>1. r.from \in Pods /\ Return(r.from, TRUE)
    BY <1>1, <1>3 DEF Refuse, Requests
  <2>2. \A s \in net' : Left(r.from, s, s)
    BY <1>1, <1>3 DEF Left, CopiesInv, OneRequest
  <2>3. QED
    BY <1>1, <2>1, <2>2, ReturnOwn, LeaveStep
<1>4. QED
  BY <1>2, <1>3

\* What the server stores is progress or a verdict on what it has stored.
LEMMA StoredSound ==
  ASSUME CopiesInv, TypeOK', NEW r \in net, Store(r)
  PROVE  /\ obj.exists /\ r.rv = obj.rv /\ ~Settled(obj) /\ obj'.exists
         /\ obj' = [exists |-> TRUE, uid |-> obj.uid, gen |-> obj.gen, rv |-> obj.rv + 1,
                    spec |-> obj.spec, status |-> r.status]
         /\ Progress(obj, r.status) \/ Verdict(obj, r.status)
         /\ Progress(obj, r.status) => ~Settled(obj')
         /\ Sound(obj)'
<1>1. RequestInv(r) /\ Sound(obj) /\ r \in Requests /\ obj \in CRs
  BY DEF CopiesInv, TypeOK
<1>2. obj.exists /\ r.rv = obj.rv
  BY <1>1 DEF Store, Matches, RequestInv
<1>3. ~Settled(obj) /\ (Progress(obj, r.status) \/ Verdict(obj, r.status))
  BY <1>1, <1>2 DEF RequestInv
<1>4. obj' = [exists |-> TRUE, uid |-> obj.uid, gen |-> obj.gen, rv |-> obj.rv + 1,
              spec |-> obj.spec, status |-> r.status]
  BY DEF Store, NextVersion
<1>5. obj.rv \in Nat /\ obj.gen \in Nat
  BY <1>1 DEF CRs
<1>6. Progress(obj, r.status) => ~Settled(obj') /\ Sound(obj)'
  BY <1>1, <1>2, <1>3, <1>4, <1>5 DEF Progress, PhaseStatus, Settled, Sound
<1>7. Verdict(obj, r.status) => Sound(obj)'
  <2>1. ASSUME Verdict(obj, r.status)
        PROVE  /\ r.status.og = obj.gen /\ r.status.phase = r.status.out.phase
               /\ GoodOutcome(obj, r.status.out) /\ r.status.out.kind # "cutShort"
    BY <2>1 DEF Verdict, FinalStatus
  <2>2. ASSUME Verdict(obj, r.status) PROVE Sound(obj)'
    <3>1. GoodOutcome(obj', r.status.out) /\ r.status.out.gen = obj.gen
          /\ r.status.out.uid = obj.uid
      BY <1>4, <2>1, <2>2 DEF GoodOutcome
    <3>2. obj'.gen = obj.gen /\ obj'.rv = obj.rv + 1 /\ obj'.status = r.status
          /\ obj'.uid = obj.uid
      BY <1>4
    <3>3. obj.gen >= 1
      BY <1>1, <1>2 DEF Sound
    <3>4. QED
      BY <1>5, <2>1, <2>2, <3>1, <3>2, <3>3 DEF Sound, Settled
  <2>3. QED
    BY <2>2
<1>8. QED
  BY <1>2, <1>3, <1>4, <1>6, <1>7

\* A pod that is not answered by the update that is stored.
LEMMA StoreOthers ==
  ASSUME CopiesInv, TypeOK', NEW r \in net, Store(r), NEW q \in Pods, q # r.from
  PROVE  /\ RunInv(q)' /\ Remembered(q)'
         /\ pc'[q] = pc[q] /\ cr'[q] = cr[q]
<1>1. RunInv(q) /\ cache[q] \in CRs /\ cr[q] \in CRs /\ obj.rv \in Nat
  BY DEF CopiesInv, TypeOK, CRs
<1>2. obj'.rv = obj.rv + 1 /\ Sound(obj)' /\ obj'.rv \in Nat
  BY <1>1, StoredSound
<1>3. cache' = cache /\ pc'[q] = pc[q] /\ cr'[q] = cr[q] /\ ctx'[q] = ctx[q] /\ out'[q] = out[q]
  BY DEF Store, runVars, Answered, Return, Goto, CopiesInv, TypeOK
<1>4. Known(cache[q]) => Known(cache[q])' /\ cache[q].rv < obj'.rv
  BY <1>1, <1>2, <1>3, StoredStep
<1>5. Known(cr[q]) => Known(cr[q])'
  BY <1>1, <1>2, <1>3, StoredStep
<1>6. cache'[q] # obj'
  <2>1. cache[q].rv \in Nat /\ cache[q].rv < obj'.rv
    BY <1>1, <1>4 DEF RunInv, CRs
  <2>2. QED
    BY <1>2, <1>3, <2>1
<1>7. RunInv(q)'
  BY <1>1, <1>3, <1>4, <1>5 DEF RunInv, Sound, Settled, GoodOutcome
<1>8. QED
  BY <1>3, <1>6, <1>7 DEF Remembered

\* The pod that is answered goes on with the stored object, or is done.
LEMMA StoreOwner ==
  ASSUME CopiesInv, TypeOK', NEW r \in net, Store(r), r.from # Nobody
  PROVE  RunInv(r.from)' /\ Remembered(r.from)'
<1> DEFINE p == r.from
<1>1. /\ p \in Pods /\ RunInv(p) /\ RequestInv(r) /\ cache[p] \in CRs /\ obj.rv \in Nat
      /\ pc \in [Pods -> Steps] /\ cr \in [Pods -> CRs]
  BY DEF CopiesInv, TypeOK, Requests, CRs
<1>2. /\ obj'.rv = obj.rv + 1 /\ Sound(obj)' /\ obj'.rv \in Nat /\ obj'.exists
      /\ r.rv = obj.rv /\ obj.exists /\ obj'.spec = obj.spec
  BY <1>1, StoredSound
<1>3. cache' = cache /\ Answered(p)
  BY DEF Store
<1>4. Known(cache[p])' /\ cache[p].rv < obj'.rv /\ Sound(cache[p])'
  BY <1>1, <1>2, <1>3, StoredStep DEF RunInv, Sound, Settled, GoodOutcome
<1>5. cache'[p] # obj'
  <2>1. cache[p].rv \in Nat /\ cache[p].rv < obj'.rv
    BY <1>1, <1>4 DEF CRs
  <2>2. QED
    BY <1>2, <1>3, <2>1
<1>6. CASE pc[p] = "finalSent"
  <2>1. pc'[p] = "idle"
    BY <1>1, <1>3, <1>6 DEF Answered, Return
  <2>2. QED
    BY <1>4, <1>5, <2>1 DEF RunInv, Remembered
<1>7. CASE pc[p] \in {"pendingSent", "runningSent"}
  <2>1. /\ cr'[p] = obj' /\ pc'[p] \in {"validate", "checks"}
        /\ pc'[p] = "checks" => pc[p] = "runningSent"
    BY <1>1, <1>3, <1>7 DEF Answered, Goto
  <2>2. cr[p] = obj
    BY <1>1, <1>2, <1>7 DEF RequestInv, RunInv, Known
  <2>3. ~Settled(obj')
    <3>1. Progress(obj, r.status)
      BY <1>1, <1>7, <2>2 DEF RequestInv
    <3>2. QED
      BY <3>1, StoredSound
  <2>4. Known(cr[p])'
    BY <1>2, <2>1 DEF Known
  <2>5. pc[p] = "runningSent" => obj'.spec \notin RejectedSpecs
    BY <1>1, <1>2, <2>2 DEF RunInv
  <2>6. RunInv(p)'
    <3>1. Sound(cr[p])' /\ Known(cr[p])' /\ ~Settled(cr[p])' /\ cr'[p].exists
      BY <1>2, <2>1, <2>3, <2>4 DEF Sound, Known, Settled, GoodOutcome
    <3>2. cr'[p].spec = obj'.spec
      BY <2>1
    <3>3. QED
      BY <1>4, <2>1, <2>5, <3>1, <3>2 DEF RunInv
  <2>7. QED
    BY <1>5, <2>6 DEF Remembered
<1>8. QED
  BY <1>3, <1>6, <1>7 DEF Answered

\* An update that is stored.
LEMMA StoreSafe ==
  ASSUME CopiesInv, TypeOK', NEW r \in net, Store(r)
  PROVE  CopiesInv'
<1>1. ASSUME NEW p \in Pods PROVE RunInv(p)' /\ Remembered(p)'
  <2>1. CASE p = r.from
    BY <2>1, StoreOwner, PodsAssumption
  <2>2. CASE p # r.from
    BY <2>2, StoreOthers
  <2>3. QED
    BY <2>1, <2>2
<1>2. net' = net \ {r}
  BY DEF Store
<1>3. ASSUME NEW s \in net' PROVE RequestInv(s)'
  <2>1. s \in net /\ s # r /\ s \in Requests /\ RequestInv(s)
    BY <1>2 DEF CopiesInv, TypeOK
  <2>2. s.rv >= 1 /\ s.rv < obj'.rv /\ s.rv \in Nat /\ obj'.rv \in Nat
    BY <2>1, StoredSound, StoredStep DEF CopiesInv, TypeOK, CRs, Requests
  <2>3. s.from # Nobody => pc'[s.from] = pc[s.from] /\ cr'[s.from] = cr[s.from]
    BY <2>1, StoreOthers DEF CopiesInv, OneRequest, Requests
  <2>4. QED
    BY <2>1, <2>2, <2>3 DEF RequestInv, Progress, Verdict, PhaseStatus, FinalStatus, GoodOutcome
<1>4. Sound(obj)'
  BY StoredSound
<1>5. OneRequest'
  BY <1>2 DEF CopiesInv, OneRequest
<1>6. QED
  BY <1>1, <1>3, <1>4, <1>5 DEF CopiesInv, NoLostWork

-----------------------------------------------------------------------------
(* The invariant, and the safety of the CR's status.                       *)

\* At the beginning nothing is stored, held or under way.
LEMMA InitHolds == ASSUME Init PROVE CopiesInv
<1>1. TypeOK
  BY BlankTypes, BoundsAssumption DEF Init, TypeOK, Steps
<1>2. Sound(NoCR) /\ Known(NoCR)
  BY DEF Init, Sound, Known, NoCR
<1>3. QED
  BY <1>1, <1>2 DEF Init, CopiesInv, RunInv, OneRequest, NoLostWork, Remembered

\* Every step keeps the invariant.
LEMMA StepHolds == ASSUME CopiesInv, Step PROVE CopiesInv'
<1>1. TypeOK'
  BY StepTypes DEF CopiesInv
<1>2. CASE User
  BY <1>1, <1>2, UserSafe
<1>3. CASE UNCHANGED <<obj, cache, pc, cr, ctx, out, net, up, queued, timer>>
  BY <1>1, <1>3
  DEF CopiesInv, NoLostWork, RunInv, RequestInv, OneRequest, Remembered, Sound, Known, Settled,
      GoodOutcome, Progress, Verdict, PhaseStatus, FinalStatus
<1>4. ASSUME NEW r \in net, Serve(r) PROVE CopiesInv'
  BY <1>1, <1>4, StoreSafe, RefuseSafe DEF Serve
<1>5. ASSUME NEW p \in Pods, Reconcile(p) PROVE CopiesInv'
  BY <1>1, <1>5, MarkSafe, ValidateSafe, RunChecksSafe, WriteSafe DEF Reconcile
<1>6. ASSUME NEW p \in Pods, Deadline(p) \/ Process(p) \/ BeginStop(p) \/ GiveUp(p)
      PROVE  CopiesInv'
  BY <1>1, <1>6, BesideSafe, LeaveSafe DEF Process, Shutdown
<1>7. ASSUME NEW p \in Pods, Start(p) \/ Panic(p) PROVE CopiesInv'
  BY <1>1, <1>7, StartSafe, PanicSafe
<1>8. CASE ClusterChanges \/ UNCHANGED vars
  BY <1>3, <1>8 DEF ClusterChanges, runVars, podVars, vars
<1>9. QED
  BY <1>2, <1>3, <1>4, <1>5, <1>6, <1>7, <1>8 DEF Step, Next

\* Whatever any pod or request holds is out of date or may be stored.
THEOREM InvariantHolds == Spec => []CopiesInv
<1>1. Init => CopiesInv
  BY InitHolds
<1>2. CopiesInv /\ [Next]_vars => CopiesInv'
  BY StepHolds DEF Step
<1>3. QED
  BY <1>1, <1>2, PTL DEF Spec

\* Conditions and summary are labelled with the object and the generation they
\* are about (markPhase, writeStatus).
THEOREM OutcomesLabelled == Spec => []OutcomeLabelled
<1>1. CopiesInv => OutcomeLabelled
  BY DEF CopiesInv, Sound, OutcomeLabelled
<1>2. QED
  BY <1>1, InvariantHolds, PTL

\* observedGeneration at the stored generation means a verdict on that spec.
THEOREM VerdictsFit == Spec => []SettledVerdict
<1>1. CopiesInv => SettledVerdict
  BY DEF CopiesInv, Sound, SettledVerdict, GoodOutcome
<1>2. QED
  BY <1>1, InvariantHolds, PTL

\* Results of a run whose context has ended are never stored.
THEOREM NothingCutShort == Spec => []NoCutShortStored
<1>1. CopiesInv => NoCutShortStored
  BY DEF CopiesInv, Sound, NoCutShortStored
<1>2. QED
  BY <1>1, InvariantHolds, PTL

\* A key whose CR has no verdict is never dropped (error and conflict returns).
THEOREM WorkRemembered == Spec => []NoLostWork
<1>1. CopiesInv => NoLostWork
  BY DEF CopiesInv
<1>2. QED
  BY <1>1, InvariantHolds, PTL

\* Only the user and a stored update change the CR.
LEMMA QuietSteps ==
  ASSUME Step, ~User, \A r \in net : ~Store(r)
  PROVE  UNCHANGED obj
<1> USE DEF runVars, podVars, envVars
<1>1. CASE ClusterChanges \/ \E r \in net : Refuse(r)
  BY <1>1 DEF ClusterChanges, Refuse
<1>2. ASSUME NEW p \in Pods, Start(p) \/ Reconcile(p) \/ GiveUp(p)
      PROVE  UNCHANGED obj
  BY <1>2 DEF Start, StartNotFound, StartSkip, StartRun, Reconcile, MarkPending, MarkRunning,
              MarkPhase, Validate, RunChecks, WriteStatus, GiveUp
<1>3. ASSUME NEW p \in Pods, Panic(p) \/ Deadline(p) \/ Process(p) \/ BeginStop(p)
      PROVE  UNCHANGED obj
  BY <1>3 DEF Panic, Deadline, Process, CacheSync, RequeueAfter, Boot, Shutdown, BeginStop, Exit, Crash, Gone
<1>4. QED
  BY <1>1, <1>2, <1>3 DEF Step, Next, Serve, vars

\* What a verdict is stored over, and what happens to a stored verdict.
LEMMA VerdictSteps ==
  ASSUME CopiesInv, Step, obj.exists, obj'.exists, obj'.uid = obj.uid
  PROVE  /\ Settled(obj) /\ obj'.gen = obj.gen => obj'.status = obj.status
         /\ obj'.status.og >= obj.status.og
<1> USE DEF runVars, podVars, envVars
<1>1. obj \in CRs /\ obj.status.og \in Nat /\ obj.gen \in Nat /\ obj.uid \in Nat /\ Sound(obj)
  BY DEF CopiesInv, TypeOK, CRs, Statuses
<1>2. CASE obj' = obj
  BY <1>1, <1>2
<1>3. CASE obj'.status = obj.status
  BY <1>1, <1>3
<1>4. ASSUME NEW r \in net, Store(r)
      PROVE  ~Settled(obj) /\ obj'.status.og >= obj.status.og
  <2>1. RequestInv(r) /\ obj'.status = r.status /\ r.rv = obj.rv
    BY <1>4 DEF CopiesInv, RequestInv, Store, Matches, NextVersion
  <2>2. ~Settled(obj) /\ (Progress(obj, r.status) \/ Verdict(obj, r.status))
    BY <1>4, <2>1 DEF RequestInv, Store, Matches
  <2>3. r.status.og \in {obj.status.og, obj.gen}
    BY <2>2 DEF Progress, PhaseStatus, Verdict, FinalStatus
  <2>4. obj.status.og <= obj.gen
    BY <1>1 DEF Sound
  <2>5. QED
    BY <1>1, <2>1, <2>2, <2>3, <2>4
<1>5. CASE User
  <2>1. ASSUME NEW s \in Specs, EditSpec(s) PROVE obj'.status = obj.status
    BY <2>1 DEF EditSpec, NextVersion
  <2>2. EditMetadata => obj'.status = obj.status
    BY DEF EditMetadata, NextVersion
  <2>3. QED
    BY <1>3, <1>5, <2>1, <2>2 DEF User, Create, Delete
<1>6. CASE ~User /\ \A r \in net : ~Store(r)
  BY <1>2, <1>6, QuietSteps
<1>7. QED
  BY <1>4, <1>5, <1>6

\* A verdict is never changed by a pod (isAlreadyReconciled, writeStatus).
THEOREM VerdictsFinal == Spec => VerdictIsFinal
<1>1. CopiesInv /\ [Next]_vars =>
        [obj.exists /\ Settled(obj) /\ obj'.exists /\ obj'.uid = obj.uid /\ obj'.gen = obj.gen
         => obj'.status = obj.status]_vars
  BY VerdictSteps DEF Step, vars
<1>2. QED
  BY <1>1, InvariantHolds, PTL DEF Spec, VerdictIsFinal

\* observedGeneration never falls while the object lives (writeStatus).
THEOREM GenerationsGrow == Spec => ObservedGenerationGrows
<1>1. CopiesInv /\ [Next]_vars =>
        [obj.exists /\ obj'.exists /\ obj'.uid = obj.uid
         => obj'.status.og >= obj.status.og]_vars
  BY VerdictSteps DEF Step, vars
<1>2. QED
  BY <1>1, InvariantHolds, PTL DEF Spec, ObservedGenerationGrows

-----------------------------------------------------------------------------
(* The contract with a client of the CR.                                   *)

\* A status update that is stored is progress or a verdict to the client.
LEMMA StoreMeetsContract ==
  ASSUME CopiesInv, TypeOK', NEW r \in net, Store(r)
  PROVE  Contract!Next
<1>1. obj.exists /\ ~Settled(obj) /\ (Progress(obj, r.status) \/ Verdict(obj, r.status))
  BY StoredSound
<1>2. obj' = [exists |-> TRUE, uid |-> obj.uid, gen |-> obj.gen, rv |-> obj.rv + 1,
              spec |-> obj.spec, status |-> r.status]
  BY StoredSound
<1>3. ~Contract!Judged
  BY <1>1 DEF Contract!Judged, Settled
<1>4. UNCHANGED <<obj.exists, obj.uid, obj.gen, obj.spec>>
  BY <1>1, <1>2
<1>5. ASSUME NEW to \in {"Pending", "Running"}, r.status = PhaseStatus(obj, to)
      PROVE  Contract!ShowProgress(to)
  <2>1. obj'.status = r.status
    BY <1>2
  <2>2. /\ obj'.status.phase = to
        /\ obj'.status.og = obj.status.og /\ obj'.status.out = obj.status.out
    BY <2>1, <1>5 DEF PhaseStatus
  <2>3. Grounds' = Grounds
    BY <2>2 DEF Grounds, Ground
  <2>4. QED
    BY <1>1, <1>3, <1>4, <2>2, <2>3 DEF Contract!ShowProgress
<1>6. ASSUME Verdict(obj, r.status)
      PROVE  \E ground \in {"checks", "rejected", "panic"}, to \in TerminalPhases :
               Contract!Judge(ground, to)
  <2> DEFINE o == r.status.out
  <2>1. /\ r.status = [phase |-> o.phase, og |-> obj.gen, out |-> o]
        /\ GoodOutcome(obj, o) /\ o.kind # "cutShort"
    BY <1>6 DEF Verdict, FinalStatus
  <2>2. o.kind \in {"checks", "specInvalid", "selection", "panic"}
    BY <2>1 DEF CopiesInv, TypeOK, Requests, Statuses, Outcomes, OutcomeKinds, GoodOutcome
  <2>3. Ground(o) \in {"checks", "rejected", "panic"} /\ o.phase \in TerminalPhases
    BY <2>1, <2>2 DEF Ground, Rejections, GoodOutcome
  <2>4. Contract!Grounded(Ground(o), o.phase)
    BY <2>1, <2>2, <2>3 DEF Contract!Grounded, Ground, Rejections, GoodOutcome
  <2>5. obj'.status = r.status
    BY <1>2
  <2>6. /\ obj'.status.phase = o.phase /\ obj'.status.og = obj.gen
        /\ obj'.status.out = o /\ o.uid = obj.uid /\ o.gen = obj.gen
    BY <2>5, <2>1 DEF GoodOutcome
  <2>7. Grounds' = [uid |-> obj.uid, gen |-> obj.gen, phase |-> o.phase, ground |-> Ground(o)]
    BY <2>6 DEF Grounds, Ground
  <2>8. Contract!Judge(Ground(o), o.phase)
    BY <1>1, <1>3, <1>4, <2>4, <2>6, <2>7 DEF Contract!Judge
  <2>9. QED
    BY <2>3, <2>8
<1>7. Contract!TerminalPhases = TerminalPhases
  BY DEF Contract!TerminalPhases, TerminalPhases
<1>8. QED
  BY <1>1, <1>5, <1>6, <1>7 DEF Progress, Contract!Next

\* A CR nobody has judged shows a blank card.
LEMMA BlankCard ==
  ASSUME obj.status = NoStatus
  PROVE  Contract!Blank
BY DEF Contract!Blank, Contract!NoVerdict, Contract!NoPhase, NoPhase, NoStatus, NoOutcome,
       Grounds, Ground, Rejections

LEMMA BlankCardNext ==
  ASSUME obj'.status = NoStatus
  PROVE  Contract!Blank'
BY DEF Contract!Blank, Contract!NoVerdict, Contract!NoPhase, NoPhase, NoStatus, NoOutcome,
       Grounds, Ground, Rejections

\* What the user does is what a client expects it to do.
LEMMA UserMeetsContract ==
  ASSUME CopiesInv, User
  PROVE  [Contract!Next]_Contract!card
<1> USE DEF Contract!Next
<1>1. obj \in CRs
  BY DEF CopiesInv, TypeOK
<1>2. ASSUME NEW s \in Specs, Create(s) PROVE Contract!Create(s)
  <2>1. ~obj.exists /\ obj' = [exists |-> TRUE, uid |-> obj.uid + 1, gen |-> 1, rv |-> obj.rv + 1,
                               spec |-> s, status |-> NoStatus]
    BY <1>2 DEF Create
  <2>2. Contract!Blank'
    BY <2>1, BlankCardNext
  <2>3. QED
    BY <2>1, <2>2 DEF Contract!Create
<1>3. ASSUME NEW s \in Specs, EditSpec(s) PROVE Contract!EditSpec(s)
  <2>1. /\ obj.exists /\ obj'.exists = obj.exists /\ obj'.uid = obj.uid
        /\ obj'.gen = obj.gen + 1 /\ obj'.spec = s /\ obj'.status = obj.status
    BY <1>1, <1>3 DEF EditSpec, NextVersion, CRs
  <2>2. Grounds' = Grounds
    BY <2>1 DEF Grounds, Ground
  <2>3. QED
    BY <2>1, <2>2 DEF Contract!EditSpec
<1>4. ASSUME EditMetadata PROVE UNCHANGED Contract!card
  <2>1. /\ obj'.exists = obj.exists /\ obj'.uid = obj.uid
        /\ obj'.gen = obj.gen /\ obj'.spec = obj.spec /\ obj'.status = obj.status
    BY <1>1, <1>4 DEF EditMetadata, NextVersion, CRs
  <2>2. Grounds' = Grounds
    BY <2>1 DEF Grounds, Ground
  <2>3. QED
    BY <2>1, <2>2 DEF Contract!card
<1>5. ASSUME Delete PROVE Contract!Delete
  <2>1. /\ obj.exists /\ ~obj'.exists /\ obj'.uid = obj.uid /\ obj'.gen = 0
        /\ obj'.spec = NoSpec /\ obj'.status = NoStatus
    BY <1>1, <1>5 DEF Delete, CRs
  <2>2. Contract!Blank'
    BY <2>1, BlankCardNext
  <2>3. QED
    BY <2>1, <2>2 DEF Contract!Delete
<1>6. QED
  BY <1>2, <1>3, <1>4, <1>5 DEF User

\* At the beginning the client sees no CR.
LEMMA InitMeetsContract == ASSUME Init PROVE Contract!Init
<1>1. obj = NoCR
  BY DEF Init
<1>2. Contract!Blank
  BY <1>1, BlankCard DEF NoCR
<1>3. QED
  BY <1>1, <1>2 DEF Contract!Init, NoCR

\* Every step is one of the contract, or hidden from the client.
LEMMA StepMeetsContract ==
  ASSUME CopiesInv, Step
  PROVE  [Contract!Next]_Contract!card
<1>1. TypeOK'
  BY StepTypes DEF CopiesInv
<1>2. CASE User
  BY <1>2, UserMeetsContract
<1>3. ASSUME NEW r \in net, Store(r) PROVE Contract!Next
  BY <1>1, <1>3, StoreMeetsContract
<1>4. CASE UNCHANGED obj
  BY <1>4 DEF Contract!card, Grounds, Ground
<1>5. QED
  BY <1>2, <1>3, <1>4, QuietSteps

\* The operator implements the contract: whatever its pods, caches and the
\* network do, a client sees steps of StatusContract only (Reconcile).
THEOREM ContractMet == Spec => MeetsContract
<1>1. Init => Contract!Init
  BY InitMeetsContract
<1>2. CopiesInv /\ [Next]_vars => [Contract!Next]_Contract!card
  BY StepMeetsContract DEF Step
<1>3. QED
  BY <1>1, <1>2, InvariantHolds, PTL DEF Spec, MeetsContract, Contract!Spec

=============================================================================
