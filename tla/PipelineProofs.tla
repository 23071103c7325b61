--------------------------- MODULE PipelineProofs ---------------------------
(***************************************************************************)
(* Proofs about Pipeline: the runner implements the specification the      *)
(* aggregation is written for, Passed is only said of checks that ran and  *)
(* passed and never of a run that was cut short, and each check shows as a *)
(* condition, for any number of checks and permissions.  What              *)
(* AggregationProofs says of Aggregate holds of the results here.          *)
(***************************************************************************)
EXTENDS Pipeline, CheckRunnerProofs

AP == INSTANCE AggregationProofs WITH
       results <- Reported, interval <- [kind |-> "unset", seconds |-> 0],
       Names <- {TypeOf[c] : c \in Checks}, WarningName <- 0, Times <- {1}, Now <- 1,
       Intervals <- {[kind |-> "unset", seconds |-> 0]}, MaxResults <- Len(Active),
       DefaultInterval <- 300, MinInterval <- 30, MaxInterval <- 86400

\* The loop is never behind its results, and ends behind the last check.
Progress == Len(results) < at /\ (step = "done" => at = Len(Active) + 1)

\* What a check says of itself comes from a goroutine that was started.
Worked ==
  /\ step \in {"select", "judge"} => worker[Current] # "none"
  /\ \A i \in DOMAIN results :
       results[i].reason \in OwnReasons => worker[results[i].check] # "none"

LEMMA ProgressKept ==
  ASSUME IInv, Progress, [Next]_vars PROVE Progress'
<1>1. CASE UNCHANGED vars
  BY <1>1 DEF vars, Progress
<1>2. CASE Next
  <2>1. Len(results) \in Nat /\ at \in 1 .. Len(Active) + 1 /\ Len(Active) \in Nat
    BY ActiveType DEF IInv, TypeOK
  <2>2. Len(results') < at'
    <3>1. CASE results' = results /\ at' \in {at, at + 1}
      BY <2>1, <3>1 DEF Progress
    <3>2. ASSUME NEW r \in Results, results' = Append(results, r), at' = at + 1
          PROVE  Len(results') < at'
      <4>1. Len(results') = Len(results) + 1
        BY <3>2 DEF IInv, TypeOK
      <4> QED
        BY <2>1, <3>2, <4>1 DEF Progress
    <3> QED
      BY <1>2, <3>1, <3>2, StepReports
  <2>3. ASSUME step' = "done" PROVE at' = Len(Active) + 1
    <3>1. EndLoop \/ (step = "done" /\ at' = at)
      BY <1>2, <2>3
      DEF Next, Runner, SkipCheck, BeginCheck, PermissionCached, Ask, ReviewPanics, Withhold, Finish,
          MoreWanted, AllClassified, StartWorker, Receive, Judge, GiveUp, RunContextEnds, Propagate,
          CheckTimesOut, Return, WorkerReturns, WorkerSends
    <3>2. CASE EndLoop
      BY <2>1, <3>2 DEF EndLoop
    <3> QED
      BY <3>1, <3>2 DEF Progress
  <2> QED
    BY <2>2, <2>3 DEF Progress
<1> QED
  BY <1>1, <1>2

\* A goroutine that was started stays so, and no later step than StartWorker
\* is taken without one.
LEMMA WorkersStay ==
  ASSUME IInv, Next
  PROVE  /\ \A c \in Checks : worker[c] # "none" => worker'[c] # "none"
         /\ step' \in {"select", "judge"} =>
              at' = at /\ (step \in {"select", "judge"} \/ worker'[Current] # "none")
<1> USE DEF workVars, permVars
<1>1. CASE EndLoop \/ SkipCheck \/ BeginCheck \/ PermissionCached \/ (\E a \in {"allowed", "denied", "failed"} : Ask(a))
  BY <1>1 DEF EndLoop, SkipCheck, BeginCheck, PermissionCached, Ask, MoreWanted
<1>2. CASE ReviewPanics \/ Withhold \/ Judge \/ GiveUp
  BY <1>2 DEF ReviewPanics, Withhold, Judge, GiveUp, Finish
<1>3. CASE StartWorker
  <2>1. Current \in Checks /\ at' = at
    BY <1>3, ActiveType DEF IInv, InTurn, TypeOK, Current, StartWorker, AllClassified
  <2> QED
    BY <1>3, <2>1 DEF StartWorker, IInv, TypeOK
<1>4. CASE Receive
  BY <1>4 DEF Receive
<1>5. CASE \E c \in Checks : Return(c) \/ WorkerSends(c)
  <2>1. PICK c \in Checks : Return(c) \/ WorkerSends(c)
    BY <1>5
  <2>2. /\ worker' = [worker EXCEPT ![c] = worker'[c]] /\ worker'[c] # "none"
        /\ at' = at /\ step' = step
    BY <2>1 DEF Return, WorkerReturns, WorkerSends, IInv, TypeOK, OwnReasons
  <2> QED
    BY <2>2 DEF IInv, TypeOK
<1>6. CASE \/ \E cause \in {"deadline", "canceled"} : RunContextEnds(cause)
           \/ \E c \in Checks : Propagate(c) \/ CheckTimesOut(c)
  BY <1>6 DEF RunContextEnds, Propagate, CheckTimesOut
<1> QED
  BY <1>1, <1>2, <1>3, <1>4, <1>5, <1>6 DEF Next, Runner

LEMMA WorkedKept ==
  ASSUME IInv, Worked, [Next]_vars PROVE Worked'
<1>1. CASE UNCHANGED vars
  BY <1>1 DEF vars, workVars, Worked, Current
<1>2. CASE Next
  <2>1. ASSUME step' \in {"select", "judge"} PROVE worker'[Current'] # "none"
    <3>1. at' = at /\ Current' = Current
      BY <1>2, <2>1, WorkersStay DEF Current
    <3>2. CASE step \in {"select", "judge"}
      <4>1. Current \in Checks
        BY <3>2, ConfiguredAssumption DEF IInv, InTurn
      <4> QED
        BY <1>2, <3>1, <3>2, <4>1, WorkersStay DEF Worked
    <3> QED
      BY <1>2, <2>1, <3>1, <3>2, WorkersStay
  <2>2. \A i \in DOMAIN results :
          results[i].reason \in OwnReasons => worker'[results[i].check] # "none"
    BY <1>2, WorkersStay, ResultChecks DEF Worked, IInv
  <2>3. ASSUME NEW i \in DOMAIN results', results'[i].reason \in OwnReasons
        PROVE  worker'[results'[i].check] # "none"
    <3>1. CASE results' = results
      BY <2>2, <2>3, <3>1
    <3>2. ASSUME NEW r \in Results, r.check = Current, Current \in Configured,
                 results' = Append(results, r),
                 r.reason \in OwnReasons => step = "judge"
          PROVE  worker'[results'[i].check] # "none"
      <4>1. CASE i \in DOMAIN results
        BY <2>2, <2>3, <3>2, <4>1, AppendResult DEF IInv
      <4>2. CASE i \notin DOMAIN results
        <5>1. results'[i] = r
          BY <3>2, <4>2, AppendResult DEF IInv
        <5>2. worker[Current] # "none" /\ Current \in Checks
          BY <2>3, <3>2, <5>1, ConfiguredAssumption DEF Worked
        <5> QED
          BY <1>2, <3>2, <5>1, <5>2, WorkersStay
      <4> QED
        BY <4>1, <4>2
    <3> QED
      BY <1>2, <3>1, <3>2, StepReports
  <2> QED
    BY <2>1, <2>3 DEF Worked
<1> QED
  BY <1>1, <1>2

LEMMA PipelineInvariant == Spec => [](IInv /\ Progress /\ Worked)
<1>1. Init => Progress /\ Worked
  BY DEF Init, Progress, Worked
<1>2. IInv /\ Progress /\ Worked /\ [Next]_vars => Progress' /\ Worked'
  BY ProgressKept, WorkedKept
<1> QED
  BY <1>1, <1>2, InvariantHolds, PTL DEF Spec

-----------------------------------------------------------------------------

\* The results of the runner, read as those of the aggregation, are such.
LEMMA ReportedType ==
  ASSUME IInv
  PROVE  Len(Reported) = Len(results) /\ Reported \in Seq(A!Results)
<1>1. DOMAIN results = 1 .. Len(results) /\ Len(results) \in Nat
  BY DEF IInv, TypeOK
<1>2. \A i \in 1 .. Len(results) :
        [name |-> TypeOf[results[i].check], status |-> StatusOf(results[i].reason),
         severity |-> SeverityOf(results[i].reason), time |-> 1] \in A!Results
  BY <1>1, ResultChecks DEF IInv, A!Results, A!Severities, StatusOf, SeverityOf
<1> QED
  BY <1>1, <1>2 DEF Reported

\* One more result is one more for the aggregation.
LEMMA ReportedAppend ==
  ASSUME IInv, Progress, NEW r \in Results, at <= Len(Active), results' = Append(results, r)
  PROVE  A!Next
<1> DEFINE a == [name |-> TypeOf[r.check], status |-> StatusOf(r.reason),
                 severity |-> SeverityOf(r.reason), time |-> 1]
<1>1. /\ DOMAIN results' = 1 .. Len(results) + 1 /\ DOMAIN results = 1 .. Len(results)
      /\ \A i \in 1 .. Len(results) : results'[i] = results[i]
      /\ results'[Len(results) + 1] = r
      /\ Len(results) \in Nat
  BY AppendResult DEF IInv
<1>2. a \in A!Results
  <2>1. r.check \in Checks
    BY DEF Results
  <2> QED
    BY <2>1 DEF A!Results, A!Severities, StatusOf, SeverityOf
<1>3. Len(Reported) = Len(results) /\ Reported \in Seq(A!Results)
  BY ReportedType
<1>4. Reported' = Append(Reported, a)
  <2>1. /\ DOMAIN Reported' = 1 .. Len(results) + 1 /\ Reported'[Len(results) + 1] = a
        /\ \A i \in 1 .. Len(results) : Reported'[i] = Reported[i]
    BY <1>1 DEF Reported
  <2>2. /\ Append(Reported, a) \in Seq(A!Results)
        /\ DOMAIN Append(Reported, a) = 1 .. Len(results) + 1
        /\ Append(Reported, a)[Len(results) + 1] = a
        /\ \A i \in 1 .. Len(results) : Append(Reported, a)[i] = Reported[i]
    BY <1>1, <1>2, <1>3
  <2>3. Reported' = [i \in 1 .. Len(results) + 1 |-> Reported'[i]]
    BY <1>1 DEF Reported
  <2>4. Append(Reported, a) = [i \in 1 .. Len(results) + 1 |-> Append(Reported, a)[i]]
    BY <2>2
  <2> HIDE DEF a
  <2> QED
    BY <1>1, <2>1, <2>2, <2>3, <2>4
<1>5. Len(Reported) < Len(Active)
  BY <1>1, <1>3, ActiveType DEF Progress, IInv, TypeOK
<1> HIDE DEF a
<1>6. A!AppendResult(a)
  BY <1>4, <1>5 DEF A!AppendResult
<1> QED
  BY <1>2, <1>6 DEF A!Next

\* The runner implements Aggregation: it makes results one by one, never more
\* than there are checks, and never touches one again.
THEOREM RunnerAggregates == Spec => ResultsOnlyGrow
<1>1. Init => A!Init
  BY DEF Init, A!Init, Reported
<1>2. IInv /\ Progress /\ [Next]_vars => [A!Next]_(A!vars)
  <2> SUFFICES ASSUME IInv, Progress, [Next]_vars PROVE A!Next \/ Reported' = Reported
    BY DEF A!vars
  <2>1. CASE results' = results
    BY <2>1 DEF Reported
  <2>2. CASE \E r \in Results : at <= Len(Active) /\ results' = Append(results, r)
    BY <2>2, ReportedAppend
  <2>3. CASE UNCHANGED vars
    BY <2>1, <2>3 DEF vars
  <2> QED
    BY <2>1, <2>2, <2>3, StepReports
<1> QED
  BY <1>1, <1>2, PipelineInvariant, PTL DEF Spec, ResultsOnlyGrow, A!Spec

\* Passed means that each configured check ran with its permissions and passed.
THEOREM PassedIsChecked == Spec => []PassedMeansChecked
<1>1. IInv /\ Progress /\ Worked => PassedMeansChecked
  <2> SUFFICES ASSUME IInv, Progress, Worked, step = "done", Phase = "Passed",
                      NEW c \in Configured, NEW k \in DOMAIN Active, Active[k] = c
               PROVE  /\ \E i \in DOMAIN results : results[i] = Result(c, "passed")
                      /\ \A p \in NeedsOf(c) : review[p] = "allowed"
    BY DEF PassedMeansChecked
  <2>1. c \in {results[i].check : i \in DOMAIN results}
    <3>1. k \in 1 .. at - 1
      BY ActiveType DEF Progress
    <3> QED
      BY <3>1 DEF IInv, OneResultEach
  <2>2. PICK i \in DOMAIN results : results[i].check = c
    BY <2>1
  <2>3. i \in DOMAIN Reported /\ Reported[i].status = StatusOf(results[i].reason)
    BY <2>2 DEF Reported
  <2>4. Reported[i].status \notin {"False", "Unknown"}
    BY <2>3 DEF Phase, A!DerivePhase, A!Has, A!Failed, A!FailedNonCritical, A!Unknown
  <2>5. results[i].reason = "passed"
    BY <2>3, <2>4 DEF StatusOf
  <2>6. results[i] = Result(c, "passed")
    <3>1. results[i] \in Results
      BY <2>2 DEF IInv, TypeOK
    <3> QED
      BY <2>2, <2>5, <3>1 DEF Results, Result
  <2>7. worker[c] # "none" /\ c \in Checks
    BY <2>2, <2>5, ConfiguredAssumption DEF Worked, OwnReasons
  <2> QED
    BY <2>2, <2>6, <2>7 DEF IInv, NeverUnpermitted
<1> QED
  BY <1>1, PipelineInvariant, PTL

-----------------------------------------------------------------------------

\* What AggregationProofs assumes of its constants holds of those of A.
LEMMA AggregationAssumptions ==
  /\ {TypeOf[c] : c \in Checks} \subseteq Nat /\ 0 \in Nat
  /\ {1} \subseteq Nat /\ 1 \in Nat
  /\ {[kind |-> "unset", seconds |-> 0]} \subseteq AP!Texts
  /\ Len(Active) \in Nat
<1>1. \A c \in Checks : TypeOf[c] \in Nat
  BY TypeAssumption
<1>2. Len(Active) \in Nat
  BY ActiveAssumption
<1> QED
  BY <1>1, <1>2 DEF AP!Texts

\* Aggregate is the same in both.
LEMMA SameConditions ==
  /\ A!DedupeAndSort(Reported) = AP!DedupeAndSort(Reported)
  /\ A!Results = AP!Results
<1>1. A!Results = AP!Results
  BY DEF A!Results, A!Severities, AP!Results, AP!Severities
<1>2. A!FoldLeft(A!Put, {}, Reported) = AP!FoldLeft(AP!Put, {}, Reported)
  BY Zenon DEF A!FoldLeft, A!MapThenFoldSet, A!Put, A!Replaces, A!SeverityRank, A!Max,
         AP!FoldLeft, AP!MapThenFoldSet, AP!Put, AP!Replaces, AP!SeverityRank, AP!Max
<1>3. \A S : A!SortByType(S) = AP!SortByType(S)
  BY DEF A!SortByType, A!SortBy, A!Below, A!Cardinality,
         AP!SortByType, AP!SortBy, AP!Below, AP!Cardinality
<1> QED
  BY <1>1, <1>2, <1>3 DEF A!DedupeAndSort, AP!DedupeAndSort

\* The types of the conditions are those of the results.
LEMMA TypesShow ==
  ASSUME Reported \in Seq(A!Results)
  PROVE {A!DedupeAndSort(Reported)[i].name : i \in DOMAIN A!DedupeAndSort(Reported)}
      = {Reported[i].name : i \in DOMAIN Reported}
<1> DEFINE D == DOMAIN Reported
           conds == A!DedupeAndSort(Reported)
           kept == AP!Kept(Reported, D)
<1>1. Reported \in Seq(AP!Results)
  BY SameConditions
<1>2. AP!ToSet(AP!DedupeAndSort(Reported)) = kept
  BY <1>1, AggregationAssumptions, AP!DedupeLists
<1>3. \A i \in D : \E c \in kept : c.name = Reported[i].name
  BY <1>1, AggregationAssumptions, AP!KeptUnique
<1>4. {conds[i] : i \in DOMAIN conds} = kept
  BY <1>2, SameConditions DEF AP!ToSet
<1>5. \A c \in kept : \E i \in D : c = Reported[i]
  BY DEF AP!Kept, AP!Best
<1> HIDE DEF conds, kept
<1>6. {c.name : c \in kept} = {Reported[i].name : i \in D}
  BY <1>3, <1>5
<1>7. {conds[i].name : i \in DOMAIN conds} = {c.name : c \in kept}
  BY <1>4
<1> QED
  BY <1>6, <1>7 DEF conds

\* Each configured check that was selected shows as one condition
\* (runChecks, dedupeAndSortConditions).
THEOREM ChecksShow == Spec => []EveryCheckShows
<1>1. ASSUME IInv, Progress PROVE EveryCheckShows
  <2> SUFFICES ASSUME step = "done"
               PROVE  {A!DedupeAndSort(Reported)[i].name : i \in DOMAIN A!DedupeAndSort(Reported)}
                      = {TypeOf[c] : c \in Configured \cap {Active[i] : i \in DOMAIN Active}}
    BY DEF EveryCheckShows
  <2>1. {results[i].check : i \in DOMAIN results}
        = Configured \cap {Active[i] : i \in DOMAIN Active}
    <3>1. DOMAIN Active = 1 .. at - 1
      BY <1>1, ActiveType DEF Progress
    <3> QED
      BY <1>1, <3>1 DEF IInv, OneResultEach
  <2>2. {Reported[i].name : i \in DOMAIN Reported}
        = {TypeOf[results[i].check] : i \in DOMAIN results}
    BY DEF Reported
  <2>3. {TypeOf[results[i].check] : i \in DOMAIN results}
        = {TypeOf[c] : c \in {results[i].check : i \in DOMAIN results}}
    OBVIOUS
  <2>4. {A!DedupeAndSort(Reported)[i].name : i \in DOMAIN A!DedupeAndSort(Reported)}
        = {Reported[i].name : i \in DOMAIN Reported}
    BY <1>1, ReportedType, TypesShow
  <2> QED
    BY <2>1, <2>2, <2>3, <2>4
<1> QED
  BY <1>1, PipelineInvariant, PTL

-----------------------------------------------------------------------------

\* A run whose context has ended is bound for a result that did not pass: one
\* is there, or the check at hand will end in one.
CutShort ==
  /\ runCtx # "live"
  /\ \/ \E i \in DOMAIN results : results[i].reason # "passed"
     \/ step = "permissions"
     \/ step \in {"select", "judge"} /\ ctx[Current] # "live"

\* A result that did not pass is never taken back, and one that is added to the
\* end shows.
LEMMA NotPassedStays ==
  ASSUME IInv, NEW r \in Results, results' = Append(results, r),
         \/ r.reason # "passed"
         \/ \E i \in DOMAIN results : results[i].reason # "passed"
  PROVE  \E i \in DOMAIN results' : results'[i].reason # "passed"
<1>1. /\ DOMAIN results' = 1 .. Len(results) + 1 /\ DOMAIN results = 1 .. Len(results)
      /\ \A i \in 1 .. Len(results) : results'[i] = results[i]
      /\ results'[Len(results) + 1] = r
      /\ Len(results) \in Nat
  BY AppendResult DEF IInv
<1> QED
  BY <1>1

\* No step leads a run that was cut short back to Passed.
LEMMA CutShortKept ==
  ASSUME IInv, CutShort, [Next]_vars
  PROVE  CutShort'
<1> USE DEF workVars, permVars
<1>1. CASE UNCHANGED vars
  BY <1>1 DEF vars, CutShort, Current
<1>2. CASE Next
  <2>1. runCtx' = runCtx
    BY <1>2 DEF CutShort, Next, Runner, EndLoop, SkipCheck, BeginCheck, PermissionCached, Ask,
      ReviewPanics, Withhold, StartWorker, Receive, Judge, GiveUp, RunContextEnds, Propagate,
      CheckTimesOut, Return, WorkerReturns, WorkerSends
  <2>2. CASE \E i \in DOMAIN results : results[i].reason # "passed"
    <3>1. results' = results \/ \E r \in Results : results' = Append(results, r)
      BY <1>2, StepReports
    <3>2. \E i \in DOMAIN results' : results'[i].reason # "passed"
      BY <2>2, <3>1, NotPassedStays
    <3> QED
      BY <2>1, <3>2 DEF CutShort
  <2>3. ASSUME NEW reason \in Synthetic, results' = Append(results, Result(Current, reason)),
               Current \in Checks
        PROVE  CutShort'
    <3>1. Result(Current, reason) \in Results /\ Result(Current, reason).reason # "passed"
      BY <2>3 DEF Result, Results, Synthetic
    <3> QED
      BY <2>1, <2>3, <3>1, NotPassedStays DEF CutShort
  <2>4. CASE step = "permissions"
    <3>1. Current \in Checks
      BY <2>4, ConfiguredAssumption DEF IInv, InTurn
    <3>2. CASE ReviewPanics \/ Withhold
      <4>1. PICK reason \in {"InternalError", "RBACCheckFailed", "RBACInsufficient"} : Finish(reason)
        BY <3>2 DEF ReviewPanics, Withhold
      <4> QED
        BY <2>3, <3>1, <4>1 DEF Finish, Synthetic
    <3>3. CASE StartWorker
      <4>1. ctx'[Current'] = runCtx /\ step' = "select"
        BY <3>1, <3>3 DEF StartWorker, IInv, TypeOK, Current
      <4> QED
        BY <2>1, <4>1 DEF CutShort
    <3>4. CASE PermissionCached \/ (\E a \in {"allowed", "denied", "failed"} : Ask(a))
               \/ \E c \in Checks : Propagate(c) \/ CheckTimesOut(c) \/ Return(c) \/ WorkerSends(c)
      <4>1. step' = "permissions"
        BY <2>4, <3>4 DEF PermissionCached, Ask, Propagate, CheckTimesOut, Return, WorkerReturns, WorkerSends
      <4> QED
        BY <2>1, <4>1 DEF CutShort
    <3> QED
      BY <1>2, <2>4, <3>2, <3>3, <3>4
      DEF CutShort, Next, Runner, EndLoop, SkipCheck, BeginCheck, Receive, Judge, GiveUp, RunContextEnds
  <2>5. CASE step \in {"select", "judge"} /\ ctx[Current] # "live"
    <3>1. /\ Current \in Checks
          /\ ctx[Current] \in {"timeout", "deadline", "canceled"}
      BY <2>5, ConfiguredAssumption DEF IInv, InTurn, ContextInv, TypeOK
    <3>2. CASE GiveUp \/ Judge
      <4>1. Finish(ContextEnd(ctx[Current]))
        BY <2>5, <3>2 DEF GiveUp, Judge
      <4> QED
        BY <2>3, <3>1, <4>1 DEF Finish, ContextEnd, Synthetic
    <3>3. CASE Receive \/ \E c \in Checks : Propagate(c) \/ CheckTimesOut(c) \/ Return(c) \/ WorkerSends(c)
      <4>1. step' \in {"select", "judge"} /\ at' = at
        BY <2>5, <3>3 DEF Receive, Propagate, CheckTimesOut, Return, WorkerReturns, WorkerSends
      <4>2. ctx'[Current] # "live"
        BY <2>5, <3>1, <3>3
        DEF Receive, Propagate, CheckTimesOut, Return, WorkerReturns, WorkerSends, IInv, TypeOK, CutShort
      <4> QED
        BY <2>1, <4>1, <4>2 DEF CutShort, Current
    <3> QED
      BY <1>2, <2>5, <3>2, <3>3
      DEF CutShort, Next, Runner, EndLoop, SkipCheck, BeginCheck, PermissionCached, Ask, MoreWanted,
          AllClassified, ReviewPanics, Withhold, StartWorker, RunContextEnds
  <2> QED
    BY <2>2, <2>4, <2>5 DEF CutShort
<1> QED
  BY <1>1, <1>2

\* A run that was cut short before a review does not end in Passed
\* (classifyContextEnd, CanI under an ended context).
THEOREM CutShortIsSeen == Spec => CutShortNeverPasses
<1> DEFINE Seen == step = "done" => Phase # "Passed"
<1>1. runCtx # "live" /\ step = "permissions" => CutShort
  BY DEF CutShort
<1>2. IInv /\ CutShort /\ [Next]_vars => CutShort'
  BY CutShortKept
<1>3. IInv /\ CutShort => Seen
  <2> SUFFICES ASSUME IInv, NEW i \in DOMAIN results, results[i].reason # "passed"
               PROVE  Phase # "Passed"
    BY DEF CutShort
  <2>1. /\ i \in DOMAIN Reported
        /\ Reported[i].status = StatusOf(results[i].reason)
        /\ Reported[i].severity = SeverityOf(results[i].reason)
    BY DEF Reported
  <2>2. Reported[i].status \in {"False", "Unknown"}
    BY <2>1 DEF StatusOf
  <2> QED
    BY <2>1, <2>2 DEF Phase, A!DerivePhase, A!Has, A!Failed, A!FailedNonCritical, A!Unknown
<1> HIDE DEF Seen
<1>4. Spec => [](runCtx # "live" /\ step = "permissions" => []Seen)
  BY <1>1, <1>2, <1>3, InvariantHolds, PTL DEF Spec
<1> QED
  BY <1>4 DEF CutShortNeverPasses, Seen

=============================================================================
