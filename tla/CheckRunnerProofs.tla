-------------------------- MODULE CheckRunnerProofs --------------------------
(***************************************************************************)
(* Proofs about CheckRunner: for any number of checks and permissions, any *)
(* order of answers, timers, ends and panics, every configured check has   *)
(* its one result with its true reason, and none runs without permission.  *)
(***************************************************************************)
EXTENDS CheckRunner, TLAPS

Reasons == OwnReasons \cup Synthetic

\* A record of a check and a reason is a result, and never Nothing.
LEMMA ResultType ==
  ASSUME NEW c \in Checks, NEW reason \in Reasons
  PROVE  /\ Result(c, reason) \in Results /\ Result(c, reason) # Nothing
         /\ Result(c, reason).check = c /\ Result(c, reason).reason = reason
BY DEF Result, Results, Nothing, Reasons, OwnReasons, Synthetic

LEMMA ContextEndType ==
  ASSUME NEW cause PROVE ContextEnd(cause) \in Synthetic
BY DEF ContextEnd, Synthetic

\* The checks of the selection are checks.
LEMMA ActiveType ==
  /\ Len(Active) \in Nat /\ DOMAIN Active = 1 .. Len(Active)
  /\ \A k \in 1 .. Len(Active) : Active[k] \in Checks
  /\ \A c \in Checks : Required[c] \in Seq(Permissions) /\ NeedsOf(c) \subseteq Permissions
BY ActiveAssumption, RequiredAssumption DEF NeedsOf

\* A step that reports r for the check at hand, as Finish and Judge do.
Reports(r) ==
  /\ results' = Append(results, r)
  /\ at' = at + 1
  /\ step' = "next"
  /\ ctx' = [ctx EXCEPT ![Current] = IF @ = "live" THEN "canceled" ELSE @]

LEMMA AppendResult ==
  ASSUME TypeOK, NEW r \in Results, results' = Append(results, r)
  PROVE  /\ results' \in Seq(Results)
         /\ DOMAIN results' = 1 .. Len(results) + 1 /\ DOMAIN results = 1 .. Len(results)
         /\ \A i \in 1 .. Len(results) : results'[i] = results[i]
         /\ results'[Len(results) + 1] = r
         /\ Len(results) \in Nat
BY DEF TypeOK

LEMMA ResultChecks ==
  ASSUME TypeOK, NEW i \in DOMAIN results
  PROVE  results[i].check \in Checks /\ NeedsOf(results[i].check) \subseteq Permissions
<1>1. results[i] \in Results
  BY DEF TypeOK
<1> QED
  BY <1>1, ActiveType DEF Results

\* One more result for the check at hand keeps each to its turn.
LEMMA OneMoreResult ==
  ASSUME TypeOK, OneResultEach, at <= Len(Active), Current \in Configured,
         NEW r \in Results, r.check = Current, Reports(r)
  PROVE  OneResultEach'
<1>1. at \in 1 .. Len(Active) /\ at' = at + 1
  BY ActiveType DEF TypeOK, Reports
<1>2. /\ DOMAIN results' = 1 .. Len(results) + 1 /\ DOMAIN results = 1 .. Len(results)
      /\ \A i \in 1 .. Len(results) : results'[i] = results[i]
      /\ results'[Len(results) + 1] = r
      /\ Len(results) \in Nat
  BY AppendResult DEF Reports
<1>3. {results'[i].check : i \in DOMAIN results'}
      = {results[i].check : i \in DOMAIN results} \cup {Current}
  BY <1>2
<1>4. {Active[k] : k \in 1 .. at' - 1} = {Active[k] : k \in 1 .. at - 1} \cup {Current}
  BY <1>1 DEF Current
<1>5. {results'[i].check : i \in DOMAIN results'} = {Active[k] : k \in 1 .. at' - 1} \cap Configured
  BY <1>3, <1>4 DEF OneResultEach
<1>6. ASSUME NEW i \in DOMAIN results', NEW j \in DOMAIN results', i < j
      PROVE  \E k, l \in DOMAIN Active :
               k < l /\ Active[k] = results'[i].check /\ Active[l] = results'[j].check
  <2>1. i \in DOMAIN results
    BY <1>2, <1>6
  <2>2. CASE j \in DOMAIN results
    BY <2>1, <2>2, <1>2, <1>6 DEF OneResultEach
  <2>3. CASE j = Len(results) + 1
    <3>1. PICK k \in 1 .. at - 1 : Active[k] = results[i].check
      BY <2>1 DEF OneResultEach
    <3>2. k \in DOMAIN Active /\ at \in DOMAIN Active /\ k < at
      BY <1>1, <3>1, ActiveType
    <3>3. Active[at] = results'[j].check /\ Active[k] = results'[i].check
      BY <1>2, <2>1, <2>3, <3>1 DEF Current
    <3> QED
      BY <3>2, <3>3
  <2> QED
    BY <1>2, <2>2, <2>3
<1> QED
  BY <1>5, <1>6 DEF OneResultEach

\* The check at hand has no result yet: the selection names it once.
LEMMA NoResultYet ==
  ASSUME TypeOK, OneResultEach, at <= Len(Active), NEW i \in DOMAIN results
  PROVE  results[i].check # Current
<1>0. results[i].check \in {results[j].check : j \in DOMAIN results}
  OBVIOUS
<1>a. results[i].check \in {Active[k] : k \in 1 .. at - 1}
  BY <1>0 DEF OneResultEach
<1>1. PICK k \in 1 .. at - 1 : Active[k] = results[i].check
  BY <1>a
<1>2. k \in DOMAIN Active /\ at \in DOMAIN Active /\ k # at
  BY <1>1, ActiveType DEF TypeOK
<1> QED
  BY <1>1, <1>2, ActiveAssumption DEF Current

-----------------------------------------------------------------------------
(* A check is over.                                                        *)

\* The invariant survives any report whose reason is accounted for.
LEMMA ReportSafe ==
  ASSUME IInv, step \in {"permissions", "select", "judge"},
         NEW r \in Results, r.check = Current, Reports(r),
         r.reason = "RBACInsufficient" =>
           \A p \in NeedsOf(Current) : review[p] \in {"allowed", "denied"},
         r.reason = "ReconcileTimeout" => runCtx = "deadline" /\ ctx[Current] = "deadline",
         r.reason = "ReconcileCanceled" => runCtx = "canceled" /\ ctx[Current] = "canceled",
         r.reason = "Timeout" => ctx[Current] = "timeout",
         held' \in {held, Nothing},
         UNCHANGED <<runCtx, permVars, worker, channel>>
  PROVE  IInv'
<1> USE DEF IInv
<1>1. at \in 1 .. Len(Active) /\ Current \in Configured /\ Current \in Checks
  BY ActiveType, ConfiguredAssumption DEF InTurn, TypeOK, Current
<1>2. at' \in 1 .. Len(Active) + 1 /\ step' = "next"
  BY <1>1, ActiveType DEF Reports
<1>3. /\ ctx' \in [Checks -> {"none", "live", "timeout", "deadline", "canceled"}]
      /\ \A c \in Checks : ctx[c] # "live" => ctx'[c] = ctx[c]
      /\ \A c \in Checks : ctx'[c] = "deadline" => ctx[c] = "deadline"
  BY DEF Reports, TypeOK
<1>4. /\ DOMAIN results' = 1 .. Len(results) + 1 /\ DOMAIN results = 1 .. Len(results)
      /\ \A i \in 1 .. Len(results) : results'[i] = results[i]
      /\ results'[Len(results) + 1] = r
      /\ Len(results) \in Nat /\ results' \in Seq(Results)
  BY AppendResult DEF Reports
<1>5. TypeOK' /\ InTurn'
  BY <1>2, <1>3, <1>4 DEF TypeOK, InTurn, permVars
<1>6. OneResultEach'
  BY <1>1, OneMoreResult
<1>7. ChannelInv' /\ ReviewInv' /\ AnsweredOnce' /\ NeverUnpermitted'
  BY <1>2 DEF ChannelInv, ReviewInv, AnsweredOnce, NeverUnpermitted, permVars, IsCached
<1>8. ContextInv'
  <2>1. \A c \in Checks : ctx'[c] = "deadline" => runCtx' = "deadline"
    BY <1>3 DEF ContextInv
  <2> QED
    BY <1>2, <2>1 DEF ContextInv
<1>9. FailureComesFirst'
  BY <1>4 DEF FailureComesFirst, permVars
<1>10. CauseIsTrue'
  <2>1. \A i \in DOMAIN results : results[i].check \in Checks
    BY ResultChecks
  <2> QED
    BY <1>1, <1>3, <1>4, <2>1 DEF CauseIsTrue
<1> QED
  BY <1>5, <1>6, <1>7, <1>8, <1>9, <1>10

\* What classifyContextEnd says of an ended context is so.
LEMMA ContextEndSafe ==
  ASSUME IInv, step \in {"select", "judge"}, ctx[Current] # "live",
         Reports(Result(Current, ContextEnd(ctx[Current]))),
         held' \in {held, Nothing},
         UNCHANGED <<runCtx, permVars, worker, channel>>
  PROVE  IInv'
<1> DEFINE r == Result(Current, ContextEnd(ctx[Current]))
<1>1. Current \in Checks
  BY ActiveType DEF IInv, InTurn, TypeOK, Current
<1>2. r \in Results /\ r.check = Current /\ r.reason = ContextEnd(ctx[Current])
  BY <1>1, ContextEndType, ResultType DEF Reasons
<1>3. ctx[Current] \in {"timeout", "deadline", "canceled"}
  BY <1>1 DEF IInv, TypeOK, ContextInv
<1>4. /\ ctx[Current] = "deadline" => runCtx = "deadline"
      /\ ctx[Current] = "canceled" => runCtx = "canceled"
  BY <1>1 DEF IInv, ContextInv
<1>5. /\ r.reason # "RBACInsufficient"
      /\ r.reason = "Timeout" => ctx[Current] = "timeout"
      /\ r.reason = "ReconcileTimeout" => ctx[Current] = "deadline"
      /\ r.reason = "ReconcileCanceled" => ctx[Current] = "canceled"
  BY <1>2, <1>3 DEF ContextEnd
<1> HIDE DEF r
<1> QED
  BY <1>2, <1>4, <1>5, ReportSafe DEF r

\* Finish in the words of Reports.
LEMMA FinishReports ==
  ASSUME NEW reason, Finish(reason) PROVE Reports(Result(Current, reason))
BY DEF Finish, Reports

-----------------------------------------------------------------------------
(* The actions.                                                            *)

LEMMA ContextStepSafe ==
  ASSUME IInv,
         \/ \E cause \in {"deadline", "canceled"} : RunContextEnds(cause)
         \/ \E c \in Checks : Propagate(c) \/ CheckTimesOut(c)
  PROVE  IInv'
<1> USE DEF IInv, workVars, permVars
<1>1. CASE \E cause \in {"deadline", "canceled"} : RunContextEnds(cause)
  <2>1. PICK cause \in {"deadline", "canceled"} : RunContextEnds(cause)
    BY <1>1
  <2>2. TypeOK' /\ InTurn' /\ ChannelInv' /\ ReviewInv' /\ AnsweredOnce'
    BY <2>1 DEF RunContextEnds, TypeOK, InTurn, Current, ChannelInv, ReviewInv, AnsweredOnce, IsCached
  <2>3. OneResultEach' /\ NeverUnpermitted' /\ FailureComesFirst'
    BY <2>1 DEF RunContextEnds, OneResultEach, NeverUnpermitted, FailureComesFirst
  <2>4. ContextInv' /\ CauseIsTrue'
    BY <2>1 DEF RunContextEnds, ContextInv, CauseIsTrue, Current
  <2> QED
    BY <2>2, <2>3, <2>4
<1>2. ASSUME NEW c \in Checks, Propagate(c) \/ CheckTimesOut(c)
      PROVE  IInv'
  <2>1. /\ ctx[c] = "live" /\ ctx' = [ctx EXCEPT ![c] = ctx'[c]]
        /\ ctx'[c] = "timeout" \/ (ctx'[c] = runCtx /\ runCtx # "live")
        /\ UNCHANGED <<runCtx, at, step, permVars, worker, channel, held, results>>
    BY <1>2 DEF Propagate, CheckTimesOut, TypeOK
  <2>2. TypeOK' /\ InTurn' /\ ChannelInv' /\ ReviewInv' /\ AnsweredOnce'
    BY <2>1 DEF TypeOK, InTurn, Current, ChannelInv, ReviewInv, AnsweredOnce, IsCached
  <2>3. OneResultEach' /\ NeverUnpermitted' /\ FailureComesFirst'
    BY <2>1 DEF OneResultEach, NeverUnpermitted, FailureComesFirst
  <2>4. \A d \in Checks : d # c => ctx'[d] = ctx[d]
    BY <2>1 DEF TypeOK
  <2>5. ContextInv'
    <3>1. ASSUME NEW d \in Checks, ctx'[d] = "deadline" PROVE runCtx' = "deadline"
      BY <2>1, <2>4, <3>1 DEF ContextInv
    <3>2. ASSUME step \in {"select", "judge"}
          PROVE  ctx'[Current] # "none" /\ (ctx'[Current] = "canceled" => runCtx = "canceled")
      <4>1. Current \in Checks
        BY <3>2, ActiveType DEF InTurn, TypeOK, Current
      <4>2. CASE Current = c
        BY <2>1, <4>2 DEF TypeOK
      <4>3. CASE Current # c
        BY <2>4, <3>2, <4>1, <4>3 DEF ContextInv
      <4> QED
        BY <4>2, <4>3
    <3> QED
      BY <2>1, <3>1, <3>2 DEF ContextInv, Current
  <2>6. CauseIsTrue'
    <3>1. \A i \in DOMAIN results :
            LET d == results[i].check IN d \in Checks /\ (ctx[d] # "live" => ctx'[d] = ctx[d])
      BY <2>1, <2>4, ResultChecks
    <3> QED
      BY <2>1, <3>1 DEF CauseIsTrue
  <2> QED
    BY <2>2, <2>3, <2>5, <2>6
<1> QED
  BY <1>1, <1>2

LEMMA LoopStepSafe ==
  ASSUME IInv, EndLoop \/ SkipCheck \/ BeginCheck
  PROVE  IInv'
<1> USE DEF IInv, workVars, permVars
<1>1. UNCHANGED <<runCtx, review, answers, workVars, results>>
      /\ step = "next" /\ at' \in 1 .. Len(Active) + 1
  BY ActiveType DEF EndLoop, SkipCheck, BeginCheck, TypeOK
<1>2. TypeOK' /\ InTurn'
  BY <1>1 DEF TypeOK, InTurn, EndLoop, SkipCheck, BeginCheck, Current
<1>3. OneResultEach'
  <2>1. CASE SkipCheck
    <3>1. {Active[k] : k \in 1 .. at' - 1} = {Active[k] : k \in 1 .. at - 1} \cup {Current}
      BY <2>1 DEF SkipCheck, TypeOK, Current
    <3>2. {Active[k] : k \in 1 .. at' - 1} \cap Configured
          = {Active[k] : k \in 1 .. at - 1} \cap Configured
      BY <2>1, <3>1 DEF SkipCheck
    <3>3. results' = results
      BY <1>1
    <3> QED
      BY <3>2, <3>3 DEF OneResultEach
  <2>2. CASE EndLoop \/ BeginCheck
    <3>1. results' = results /\ at' = at
      BY <1>1, <2>2 DEF EndLoop, BeginCheck
    <3> QED
      BY <3>1 DEF OneResultEach
  <2> QED
    BY <2>1, <2>2
<1>4. ChannelInv' /\ AnsweredOnce' /\ NeverUnpermitted' /\ FailureComesFirst' /\ CauseIsTrue'
  BY <1>1 DEF ChannelInv, AnsweredOnce, NeverUnpermitted, FailureComesFirst, CauseIsTrue,
              EndLoop, SkipCheck, BeginCheck
<1>5. ReviewInv'
  <2>1. CASE BeginCheck
    <3>1. Current' = Current /\ Current \in Checks /\ asked' = 0 /\ step' = "permissions"
      BY <2>1, ActiveType DEF BeginCheck, Current, TypeOK
    <3>2. Len(Required[Current]) \in Nat
      BY <3>1, ActiveType
    <3> QED
      BY <1>1, <3>1, <3>2 DEF ReviewInv, IsCached
  <2>2. CASE EndLoop \/ SkipCheck
    BY <1>1, <2>2 DEF EndLoop, SkipCheck, ReviewInv
  <2> QED
    BY <2>1, <2>2
<1>6. ContextInv'
  BY <1>1 DEF ContextInv, EndLoop, SkipCheck, BeginCheck
<1> QED
  BY <1>2, <1>3, <1>4, <1>5, <1>6

\* A review is answered, or was before.
LEMMA ReviewStepSafe ==
  ASSUME IInv, PermissionCached \/ (\E a \in {"allowed", "denied", "failed"} : Ask(a))
  PROVE  IInv'
<1> USE DEF IInv, workVars, permVars
<1>1. /\ MoreWanted /\ asked' = asked + 1 /\ asked \in Nat
      /\ UNCHANGED <<runCtx, at, step, workVars, results>>
  BY DEF PermissionCached, Ask, TypeOK
<1>2. /\ Current \in Checks /\ Current' = Current /\ asked < Len(Required[Current])
      /\ Required[Current] \in Seq(Permissions) /\ step = "permissions"
  BY <1>1, ActiveType DEF MoreWanted, InTurn, Current, TypeOK
<1>3. Wanted \in Permissions
  BY <1>1, <1>2 DEF Wanted
<1>4. /\ \A p \in Permissions : IsCached(p) => review'[p] = review[p] /\ answers'[p] = answers[p]
      /\ \A p \in Permissions : ~IsCached(p) /\ p # Wanted => review'[p] = review[p] /\ answers'[p] = answers[p]
      /\ review'[Wanted] # "unasked" /\ (~IsCached(Wanted) => answers'[Wanted] = answers[Wanted] + 1)
      /\ review' \in [Permissions -> {"unasked", "allowed", "denied", "failed"}]
      /\ answers' \in [Permissions -> Nat]
  <2>1. CASE PermissionCached
    BY <1>3, <2>1 DEF PermissionCached, TypeOK, IsCached
  <2>2. CASE \E a \in {"allowed", "denied", "failed"} : Ask(a)
    <3>1. PICK a \in {"allowed", "denied", "failed"} : Ask(a)
      BY <2>2
    <3>2. /\ ~IsCached(Wanted)
          /\ review' = [review EXCEPT ![Wanted] = a]
          /\ answers' = [answers EXCEPT ![Wanted] = @ + 1]
      BY <3>1 DEF Ask
    <3>3. review \in [Permissions -> {"unasked", "allowed", "denied", "failed"}]
          /\ answers \in [Permissions -> Nat]
      BY DEF TypeOK
    <3>4. /\ \A p \in Permissions : p # Wanted => review'[p] = review[p] /\ answers'[p] = answers[p]
          /\ review'[Wanted] = a /\ answers'[Wanted] = answers[Wanted] + 1
          /\ review' \in [Permissions -> {"unasked", "allowed", "denied", "failed"}]
          /\ answers' \in [Permissions -> Nat]
      BY <1>3, <3>2, <3>3
    <3> QED
      BY <3>2, <3>4 DEF IsCached
  <2> QED
    BY <2>1, <2>2
<1>5. TypeOK' /\ InTurn'
  BY <1>1, <1>2, <1>4 DEF TypeOK, InTurn
<1>6. OneResultEach' /\ ChannelInv' /\ ContextInv' /\ CauseIsTrue'
  BY <1>1, <1>2 DEF OneResultEach, ChannelInv, ContextInv, CauseIsTrue
<1>7. ReviewInv' /\ AnsweredOnce'
  <2>1. ASSUME NEW p \in Permissions
        PROVE  (review'[p] = "unasked" => answers'[p] = 0) /\ answers'[p] <= 1
    <3>1. CASE p = Wanted
      BY <1>4, <3>1 DEF ReviewInv, AnsweredOnce, IsCached
    <3>2. CASE p # Wanted
      BY <1>4, <3>2 DEF ReviewInv, AnsweredOnce
    <3> QED
      BY <3>1, <3>2
  <2>2. ASSUME NEW i \in 1 .. asked'
        PROVE  review'[Required[Current][i]] # "unasked"
    <3>1. CASE i = asked + 1
      BY <1>4, <3>1 DEF Wanted
    <3>2. CASE i \in 1 .. asked
      <4>1. Required[Current][i] \in Permissions /\ IsCached(Required[Current][i])
        BY <1>1, <1>2, <3>2 DEF ReviewInv
      <4> QED
        BY <1>4, <4>1 DEF IsCached
    <3> QED
      BY <1>1, <2>2, <3>1, <3>2
  <2>3. asked' <= Len(Required[Current'])
    BY <1>1, <1>2
  <2> QED
    BY <1>2, <2>1, <2>2, <2>3 DEF ReviewInv, AnsweredOnce, IsCached
<1>8. NeverUnpermitted'
  BY <1>1, <1>4, ActiveType DEF NeverUnpermitted, IsCached
<1>9. FailureComesFirst'
  <2>1. ASSUME NEW i \in DOMAIN results
        PROVE  NeedsOf(results[i].check) \subseteq Permissions
    BY <2>1, ResultChecks
  <2> QED
    BY <1>1, <1>4, <2>1 DEF FailureComesFirst, IsCached
<1> QED
  BY <1>5, <1>6, <1>7, <1>8, <1>9

\* Once all permissions are classified, the cache knows each.
LEMMA AllCached ==
  ASSUME IInv, AllClassified
  PROVE  \A p \in NeedsOf(Current) : review[p] \in {"allowed", "denied", "failed"}
<1>1. Current \in Checks /\ Required[Current] \in Seq(Permissions)
  BY ActiveType DEF IInv, AllClassified, InTurn, TypeOK, Current
<1>2. \A i \in DOMAIN Required[Current] : IsCached(Required[Current][i])
  BY <1>1 DEF IInv, AllClassified, ReviewInv
<1>3. \A i \in DOMAIN Required[Current] : Required[Current][i] \in Permissions
  BY <1>1
<1> QED
  BY <1>2, <1>3 DEF NeedsOf, IsCached, IInv, TypeOK

LEMMA WithholdSafe ==
  ASSUME IInv, Withhold \/ ReviewPanics
  PROVE  IInv'
<1>1. step = "permissions" /\ Current \in Checks
  BY ActiveType DEF IInv, InTurn, TypeOK, Current, Withhold, ReviewPanics, AllClassified
<1>2. ASSUME NEW reason \in {"RBACCheckFailed", "RBACInsufficient", "InternalError"},
             Finish(reason), UNCHANGED <<runCtx, permVars, worker, channel, held>>,
             reason = "RBACInsufficient" =>
               \A p \in NeedsOf(Current) : review[p] \in {"allowed", "denied"}
      PROVE  IInv'
  <2> DEFINE r == Result(Current, reason)
  <2>1. r \in Results /\ r.check = Current /\ r.reason = reason
    BY <1>1, ResultType DEF Reasons, Synthetic
  <2>2. Reports(r)
    BY <1>2, FinishReports
  <2> HIDE DEF r
  <2> QED
    BY <1>1, <1>2, <2>1, <2>2, ReportSafe
<1>3. CASE ReviewPanics
  BY <1>2, <1>3 DEF ReviewPanics
<1>4. CASE Withhold
  <2>1. \A p \in NeedsOf(Current) : review[p] \in {"allowed", "denied", "failed"}
    BY <1>4, AllCached DEF Withhold
  <2> QED
    BY <1>2, <1>4, <2>1 DEF Withhold
<1> QED
  BY <1>3, <1>4

LEMMA StartWorkerSafe ==
  ASSUME IInv, StartWorker
  PROVE  IInv'
<1> USE DEF IInv, permVars
<1>1. step = "permissions" /\ at \in 1 .. Len(Active) /\ Current \in Checks /\ Current' = Current
  BY ActiveType DEF InTurn, TypeOK, Current, StartWorker, AllClassified
<1>2. TypeOK' /\ InTurn'
  BY <1>1 DEF TypeOK, InTurn, StartWorker
<1>3. OneResultEach' /\ ChannelInv' /\ ReviewInv' /\ AnsweredOnce' /\ FailureComesFirst'
  BY <1>1 DEF OneResultEach, ChannelInv, ReviewInv, AnsweredOnce, FailureComesFirst, StartWorker,
              IsCached
<1>4. NeverUnpermitted'
  BY <1>1 DEF NeverUnpermitted, StartWorker, MayRun, TypeOK
<1>5. ContextInv'
  BY <1>1 DEF ContextInv, StartWorker, TypeOK
<1>6. \A i \in DOMAIN results : results[i].check # Current
  BY <1>1, NoResultYet
<1>7. CauseIsTrue'
  BY <1>1, <1>6 DEF CauseIsTrue, StartWorker, TypeOK
<1> QED
  BY <1>2, <1>3, <1>4, <1>5, <1>7

\* What the goroutine of a check does by itself.
LEMMA WorkerStepSafe ==
  ASSUME IInv, NEW c \in Checks, Return(c) \/ WorkerSends(c)
  PROVE  IInv'
<1> USE DEF IInv, permVars
<1>1. /\ UNCHANGED <<runCtx, at, step, permVars, ctx, held, results>>
      /\ worker[c] # "none"
      /\ worker' = [worker EXCEPT ![c] = worker'[c]]
      /\ worker' \in [Checks -> {"none", "running", "gone", "InternalError"} \cup OwnReasons]
  BY DEF Return, WorkerReturns, WorkerSends, TypeOK, OwnReasons
<1>2. /\ channel' \in [Checks -> Results \cup {Nothing}]
      /\ \A d \in Checks : channel'[d] # Nothing => Sent(channel'[d], d)
  <2>1. CASE Return(c)
    BY <2>1 DEF Return, WorkerReturns, TypeOK, ChannelInv
  <2>2. CASE WorkerSends(c)
    <3>1. worker[c] \in OwnReasons \cup {"InternalError"}
          /\ channel' = [channel EXCEPT ![c] = Result(c, worker[c])]
      BY <2>2 DEF WorkerSends, ChannelOf
    <3>2. Result(c, worker[c]) \in Results /\ Sent(Result(c, worker[c]), c)
      BY <3>1, ResultType DEF Reasons, Synthetic, Sent
    <3> QED
      BY <3>1, <3>2 DEF TypeOK, ChannelInv
  <2> QED
    BY <2>1, <2>2
<1>3. TypeOK' /\ InTurn' /\ ChannelInv'
  BY <1>1, <1>2 DEF TypeOK, InTurn, Current, ChannelInv
<1>4. OneResultEach' /\ ReviewInv' /\ AnsweredOnce' /\ FailureComesFirst'
  BY <1>1 DEF OneResultEach, ReviewInv, AnsweredOnce, FailureComesFirst, IsCached, Current
<1>5. NeverUnpermitted'
  BY <1>1 DEF NeverUnpermitted, TypeOK
<1>6. ContextInv' /\ CauseIsTrue'
  BY <1>1 DEF ContextInv, CauseIsTrue, Current
<1> QED
  BY <1>3, <1>4, <1>5, <1>6

LEMMA ReceiveSafe ==
  ASSUME IInv, Receive
  PROVE  IInv'
<1> USE DEF IInv, permVars
<1>1. step = "select" /\ at \in 1 .. Len(Active) /\ Current \in Checks /\ Current' = Current
  BY ActiveType DEF InTurn, TypeOK, Current, Receive
<1>2. held' = channel[Current] /\ held' # Nothing /\ channel' = [channel EXCEPT ![Current] = Nothing]
  BY DEF Receive, ChannelOf
<1>3. TypeOK' /\ InTurn' /\ ChannelInv'
  BY <1>1, <1>2 DEF TypeOK, InTurn, ChannelInv, Receive
<1>4. OneResultEach' /\ ReviewInv' /\ AnsweredOnce' /\ NeverUnpermitted' /\ FailureComesFirst'
  BY <1>1 DEF OneResultEach, ReviewInv, AnsweredOnce, NeverUnpermitted, FailureComesFirst, Receive,
              IsCached
<1>5. ContextInv' /\ CauseIsTrue'
  BY <1>1 DEF ContextInv, CauseIsTrue, Receive
<1> QED
  BY <1>3, <1>4, <1>5

\* The end of a context, or else the result that was received.
LEMMA JudgeSafe ==
  ASSUME IInv, Judge \/ GiveUp
  PROVE  IInv'
<1>1. step \in {"select", "judge"} /\ held' \in {held, Nothing}
      /\ UNCHANGED <<runCtx, permVars, worker, channel>>
  BY DEF Judge, GiveUp
<1>2. CASE ctx[Current] # "live"
  <2>1. Finish(ContextEnd(ctx[Current]))
    BY <1>2 DEF Judge, GiveUp
  <2> QED
    BY <1>1, <1>2, <2>1, FinishReports, ContextEndSafe
<1>3. CASE ctx[Current] = "live"
  <2>1. step = "judge" /\ Judge
    BY <1>3 DEF Judge, GiveUp
  <2>2. Current \in Checks
    BY <1>1, ActiveType DEF IInv, InTurn, TypeOK, Current
  <2>3. Reports(held)
    BY <1>3, <2>1, <2>2 DEF Judge, Reports, IInv, TypeOK
  <2>4. held \in Results /\ held.check = Current /\ held.reason \in OwnReasons \cup {"InternalError"}
    BY <2>1 DEF IInv, ChannelInv, TypeOK, Sent
  <2>5. held.reason \notin {"RBACInsufficient", "ReconcileTimeout", "ReconcileCanceled", "Timeout"}
    BY <2>4 DEF OwnReasons
  <2> QED
    BY <1>1, <2>3, <2>4, <2>5, ReportSafe
<1> QED
  BY <1>2, <1>3

-----------------------------------------------------------------------------

LEMMA InitHolds == Init => IInv
<1> SUFFICES ASSUME Init PROVE IInv
  OBVIOUS
<1>1. TypeOK /\ InTurn
  BY ActiveType DEF Init, NewPermissionCache, TypeOK, InTurn
<1>2. OneResultEach
  BY DEF Init, NewPermissionCache, OneResultEach
<1>3. ChannelInv /\ ReviewInv /\ AnsweredOnce /\ NeverUnpermitted
  BY DEF Init, NewPermissionCache, ChannelInv, ReviewInv, AnsweredOnce, NeverUnpermitted
<1>4. FailureComesFirst /\ ContextInv /\ CauseIsTrue
  BY DEF Init, NewPermissionCache, FailureComesFirst, ContextInv, CauseIsTrue
<1> QED
  BY <1>1, <1>2, <1>3, <1>4 DEF IInv

LEMMA StutterHolds ==
  ASSUME IInv, UNCHANGED vars PROVE IInv'
<1> USE DEF vars, workVars, permVars, IInv
<1>1. TypeOK' /\ InTurn'
  BY DEF TypeOK, InTurn, Current
<1>4. OneResultEach'
  <2>1. results' = results /\ at' = at
    OBVIOUS
  <2> QED
    BY <2>1 DEF OneResultEach
<1>2. ChannelInv' /\ ReviewInv' /\ AnsweredOnce' /\ NeverUnpermitted'
  BY DEF ChannelInv, ReviewInv, AnsweredOnce, NeverUnpermitted, IsCached, Current
<1>3. FailureComesFirst' /\ ContextInv' /\ CauseIsTrue'
  BY DEF FailureComesFirst, ContextInv, CauseIsTrue, Current
<1> QED
  BY <1>1, <1>2, <1>3, <1>4

LEMMA NextHolds == IInv /\ [Next]_vars => IInv'
<1> SUFFICES ASSUME IInv, [Next]_vars PROVE IInv'
  OBVIOUS
<1>1. CASE Runner
  BY <1>1, LoopStepSafe, ReviewStepSafe, WithholdSafe, StartWorkerSafe, ReceiveSafe, JudgeSafe DEF Runner
<1>2. CASE \E cause \in {"deadline", "canceled"} : RunContextEnds(cause)
  BY <1>2, ContextStepSafe
<1>3. CASE \E c \in Checks : Propagate(c) \/ CheckTimesOut(c)
  BY <1>3, ContextStepSafe
<1>4. CASE \E c \in Checks : Return(c) \/ WorkerSends(c)
  BY <1>4, WorkerStepSafe
<1>5. CASE UNCHANGED vars
  BY <1>5, StutterHolds
<1> QED
  BY <1>1, <1>2, <1>3, <1>4, <1>5 DEF Next

\* The inductive invariant of one call of runChecks.
THEOREM InvariantHolds == Spec => []IInv
<1> QED
  BY InitHolds, NextHolds, PTL DEF Spec

\* The type invariant.
THEOREM TypeCorrect == Spec => []TypeOK
<1>1. IInv => TypeOK
  BY DEF IInv
<1> QED
  BY <1>1, InvariantHolds, PTL

\* Each configured check that had its turn has exactly one result, under its
\* own name and in the order of the selection.
THEOREM ResultsComplete == Spec => []OneResultEach
<1>1. IInv => OneResultEach
  BY DEF IInv
<1> QED
  BY <1>1, InvariantHolds, PTL

\* A permission is reviewed at most once in a run.
THEOREM ReviewedOnce == Spec => []AnsweredOnce
<1>1. IInv => AnsweredOnce
  BY DEF IInv
<1> QED
  BY <1>1, InvariantHolds, PTL

\* No check runs without all of its permissions.
THEOREM OnlyPermittedRun == Spec => []NeverUnpermitted
<1>1. IInv => NeverUnpermitted
  BY DEF IInv
<1> QED
  BY <1>1, InvariantHolds, PTL

\* A failed review goes before a denied permission.
THEOREM FailedReviewsFirst == Spec => []FailureComesFirst
<1>1. IInv => FailureComesFirst
  BY DEF IInv
<1> QED
  BY <1>1, InvariantHolds, PTL

\* The reason given for a check that was cut short is the true one.
THEOREM CausesTrue == Spec => []CauseIsTrue
<1>1. IInv => CauseIsTrue
  BY DEF IInv
<1> QED
  BY <1>1, InvariantHolds, PTL

\* What a step adds to the results, it adds for the check at hand.
LEMMA StepReports ==
  ASSUME IInv, Next
  PROVE  \/ results' = results /\ at' \in {at, at + 1}
         \/ \E r \in Results :
              /\ at <= Len(Active) /\ r.check = Current /\ Current \in Configured
              /\ results' = Append(results, r) /\ at' = at + 1
              /\ r.reason \in OwnReasons => ctx[Current] = "live" /\ step = "judge" /\ r = held
<1> DEFINE Goal ==
      \E r \in Results :
        /\ at <= Len(Active) /\ r.check = Current /\ Current \in Configured
        /\ results' = Append(results, r) /\ at' = at + 1
        /\ r.reason \in OwnReasons => ctx[Current] = "live" /\ step = "judge" /\ r = held
<1>1. ASSUME step \in {"permissions", "select", "judge"}
      PROVE  at <= Len(Active) /\ Current \in Configured /\ Current \in Checks
  BY <1>1, ConfiguredAssumption DEF IInv, InTurn
<1>2. ASSUME NEW reason \in Synthetic, Finish(reason), step \in {"permissions", "select", "judge"}
      PROVE  Goal
  <2>1. /\ Result(Current, reason) \in Results /\ Result(Current, reason).check = Current
        /\ Result(Current, reason).reason = reason
    BY <1>1, <1>2, ResultType DEF Reasons
  <2>2. reason \notin OwnReasons
    BY DEF OwnReasons, Synthetic
  <2>3. results' = Append(results, Result(Current, reason)) /\ at' = at + 1
    BY <1>2 DEF Finish
  <2> QED
    BY <1>1, <1>2, <2>1, <2>2, <2>3
<1>3. CASE Withhold \/ ReviewPanics
  <2>1. \E reason \in Synthetic : Finish(reason) /\ step = "permissions"
    BY <1>3 DEF Withhold, ReviewPanics, AllClassified, Synthetic
  <2> QED
    BY <1>2, <2>1
<1>4. CASE Judge \/ GiveUp
  <2>1. CASE ctx[Current] # "live"
    <3>1. Finish(ContextEnd(ctx[Current])) /\ step \in {"select", "judge"}
      BY <1>4, <2>1 DEF Judge, GiveUp
    <3> QED
      BY <1>2, <3>1, ContextEndType
  <2>2. CASE ctx[Current] = "live"
    <3>1. step = "judge" /\ results' = Append(results, held) /\ at' = at + 1
      BY <1>4, <2>2 DEF Judge, GiveUp
    <3>2. held \in Results /\ held.check = Current
      BY <3>1 DEF IInv, ChannelInv, TypeOK, Sent
    <3> QED
      BY <1>1, <2>2, <3>1, <3>2
  <2> QED
    BY <2>1, <2>2
<1>5. CASE EndLoop \/ SkipCheck \/ BeginCheck
  BY <1>5 DEF EndLoop, SkipCheck, BeginCheck
<1>6. CASE \/ PermissionCached \/ (\E a \in {"allowed", "denied", "failed"} : Ask(a))
           \/ StartWorker \/ Receive
  BY <1>6 DEF PermissionCached, Ask, StartWorker, Receive
<1>7. CASE \/ \E cause \in {"deadline", "canceled"} : RunContextEnds(cause)
           \/ \E c \in Checks : Propagate(c) \/ CheckTimesOut(c) \/ Return(c) \/ WorkerSends(c)
  BY <1>7 DEF RunContextEnds, Propagate, CheckTimesOut, Return, WorkerReturns, WorkerSends
<1> QED
  BY <1>3, <1>4, <1>5, <1>6, <1>7 DEF Next, Runner

\* A result that is judged after its context ended is never the check's own.
THEOREM LateResultsDropped == Spec => TooLateIsDropped
<1>1. IInv /\ [Next]_vars =>
        [\A i \in DOMAIN results' \ DOMAIN results :
           results'[i].reason \in OwnReasons => ctx[results'[i].check] = "live"]_vars
  <2> SUFFICES ASSUME IInv, Next, NEW i \in DOMAIN results' \ DOMAIN results,
                      results'[i].reason \in OwnReasons
               PROVE  ctx[results'[i].check] = "live"
    OBVIOUS
  <2>1. CASE results' = results
    BY <2>1
  <2>2. ASSUME NEW r \in Results, r.check = Current, results' = Append(results, r),
               r.reason \in OwnReasons => ctx[Current] = "live"
        PROVE  ctx[results'[i].check] = "live"
    <3>1. i = Len(results) + 1 /\ results'[i] = r
      BY <2>2, AppendResult DEF IInv
    <3> QED
      BY <2>2, <3>1
  <2> QED
    BY <2>1, <2>2, StepReports
<1> QED
  BY <1>1, InvariantHolds, PTL DEF Spec, TooLateIsDropped

=============================================================================
