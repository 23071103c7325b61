----------------------------- MODULE CheckRunner -----------------------------
(***************************************************************************)
(* One call of runChecks (reconciler.go) with RunCheckSafely and           *)
(* runWithTimeout (runner.go): the checks of a run one after the other,    *)
(* each after its permissions were reviewed through the cache of the run,  *)
(* each in a goroutine of its own that outlives the check when it does not *)
(* heed its context.                                                       *)
(*                                                                         *)
(* A check's context ends by its own timeout, by the deadline or the       *)
(* cancellation of the run's context, which reaches it a moment later, or  *)
(* by the deferred cancel when runWithTimeout returns; the first counts.   *)
(***************************************************************************)
EXTENDS Integers, Sequences, FiniteSets

CONSTANTS Checks,       \* domain.Check instances
          Permissions,  \* permissions they may require
          Active,       \* the sequence ListByProfile selected
          Configured,   \* checks that have an entry in specs
          Required      \* [Checks -> sequence of permissions]

ASSUME ActiveAssumption ==
  /\ Active \in Seq(Checks)
  /\ \A i, j \in DOMAIN Active : i # j => Active[i] # Active[j]
ASSUME ConfiguredAssumption == Configured \subseteq Checks
ASSUME RequiredAssumption == Required \in [Checks -> Seq(Permissions)]

VARIABLES
  runCtx,   \* the run's context: live, deadline or canceled
  at,       \* index of the current check in Active
  step,     \* step of runChecks
  asked,    \* permissions of the current check already classified
  review,   \* the PermissionCache
  answers,  \* history: answers CanI gave, per permission
  ctx,      \* [Checks -> context of the check's run]
  worker,   \* [Checks -> state of its goroutine]
  channel,  \* [Checks -> its result channel, a buffer of one]
  held,     \* what the select received and has not yet judged
  results   \* what runChecks collected

vars == <<runCtx, at, step, asked, review, answers, ctx, worker, channel, held, results>>
workVars == <<ctx, worker, channel, held>>
permVars == <<asked, review, answers>>

-----------------------------------------------------------------------------

\* What a check reports of itself, and what the runner reports instead.
OwnReasons == {"passed", "warning", "failed", "unknown"}
Synthetic == {"RBACInsufficient", "RBACCheckFailed", "Timeout", "ReconcileTimeout",
              "ReconcileCanceled", "InternalError"}
Result(c, reason) == [check |-> c, reason |-> reason]
Results == [check : Checks, reason : OwnReasons \cup Synthetic]
Nothing == [check |-> "none", reason |-> "none"]

Current == Active[at]

NewPermissionCache == [p \in Permissions |-> "unasked"]

\* Mutant: one channel for the whole run.
ChannelOfRun(c) == Active[1]

\* Where the send of check c goes: each run of a check makes a channel.
ChannelOf(c) == c

Init ==
  /\ runCtx = "live"
  /\ at = 1
  /\ step = "next"
  /\ asked = 0
  /\ review = NewPermissionCache
  /\ answers = [p \in Permissions |-> 0]
  /\ ctx = [c \in Checks |-> "none"]
  /\ worker = [c \in Checks |-> "none"]
  /\ channel = [c \in Checks |-> Nothing]
  /\ held = Nothing
  /\ results = <<>>

-----------------------------------------------------------------------------
(* Contexts.                                                               *)

\* The deadline of Reconcile, or the manager stops.
RunContextEnds(cause) ==
  /\ step # "done" /\ runCtx = "live"
  /\ runCtx' = cause
  /\ UNCHANGED <<at, step, permVars, workVars, results>>

\* The end of the run's context reaches the context of a check.
Propagate(c) ==
  /\ runCtx # "live" /\ ctx[c] = "live"
  /\ ctx' = [ctx EXCEPT ![c] = runCtx]
  /\ UNCHANGED <<runCtx, at, step, permVars, worker, channel, held, results>>

\* The check's own timer; by then the check may be over or about to be.
CheckTimesOut(c) ==
  /\ ctx[c] = "live"
  /\ ctx' = [ctx EXCEPT ![c] = "timeout"]
  /\ UNCHANGED <<runCtx, at, step, permVars, worker, channel, held, results>>

-----------------------------------------------------------------------------
(* The loop of runChecks.                                                  *)

\* Mutant: a result that the loop makes itself replaces the one before it.
FinishReplaces(reason) ==
  /\ results' = Append(SubSeq(results, 1, Len(results) - 1), Result(Current, reason))
  /\ at' = at + 1
  /\ step' = "next"
  /\ ctx' = [ctx EXCEPT ![Current] = IF @ = "live" THEN "canceled" ELSE @]

\* The check at hand is over; its context, if it has one, is canceled.
Finish(reason) ==
  /\ results' = Append(results, Result(Current, reason))
  /\ at' = at + 1
  /\ step' = "next"
  /\ ctx' = [ctx EXCEPT ![Current] = IF @ = "live" THEN "canceled" ELSE @]

EndLoop ==
  /\ step = "next" /\ at > Len(Active)
  /\ step' = "done"
  /\ UNCHANGED <<runCtx, at, permVars, workVars, results>>

\* Mutant: break where it should say continue.
EndsAtBareCheck ==
  /\ step = "next" /\ at <= Len(Active) /\ Current \notin Configured
  /\ at' = Len(Active) + 1
  /\ UNCHANGED <<runCtx, step, permVars, workVars, results>>

\* A check without a spec is passed over.
SkipCheck ==
  /\ step = "next" /\ at <= Len(Active) /\ Current \notin Configured
  /\ at' = at + 1
  /\ UNCHANGED <<runCtx, step, permVars, workVars, results>>

BeginCheck ==
  /\ step = "next" /\ at <= Len(Active) /\ Current \in Configured
  /\ step' = "permissions"
  /\ asked' = 0
  /\ UNCHANGED <<runCtx, at, review, answers, workVars, results>>

-----------------------------------------------------------------------------
(* classifyPermissions.                                                    *)

Wanted == Required[Current][asked + 1]
MoreWanted == step = "permissions" /\ asked < Len(Required[Current])

\* Mutant: a failed review is not cached.
IsCachedUnlessFailed(p) == review[p] \in {"allowed", "denied"}

IsCached(p) == review[p] # "unasked"

PermissionCached ==
  /\ MoreWanted /\ IsCached(Wanted)
  /\ asked' = asked + 1
  /\ UNCHANGED <<runCtx, at, step, review, answers, workVars, results>>

\* What the review may come to: under an ended context the call fails.
CanI == IF runCtx = "live" THEN {"allowed", "denied", "failed"} ELSE {"failed"}

Ask(answer) ==
  /\ MoreWanted /\ ~IsCached(Wanted)
  /\ answer \in CanI
  /\ review' = [review EXCEPT ![Wanted] = answer]
  /\ answers' = [answers EXCEPT ![Wanted] = @ + 1]
  /\ asked' = asked + 1
  /\ UNCHANGED <<runCtx, at, step, workVars, results>>

\* RequiredPermissions or CanI panics: RunCheckSafely recovers.
ReviewPanics ==
  /\ step = "permissions"
  /\ asked = 0 \/ (MoreWanted /\ ~IsCached(Wanted))
  /\ Finish("InternalError")
  /\ UNCHANGED <<runCtx, permVars, worker, channel, held>>

NeedsOf(c) == {Required[c][i] : i \in DOMAIN Required[c]}
AllClassified == step = "permissions" /\ asked = Len(Required[Current])

\* Mutant: the wrong one of the two reasons first.
InsufficientFirst ==
  /\ AllClassified
  /\ \/ \E p \in NeedsOf(Current) : review[p] = "denied" /\ Finish("RBACInsufficient")
     \/ /\ \A p \in NeedsOf(Current) : review[p] # "denied"
        /\ \E p \in NeedsOf(Current) : review[p] = "failed" /\ Finish("RBACCheckFailed")
  /\ UNCHANGED <<runCtx, permVars, worker, channel, held>>

\* A failed review is reported before a denied permission.
Withhold ==
  /\ AllClassified
  /\ \/ \E p \in NeedsOf(Current) : review[p] = "failed" /\ Finish("RBACCheckFailed")
     \/ /\ \A p \in NeedsOf(Current) : review[p] # "failed"
        /\ \E p \in NeedsOf(Current) : review[p] = "denied" /\ Finish("RBACInsufficient")
  /\ UNCHANGED <<runCtx, permVars, worker, channel, held>>

-----------------------------------------------------------------------------
(* runWithTimeout.                                                         *)

\* Mutant: a denied permission does not keep the check from running.
MayRunUnlessFailed(c) == \A p \in NeedsOf(c) : review[p] # "failed"

MayRun(c) == \A p \in NeedsOf(c) : review[p] = "allowed"

\* The context of a run that has ended gives a context that has ended.
StartWorker ==
  /\ AllClassified /\ MayRun(Current)
  /\ step' = "select"
  /\ ctx' = [ctx EXCEPT ![Current] = runCtx]
  /\ worker' = [worker EXCEPT ![Current] = "running"]
  /\ UNCHANGED <<runCtx, at, permVars, channel, held, results>>

\* check.Run returns, or panics and the goroutine recovers (its send that
\* gives way to a full buffer finds it empty, as Run has sent nothing).
WorkerReturns(c, reason) ==
  /\ worker[c] = "running"
  /\ worker' = [worker EXCEPT ![c] = reason]
  /\ UNCHANGED <<runCtx, at, step, permVars, ctx, channel, held, results>>

\* Mutant: an unbuffered channel, to which only a waiting select listens.
CanSendUnbuffered(c) == step = "select" /\ Current = c

\* The buffer of one takes what the only sender sends.
CanSend(c) == channel[ChannelOf(c)] = Nothing

WorkerSends(c) ==
  /\ worker[c] \in OwnReasons \cup {"InternalError"}
  /\ CanSend(c)
  /\ channel' = [channel EXCEPT ![ChannelOf(c)] = Result(c, worker[c])]
  /\ worker' = [worker EXCEPT ![c] = "gone"]
  /\ UNCHANGED <<runCtx, at, step, permVars, ctx, held, results>>

\* Mutant: the cause is not asked for, only that it was a deadline.
ContextEndAnyDeadline(cause) == IF cause = "canceled" THEN "ReconcileCanceled" ELSE "ReconcileTimeout"

\* classifyContextEnd.
ContextEnd(cause) == IF cause = "timeout" THEN "Timeout"
                     ELSE IF cause = "deadline" THEN "ReconcileTimeout"
                     ELSE "ReconcileCanceled"

\* select, first branch: a result is there.  It is judged in a second step.
Receive ==
  /\ step = "select" /\ channel[ChannelOf(Current)] # Nothing
  /\ held' = channel[ChannelOf(Current)]
  /\ channel' = [channel EXCEPT ![ChannelOf(Current)] = Nothing]
  /\ step' = "judge"
  /\ UNCHANGED <<runCtx, at, permVars, ctx, worker, results>>

\* Mutant: a result that was received is reported.
JudgeAlwaysReports ==
  /\ step = "judge"
  /\ results' = Append(results, held)
  /\ at' = at + 1 /\ step' = "next"
  /\ ctx' = [ctx EXCEPT ![Current] = IF @ = "live" THEN "canceled" ELSE @]
  /\ held' = Nothing
  /\ UNCHANGED <<runCtx, permVars, worker, channel>>

\* The context, if it has ended meanwhile, goes before the result.
Judge ==
  /\ step = "judge"
  /\ \/ ctx[Current] # "live" /\ Finish(ContextEnd(ctx[Current]))
     \/ /\ ctx[Current] = "live"
        /\ results' = Append(results, held)
        /\ at' = at + 1 /\ step' = "next"
        /\ ctx' = [ctx EXCEPT ![Current] = "canceled"]
  /\ held' = Nothing
  /\ UNCHANGED <<runCtx, permVars, worker, channel>>

\* Mutant: the select waits for a result only.
NeverGivesUp == FALSE /\ UNCHANGED vars

\* select, second branch: the context has ended, whatever the channel holds.
GiveUp ==
  /\ step = "select" /\ ctx[Current] # "live"
  /\ Finish(ContextEnd(ctx[Current]))
  /\ UNCHANGED <<runCtx, permVars, worker, channel, held>>

-----------------------------------------------------------------------------

Runner ==
  \/ EndLoop \/ SkipCheck \/ BeginCheck
  \/ PermissionCached \/ (\E a \in {"allowed", "denied", "failed"} : Ask(a)) \/ ReviewPanics
  \/ Withhold \/ StartWorker \/ Receive \/ Judge \/ GiveUp

Return(c) == \E reason \in OwnReasons \cup {"InternalError"} : WorkerReturns(c, reason)

Next ==
  \/ Runner
  \/ \E cause \in {"deadline", "canceled"} : RunContextEnds(cause)
  \/ \E c \in Checks : Propagate(c) \/ CheckTimesOut(c) \/ Return(c) \/ WorkerSends(c)

Spec == Init /\ [][Next]_vars

\* The runner and a goroutine that has returned from Run go on; timers fire
\* and contexts propagate.  Nothing says that Run ever returns.
Fairness ==
  /\ WF_vars(Runner)
  /\ \A c \in Checks : /\ WF_vars(WorkerSends(c)) /\ WF_vars(CheckTimesOut(c))
                       /\ WF_vars(Propagate(c))

FairSpec == Spec /\ Fairness

-----------------------------------------------------------------------------
(* Properties.                                                             *)

TypeOK ==
  /\ runCtx \in {"live", "deadline", "canceled"}
  /\ at \in 1 .. Len(Active) + 1
  /\ step \in {"next", "permissions", "select", "judge", "done"}
  /\ asked \in Nat
  /\ review \in [Permissions -> {"unasked", "allowed", "denied", "failed"}]
  /\ answers \in [Permissions -> Nat]
  /\ ctx \in [Checks -> {"none", "live", "timeout", "deadline", "canceled"}]
  /\ worker \in [Checks -> {"none", "running", "gone", "InternalError"} \cup OwnReasons]
  /\ channel \in [Checks -> Results \cup {Nothing}]
  /\ held \in Results \cup {Nothing}
  /\ results \in Seq(Results)

\* Each configured check that has had its turn has one result, and only one, in
\* the order of the selection and under its own name, whatever timed out,
\* panicked or answered too late (runChecks, the channel of runWithTimeout).
OneResultEach ==
  /\ {results[i].check : i \in DOMAIN results} = {Active[k] : k \in 1 .. at - 1} \cap Configured
  /\ \A i, j \in DOMAIN results : i < j =>
       \E k, l \in DOMAIN Active :
         k < l /\ Active[k] = results[i].check /\ Active[l] = results[j].check

\* CanI answers for a permission at most once in a run, also when it failed
\* (PermissionCache).
AnsweredOnce == \A p \in Permissions : answers[p] <= 1

\* No check runs unless every one of its permissions was granted in this run
\* (classifyPermissions before runWithTimeout).
NeverUnpermitted ==
  \A c \in Checks : worker[c] # "none" =>
    \A p \in NeedsOf(c) : review[p] = "allowed"

\* The administrator is sent to the RBAC rules only when no review failed
\* (RunCheckSafely).
FailureComesFirst ==
  \A i \in DOMAIN results : results[i].reason = "RBACInsufficient" =>
    \A p \in NeedsOf(results[i].check) : review[p] \in {"allowed", "denied"}

\* The reason a check was cut short is the true one: the run's own end is
\* reported only if the run's context ended that way, and the check's timeout
\* only if that timer fired first (classifyContextEnd, the deferred cancel).
CauseIsTrue ==
  \A i \in DOMAIN results :
    LET r == results[i] IN
    /\ r.reason = "ReconcileTimeout"  => runCtx = "deadline" /\ ctx[r.check] = "deadline"
    /\ r.reason = "ReconcileCanceled" => runCtx = "canceled" /\ ctx[r.check] = "canceled"
    /\ r.reason = "Timeout"           => ctx[r.check] = "timeout"

\* A result that is judged after its context ended is not reported as the
\* check's (the check of runCtx.Err after the receive).
TooLateIsDropped ==
  [][\A i \in DOMAIN results' \ DOMAIN results :
       results'[i].reason \in OwnReasons => ctx[results'[i].check] = "live"]_vars

\* The run ends even if no check ever returns (runWithTimeout).
RunEnds == <>(step = "done")

\* A goroutine that has returned from Run never hangs on its channel, also
\* when nobody listens any more (the buffer of one).
NoGoroutineLeak ==
  \A c \in Checks :
    worker[c] \in OwnReasons \cup {"InternalError"} ~> worker[c] = "gone"

-----------------------------------------------------------------------------
(* The inductive invariant behind the properties of every state.           *)

\* Every step but the loop's own is about a configured check.
InTurn ==
  step \in {"permissions", "select", "judge"} => at <= Len(Active) /\ Current \in Configured

\* What was asked for the current check is in the cache.
ReviewInv ==
  /\ \A p \in Permissions : review[p] = "unasked" => answers[p] = 0
  /\ step = "permissions" =>
       /\ asked <= Len(Required[Current])
       /\ \A i \in 1 .. asked : IsCached(Required[Current][i])

\* A channel and the receive of a check only hold what its own goroutine sent.
Sent(r, c) == r.check = c /\ r.reason \in OwnReasons \cup {"InternalError"}
ChannelInv ==
  /\ \A c \in Checks : channel[c] # Nothing => Sent(channel[c], c)
  /\ step = "judge" => held # Nothing /\ Sent(held, Current)

\* Before the deferred cancel a check's context is only canceled by the run's.
ContextInv ==
  /\ \A c \in Checks : ctx[c] = "deadline" => runCtx = "deadline"
  /\ step \in {"select", "judge"} =>
       ctx[Current] # "none" /\ (ctx[Current] = "canceled" => runCtx = "canceled")

IInv ==
  /\ TypeOK /\ InTurn
  /\ OneResultEach /\ ChannelInv
  /\ ReviewInv /\ AnsweredOnce /\ NeverUnpermitted /\ FailureComesFirst
  /\ ContextInv /\ CauseIsTrue

=============================================================================
