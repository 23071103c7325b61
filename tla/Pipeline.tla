------------------------------ MODULE Pipeline ------------------------------
(***************************************************************************)
(* runChecks followed by Aggregate: CheckRunner with its results read as   *)
(* the results of Aggregation, the way the checks and the synthetic        *)
(* results of runner.go set status and severity.                           *)
(***************************************************************************)
EXTENDS CheckRunner

CONSTANTS TypeOf   \* [Checks -> Nat], the condition types in their order

ASSUME TypeAssumption ==
  /\ TypeOf \in [Checks -> Nat]
  /\ \A c, d \in Checks : c # d => TypeOf[c] # TypeOf[d]

\* Mutant: a check that could not be judged only warns.
LenientStatusOf(reason) == IF reason \in {"passed", "RBACInsufficient"} THEN "True"
                           ELSE IF reason \in {"warning", "failed"} THEN "False"
                           ELSE "Unknown"

\* The Status that goes with a reason.
StatusOf(reason) == IF reason = "passed" THEN "True"
                    ELSE IF reason \in {"warning", "failed"} THEN "False"
                    ELSE "Unknown"

SeverityOf(reason) == IF reason \in {"passed", "ReconcileCanceled"} THEN "info"
                      ELSE IF reason = "warning" THEN "warning"
                      ELSE "critical"

Reported ==
  [i \in DOMAIN results |->
     [name     |-> TypeOf[results[i].check],
      status   |-> StatusOf(results[i].reason),
      severity |-> SeverityOf(results[i].reason),
      time     |-> 1]]

A == INSTANCE Aggregation WITH
       results <- Reported, interval <- [kind |-> "unset", seconds |-> 0],
       Names <- {TypeOf[c] : c \in Checks}, WarningName <- 0, Times <- {1}, Now <- 1,
       Intervals <- {[kind |-> "unset", seconds |-> 0]}, MaxResults <- Len(Active),
       DefaultInterval <- 300, MinInterval <- 30, MaxInterval <- 86400

Phase == A!DerivePhase(Reported)

-----------------------------------------------------------------------------
(* Properties.                                                             *)

\* What the runner does to its results is what Aggregation supposes: one more
\* result at the end, nothing else (runChecks).
ResultsOnlyGrow == A!Spec

\* Passed is never the answer unless every configured check ran with all its
\* permissions and passed itself (runChecks, RunCheckSafely, Aggregate).
PassedMeansChecked ==
  step = "done" /\ Phase = "Passed" =>
    \A c \in Configured : (\E i \in DOMAIN Active : Active[i] = c) =>
      /\ \E i \in DOMAIN results : results[i] = Result(c, "passed")
      /\ \A p \in NeedsOf(c) : review[p] = "allowed"

\* Once the context of the run has ended and a check is still to be reviewed,
\* the run cannot end in Passed (classifyContextEnd, CanI under an ended
\* context).
CutShortNeverPasses ==
  [](runCtx # "live" /\ step = "permissions" => [](step = "done" => Phase # "Passed"))

\* Every configured check that was selected shows as one condition, also when
\* it never answered (dedupeAndSortConditions of what runChecks collected).
EveryCheckShows ==
  step = "done" =>
    {A!DedupeAndSort(Reported)[i].name : i \in DOMAIN A!DedupeAndSort(Reported)}
    = {TypeOf[c] : c \in Configured \cap {Active[i] : i \in DOMAIN Active}}

\* What the comment at reconcileCanceledResult says of its severity info: it
\* turns the phase to Warning, not to Failed.
CanceledMeansWarning ==
  step = "done" /\ (\E i \in DOMAIN results : results[i].reason = "ReconcileCanceled")
  /\ (\A i \in DOMAIN results : results[i].reason \in {"passed", "ReconcileCanceled"})
  => Phase = "Warning"

=============================================================================
