----------------------------- MODULE Aggregation -----------------------------
(***************************************************************************)
(* How the results of the checks become the status: Aggregate              *)
(* (aggregator.go) counts them, derives the phase and keeps one condition  *)
(* per type; mergeIntervalWarning (reconciler.go) adds the warning of      *)
(* NormalizeInterval.  The state is the list of results as runChecks grows *)
(* it, beside the interval of the CR.                                      *)
(***************************************************************************)
EXTENDS Phases, Interval, Sorting, Sequences, FiniteSets, SequencesExt

CONSTANTS Names,          \* condition types, numbered in alphabetical order
          WarningName,    \* the number of ConfigurationInvalid
          Times,          \* time stamps of the results
          Now,            \* time stamp of the run
          Intervals,      \* values of spec.interval that are considered
          MaxResults      \* bound: results of one run

ASSUME NamesAssumption == Names \subseteq Nat /\ WarningName \in Nat
ASSUME TimesAssumption == Times \subseteq Nat /\ Now \in Nat
ASSUME IntervalsAssumption == Intervals \subseteq Texts
ASSUME ResultsAssumption == MaxResults \in Nat

VARIABLES results, interval

vars == <<results, interval>>

-----------------------------------------------------------------------------

\* "other" is any severity outside the enum, which Aggregate provides for.  A
\* status outside its enum would be counted nowhere; no check or runner sets one.
Severities == {"critical", "warning", "info", "other"}
Results == [name : Names, status : {"True", "False", "Unknown"},
            severity : Severities, time : Times]

SeverityRank(s) == IF s = "critical" THEN 3
                   ELSE IF s = "warning" THEN 2
                   ELSE IF s = "info" THEN 1
                   ELSE 0

\* Mutant: a severity outside the enum raises no flag.
KnownSeverityFailed(r) == r.status = "False" /\ r.severity \in {"warning", "info"}

\* The cases of Aggregate's switch.
Failed(r) == r.status = "False" /\ r.severity = "critical"
FailedNonCritical(r) == r.status = "False" /\ r.severity # "critical"
Unknown(r) == r.status = "Unknown"
Passed(r) == r.status = "True"

Count(rs, Is(_)) == Cardinality({i \in DOMAIN rs : Is(rs[i])})
Has(rs, Is(_)) == \E i \in DOMAIN rs : Is(rs[i])

SummaryOf(rs) ==
  [total |-> Len(rs), passed |-> Count(rs, Passed), failed |-> Count(rs, Failed),
   warning |-> Count(rs, FailedNonCritical),
   unknown |-> Count(rs, Unknown)]

\* Mutant: what is unknown is reported before what is known to be amiss.
UnknownFirst(rs) ==
  IF Has(rs, Failed) THEN "Failed"
  ELSE IF Has(rs, Unknown) THEN "Unknown"
  ELSE IF Has(rs, FailedNonCritical) THEN "Warning"
  ELSE "Passed"

DerivePhase(rs) ==
  IF Has(rs, Failed) THEN "Failed"
  ELSE IF Has(rs, FailedNonCritical) THEN "Warning"
  ELSE IF Has(rs, Unknown) THEN "Unknown"
  ELSE "Passed"

\* Mutant: a result replaces one that is just as severe and just as old.
ReplacesEqual(r, existing) ==
  \/ SeverityRank(r.severity) > SeverityRank(existing.severity)
  \/ /\ SeverityRank(r.severity) = SeverityRank(existing.severity)
     /\ r.time >= existing.time

\* Dedupe: the higher severity wins, then the later transition.
Replaces(r, existing) ==
  \/ SeverityRank(r.severity) > SeverityRank(existing.severity)
  \/ /\ SeverityRank(r.severity) = SeverityRank(existing.severity)
     /\ r.time > existing.time

\* byName[r.Name] is set, kept or replaced.
Put(kept, r) ==
  LET existing == {e \in kept : e.name = r.name}
  IN  IF \A e \in existing : Replaces(r, e) THEN (kept \ existing) \cup {r} ELSE kept

SortByType(conds) == SortBy(conds, [c \in conds |-> c.name])

DedupeAndSort(rs) == SortByType(FoldLeft(Put, {}, rs))

Aggregate(rs) ==
  [phase |-> DerivePhase(rs), summary |-> SummaryOf(rs), conditions |-> DedupeAndSort(rs)]

WarningCondition ==
  [name |-> WarningName, status |-> "True", severity |-> "warning", time |-> Now]

\* A condition of that type gives way only to a higher severity.
PutWarning(conds) ==
  LET existing == {c \in ToSet(conds) : c.name = WarningName}
      keep     == \E c \in existing :
                     SeverityRank(c.severity) >= SeverityRank(WarningCondition.severity)
  IN  SortByType(IF keep THEN ToSet(conds)
                 ELSE (ToSet(conds) \ existing) \cup {WarningCondition})

\* Mutant: a condition of the warning's type is there, and the phase is forgotten.
MergeEarlyReturn(out, warning) ==
  IF warning = NoWarning \/ \E i \in DOMAIN out.conditions : out.conditions[i].name = WarningName
  THEN out
  ELSE [phase |-> EscalatePhase(out.phase, "Warning"), summary |-> out.summary,
        conditions |-> PutWarning(out.conditions)]

\* Mutant: the phase is set to Warning whatever it was.
MergeSetsWarning(out, warning) ==
  IF warning = NoWarning THEN out
  ELSE [phase |-> "Warning", summary |-> out.summary,
        conditions |-> PutWarning(out.conditions)]

MergeIntervalWarning(out, warning) ==
  IF warning = NoWarning THEN out
  ELSE [phase |-> EscalatePhase(out.phase, "Warning"), summary |-> out.summary,
        conditions |-> PutWarning(out.conditions)]

Output(rs) == MergeIntervalWarning(Aggregate(rs), NormalizeInterval(interval).warning)

-----------------------------------------------------------------------------

Init == results = <<>> /\ interval \in Intervals

\* runChecks appends the result of one more check.
AppendResult(r) ==
  /\ Len(results) < MaxResults
  /\ results' = Append(results, r)
  /\ UNCHANGED interval

Next == \E r \in Results : AppendResult(r)

Spec == Init /\ [][Next]_vars

-----------------------------------------------------------------------------
(* Properties.                                                             *)

TypeOK == results \in Seq(Results) /\ interval \in Intervals

\* The counters and the phase are computed apart and must tell the same story:
\* every result is counted once, and the phase is that of the worst counter
\* (the switch in Aggregate, derivePhase).
PhaseFitsSummary ==
  LET out == Aggregate(results)
      s   == out.summary
  IN /\ s.total = s.passed + s.failed + s.warning + s.unknown
     /\ (out.phase = "Failed")  <=> (s.failed > 0)
     /\ (out.phase = "Warning") <=> (s.failed = 0 /\ s.warning > 0)
     /\ (out.phase = "Unknown") <=> (s.failed + s.warning = 0 /\ s.unknown > 0)

\* One more result never makes the reader's picture better: the phase stays as
\* it is or gets worse, in the order derivePhase asks its questions.
Badness(phase) == IF phase = "Failed" THEN 3
                  ELSE IF phase = "Warning" THEN 2
                  ELSE IF phase = "Unknown" THEN 1
                  ELSE 0
NeverImproves ==
  [][Badness(DerivePhase(results')) >= Badness(DerivePhase(results))]_vars

\* The condition of a type is the first of its most severe results, the latest
\* of them if they differ in age, however the results are interleaved
\* (dedupeAndSortConditions).
Above(r, s) ==
  \/ SeverityRank(r.severity) > SeverityRank(s.severity)
  \/ SeverityRank(r.severity) = SeverityRank(s.severity) /\ r.time > s.time
WinnersKept ==
  \A n \in Names :
    LET same == {i \in DOMAIN results : results[i].name = n}
        best == {i \in same : \A j \in same : ~Above(results[j], results[i])}
    IN  {c \in ToSet(DedupeAndSort(results)) : c.name = n}
        = {results[i] : i \in {i \in best : \A j \in best : i <= j}}

\* The conditions that are written have one entry per type, in the order of
\* the types, also when the warning meets a condition of its own type; one that
\* reports a critical failure shows in the phase, and so does the warning
\* (Aggregate, mergeIntervalWarning, sortConditionsByType).
ConditionsShowInPhase ==
  LET out == Output(results)
  IN  /\ \A i, j \in DOMAIN out.conditions :
           i < j => out.conditions[i].name < out.conditions[j].name
      /\ (\E c \in ToSet(out.conditions) : Failed(c)) => out.phase = "Failed"
      /\ NormalizeInterval(interval).warning # NoWarning =>
           /\ out.phase \in {"Warning", "Failed"}
           /\ \E c \in ToSet(out.conditions) : c.name = WarningName
                                               /\ SeverityRank(c.severity) >= 2
      /\ out.phase = "Failed" => out.summary.failed > 0

\* RequeueAfter is never zero, which controller-runtime would take as "do not
\* requeue", nor outside the bounds (NormalizeInterval).
RequeueInBounds ==
  NormalizeInterval(interval).interval \in MinInterval .. MaxInterval

\* The user is told exactly when the interval in force is not the one in the
\* spec (NormalizeInterval).
WarnedIffChanged ==
  NormalizeInterval(interval).warning = NoWarning
  <=> \/ interval.kind = "unset"
      \/ interval = Duration(NormalizeInterval(interval).interval)

\* What the comment at mergeIntervalWarning and docs/user/conditions.md say of
\* the merge: Failed and Unknown stay what they are.
UnknownStaysUnknown ==
  DerivePhase(results) = "Unknown" => Output(results).phase = "Unknown"

=============================================================================
