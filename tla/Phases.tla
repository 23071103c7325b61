------------------------------- MODULE Phases -------------------------------
(***************************************************************************)
(* The phases of an OpenDeskPreflightCheck and the order in which the      *)
(* reconciler escalates them (api/v1alpha1, reconciler.go).                *)
(***************************************************************************)
EXTENDS Integers

\* The phases the CRD enum admits, and the empty phase of a CR never touched.
NoPhase == "none"
Phases == {"Pending", "Running", "Passed", "Warning", "Failed", "Unknown"}

\* The phases isAlreadyReconciled accepts as the end of a run.
TerminalPhases == {"Passed", "Warning", "Failed", "Unknown"}

\* phaseRank: a phase that is not terminal ranks below every terminal one.
PhaseRank(p) == IF p = "Failed"  THEN 4
                ELSE IF p = "Warning" THEN 3
                ELSE IF p = "Unknown" THEN 2
                ELSE IF p = "Passed"  THEN 1
                ELSE 0

\* escalatePhase: the current phase, unless the floor outranks it.
EscalatePhase(current, floor) ==
  IF PhaseRank(current) >= PhaseRank(floor) THEN current ELSE floor

=============================================================================
