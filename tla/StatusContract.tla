--------------------------- MODULE StatusContract ---------------------------
(***************************************************************************)
(* What a client of an OpenDeskPreflightCheck (a person with kubectl, a    *)
(* pipeline that waits for phase Passed) may rely on when it reads the     *)
(* status, with nothing said of caches, queues, conflicts or pods.  The    *)
(* operator judges each generation at most once; until then it may only    *)
(* show progress beside the verdict on an older generation.                *)
(***************************************************************************)
EXTENDS Phases

CONSTANTS Specs, NoSpec,
          RejectedSpecs, \* those no check is run for
          WarnedSpecs    \* those whose interval is not the one in force

VARIABLES exists, uid, gen, spec, \* the object
          phase, observed,        \* status.phase, status.observedGeneration
          verdict                 \* what conditions and summary are about

card == <<exists, uid, gen, spec, phase, observed, verdict>>

NoVerdict == [uid |-> 0, gen |-> 0, phase |-> NoPhase, ground |-> "none"]

Blank == phase = NoPhase /\ observed = 0 /\ verdict = NoVerdict

\* observedGeneration is up to date: what is shown is the verdict on spec.
Judged == observed = gen

Init == ~exists /\ uid = 0 /\ gen = 0 /\ spec = NoSpec /\ Blank

Create(s) ==
  /\ ~exists
  /\ exists' /\ uid' = uid + 1 /\ gen' = 1 /\ spec' = s /\ Blank'

EditSpec(s) ==
  /\ exists
  /\ gen' = gen + 1 /\ spec' = s
  /\ UNCHANGED <<exists, uid, phase, observed, verdict>>

Delete ==
  /\ exists
  /\ ~exists' /\ uid' = uid /\ gen' = 0 /\ spec' = NoSpec /\ Blank'

\* Only the phase moves: conditions and summary stay those of the verdict.
ShowProgress(to) ==
  /\ exists /\ ~Judged
  /\ phase' = to
  /\ UNCHANGED <<exists, uid, gen, spec, observed, verdict>>

\* The grounds a verdict can have.  Results of checks that were cut short are
\* none.  Passed needs checks that ran, and an interval that is in force.
Grounded(ground, to) ==
  /\ ground = "checks"   => spec \notin RejectedSpecs
  /\ ground = "rejected" => spec \in RejectedSpecs /\ to = "Failed"
  /\ to = "Passed"       => ground = "checks" /\ spec \notin WarnedSpecs

Judge(ground, to) ==
  /\ exists /\ ~Judged
  /\ Grounded(ground, to)
  /\ phase' = to /\ observed' = gen
  /\ verdict' = [uid |-> uid, gen |-> gen, phase |-> to, ground |-> ground]
  /\ UNCHANGED <<exists, uid, gen, spec>>

Next ==
  \/ \E s \in Specs : Create(s) \/ EditSpec(s)
  \/ Delete
  \/ \E to \in {"Pending", "Running"} : ShowProgress(to)
  \/ \E ground \in {"checks", "rejected", "panic"}, to \in TerminalPhases : Judge(ground, to)

Spec == Init /\ [][Next]_card

=============================================================================
