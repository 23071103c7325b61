------------------------------ MODULE Interval ------------------------------
(***************************************************************************)
(* NormalizeInterval (interval.go): from the text of spec.interval to the  *)
(* RequeueAfter of a reconcile, and a warning when the text was not taken  *)
(* as it is.                                                               *)
(***************************************************************************)
EXTENDS Integers

CONSTANTS DefaultInterval, MinInterval, MaxInterval   \* in seconds

ASSUME IntervalAssumption ==
  /\ DefaultInterval \in Nat /\ MinInterval \in Nat /\ MaxInterval \in Nat
  /\ 0 < MinInterval
  /\ MinInterval <= DefaultInterval /\ DefaultInterval <= MaxInterval

\* What time.ParseDuration makes of the text: it may be absent, no duration
\* (or one that overflows), or any duration, negative ones included.
Unset == [kind |-> "unset", seconds |-> 0]
Unparseable == [kind |-> "unparseable", seconds |-> 0]
Duration(s) == [kind |-> "duration", seconds |-> s]
Texts == [kind : {"unset", "unparseable", "duration"}, seconds : Int]

NoWarning == "none"
Reasons == {"IntervalUnparseable", "IntervalClampedMin", "IntervalClampedMax"}

\* Mutant: a duration below the minimum is let through.
AcceptsShort(raw) ==
  IF raw.kind = "duration" /\ raw.seconds <= MaxInterval
  THEN [interval |-> raw.seconds, warning |-> NoWarning]
  ELSE [interval |-> DefaultInterval, warning |-> "IntervalUnparseable"]

\* Mutant: clamped without a word.
ClampsSilently(raw) ==
  [interval |-> IF raw.kind # "duration" THEN DefaultInterval
                ELSE IF raw.seconds < MinInterval THEN MinInterval
                ELSE IF raw.seconds > MaxInterval THEN MaxInterval
                ELSE raw.seconds,
   warning |-> IF raw.kind = "unparseable" THEN "IntervalUnparseable" ELSE NoWarning]

NormalizeInterval(raw) ==
  IF raw.kind = "unset" THEN [interval |-> DefaultInterval, warning |-> NoWarning]
  ELSE IF raw.kind = "unparseable"
    THEN [interval |-> DefaultInterval, warning |-> "IntervalUnparseable"]
  ELSE IF raw.seconds < MinInterval
    THEN [interval |-> MinInterval, warning |-> "IntervalClampedMin"]
  ELSE IF raw.seconds > MaxInterval
    THEN [interval |-> MaxInterval, warning |-> "IntervalClampedMax"]
  ELSE [interval |-> raw.seconds, warning |-> NoWarning]

=============================================================================
