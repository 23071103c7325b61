---------------------------- MODULE MCAggregation ----------------------------
(***************************************************************************)
(* A small instance of Aggregation for TLC: the bounds of interval.go, two *)
(* condition types of which one is that of the warning.                    *)
(***************************************************************************)
EXTENDS Aggregation

\* Every edge of the bounds, from both sides.
MCIntervals ==
  {Unset, Unparseable} \cup
  {Duration(s) : s \in {-300, 0, 29, 30, 31, 300, 86399, 86400, 86401}}

\* One interval that is taken, one that is not.
MCTwoIntervals == {Duration(600), Duration(1)}

=============================================================================
