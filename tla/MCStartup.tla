------------------------------ MODULE MCStartup ------------------------------
(***************************************************************************)
(* Small instances of Startup for TLC: the templates a Deployment may have. *)
(***************************************************************************)
EXTENDS Startup

Shipped == [Defaults EXCEPT !.podNamespace = TRUE]  \* deployment.yaml
Unelected == [Shipped EXCEPT !.leaderElect = FALSE]

\* Two leases; guards that look where the pods are, where none are (in the
\* default namespace), and where they may not look ("leases" is not in MayList);
\* and what is an error of configuration.
MCTemplates ==
  {Shipped, [Shipped EXCEPT !.leaseID = "other"],
   Unelected, [Unelected EXCEPT !.podNamespace = FALSE],
   [Unelected EXCEPT !.leaseFlag = "leases"], [Unelected EXCEPT !.replicas = 2],
   [Shipped EXCEPT !.scopeFlag = TRUE], [Shipped EXCEPT !.leaseID = NoLeaseID]}

\* The chart, changed to operator.mode=namespace-scope.
ScopeTemplates == {Shipped, [Shipped EXCEPT !.scopeFlag = TRUE]}

=============================================================================
