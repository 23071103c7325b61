----------------------------- MODULE MCOperator -----------------------------
(***************************************************************************)
(* A small instance of Operator for TLC.                                   *)
(***************************************************************************)
EXTENDS Operator

\* deployment.yaml (no S!Defaults here: its INSTANCE takes these templates)
Shipped == [leaderElect |-> TRUE, replicas |-> 1, leaseFlag |-> "unset",
            leaseID |-> "k-deskflight-operator", podNamespace |-> TRUE, scopeFlag |-> FALSE, revision |-> 0]

NewImage == [Shipped EXCEPT !.revision = 1]
Unelected == [Shipped EXCEPT !.leaderElect = FALSE]

MCTemplates == {Shipped, NewImage, Unelected}
MCInstalled == {Shipped, Unelected}

\* Not to election from without: the two pods of that rollout share nothing but
\* the CR, which is what two pods of Reconciler are about.
MCRollouts == {<<Shipped, NewImage>>, <<NewImage, Shipped>>, <<Shipped, Unelected>>}

=============================================================================
