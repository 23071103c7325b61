----------------------------- MODULE MCPipeline -----------------------------
(***************************************************************************)
(* A small instance of Pipeline, and with it of CheckRunner, for TLC:      *)
(* three checks that share permissions, and one that was selected without  *)
(* a spec.                                                                 *)
(***************************************************************************)
EXTENDS Pipeline, TLC

CONSTANTS c1, c2, c3, bare, pa, pb

MCChecks == {c1, c2, c3, bare}
MCConfigured == {c1, c2, c3}
MCPermissions == {pa, pb}
MCActive == <<c2, c1, bare, c3>>
MCRequired ==
  (c1 :> <<pa>>) @@ (c2 :> <<pb, pa>>) @@ (c3 :> <<>>) @@ (bare :> <<>>)
MCTypeOf == (c1 :> 1) @@ (c2 :> 2) @@ (c3 :> 3) @@ (bare :> 4)

=============================================================================
