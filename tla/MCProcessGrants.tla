-------------------------- MODULE MCProcessGrants --------------------------
(* ProcessGrants on small instances: each scenario says who asks what.     *)
EXTENDS ProcessGrants, TLC

CONSTANTS r1, r2, r3

\* A grant, one that may extend it, and one that extends it too, one after the
\* other or both at once, or that uses, prunes or revokes it.
OneOfEach == (r1 :> {"create"}) @@ (r2 :> {"extend"}) @@
             (r3 :> {"extend", "serve", "list", "revoke"})
=============================================================================
