------------------------- MODULE MCStandingGrants --------------------------
(* StandingGrants on small instances: each scenario says who asks what.    *)
EXTENDS StandingGrants, TLC

CONSTANTS g1, g2, r1, r2, r3, r4

\* A grant is made while an old one is used, revoked, or the service stops.
CreateRevokeServe == (r1 :> {"create"}) @@ (r2 :> {"revoke"}) @@
                     (r3 :> {"serve"}) @@ (r4 :> {"stop"})
\* One old grant: with two faults RevokedIsNeverServed fails here (README).
RevokeServe == (r1 :> {"revoke"}) @@ (r2 :> {"serve"})
\* A grant is made while an old one is used.
CreateServe == (r1 :> {"create"}) @@ (r2 :> {"serve"})
=============================================================================
