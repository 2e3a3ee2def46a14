------------------------------- MODULE MCGate -------------------------------
(* Gate on small instances: each scenario says who asks for what.          *)
EXTENDS Gate, TLC

CONSTANTS r1, r2, r3, classA, classB, tool, shell, other

MCBackoff == <<1, 2>>

\* Two tools on one class, the second perhaps a run that is trusted and that
\* the first descends from; a third client locks or unlocks.
ConsentOps == (r1 :> {"unwrap"}) @@ (r2 :> {"unwrap", "trust"}) @@
              (r3 :> {"lock", "unlock"})
OneClass == [r \in Requests |-> classA]
Apart == (r1 :> tool) @@ (r2 :> shell) @@ (r3 :> other)
ToolOfRun == {<<r1, r2>>}
NoTrees == {}

\* An unlock is refused, a tool is approved while the vault stays locked, and
\* then the vault is unlocked.
BeforeOps == (r1 :> {"unwrap"}) @@ (r2 :> {"unlock"}) @@ (r3 :> {"unlock"})

\* A process reads the AWS sign-in and fills the cache, one after the other or
\* both at once; another unwraps it too, reads the cache, clears it, or locks.
AwsOps == (r1 :> {"unwrap"}) @@ (r2 :> {"awsput"}) @@
          (r3 :> {"unwrap", "awsget", "awsclear", "lock"})
FillAndRead == (r1 :> tool) @@ (r2 :> tool) @@ (r3 :> other)
=============================================================================
