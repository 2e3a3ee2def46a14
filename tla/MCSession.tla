----------------------------- MODULE MCSession -----------------------------
(* Session on small instances: a handful of requests that each ask once.   *)
EXTENDS Session, TLC

MCBackoff == <<1, 2>>
MCSymmetry == Permutations(Requests)
=============================================================================
