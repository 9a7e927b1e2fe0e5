-------------------------------- MODULE MCToken --------------------------------
(* Two processes, and two bots that have one id on two hosts.              *)
EXTENDS TokenCache, TLC

CONSTANTS p1, p2, b1, b2

MCHostOf == (b1 :> "host1") @@ (b2 :> "host2")
MCIdOf   == (b1 :> "id") @@ (b2 :> "id")
Symmetry == Permutations({p1, p2})
=============================================================================
