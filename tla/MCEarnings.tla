----------------------------- MODULE MCEarnings -----------------------------
(* Instances of EarningsClaims: two users, one of them with an agent that is not
   in the cache. *)
EXTENDS EarningsClaims, TLC

CONSTANTS u1, u2

OneOutside == u1 :> 2 @@ u2 :> 0
Alike == {f @@ g : f \in Permutations(Monitors), g \in Permutations(Confirms)}
=============================================================================
