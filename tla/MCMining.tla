---------------------------- MODULE MCMining --------------------------------
(***************************************************************************)
(* Small instances of MiningCore and MiningClaims for TLC.                 *)
(***************************************************************************)
EXTENDS MiningClaims, TLC

CONSTANTS a1, a2, o1, o2, o3, r1, r2

\* The ore of the instances: hex 0 holds o1 (and o2), hex 1 the rest.
Vein2 == (0 :> {o1}) @@ (1 :> {o2})
Vein3 == (0 :> {o1, o2}) @@ (1 :> {o3})

\* Both agents on hex 0, or one agent alone.
SameHome  == (a1 :> 0) @@ (a2 :> 0)
SoloHome  == a1 :> 0

\* Agents placed alike are interchangeable.
Alike == Permutations({a1, a2})
=============================================================================
