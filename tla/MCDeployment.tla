---------------------------- MODULE MCDeployment ----------------------------
(* Instances of Deployment. *)
EXTENDS Deployment, TLC

Alike == {f @@ g @@ h @@ i @@ j :
            f \in Permutations(Agents), g \in Permutations(Handlers),
            h \in Permutations(Hexes), i \in Permutations(Users),
            j \in Permutations(FakeSigs)}
=============================================================================
