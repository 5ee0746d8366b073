----------------------------- MODULE MCCluster -----------------------------
(* Instances of Cluster for TLC. *)
EXTENDS Cluster, TLC

Symmetry == Permutations(Submission) \cup Permutations(Address)
=============================================================================
