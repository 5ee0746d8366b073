----------------------------- MODULE MCRegistry -----------------------------
(* Instances of Registry for TLC. *)
EXTENDS Registry, TLC

\* Submissions and addresses are interchangeable.
Symmetry == Permutations(Submission) \cup Permutations(Address)
=============================================================================
