---------------------------- MODULE MCStatusFeed ----------------------------
(* A submission with two tests, whose results may come in two updates, and one
   with a single test.                                                       *)
EXTENDS StatusFeed, TLC

CONSTANTS s1, s2

MCTestsNumber == s1 :> 2 @@ s2 :> 1
=============================================================================
