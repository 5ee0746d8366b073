----------------------------- MODULE Generator -----------------------------
(***************************************************************************)
(* What a generator (master/queue/jobgenerators/generator.go) promises the *)
(* queue about the jobs of one submission: job 0 compiles it, job k >= 1   *)
(* runs test k.  The compile job is given first and nothing beside it; the *)
(* tests still wanted are given in increasing order and each job once; a   *)
(* result may cancel tests that were not given; the submission is returned *)
(* by the call of JobCompleted that leaves nothing given and nothing       *)
(* wanted, and by no other.  Module Queue uses a generator in this form.   *)
(***************************************************************************)
EXTENDS Naturals

CONSTANT TestsNumber

VARIABLES toGive, given, requiredBy, returned

Init ==
  /\ toGive = 0..TestsNumber
  /\ given = {}
  /\ requiredBy = [k \in 0..TestsNumber |-> {}]
  /\ returned = FALSE

\* NextJob returns job k, which requires some of the jobs given now.
Give(k) ==
  /\ 0 \notin given
  /\ k \in toGive
  /\ \A other \in toGive : k <= other
  /\ toGive' = toGive \ {k}
  /\ given' = given \cup {k}
  /\ \E required \in SUBSET given : requiredBy' = [requiredBy EXCEPT ![k] = required]
  /\ UNCHANGED returned

\* JobCompleted for job k.
Complete(k) ==
  /\ k \in given
  /\ given' = given \ {k}
  /\ \E cancelled \in SUBSET toGive : toGive' = toGive \ cancelled
  /\ returned' = (toGive' \cup given' = {})
  /\ UNCHANGED requiredBy

Next == \E k \in 0..TestsNumber : Give(k) \/ Complete(k)

Spec == Init /\ [][Next]_<<toGive, given, requiredBy, returned>>
=============================================================================
