---------------------------- MODULE QueueStatus ----------------------------
(* What the master tells its clients of the submissions it tests
   (master/queue/queuestatus/status.go): a holder for each, in a list that has
   the last updated first, so that a client who names the epoch of the last
   status it got is sent what changed since then.

   A submission is what the properties tell of it: whether it is compiled and how
   many test results it has, after the last of which it is tested.  An epoch is a
   UUIDv7, of which the process makes one after the other in increasing order; a
   restarted process has a later clock.                                       *)
EXTENDS Naturals, Sequences

CONSTANTS Submission, MaxTests,
          TestsNumber     \* of the problem of each submission

ASSUME StatusAssumption ==
  MaxTests \in Nat /\ TestsNumber \in [Submission -> 1..MaxTests]

Value == [compiled : BOOLEAN, tests : 0..MaxTests]

NothingYet == [compiled |-> FALSE, tests |-> 0]
Complete(s) == [compiled |-> TRUE, tests |-> TestsNumber[s]]

\* Every field of a submission changes in one direction.
UpTo(u, v) == (u.compiled => v.compiled) /\ u.tests <= v.tests

VARIABLES
  holders,  \* activeSubmissions: the pointer to the submission, and the epoch
  order,    \* submissionsOrderedByUpdate
  clock     \* the last epoch; 0 is the epoch "" of a client without a status

statusVars == <<holders, order, clock>>

\* original: the holder has the pointer it was added with, to the object that the
\* generator writes; otherwise submission is the copy it points to.
Holder == [original : BOOLEAN, submission : Value, lastUpdatedEpoch : Nat]

StatusTypeOK ==
  /\ DOMAIN holders \subseteq Submission
  /\ \A s \in DOMAIN holders : holders[s] \in Holder
  /\ order \in Seq(Submission)
  /\ {order[i] : i \in DOMAIN order} = DOMAIN holders
  /\ \A i, j \in DOMAIN order : order[i] = order[j] => i = j
  /\ clock \in Nat

StatusInit == holders = [s \in {} |-> 0] /\ order = <<>> /\ clock = 0

\* The list without its element k.
WithoutElement(k) ==
  [i \in 1..(Len(order) - 1) |-> order[IF i < k THEN i ELSE i + 1]]

\* listPosition of the holder of s.
IsPosition(k, s) == k \in DOMAIN order /\ order[k] = s

NewHolder(original, v) ==
  [original |-> original, submission |-> v, lastUpdatedEpoch |-> clock + 1]

AddSubmission(s) ==
  /\ holders' = [t \in DOMAIN holders \cup {s} |->
                   IF t = s THEN NewHolder(TRUE, NothingYet) ELSE holders[t]]
  /\ order' = <<s>> \o order
  /\ clock' = clock + 1

\* (Mistake: the element stays where it is in the list.)
UpdateInPlace(s, v) ==
  /\ holders' = [holders EXCEPT ![s] = NewHolder(FALSE, v)]
  /\ UNCHANGED order
  /\ clock' = clock + 1

\* v is the submission that is copied.
UpdateSubmission(s, v) ==
  /\ holders' = [holders EXCEPT ![s] = NewHolder(FALSE, v)]
  /\ \E k \in DOMAIN order :
       IsPosition(k, s) /\ order' = <<s>> \o WithoutElement(k)
  /\ clock' = clock + 1

FinishSubmissionTesting(s) ==
  /\ holders' = [t \in DOMAIN holders \ {s} |-> holders[t]]
  /\ \E k \in DOMAIN order : IsPosition(k, s) /\ order' = WithoutElement(k)
  /\ UNCHANGED clock

\* GetStatus walks the list up to the first holder that is older than prevEpoch.
UpdatedSince(prevEpoch) ==
  {s \in DOMAIN holders :
     \E i \in DOMAIN order :
       /\ order[i] = s
       /\ \A j \in 1..i : holders[order[j]].lastUpdatedEpoch >= prevEpoch}
=============================================================================
