--------------------------- MODULE ICPCGenerator ---------------------------
(***************************************************************************)
(* The generator of an ICPC submission                                     *)
(* (master/queue/jobgenerators/icpc_generator.go).  Several tests run at   *)
(* once and their results come in any order; the verdict is that of the    *)
(* first test that is not OK, and the tests after it are shown as skipped. *)
(*                                                                         *)
(* Around it: an invoker reports a verdict, the registry accepts it (and   *)
(* asks to stop the running jobs that require a failed one, which then     *)
(* report SK), and later the handler passes it to JobCompleted.  Accepted  *)
(* results may overtake each other on the way.                             *)
(***************************************************************************)
EXTENDS Naturals, FiniteSets

CONSTANT TestsNumber   \* Problem.TestsNumber

ASSUME TestsNumberAssumption == TestsNumber \in Nat

Test == 1..TestsNumber
Job == 0..TestsNumber   \* 0 is the compile job

\* WA stands for all the verdicts that are treated as it is, "??" for those
\* the generator does not expect.
CompileVerdict == {"CD", "CE", "CF", "??"}
TestVerdict == {"OK", "PT", "WA", "SK", "CF", "??"}

None == "none"   \* no verdict yet

VARIABLES
  state,                \* compilationNotStarted, Started, Finished
  firstTestToGive,
  testedPrefixLength,
  givenJobs,
  requiredJobIDs,       \* Job.RequiredJobIDs of the jobs given
  internalTestResults,  \* verdicts kept for the tests, None if absent
  verdict,              \* submission.Verdict
  testResults,          \* submission.TestResults: verdicts of tests 1, 2, ...
  returned,             \* the last JobCompleted returned the submission
  reported              \* what the registry accepted from invokers, by job

generatorVars == <<state, firstTestToGive, testedPrefixLength, givenJobs, requiredJobIDs,
                   internalTestResults, verdict, testResults, returned>>
vars == <<generatorVars, reported>>

Init ==
  /\ state = "notStarted"
  /\ firstTestToGive = 1
  /\ testedPrefixLength = 0
  /\ givenJobs = {}
  /\ requiredJobIDs = [k \in Job |-> {}]
  /\ internalTestResults = [k \in Test |-> None]
  /\ verdict = "RU"
  /\ testResults = <<>>
  /\ returned = FALSE
  /\ reported = [k \in Job |-> None]

----------------------------------------------------------------------------
(* NextJob                                                                  *)

GiveCompileJob ==
  /\ state = "notStarted"
  /\ state' = "started"
  /\ givenJobs' = givenJobs \cup {0}
  /\ UNCHANGED <<firstTestToGive, testedPrefixLength, requiredJobIDs, internalTestResults,
                 verdict, testResults, returned, reported>>

\* (Mistake: tests are given while the compile job runs.)
MayGiveTestsEarly == state # "notStarted"

MayGiveTests == state = "finished"

\* (Mistake: off by one.)
AllButLastAreLeft == firstTestToGive < TestsNumber

TestsAreLeft == firstTestToGive <= TestsNumber

GiveTest ==
  /\ MayGiveTests
  /\ TestsAreLeft
  /\ givenJobs' = givenJobs \cup {firstTestToGive}
  /\ requiredJobIDs' = [requiredJobIDs EXCEPT ![firstTestToGive] = givenJobs]
  /\ firstTestToGive' = firstTestToGive + 1
  /\ UNCHANGED <<state, testedPrefixLength, internalTestResults, verdict, testResults,
                 returned, reported>>

----------------------------------------------------------------------------
(* updateSubmissionResult                                                   *)

\* With the results rs the tested prefix is 1..p: it ends before the first test
\* without a result.
IsTestedPrefix(p, rs) ==
  /\ \A k \in (testedPrefixLength + 1)..p : rs[k] # None
  /\ p < TestsNumber => rs[p + 1] = None

\* (Mistake: a submission that has its verdict fails again.)
IsFirstFailureAgain(f, v, new, rs) == rs[f] # "OK" /\ \A k \in new : k < f => rs[k] = "OK"

\* Test f of the new part of the prefix decides the verdict.
IsFirstFailure(f, v, new, rs) ==
  v = "RU" /\ rs[f] # "OK" /\ \A k \in new : k < f => rs[k] = "OK"

\* The verdict shown for it: a test is not skipped for no reason.
Shown(v) == IF v = "SK" THEN "CF" ELSE v

\* The results shown of the tests 1..p, the later ones skipped after a failure.
ShownResults(v, p, rs) ==
  [k \in 1..p |->
     IF k <= testedPrefixLength THEN testResults[k]
     ELSE IF v # "RU" \/ \E i \in (testedPrefixLength + 1)..(k - 1) : rs[i] # "OK"
     THEN "SK" ELSE Shown(rs[k])]

\* updateSubmissionResult when submission.Verdict is v and the results are rs.
UpdateSubmissionResult(v, rs) ==
  \E p \in testedPrefixLength..TestsNumber :
    LET new == (testedPrefixLength + 1)..p
    IN  /\ IsTestedPrefix(p, rs)
        /\ testedPrefixLength' = p
        /\ testResults' = ShownResults(v, p, rs)
        /\ returned' = (p = TestsNumber)
        /\ \/ /\ v # "RU" \/ \A k \in new : rs[k] = "OK"
              /\ verdict' = IF v = "RU" /\ p = TestsNumber THEN "OK" ELSE v
              /\ internalTestResults' = rs
           \/ \E f \in new :
                /\ IsFirstFailure(f, v, new, rs)
                /\ verdict' = Shown(rs[f])
                /\ internalTestResults' = [k \in Test |-> IF k = f THEN Shown(rs[k]) ELSE rs[k]]

----------------------------------------------------------------------------
(* JobCompleted                                                             *)

\* (Mistake: tests that still run are skipped, too.)
FailedResultsAll(rs) == [k \in Test |-> IF rs[k] = None THEN "SK" ELSE rs[k]]

\* setFail: the tests not given yet are skipped.
FailedResults(rs) == [k \in Test |-> IF k >= firstTestToGive THEN "SK" ELSE rs[k]]

AfterFail == IF TestsAreLeft THEN TestsNumber + 1 ELSE firstTestToGive

CompileJobCompleted ==
  /\ 0 \in givenJobs
  /\ reported[0] # None
  /\ givenJobs' = givenJobs \ {0}
  /\ state' = "finished"
  /\ IF reported[0] = "CD"
     THEN /\ UpdateSubmissionResult(verdict, internalTestResults)
          /\ UNCHANGED firstTestToGive
     ELSE /\ UpdateSubmissionResult(IF reported[0] = "CE" THEN "CE" ELSE "CF",
                                    FailedResults(internalTestResults))
          /\ firstTestToGive' = AfterFail
  /\ UNCHANGED <<requiredJobIDs, reported>>

TestJobCompleted(k) ==
  LET v == IF reported[k] = "??" THEN "CF" ELSE reported[k]
      rs == IF v = "OK" THEN internalTestResults ELSE FailedResults(internalTestResults)
  IN  /\ k \in givenJobs
      /\ reported[k] # None
      /\ givenJobs' = givenJobs \ {k}
      /\ firstTestToGive' = IF v = "OK" THEN firstTestToGive ELSE AfterFail
      /\ UpdateSubmissionResult(verdict, [rs EXCEPT ![k] = v])
      /\ UNCHANGED <<state, requiredJobIDs, reported>>

----------------------------------------------------------------------------
(* The registry and the invokers.                                           *)

\* StopJob is called for a running job when one it requires was reported with
\* another verdict than OK and PT.
IsStopped(k) == \E r \in requiredJobIDs[k] : reported[r] \notin {None, "OK", "PT"}

AcceptResult(k) ==
  /\ k \in givenJobs
  /\ reported[k] = None
  /\ \E v \in IF k = 0 THEN CompileVerdict ELSE TestVerdict :
       /\ v = "SK" => IsStopped(k)
       /\ reported' = [reported EXCEPT ![k] = v]
  /\ UNCHANGED generatorVars

NextJob == GiveCompileJob \/ GiveTest

JobCompleted == CompileJobCompleted \/ \E k \in Test : TestJobCompleted(k)

Next == NextJob \/ JobCompleted \/ \E k \in Job : AcceptResult(k)

\* The registry keeps asking for jobs, every job given gets a result, and the
\* handlers that pass results on do not stop.
Fairness == WF_vars(NextJob) /\ WF_vars(JobCompleted) /\ \A k \in Job : WF_vars(AcceptResult(k))

Spec == Init /\ [][Next]_vars

FairSpec == Spec /\ Fairness

----------------------------------------------------------------------------
(* Correctness.                                                             *)

Verdict == {"RU", "CE"} \cup (TestVerdict \ {"??", "SK"})

TypeOK ==
  /\ state \in {"notStarted", "started", "finished"}
  /\ firstTestToGive \in 1..(TestsNumber + 1)
  /\ testedPrefixLength \in 0..TestsNumber
  /\ givenJobs \subseteq Job
  /\ requiredJobIDs \in [Job -> SUBSET Job]
  /\ internalTestResults \in [Test -> (TestVerdict \ {"??"}) \cup {None}]
  /\ verdict \in Verdict
  /\ testResults \in [1..testedPrefixLength -> TestVerdict \ {"??"}]
  /\ returned \in BOOLEAN
  /\ reported \in [Job -> CompileVerdict \cup TestVerdict \cup {None}]

\* The verdict a submission deserves by what the invokers reported, read in the
\* order of the tests: that of the compilation, else of the first test that is
\* not OK.
Deserved(v) == IF v = "??" THEN "CF" ELSE v
IsFirstFailed(k) == reported[k] # "OK" /\ \A i \in 1..(k - 1) : reported[i] = "OK"
IsDeserved(v) ==
  IF reported[0] # "CD" THEN v = Deserved(reported[0])
  ELSE \/ v = "OK" /\ \A k \in Test : reported[k] = "OK"
       \/ \E k \in Test : IsFirstFailed(k) /\ v = Deserved(reported[k])

\* Whatever order the results of the tests come in and however many are still
\* running or were stopped, the final verdict is the deserved one; in particular
\* a test that was only stopped is never blamed (CF).
VerdictIsDeserved == returned => IsDeserved(verdict)

\* What was shown to clients stays: a bad verdict is not replaced (the "change
\* bad verdict" panic), the results of tests are only added to.
ShownIsFinal ==
  [][/\ verdict # "RU" => verdict' = verdict
     /\ testedPrefixLength <= testedPrefixLength'
     /\ \A k \in 1..testedPrefixLength : testResults'[k] = testResults[k]]_vars

\* After the generator learnt of a failed test it gives no further one.
NothingGivenAfterFailure ==
  [][(\E k \in Test \ givenJobs : reported[k] \notin {None, "OK"})
       => givenJobs' \subseteq givenJobs]_vars

\* The submission is returned in the end.
IsReturned == <>returned

\* The generator keeps the promises of module Generator to the queue.
toGive == IF state = "notStarted" THEN Job ELSE firstTestToGive..TestsNumber

Contract == INSTANCE Generator WITH given <- givenJobs, requiredBy <- requiredJobIDs

KeepsContract == Contract!Spec
=============================================================================
