---------------------------- MODULE IOIGenerator ----------------------------
(***************************************************************************)
(* The generator of an IOI submission                                      *)
(* (master/queue/jobgenerators/ioi_generator.go).  Tests form groups that  *)
(* are scored in three ways and may require earlier groups.  A bad test    *)
(* does two things at different times: when its result comes, no further   *)
(* test of its group and of the groups that require it is given; when all  *)
(* tests before it are known, the rest of these groups is shown skipped.   *)
(* The two must agree, whatever order the results come in.                 *)
(*                                                                         *)
(* As in ICPCGenerator, an invoker reports a result, the registry accepts  *)
(* it, and later it is passed to JobCompleted.  Scores are integers.       *)
(***************************************************************************)
EXTENDS Integers, Sequences, FiniteSetsExt

CONSTANTS
  Groups,         \* Problem.TestGroups: records with first, last (tests),
                  \* scoring, score (GroupScore or TestScore), required (groups)
  PartialPoints   \* the points checkers give with the verdict PT

GroupIndex == 1..Len(Groups)

TestsNumber == IF Groups = <<>> THEN 0 ELSE Groups[Len(Groups)].last

Test == 1..TestsNumber
Job == 0..TestsNumber   \* 0 is the compile job

TestGroup == [first : Nat, last : Nat, scoring : {"Complete", "EachTest", "Min"},
              score : Nat, required : SUBSET Nat]

\* What prepareGenerator and checkIfGroupsDependenciesOK accept.
GroupsAreOK ==
  /\ Groups \in Seq(TestGroup)
  /\ \A g \in GroupIndex :
       /\ Groups[g].first = IF g = 1 THEN 1 ELSE Groups[g - 1].last + 1
       /\ Groups[g].first <= Groups[g].last
       /\ Groups[g].required \subseteq {h \in 1..(g - 1) : Groups[h].scoring = "Complete"}

ASSUME GroupsAssumption == GroupsAreOK /\ PartialPoints \subseteq Nat

Tests(g) == Groups[g].first .. Groups[g].last

GroupOf == [k \in Test |-> CHOOSE g \in GroupIndex : k \in Tests(g)]

\* The groups that g requires, those they require, ...
Needed[g \in GroupIndex] ==
  Groups[g].required \cup UNION {Needed[h] : h \in Groups[g].required}

\* Group g and the groups that a failure of g reaches.
Dependents == [g \in GroupIndex |-> {h \in GroupIndex : h = g \/ g \in Needed[h]}]

None == "none"
NoPoints == -1   \* a nil pointer

\* "WA" stands for all the verdicts that are treated as it is.
CompileVerdict == {"CD", "CE", "CF"}

Result(v, p) == [verdict |-> v, points |-> p]

\* What invokers report for a test: only PT comes with points.
TestResult ==
  {Result(v, NoPoints) : v \in {"OK", "WA", "CF", "SK"}}
    \cup {Result("PT", p) : p \in PartialPoints}

VARIABLES
  state,                         \* notStarted, started, finished (the compilation)
  firstNotGivenTest,
  givenJobs,
  requiredJobIDs,                \* Job.RequiredJobIDs of the jobs given
  shouldGiveNewJobs,             \* the groups with this flag
  shouldMarkFinalTestsSkipped,   \* the groups with this flag
  testState,                     \* notGiven, running, finished
  internalTestResults,
  testResults,                   \* submission.TestResults, of the first tests
  groupResults,                  \* submission.GroupResults, of the first groups
  verdict,                       \* submission.Verdict
  score,                         \* submission.Score
  returned,                      \* the last JobCompleted returned the submission
  crashed,                       \* logger.Panic was called: the master stops
  reported                       \* what the registry accepted from invokers, by job

givingVars == <<state, firstNotGivenTest, givenJobs, requiredJobIDs, shouldGiveNewJobs>>
resultVars == <<shouldMarkFinalTestsSkipped, testResults, groupResults, verdict, score,
                returned, crashed>>
generatorVars == <<givingVars, testState, internalTestResults, resultVars>>
vars == <<generatorVars, reported>>

\* NewIOIGenerator
Init ==
  /\ state = "notStarted"
  /\ firstNotGivenTest = 1
  /\ givenJobs = {}
  /\ requiredJobIDs = [k \in Job |-> {}]
  /\ shouldGiveNewJobs = GroupIndex
  /\ shouldMarkFinalTestsSkipped = {}
  /\ testState = [k \in Test |-> "notGiven"]
  /\ internalTestResults = [k \in Test |-> Result("RU", NoPoints)]
  /\ testResults = <<>>
  /\ groupResults = <<>>
  /\ verdict = "RU"
  /\ score = 0
  /\ returned = FALSE
  /\ crashed = FALSE
  /\ reported = [k \in Job |-> Result(None, NoPoints)]

----------------------------------------------------------------------------
(* NextJob                                                                  *)

GiveCompileJob ==
  /\ state = "notStarted"
  /\ state' = "started"
  /\ givenJobs' = givenJobs \cup {0}
  /\ UNCHANGED <<firstNotGivenTest, requiredJobIDs, shouldGiveNewJobs, testState,
                 internalTestResults, resultVars, reported>>

DoesGroupDependOnJob(g, k) ==
  \/ GroupOf[k] = g /\ Groups[g].scoring # "EachTest"
  \/ GroupOf[k] \in Groups[g].required

\* Tests of groups that need no jobs are passed over, up to the test last.
PassOver(last) ==
  /\ \A i \in firstNotGivenTest..last : GroupOf[i] \notin shouldGiveNewJobs
  /\ firstNotGivenTest <= TestsNumber
  /\ state = "finished"

GiveTest(k) ==
  /\ firstNotGivenTest <= k
  /\ PassOver(k - 1)
  /\ GroupOf[k] \in shouldGiveNewJobs
  /\ testState' = [i \in Test |-> IF i = k THEN "running"
                                  ELSE IF i \in firstNotGivenTest..k THEN "finished"
                                  ELSE testState[i]]
  /\ requiredJobIDs' = [requiredJobIDs EXCEPT ![k] =
                          {j \in givenJobs : DoesGroupDependOnJob(GroupOf[k], j)}]
  /\ givenJobs' = givenJobs \cup {k}
  /\ firstNotGivenTest' = k + 1
  /\ UNCHANGED <<state, shouldGiveNewJobs, internalTestResults, resultVars, reported>>

\* No test is left to give.
GiveNothing ==
  /\ PassOver(TestsNumber)
  /\ testState' = [i \in Test |-> IF i >= firstNotGivenTest THEN "finished" ELSE testState[i]]
  /\ firstNotGivenTest' = TestsNumber + 1
  /\ UNCHANGED <<state, givenJobs, requiredJobIDs, shouldGiveNewJobs, internalTestResults,
                 resultVars, reported>>

NextJob == GiveCompileJob \/ (\E k \in Test : GiveTest(k)) \/ GiveNothing

----------------------------------------------------------------------------
(* updateSubmissionResult: marked and rs are shouldMarkFinalTestsSkipped    *)
(* and the internal results, states those of the tests, v the verdict.      *)

\* (Mistake: points are no reason to fail a group.)
PreventsTestingUnlessPoints(g, v) == Groups[g].scoring # "EachTest" /\ v \notin {"OK", "PT"}

DoesTestPreventTestingGroup(g, v) ==
  \/ Groups[g].scoring = "Complete" /\ v # "OK"
  \/ Groups[g].scoring = "Min" /\ v \notin {"OK", "PT"}

\* The groups marked when the loop comes to test k.
MarkedBefore(k, marked, rs) ==
  marked \cup UNION {Dependents[GroupOf[i]] :
    i \in {i \in (Len(testResults) + 1)..(k - 1) :
             DoesTestPreventTestingGroup(GroupOf[i], rs[i].verdict)}}

\* The result shown of test k: a test is not skipped for no reason.
Shown(k, marked, rs) ==
  IF k <= Len(testResults) THEN testResults[k]
  ELSE IF GroupOf[k] \in MarkedBefore(k, marked, rs) THEN Result("SK", NoPoints)
  ELSE IF rs[k].verdict = "SK" THEN Result("CF", rs[k].points)
  ELSE rs[k]

\* (Mistake: a test that will never be given holds up those after it.)
CanPassFinished(k, marked, rs, states) == states[k] = "finished"

CanPass(k, marked, rs, states) ==
  \/ states[k] = "finished"
  \/ states[k] = "notGiven" /\ GroupOf[k] \in MarkedBefore(k, marked, rs)

\* completeGroupTesting panics when a test of the group has no points.
Panics(k, marked, rs) ==
  LET g == GroupOf[k]
  IN  /\ k = Groups[g].last
      /\ k > Len(testResults)
      /\ \E i \in Tests(g) :
           /\ Shown(i, marked, rs).points = NoPoints
           /\ \/ Groups[g].scoring = "EachTest"
              \/ Groups[g].scoring = "Min" /\ Shown(i, marked, rs).verdict # "SK"

IsTestedPrefix(p, marked, rs, states) ==
  /\ \A k \in (Len(testResults) + 1)..p : CanPass(k, marked, rs, states)
  /\ \A k \in (Len(testResults) + 1)..(p - 1) : ~ Panics(k, marked, rs)
  /\ p < TestsNumber => \/ ~ CanPass(p + 1, marked, rs, states)
                        \/ p > 0 /\ Panics(p, marked, rs)

\* (Mistake: a skipped test does not lower the score.)
GroupResultOfTested(g, shown) ==
  LET passed == \A k \in Tests(g) : shown[k].verdict = "OK"
      points == IF Groups[g].scoring = "Complete" THEN (IF passed THEN Groups[g].score ELSE 0)
                ELSE IF Groups[g].scoring = "EachTest"
                THEN SumFunction([k \in Tests(g) |-> shown[k].points])
                ELSE Min({Groups[g].score} \cup
                         {shown[k].points : k \in {k \in Tests(g) : shown[k].verdict # "SK"}})
  IN  [points |-> points, passed |-> passed]

\* completeGroupTesting: the result of group g when the tests are shown so.
GroupResult(g, shown) ==
  LET passed == \A k \in Tests(g) : shown[k].verdict = "OK"
      points == IF Groups[g].scoring = "Complete" THEN (IF passed THEN Groups[g].score ELSE 0)
                ELSE IF Groups[g].scoring = "EachTest"
                THEN SumFunction([k \in Tests(g) |-> shown[k].points])
                ELSE Min({Groups[g].score} \cup
                         {IF shown[k].verdict = "SK" THEN 0 ELSE shown[k].points : k \in Tests(g)})
  IN  [points |-> points, passed |-> passed]

\* (Mistake: the verdict of a test is taken as it is.)
FinalVerdictAsIs(v, shown) ==
  LET bad == {k \in Test : shown[k].verdict \notin {"OK", "SK"}}
  IN  IF v # "RU" THEN v ELSE IF bad = {} THEN "OK" ELSE shown[Max(bad)].verdict

\* setFinalScoreAndVerdict: the last test that is neither OK nor skipped decides.
FinalVerdict(v, shown) ==
  LET bad == {k \in Test : shown[k].verdict \notin {"OK", "SK"}}
  IN  IF v # "RU" THEN v
      ELSE IF bad = {} THEN "OK"
      ELSE IF shown[Max(bad)].verdict = "CF" THEN "CF" ELSE "PT"

UpdateSubmissionResult(v, marked, rs, states) ==
  \E p \in Len(testResults)..TestsNumber :
    LET shown == [k \in 1..p |-> Shown(k, marked, rs)]
        panics == p > 0 /\ Panics(p, marked, rs)
        completed == {g \in GroupIndex : Groups[g].last <= p - (IF panics THEN 1 ELSE 0)}
        results == [g \in 1..Cardinality(completed) |->
                      IF g <= Len(groupResults) THEN groupResults[g] ELSE GroupResult(g, shown)]
        isTested == p = TestsNumber /\ ~ panics /\ givenJobs' = {}
    IN  /\ IsTestedPrefix(p, marked, rs, states)
        /\ shouldMarkFinalTestsSkipped' = MarkedBefore(p + 1, marked, rs)
        /\ testResults' = shown
        /\ groupResults' = results
        /\ crashed' = panics
        /\ returned' = isTested
        /\ verdict' = IF isTested THEN FinalVerdict(v, shown) ELSE v
        /\ score' = IF isTested THEN SumFunction([g \in GroupIndex |-> results[g].points])
                    ELSE score

----------------------------------------------------------------------------
(* JobCompleted                                                             *)

\* A submission that is not compiled is left in the state of compilation.
CompileJobCompleted ==
  /\ 0 \in givenJobs
  /\ reported[0].verdict # None
  /\ givenJobs' = givenJobs \ {0}
  /\ IF reported[0].verdict = "CD"
     THEN /\ state' = "finished"
          /\ UpdateSubmissionResult(verdict, shouldMarkFinalTestsSkipped,
                                    internalTestResults, testState)
     ELSE /\ UNCHANGED state
          /\ UpdateSubmissionResult(reported[0].verdict, GroupIndex,
                                    internalTestResults, testState)
  /\ UNCHANGED <<firstNotGivenTest, requiredJobIDs, shouldGiveNewJobs, testState,
                 internalTestResults, reported>>

\* populateTestJobResult and its error path.
Populated(g, r) ==
  IF Groups[g].scoring = "Complete" \/ r.points # NoPoints THEN r
  ELSE IF r.verdict = "OK" THEN Result("OK", Groups[g].score)
  ELSE IF r.verdict = "PT" THEN Result("CF", NoPoints)
  ELSE Result(r.verdict, 0)

\* (Mistake: only the group itself gets no more jobs.)
StopGivingOwn(g, v) ==
  IF DoesTestPreventTestingGroup(g, v) THEN shouldGiveNewJobs \ {g} ELSE shouldGiveNewJobs

\* (Mistake: a good test clears the flags.)
StopGivingForgets(g, v) ==
  IF DoesTestPreventTestingGroup(g, v) THEN shouldGiveNewJobs \ Dependents[g] ELSE GroupIndex

\* stopGivingNewTestsIfNeeded: the groups that still get jobs.
StopGivingNewTestsIfNeeded(g, v) ==
  IF DoesTestPreventTestingGroup(g, v) THEN shouldGiveNewJobs \ Dependents[g]
  ELSE shouldGiveNewJobs

TestJobCompleted(k) ==
  LET g == GroupOf[k]
      r == Populated(g, reported[k])
  IN  /\ k \in givenJobs
      /\ reported[k].verdict # None
      /\ givenJobs' = givenJobs \ {k}
      /\ internalTestResults' = [internalTestResults EXCEPT ![k] = r]
      /\ testState' = [testState EXCEPT ![k] = "finished"]
      /\ shouldGiveNewJobs' = StopGivingNewTestsIfNeeded(g, r.verdict)
      /\ UpdateSubmissionResult(verdict, shouldMarkFinalTestsSkipped,
                                internalTestResults', testState')
      /\ UNCHANGED <<state, firstNotGivenTest, requiredJobIDs, reported>>

JobCompleted == CompileJobCompleted \/ \E k \in Test : TestJobCompleted(k)

----------------------------------------------------------------------------
(* The registry and the invokers.                                           *)

\* StopJob is called for a running job when one it requires was reported with
\* another verdict than OK and PT.
IsStopped(k) == \E r \in requiredJobIDs[k] : reported[r].verdict \notin {None, "OK", "PT"}

AcceptResult(k) ==
  /\ k \in givenJobs
  /\ reported[k].verdict = None
  /\ \E r \in IF k = 0 THEN {Result(v, NoPoints) : v \in CompileVerdict} ELSE TestResult :
       /\ r.verdict = "SK" => IsStopped(k)
       /\ reported' = [reported EXCEPT ![k] = r]
  /\ UNCHANGED generatorVars

\* After a panic the master shuts down.
Next ==
  /\ ~ crashed
  /\ NextJob \/ JobCompleted \/ \E k \in Job : AcceptResult(k)

\* As in ICPCGenerator.
Fairness ==
  /\ WF_vars(~ crashed /\ NextJob)
  /\ WF_vars(~ crashed /\ JobCompleted)
  /\ \A k \in Job : WF_vars(~ crashed /\ AcceptResult(k))

Spec == Init /\ [][Next]_vars

FairSpec == Spec /\ Fairness

----------------------------------------------------------------------------
(* Correctness.                                                             *)

TypeOK ==
  /\ state \in {"notStarted", "started", "finished"}
  /\ firstNotGivenTest \in 1..(TestsNumber + 1)
  /\ givenJobs \subseteq Job
  /\ \A k \in Job : requiredJobIDs[k] \subseteq 1..(k - 1)
  /\ shouldGiveNewJobs \cup shouldMarkFinalTestsSkipped \subseteq GroupIndex
  /\ \A k \in Test : testState[k] = "running" <=> k \in givenJobs
  /\ Len(testResults) <= TestsNumber
  /\ Len(groupResults) <= Len(Groups)
  /\ verdict \in {"RU", "OK", "PT", "CE", "CF"}
  /\ score \in Nat

\* What was reported of test k fails its group.
FailsGroup(k) ==
  LET passing == [Complete |-> {"OK"}, Min |-> {"OK", "PT"}, EachTest |-> {reported[k].verdict}]
  IN  reported[k].verdict \notin {None} \cup passing[Groups[GroupOf[k]].scoring]

\* Test k does not count: its group or one that it needs failed at an earlier test.
IsSkipped(k) == \E i \in 1..(k - 1) : FailsGroup(i) /\ GroupOf[k] \in Dependents[GroupOf[i]]

DeservedVerdict(k) ==
  IF reported[0].verdict # "CD" \/ IsSkipped(k) THEN "SK" ELSE reported[k].verdict

DeservedPoints(g) ==
  LET points == [k \in Tests(g) |-> IF DeservedVerdict(k) = "OK" THEN Groups[g].score
                                    ELSE IF DeservedVerdict(k) = "PT" THEN reported[k].points ELSE 0]
  IN  IF Groups[g].scoring = "EachTest" THEN SumFunction(points)
      ELSE IF Groups[g].scoring = "Min"
      THEN Min({Groups[g].score} \cup {points[k] : k \in Tests(g)})
      ELSE IF \A k \in Tests(g) : DeservedVerdict(k) = "OK" THEN Groups[g].score ELSE 0

\* Whatever order the results come in, a test is shown with the verdict that was
\* reported of it, or as skipped when its group failed before it.  In particular
\* a test that was passed over is never shown as running, and one that was
\* stopped is not blamed (CF).
ResultsAreDeserved ==
  \A k \in 1..Len(testResults) : testResults[k].verdict = DeservedVerdict(k)

\* The verdict and the score are those that the deserved results give.
VerdictIsDeserved ==
  returned =>
    /\ score = SumFunction([g \in GroupIndex |-> DeservedPoints(g)])
    /\ verdict = "OK" <=> reported[0].verdict = "CD" /\ \A k \in Test : DeservedVerdict(k) = "OK"
    /\ verdict = "CE" <=> reported[0].verdict = "CE"
    /\ verdict = "CF" => reported[0].verdict = "CF" \/ \E k \in Test : DeservedVerdict(k) = "CF"
    /\ verdict = "PT" =>
         reported[0].verdict = "CD" /\ \E k \in Test : DeservedVerdict(k) \notin {"OK", "SK"}

\* When the generator learnt that a group failed, it gives no further test of the
\* groups that this failure reaches.
NoUselessTest ==
  [][\A k \in givenJobs' \ givenJobs : \A i \in Test \ givenJobs :
       FailsGroup(i) => GroupOf[k] \notin Dependents[GroupOf[i]]]_vars

\* The submission is returned in the end unless the generator panics.
IsReturned == <>(returned \/ crashed)

\* The jobs that may still be given.
toGive ==
  IF state = "notStarted" THEN Job
  ELSE IF state = "started" THEN (IF 0 \in givenJobs THEN Test ELSE {})
  ELSE {k \in Test : k >= firstNotGivenTest /\ GroupOf[k] \in shouldGiveNewJobs}

Contract == INSTANCE Generator WITH given <- givenJobs, requiredBy <- requiredJobIDs

\* Until it panics the generator keeps the promises of module Generator to the
\* queue.
KeepsContract ==
  /\ Contract!Init
  /\ [][crashed' \/ Contract!Next]_<<toGive, givenJobs, requiredJobIDs, returned>>

\* The score of a group whose tests are scored one by one is TestScore for each
\* test with verdict OK (comment of TestGroupScoringTypeEachTest in
\* common/db/models/problem.go).
EachTestScore ==
  \A g \in GroupIndex :
    Groups[g].scoring = "EachTest" /\ Groups[g].last <= Len(testResults) =>
      /\ g <= Len(groupResults)
      /\ groupResults[g].points =
           Groups[g].score * Cardinality({k \in Tests(g) : testResults[k].verdict = "OK"})
=============================================================================
