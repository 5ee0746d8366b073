----------------------------- MODULE ICPCProofs -----------------------------
(***************************************************************************)
(* Proofs about module ICPCGenerator: for any number of tests and any      *)
(* order of their results the verdict is the deserved one, and the         *)
(* generator keeps the contract of module Generator.                       *)
(***************************************************************************)
EXTENDS ICPCGenerator, TLAPS

Kept == (TestVerdict \ {"??"}) \cup {None}

\* Job k was reported with a verdict that is not OK.
HasFailed(k) == reported[k] \notin {None, "OK"}

FailedBefore(k) == \E r \in 1..(k - 1) : HasFailed(r)

\* Until it is compiled, nothing is known of a submission.
CompilationInv ==
  /\ state = "notStarted" => givenJobs = {} /\ reported[0] = None
  /\ state = "started" => givenJobs = {0}
  /\ state # "finished" =>
       /\ firstTestToGive = 1 /\ testedPrefixLength = 0 /\ verdict = "RU" /\ ~ returned
       /\ \A k \in Test : internalTestResults[k] = None /\ reported[k] = None
  /\ state = "finished" => 0 \notin givenJobs /\ reported[0] # None
  /\ reported[0] \in CompileVerdict \cup {None}
  /\ \A k \in Test : reported[k] \in TestVerdict \cup {None}

\* A test requires only tests before it, so one that was skipped comes after one
\* that failed.
RequiredInv ==
  /\ requiredJobIDs[0] = {}
  /\ \A k \in Test : requiredJobIDs[k] \subseteq 1..(k - 1)
  /\ \A k \in Test : reported[k] = "SK" => FailedBefore(k)

\* When it is compiled, a test has a result unless it runs or is still to be
\* given.  The result is what was reported, or SK for a test that was not given
\* because an earlier one failed.
ResultInv ==
  state = "finished" =>
    /\ \A k \in Test : internalTestResults[k] = None
                         <=> k \in givenJobs \/ k >= firstTestToGive
    /\ \A k \in givenJobs : k < firstTestToGive
    /\ \A k \in 1..testedPrefixLength : internalTestResults[k] # None
    /\ \A k \in Test : reported[0] = "CD" /\ internalTestResults[k] # None =>
         \/ reported[k] # None /\ internalTestResults[k] = Deserved(reported[k])
         \/ internalTestResults[k] = "SK" /\ FailedBefore(k)

\* The verdict is that of the compilation, or stays open while the tested prefix
\* is OK, or is the deserved one.
VerdictInv ==
  state = "finished" =>
    /\ returned <=> testedPrefixLength = TestsNumber
    /\ returned => verdict # "RU"
    /\ reported[0] # "CD" => /\ verdict = Deserved(reported[0])
                             /\ firstTestToGive = TestsNumber + 1 /\ givenJobs = {}
                             /\ returned
    /\ reported[0] = "CD" =>
         /\ verdict = "RU" => \A k \in 1..testedPrefixLength : internalTestResults[k] = "OK"
         /\ verdict # "RU" => IsDeserved(verdict)

Inv == TypeOK /\ CompilationInv /\ RequiredInv /\ ResultInv /\ VerdictInv

----------------------------------------------------------------------------
\* What updateSubmissionResult does.
LEMMA UpdateFacts ==
  ASSUME TypeOK, NEW v \in Verdict, NEW rs \in [Test -> Kept], UpdateSubmissionResult(v, rs)
  PROVE
    /\ testedPrefixLength' \in testedPrefixLength..TestsNumber
    /\ testResults' \in [1..testedPrefixLength' -> TestVerdict \ {"??"}]
    /\ \A k \in 1..testedPrefixLength : testResults'[k] = testResults[k]
    /\ returned' = (testedPrefixLength' = TestsNumber)
    /\ \A k \in (testedPrefixLength + 1)..testedPrefixLength' : rs[k] # None
    /\ testedPrefixLength' < TestsNumber => rs[testedPrefixLength' + 1] = None
    /\ \/ v # "RU" /\ verdict' = v /\ internalTestResults' = rs
       \/ /\ v = "RU" /\ internalTestResults' = rs
          /\ \A k \in (testedPrefixLength + 1)..testedPrefixLength' : rs[k] = "OK"
          /\ verdict' = IF testedPrefixLength' = TestsNumber THEN "OK" ELSE "RU"
       \/ /\ v = "RU"
          /\ \E f \in (testedPrefixLength + 1)..testedPrefixLength' :
               /\ rs[f] # "OK"
               /\ \A k \in (testedPrefixLength + 1)..(f - 1) : rs[k] = "OK"
               /\ verdict' = Shown(rs[f])
               /\ internalTestResults' = [k \in Test |-> IF k = f THEN Shown(rs[k]) ELSE rs[k]]
  <1>. DEFINE new(p) == (testedPrefixLength + 1)..p
              Decides(p) ==
                \/ /\ v # "RU" \/ \A k \in new(p) : rs[k] = "OK"
                   /\ verdict' = IF v = "RU" /\ p = TestsNumber THEN "OK" ELSE v
                   /\ internalTestResults' = rs
                \/ \E f \in new(p) :
                     /\ IsFirstFailure(f, v, new(p), rs)
                     /\ verdict' = Shown(rs[f])
                     /\ internalTestResults' =
                          [k \in Test |-> IF k = f THEN Shown(rs[k]) ELSE rs[k]]
  <1>1. PICK p \in testedPrefixLength..TestsNumber :
          /\ IsTestedPrefix(p, rs)
          /\ testedPrefixLength' = p
          /\ testResults' = ShownResults(v, p, rs)
          /\ returned' = (p = TestsNumber)
          /\ Decides(p)
    BY DEF UpdateSubmissionResult
  <1>2. testedPrefixLength \in Nat /\ p \in Nat /\ p <= TestsNumber
    BY TestsNumberAssumption DEF TypeOK
  <1>3. /\ \A k \in new(p) : rs[k] # None
        /\ p < TestsNumber => rs[p + 1] = None
    BY <1>1 DEF IsTestedPrefix
  <1>4. testResults' \in [1..p -> TestVerdict \ {"??"}]
    <2>1. \A k \in 1..p : k > testedPrefixLength => rs[k] \in TestVerdict \ {"??"}
      <3>1. ASSUME NEW k \in 1..p, k > testedPrefixLength
            PROVE  rs[k] \in Kept /\ rs[k] # None
        BY <1>2, <1>3, <3>1, TestsNumberAssumption DEF Test
      <3>2. QED
        BY <3>1 DEF Kept
    <2>2. \A k \in 1..p : k <= testedPrefixLength => testResults[k] \in TestVerdict \ {"??"}
      BY <1>2 DEF TypeOK
    <2>3. ASSUME NEW k \in 1..p
          PROVE  (IF k <= testedPrefixLength THEN testResults[k]
                  ELSE IF v # "RU" \/ \E i \in (testedPrefixLength + 1)..(k - 1) : rs[i] # "OK"
                  THEN "SK" ELSE Shown(rs[k])) \in TestVerdict \ {"??"}
      BY <1>2, <2>1, <2>2 DEF Shown, TestVerdict
    <2>4. QED
      BY <1>1, <2>3 DEF ShownResults
  <1>5. \A k \in 1..testedPrefixLength : testResults'[k] = testResults[k]
    BY <1>1, <1>2 DEF ShownResults
  <1>6. \/ v # "RU" /\ verdict' = v /\ internalTestResults' = rs
        \/ /\ v = "RU" /\ internalTestResults' = rs
           /\ \A k \in new(p) : rs[k] = "OK"
           /\ verdict' = IF p = TestsNumber THEN "OK" ELSE "RU"
        \/ /\ v = "RU"
           /\ \E f \in new(p) :
                /\ rs[f] # "OK"
                /\ \A k \in (testedPrefixLength + 1)..(f - 1) : rs[k] = "OK"
                /\ verdict' = Shown(rs[f])
                /\ internalTestResults' = [k \in Test |-> IF k = f THEN Shown(rs[k]) ELSE rs[k]]
    BY <1>1, <1>2 DEF IsFirstFailure
  <1>7. QED
    BY <1>1, <1>3, <1>4, <1>5, <1>6

\* setFail leaves nothing to give.
LEMMA AfterFailIsEnd == TypeOK => AfterFail = TestsNumber + 1
  BY TestsNumberAssumption DEF TypeOK, AfterFail, TestsAreLeft

LEMMA InitInv == Init => Inv
  <1>. SUFFICES ASSUME Init PROVE Inv
    OBVIOUS
  <1>. USE TestsNumberAssumption
  <1>1. 0 \notin Test /\ 0 \in Job
    BY DEF Test, Job
  <1>2. TypeOK
    BY DEF Init, TypeOK, Test, Job, Verdict
  <1>3. CompilationInv /\ RequiredInv
    BY <1>1 DEF Init, CompilationInv, RequiredInv, Test, Job, None
  <1>4. ResultInv /\ VerdictInv
    BY DEF Init, ResultInv, VerdictInv
  <1>5. QED
    BY <1>2, <1>3, <1>4 DEF Inv

----------------------------------------------------------------------------
(* Each action keeps the invariant.                                         *)

LEMMA GiveCompileJobInv == Inv /\ GiveCompileJob => Inv'
  <1>. SUFFICES ASSUME Inv, GiveCompileJob PROVE Inv'
    OBVIOUS
  <1>. USE TestsNumberAssumption DEF GiveCompileJob
  <1>1. TypeOK'
    BY DEF Inv, TypeOK, Job
  <1>2. CompilationInv' /\ RequiredInv'
    BY DEF Inv, CompilationInv, RequiredInv, FailedBefore, HasFailed
  <1>3. ResultInv' /\ VerdictInv'
    BY DEF ResultInv, VerdictInv
  <1>4. QED
    BY <1>1, <1>2, <1>3 DEF Inv

LEMMA GiveTestInv == Inv /\ GiveTest => Inv'
  <1>. SUFFICES ASSUME Inv, GiveTest PROVE Inv'
    OBVIOUS
  <1>. USE TestsNumberAssumption
  <1>1. /\ state = "finished" /\ firstTestToGive \in Test
        /\ givenJobs' = givenJobs \cup {firstTestToGive}
        /\ requiredJobIDs' = [requiredJobIDs EXCEPT ![firstTestToGive] = givenJobs]
        /\ firstTestToGive' = firstTestToGive + 1
        /\ UNCHANGED <<state, testedPrefixLength, internalTestResults, verdict, testResults,
                       returned, reported>>
    BY DEF GiveTest, MayGiveTests, TestsAreLeft, Inv, TypeOK, Test
  <1>2. TypeOK'
    BY <1>1 DEF Inv, TypeOK, Job, Test
  <1>3. CompilationInv'
    BY <1>1 DEF Inv, CompilationInv, Test
  <1>4. RequiredInv'
    <2>1. givenJobs \subseteq 1..(firstTestToGive - 1)
      BY <1>1 DEF Inv, TypeOK, CompilationInv, ResultInv, Job, Test
    <2>2. requiredJobIDs'[0] = {}
      BY <1>1 DEF Inv, RequiredInv, TypeOK, Test
    <2>3. ASSUME NEW k \in Test PROVE requiredJobIDs'[k] \subseteq 1..(k - 1)
      <3>1. requiredJobIDs'[k] = IF k = firstTestToGive THEN givenJobs ELSE requiredJobIDs[k]
        BY <1>1 DEF Inv, TypeOK, Test, Job
      <3>2. requiredJobIDs[k] \subseteq 1..(k - 1)
        BY DEF Inv, RequiredInv
      <3>3. QED
        BY <2>1, <3>1, <3>2
    <2>4. QED
      BY <1>1, <2>2, <2>3 DEF Inv, RequiredInv, FailedBefore, HasFailed
  <1>5. ResultInv'
    <2>1. \A k \in Test : internalTestResults'[k] = None
                            <=> k \in givenJobs' \/ k >= firstTestToGive'
      BY <1>1 DEF Inv, ResultInv, Test
    <2>2. \A k \in givenJobs' : k < firstTestToGive'
      BY <1>1 DEF Inv, ResultInv, TypeOK, Test, Job
    <2>3. QED
      BY <1>1, <2>1, <2>2 DEF Inv, ResultInv, FailedBefore, HasFailed
  <1>6. VerdictInv'
    BY <1>1 DEF Inv, VerdictInv, IsDeserved, IsFirstFailed, Test
  <1>7. QED
    BY <1>2, <1>3, <1>4, <1>5, <1>6 DEF Inv

\* Reports are only added, so what was deduced from them stays true.
LEMMA AcceptResultInv == ASSUME Inv, NEW j \in Job, AcceptResult(j) PROVE Inv'
  <1>. USE TestsNumberAssumption
  <1>1. PICK v \in IF j = 0 THEN CompileVerdict ELSE TestVerdict :
          /\ v = "SK" => IsStopped(j)
          /\ reported' = [reported EXCEPT ![j] = v]
    BY DEF AcceptResult
  <1>2. j \in givenJobs /\ reported[j] = None /\ UNCHANGED generatorVars
    BY DEF AcceptResult
  <1>3. /\ reported'[j] = v /\ v # None
        /\ \A k \in Job : k # j => reported'[k] = reported[k]
    BY <1>1 DEF Inv, TypeOK, CompileVerdict, TestVerdict, None
  <1>4. TypeOK'
    BY <1>1, <1>2 DEF Inv, TypeOK, generatorVars
  <1>5. CompilationInv'
    <2>1. state # "finished" => j = 0 /\ state = "started"
      BY <1>2 DEF Inv, CompilationInv, TypeOK
    <2>2. \A k \in Test : k \in Job /\ k # 0
      BY DEF Test, Job
    <2>3. \A k \in Test : reported'[k] \in TestVerdict \cup {None}
      BY <1>1, <1>3, <2>1, <2>2 DEF Inv, CompilationInv
    <2>4. state # "finished" => \A k \in Test : reported'[k] = None
      BY <1>3, <2>1, <2>2 DEF Inv, CompilationInv
    <2>5. /\ reported'[0] \in CompileVerdict \cup {None}
          /\ state = "notStarted" => reported'[0] = None
          /\ state = "finished" => reported'[0] # None
      BY <1>1, <1>2, <1>3, <2>1 DEF Inv, CompilationInv, Job
    <2>6. QED
      BY <1>2, <2>3, <2>4, <2>5 DEF Inv, CompilationInv, generatorVars
  <1>6. \A k \in Test : FailedBefore(k) => FailedBefore(k)'
    BY <1>2, <1>3 DEF FailedBefore, HasFailed, Test, Job
  <1>7. RequiredInv'
    <2>1. ASSUME NEW k \in Test, reported'[k] = "SK" PROVE FailedBefore(k)'
      <3>1. CASE k # j
        BY <1>3, <1>6, <2>1, <3>1 DEF Inv, RequiredInv, Test, Job
      <3>2. CASE k = j
        <4>1. PICK r \in requiredJobIDs[k] : reported[r] \notin {None, "OK", "PT"}
          BY <1>1, <1>3, <2>1, <3>2 DEF IsStopped
        <4>2. r \in 1..(k - 1) /\ HasFailed(r)
          BY <4>1 DEF Inv, RequiredInv, HasFailed
        <4>3. QED
          BY <1>6, <4>2 DEF FailedBefore
      <3>3. QED
        BY <3>1, <3>2
    <2>2. QED
      BY <1>2, <2>1 DEF Inv, RequiredInv, generatorVars
  <1>8. ResultInv'
    <2>1. ASSUME state = "finished", NEW k \in Test, reported'[0] = "CD",
                 internalTestResults[k] # None
          PROVE  \/ reported'[k] # None /\ internalTestResults[k] = Deserved(reported'[k])
                 \/ internalTestResults[k] = "SK" /\ FailedBefore(k)'
      <3>1. k # j /\ 0 # j
        BY <1>2, <2>1 DEF Inv, ResultInv, CompilationInv
      <3>2. reported[0] = "CD" /\ reported'[k] = reported[k]
        BY <1>3, <2>1, <3>1 DEF Test, Job
      <3>3. QED
        BY <1>6, <2>1, <3>2 DEF Inv, ResultInv
    <2>2. QED
      BY <1>2, <2>1 DEF Inv, ResultInv, generatorVars
  <1>9. VerdictInv'
    <2>1. ASSUME state = "finished" PROVE reported'[0] = reported[0]
      BY <1>2, <1>3, <2>1 DEF Inv, CompilationInv, Job
    <2>2. ASSUME state = "finished", reported[0] = "CD", verdict # "RU"
          PROVE  IsDeserved(verdict)'
      <3>1. IsDeserved(verdict)
        BY <2>2 DEF Inv, VerdictInv
      <3>2. CASE verdict = "OK" /\ \A k \in Test : reported[k] = "OK"
        BY <1>2, <1>3, <2>1, <2>2, <3>2 DEF IsDeserved, generatorVars, None, Test, Job
      <3>3. ASSUME NEW k \in Test, IsFirstFailed(k), verdict = Deserved(reported[k])
            PROVE  IsDeserved(verdict)'
        <4>1. verdict # None
          BY DEF Inv, TypeOK, Verdict, TestVerdict, None
        <4>2. k # j
          BY <1>2, <3>3, <4>1 DEF Deserved, None
        <4>3. IsFirstFailed(k)'
          BY <1>2, <1>3, <3>3, <4>2 DEF IsFirstFailed, None, Test, Job
        <4>4. QED
          BY <1>2, <1>3, <2>1, <2>2, <3>3, <4>2, <4>3 DEF IsDeserved, generatorVars, Test, Job
      <3>4. QED
        BY <2>2, <3>1, <3>2, <3>3 DEF IsDeserved
    <2>3. QED
      BY <1>2, <2>1, <2>2 DEF Inv, VerdictInv, generatorVars
  <1>10. QED
    BY <1>4, <1>5, <1>7, <1>8, <1>9 DEF Inv

LEMMA CompileJobCompletedInv == Inv /\ CompileJobCompleted => Inv'
  <1>. SUFFICES ASSUME Inv, CompileJobCompleted PROVE Inv'
    OBVIOUS
  <1>. USE TestsNumberAssumption
  <1>1. /\ givenJobs = {0} /\ givenJobs' = {} /\ state' = "finished"
        /\ reported[0] \in CompileVerdict
        /\ requiredJobIDs' = requiredJobIDs /\ reported' = reported
    BY DEF CompileJobCompleted, Inv, TypeOK, CompilationInv
  <1>2. /\ firstTestToGive = 1 /\ testedPrefixLength = 0 /\ verdict = "RU"
        /\ \A k \in Test : internalTestResults[k] = None /\ reported[k] = None
    BY <1>1 DEF CompileJobCompleted, Inv, TypeOK, CompilationInv
  <1>3. RequiredInv' /\ CompilationInv'
    BY <1>1, <1>2 DEF CompileJobCompleted, Inv, RequiredInv, CompilationInv, FailedBefore,
       HasFailed
  <1>4. CASE reported[0] = "CD"
    <2>1. /\ UpdateSubmissionResult(verdict, internalTestResults)
          /\ firstTestToGive' = firstTestToGive
      BY <1>4 DEF CompileJobCompleted
    <2>2. verdict \in Verdict /\ internalTestResults \in [Test -> Kept]
      BY DEF Inv, TypeOK, Kept
    <2>3. /\ testedPrefixLength' \in 0..TestsNumber
          /\ testResults' \in [1..testedPrefixLength' -> TestVerdict \ {"??"}]
          /\ returned' = (testedPrefixLength' = TestsNumber)
          /\ \A k \in 1..testedPrefixLength' : internalTestResults[k] # None
      BY <1>2, <2>1, <2>2, UpdateFacts DEF Inv
    <2>4. testedPrefixLength' = 0
      <3>1. testedPrefixLength' >= 1 => 1 \in Test /\ 1 \in 1..testedPrefixLength'
        BY <2>3 DEF Test
      <3>2. QED
        BY <1>2, <2>3, <3>1
    <2>5. /\ verdict' = IF TestsNumber = 0 THEN "OK" ELSE "RU"
          /\ internalTestResults' = internalTestResults
      BY <1>2, <2>1, <2>2, <2>4, UpdateFacts DEF Inv
    <2>6. TypeOK'
      BY <1>1, <1>2, <2>1, <2>2, <2>3, <2>5 DEF Inv, TypeOK, Verdict, TestVerdict, Kept
    <2>7. ResultInv'
      BY <1>1, <1>2, <2>1, <2>4, <2>5 DEF ResultInv, Test
    <2>8. VerdictInv'
      <3>1. TestsNumber = 0 => verdict' = "OK" /\ Test = {}
        BY <2>5 DEF Test
      <3>2. TestsNumber # 0 => verdict' = "RU"
        BY <2>5
      <3>3. reported'[0] = "CD"
        BY <1>1, <1>4
      <3>4. returned' <=> TestsNumber = 0
        BY <2>3, <2>4
      <3>5. verdict' # "RU" => IsDeserved(verdict)'
        BY <3>1, <3>2, <3>3 DEF IsDeserved
      <3>6. \A k \in 1..testedPrefixLength' : internalTestResults'[k] = "OK"
        BY <2>4
      <3>7. QED
        BY <2>4, <3>1, <3>2, <3>3, <3>4, <3>5, <3>6 DEF VerdictInv
    <2>9. QED
      BY <1>3, <2>6, <2>7, <2>8 DEF Inv
  <1>5. CASE reported[0] # "CD"
    <2>. DEFINE v == Deserved(reported[0])
                rs == FailedResults(internalTestResults)
    <2>1. v \in {"CE", "CF"} /\ v = IF reported[0] = "CE" THEN "CE" ELSE "CF"
      BY <1>1, <1>5 DEF CompileVerdict, Deserved
    <2>2. /\ UpdateSubmissionResult(v, rs)
          /\ firstTestToGive' = TestsNumber + 1
      BY <1>5, <2>1, AfterFailIsEnd DEF CompileJobCompleted, Inv
    <2>3. /\ rs \in [Test -> Kept] /\ v \in Verdict
          /\ \A k \in Test : rs[k] = "SK"
      BY <1>2, <2>1 DEF FailedResults, Kept, TestVerdict, Test, Verdict
    <2>. HIDE DEF v, rs
    <2>4. /\ testedPrefixLength' \in 0..TestsNumber
          /\ testResults' \in [1..testedPrefixLength' -> TestVerdict \ {"??"}]
          /\ returned' = (testedPrefixLength' = TestsNumber)
          /\ testedPrefixLength' < TestsNumber => rs[testedPrefixLength' + 1] = None
          /\ verdict' = v /\ internalTestResults' = rs
      BY <1>2, <2>1, <2>2, <2>3, UpdateFacts DEF Inv
    <2>5. testedPrefixLength' = TestsNumber /\ returned'
      <3>1. PICK p \in 0..TestsNumber : testedPrefixLength' = p
        BY <2>4
      <3>2. p < TestsNumber => p + 1 \in Test
        BY DEF Test
      <3>3. p < TestsNumber => rs[p + 1] = None
        BY <2>4, <3>1
      <3>4. p = TestsNumber
        BY <2>3, <3>2, <3>3 DEF None
      <3>5. QED
        BY <2>4, <3>1, <3>4
    <2>6. TypeOK'
      BY <1>1, <2>2, <2>3, <2>4 DEF Inv, TypeOK, Kept
    <2>7. ResultInv'
      BY <1>1, <1>5, <2>2, <2>3, <2>4 DEF ResultInv, Test, None
    <2>8. VerdictInv'
      BY <1>1, <1>5, <2>1, <2>2, <2>4, <2>5 DEF VerdictInv, v
    <2>9. QED
      BY <1>3, <2>6, <2>7, <2>8 DEF Inv
  <1>6. QED
    BY <1>4, <1>5

LEMMA TestJobCompletedInv == ASSUME Inv, NEW j \in Test, TestJobCompleted(j) PROVE Inv'
  <1>. USE TestsNumberAssumption
  <1>. DEFINE w == Deserved(reported[j])
              rs == IF w = "OK" THEN internalTestResults ELSE FailedResults(internalTestResults)
              results == [rs EXCEPT ![j] = w]
  <1>1. /\ j \in givenJobs /\ reported[j] # None
        /\ givenJobs' = givenJobs \ {j}
        /\ firstTestToGive' = IF w = "OK" THEN firstTestToGive ELSE TestsNumber + 1
        /\ UpdateSubmissionResult(verdict, results)
        /\ state' = state /\ requiredJobIDs' = requiredJobIDs /\ reported' = reported
    BY AfterFailIsEnd DEF TestJobCompleted, Deserved, Inv
  <1>2. state = "finished" /\ reported[0] = "CD" /\ j < firstTestToGive
    BY <1>1 DEF Inv, TypeOK, CompilationInv, ResultInv, VerdictInv, Test
  <1>3. w \in TestVerdict \ {"??"} /\ w # None
    BY <1>1 DEF Inv, CompilationInv, Deserved, TestVerdict, None
  <1>4. rs \in [Test -> Kept]
    BY DEF Inv, TypeOK, FailedResults, Kept, TestVerdict
  <1>5. \A k \in Test :
          results[k] = IF k = j THEN w
                       ELSE IF w # "OK" /\ k >= firstTestToGive THEN "SK"
                       ELSE internalTestResults[k]
    BY <1>4 DEF FailedResults
  <1>6. results \in [Test -> Kept] /\ verdict \in Verdict
    BY <1>3, <1>4 DEF Kept, Inv, TypeOK
  <1>. HIDE DEF rs, results
  <1>7. \A k \in Test : results[k] = None <=> k \in givenJobs' \/ k >= firstTestToGive'
    BY <1>1, <1>2, <1>3, <1>5 DEF Inv, ResultInv, TypeOK, Test, None
  <1>8. ASSUME NEW k \in Test, results[k] # None
        PROVE  \/ reported[k] # None /\ results[k] = Deserved(reported[k])
               \/ results[k] = "SK" /\ FailedBefore(k)
    <2>1. CASE k = j
      BY <1>1, <1>5, <2>1
    <2>2. CASE k # j /\ w # "OK" /\ k >= firstTestToGive
      <3>1. HasFailed(j) /\ j \in 1..(k - 1)
        BY <1>1, <1>2, <2>2 DEF HasFailed, Deserved, Test, Inv, TypeOK
      <3>2. QED
        BY <1>5, <2>2, <3>1 DEF FailedBefore
    <2>3. CASE k # j /\ ~ (w # "OK" /\ k >= firstTestToGive)
      BY <1>2, <1>5, <1>8, <2>3 DEF Inv, ResultInv
    <2>4. QED
      BY <2>1, <2>2, <2>3
  <1>9. \A k \in 1..testedPrefixLength : results[k] = internalTestResults[k]
    <2>1. ASSUME NEW k \in 1..testedPrefixLength PROVE results[k] = internalTestResults[k]
      <3>1. k \in Test
        BY DEF Inv, TypeOK, Test
      <3>2. k \notin givenJobs /\ k < firstTestToGive
        BY <1>2, <3>1 DEF Inv, ResultInv, TypeOK, Test
      <3>3. QED
        BY <1>1, <1>5, <3>1, <3>2 DEF Inv, TypeOK, Test
    <2>2. QED
      BY <2>1
  <1>10. /\ testedPrefixLength' \in testedPrefixLength..TestsNumber
         /\ testResults' \in [1..testedPrefixLength' -> TestVerdict \ {"??"}]
         /\ returned' = (testedPrefixLength' = TestsNumber)
         /\ \A k \in (testedPrefixLength + 1)..testedPrefixLength' : results[k] # None
    BY <1>1, <1>6, UpdateFacts DEF Inv
  <1>11. \A k \in 1..testedPrefixLength' : results[k] # None
    BY <1>2, <1>9, <1>10 DEF Inv, ResultInv, TypeOK
  <1>12. \/ verdict # "RU" /\ verdict' = verdict /\ internalTestResults' = results
         \/ /\ verdict = "RU" /\ internalTestResults' = results
            /\ \A k \in 1..testedPrefixLength' : results[k] = "OK"
            /\ verdict' = IF testedPrefixLength' = TestsNumber THEN "OK" ELSE "RU"
         \/ /\ verdict = "RU" /\ internalTestResults' = results
            /\ \E f \in Test : /\ IsFirstFailed(f)
                               /\ results[f] \in TestVerdict \ {"??", "SK", "OK"}
                               /\ verdict' = results[f] /\ verdict' = Deserved(reported[f])
    <2>1. verdict = "RU" => \A k \in 1..testedPrefixLength : results[k] = "OK"
      BY <1>2, <1>9 DEF Inv, VerdictInv
    <2>2. CASE verdict # "RU"
      BY <1>1, <1>6, <2>2, UpdateFacts DEF Inv
    <2>3. CASE /\ verdict = "RU" /\ internalTestResults' = results
               /\ \A k \in (testedPrefixLength + 1)..testedPrefixLength' : results[k] = "OK"
               /\ verdict' = IF testedPrefixLength' = TestsNumber THEN "OK" ELSE "RU"
      BY <1>10, <2>1, <2>3 DEF Inv, TypeOK
    <2>4. ASSUME verdict = "RU",
                 NEW f \in (testedPrefixLength + 1)..testedPrefixLength',
                 results[f] # "OK",
                 \A k \in (testedPrefixLength + 1)..(f - 1) : results[k] = "OK",
                 verdict' = Shown(results[f]),
                 internalTestResults' =
                   [k \in Test |-> IF k = f THEN Shown(results[k]) ELSE results[k]]
          PROVE  /\ internalTestResults' = results
                 /\ f \in Test
                 /\ IsFirstFailed(f)
                 /\ results[f] \in TestVerdict \ {"??", "SK", "OK"}
                 /\ verdict' = results[f] /\ verdict' = Deserved(reported[f])
      <3>1. f \in Test /\ \A i \in 1..(f - 1) : i \in Test /\ results[i] = "OK"
        BY <1>10, <2>1, <2>4 DEF Inv, TypeOK, Test
      <3>2. \A i \in 1..(f - 1) : reported[i] = "OK"
        BY <1>8, <3>1 DEF Deserved, None
      <3>3. ~ FailedBefore(f)
        BY <3>2 DEF FailedBefore, HasFailed
      <3>4. results[f] # None
        BY <1>10
      <3>5. results[f] = Deserved(reported[f])
        BY <1>8, <3>1, <3>3, <3>4
      <3>6. results[f] # "SK"
        BY <3>1, <3>3, <3>5 DEF Inv, RequiredInv, Deserved
      <3>7. results[f] \in TestVerdict \ {"??", "SK", "OK"}
        <4>1. results[f] \in Kept
          BY <1>6, <3>1
        <4>2. QED
          BY <2>4, <3>4, <3>6, <4>1 DEF Kept
      <3>8. internalTestResults' = results /\ verdict' = results[f]
        BY <1>6, <2>4, <3>6 DEF Shown
      <3>9. IsFirstFailed(f)
        BY <2>4, <3>2, <3>5 DEF IsFirstFailed, Deserved
      <3>10. QED
        BY <3>1, <3>5, <3>7, <3>8, <3>9
    <2>5. QED
      <3>1. CASE verdict = "RU"
        <4>1. \/ /\ internalTestResults' = results
                 /\ \A k \in (testedPrefixLength + 1)..testedPrefixLength' : results[k] = "OK"
                 /\ verdict' = IF testedPrefixLength' = TestsNumber THEN "OK" ELSE "RU"
              \/ \E f \in (testedPrefixLength + 1)..testedPrefixLength' :
                   /\ results[f] # "OK"
                   /\ \A k \in (testedPrefixLength + 1)..(f - 1) : results[k] = "OK"
                   /\ verdict' = Shown(results[f])
                   /\ internalTestResults' =
                        [k \in Test |-> IF k = f THEN Shown(results[k]) ELSE results[k]]
          BY <1>1, <1>6, <3>1, UpdateFacts DEF Inv
        <4>2. QED
          BY <2>3, <2>4, <3>1, <4>1
      <3>2. QED
        BY <2>2, <3>1
  <1>13. internalTestResults' = results
    BY <1>12
  <1>14. verdict' \in Verdict
    BY <1>6, <1>12 DEF Verdict, TestVerdict
  <1>15. TypeOK'
    BY <1>1, <1>6, <1>10, <1>13, <1>14 DEF Inv, TypeOK, Kept
  <1>16. CompilationInv' /\ RequiredInv'
    BY <1>1, <1>2 DEF Inv, CompilationInv, RequiredInv, FailedBefore, HasFailed
  <1>17. ResultInv'
    <2>1. \A k \in givenJobs' : k < firstTestToGive'
      BY <1>1, <1>2 DEF Inv, ResultInv, TypeOK, Job
    <2>2. \A k \in Test : FailedBefore(k) => FailedBefore(k)'
      BY <1>1 DEF FailedBefore, HasFailed
    <2>3. QED
      BY <1>1, <1>7, <1>8, <1>11, <1>13, <2>1, <2>2 DEF ResultInv
  <1>18. VerdictInv'
    <2>1. returned' => verdict' # "RU"
      BY <1>10, <1>12 DEF TestVerdict
    <2>2. verdict' = "RU" => \A k \in 1..testedPrefixLength' : internalTestResults'[k] = "OK"
      BY <1>12 DEF TestVerdict
    <2>3. ASSUME verdict' # "RU" PROVE IsDeserved(verdict')
      <3>1. CASE verdict # "RU" /\ verdict' = verdict
        BY <1>2, <3>1 DEF Inv, VerdictInv
      <3>2. CASE /\ verdict' = "OK" /\ testedPrefixLength' = TestsNumber
                 /\ \A k \in 1..testedPrefixLength' : results[k] = "OK"
        <4>1. \A k \in Test : reported[k] = "OK"
          BY <1>8, <3>2 DEF Test, Deserved, None
        <4>2. QED
          BY <1>2, <3>2, <4>1 DEF IsDeserved
      <3>3. CASE \E f \in Test : IsFirstFailed(f) /\ verdict' = Deserved(reported[f])
        BY <1>2, <3>3 DEF IsDeserved
      <3>4. QED
        BY <1>12, <2>3, <3>1, <3>2, <3>3
    <2>4. IsDeserved(verdict') => IsDeserved(verdict)'
      BY <1>1 DEF IsDeserved, IsFirstFailed
    <2>5. QED
      BY <1>1, <1>2, <1>10, <2>1, <2>2, <2>3, <2>4 DEF VerdictInv
  <1>19. QED
    BY <1>15, <1>16, <1>17, <1>18 DEF Inv

----------------------------------------------------------------------------
LEMMA InvIsInvariant == Spec => []Inv
  <1>1. Inv /\ [Next]_vars => Inv'
    <2>1. Inv /\ UNCHANGED vars => Inv'
      BY DEF Inv, TypeOK, CompilationInv, RequiredInv, ResultInv, VerdictInv, FailedBefore,
         HasFailed, IsDeserved, IsFirstFailed, vars, generatorVars
    <2>2. QED
      BY <2>1, GiveCompileJobInv, GiveTestInv, AcceptResultInv, CompileJobCompletedInv,
         TestJobCompletedInv DEF Next, NextJob, JobCompleted
  <1>2. QED
    BY <1>1, InitInv, PTL DEF Spec

\* The fields of the generator keep their types; in particular the tested prefix
\* and the test given next stay within the tests of the problem.
THEOREM TypeCorrect == Spec => []TypeOK
  BY InvIsInvariant, PTL DEF Inv

\* Whatever the number of tests and the order of their results, the submission
\* JobCompleted returns has the verdict it deserves by what the invokers reported.
THEOREM VerdictCorrect == Spec => []VerdictIsDeserved
  <1>1. Inv => VerdictIsDeserved
    BY DEF Inv, VerdictInv, CompilationInv, VerdictIsDeserved, IsDeserved
  <1>2. QED
    BY <1>1, InvIsInvariant, PTL

----------------------------------------------------------------------------
\* The tested prefix is as long as the results allow.
PrefixInv ==
  state = "finished" /\ testedPrefixLength < TestsNumber
    => internalTestResults[testedPrefixLength + 1] = None

LEMMA UpdateEndsPrefix ==
  ASSUME TypeOK, NEW v, NEW rs, UpdateSubmissionResult(v, rs)
  PROVE  PrefixInv'
  <1>1. PICK p \in testedPrefixLength..TestsNumber :
          /\ p < TestsNumber => rs[p + 1] = None
          /\ testedPrefixLength' = p
          /\ \/ internalTestResults' = rs
             \/ \E f \in (testedPrefixLength + 1)..p : 
                  internalTestResults' = [k \in Test |-> IF k = f THEN Shown(rs[k]) ELSE rs[k]]
    BY DEF UpdateSubmissionResult, IsTestedPrefix
  <1>2. p \in Nat /\ (p < TestsNumber => p + 1 \in Test)
    BY TestsNumberAssumption DEF TypeOK, Test
  <1>3. p < TestsNumber => internalTestResults'[p + 1] = None
    <2>1. CASE internalTestResults' = rs
      BY <1>1, <2>1
    <2>2. ASSUME NEW f \in (testedPrefixLength + 1)..p,
                 internalTestResults' = [k \in Test |-> IF k = f THEN Shown(rs[k]) ELSE rs[k]]
          PROVE  p < TestsNumber => internalTestResults'[p + 1] = None
      <3>1. f # p + 1
        BY <1>2, TestsNumberAssumption DEF TypeOK
      <3>2. QED
        BY <1>1, <1>2, <2>2, <3>1
    <2>3. QED
      BY <1>1, <2>1, <2>2
  <1>4. QED
    BY <1>1, <1>3 DEF PrefixInv

LEMMA PrefixInvIsInvariant == Spec => []PrefixInv
  <1>1. Init => PrefixInv
    BY DEF Init, PrefixInv
  <1>2. Inv /\ PrefixInv /\ [Next]_vars => PrefixInv'
    <2>. SUFFICES ASSUME Inv, PrefixInv, [Next]_vars PROVE PrefixInv'
      OBVIOUS
    <2>. USE DEF Inv
    <2>1. CASE GiveCompileJob
      BY <2>1 DEF GiveCompileJob, PrefixInv
    <2>2. CASE GiveTest
      BY <2>2 DEF GiveTest, MayGiveTests, PrefixInv
    <2>3. CASE CompileJobCompleted
      BY <2>3, UpdateEndsPrefix DEF CompileJobCompleted
    <2>4. ASSUME NEW k \in Test, TestJobCompleted(k) PROVE PrefixInv'
      BY <2>4, UpdateEndsPrefix DEF TestJobCompleted
    <2>5. ASSUME NEW k \in Job, AcceptResult(k) PROVE PrefixInv'
      BY <2>5 DEF AcceptResult, generatorVars, PrefixInv
    <2>6. CASE UNCHANGED vars
      BY <2>6 DEF vars, generatorVars, PrefixInv
    <2>7. QED
      BY <2>1, <2>2, <2>3, <2>4, <2>5, <2>6 DEF Next, NextJob, JobCompleted
  <1>3. QED
    BY <1>1, <1>2, InvIsInvariant, PTL DEF Spec

----------------------------------------------------------------------------
LEMMA GiveCompileJobIsGive == ASSUME Inv, GiveCompileJob PROVE Contract!Give(0)
  <1>1. /\ state = "notStarted" /\ state' = "started" /\ givenJobs = {} /\ givenJobs' = {0}
        /\ firstTestToGive = 1 /\ firstTestToGive' = 1
        /\ requiredJobIDs' = requiredJobIDs /\ returned' = returned
    BY DEF GiveCompileJob, Inv, CompilationInv
  <1>2. toGive = Job /\ toGive' = 1..TestsNumber
    BY <1>1 DEF toGive
  <1>3. 0 \in toGive /\ toGive' = toGive \ {0} /\ \A other \in toGive : 0 <= other
    BY <1>2, TestsNumberAssumption DEF Job
  <1>4. requiredJobIDs' = [requiredJobIDs EXCEPT ![0] = {}]
    BY <1>1 DEF Inv, TypeOK, RequiredInv
  <1>5. QED
    BY <1>1, <1>3, <1>4 DEF Contract!Give

LEMMA GiveTestIsGive == ASSUME Inv, GiveTest PROVE Contract!Give(firstTestToGive)
  <1>1. /\ state = "finished" /\ state' = "finished" /\ 0 \notin givenJobs
        /\ firstTestToGive \in 1..TestsNumber /\ firstTestToGive' = firstTestToGive + 1
        /\ givenJobs' = givenJobs \cup {firstTestToGive} /\ returned' = returned
        /\ requiredJobIDs' = [requiredJobIDs EXCEPT ![firstTestToGive] = givenJobs]
    BY TestsNumberAssumption
       DEF GiveTest, MayGiveTests, TestsAreLeft, Inv, TypeOK, CompilationInv
  <1>2. toGive = firstTestToGive..TestsNumber /\ toGive' = firstTestToGive'..TestsNumber
    BY <1>1 DEF toGive
  <1>3. /\ firstTestToGive \in toGive /\ toGive' = toGive \ {firstTestToGive}
        /\ \A other \in toGive : firstTestToGive <= other
    BY <1>1, <1>2, TestsNumberAssumption
  <1>4. QED
    BY <1>1, <1>3 DEF Contract!Give

\* The last result is the one after which nothing is given and nothing wanted.
LEMMA ReturnedWithLast ==
  Inv /\ PrefixInv /\ state = "finished" => (returned <=> toGive \cup givenJobs = {})
  <1>. SUFFICES ASSUME Inv, PrefixInv, state = "finished"
                PROVE  returned <=> toGive \cup givenJobs = {}
    OBVIOUS
  <1>. USE TestsNumberAssumption
  <1>1. /\ toGive = firstTestToGive..TestsNumber
        /\ returned <=> testedPrefixLength = TestsNumber
        /\ givenJobs \subseteq Test
        /\ firstTestToGive \in 1..(TestsNumber + 1) /\ testedPrefixLength \in 0..TestsNumber
    BY DEF toGive, Inv, TypeOK, VerdictInv, CompilationInv, Job, Test
  <1>2. ASSUME returned PROVE toGive \cup givenJobs = {}
    <2>1. \A k \in Test : k \notin givenJobs /\ k < firstTestToGive
      BY <1>1, <1>2 DEF Inv, ResultInv, Test
    <2>2. QED
      BY <1>1, <2>1 DEF Test
  <1>3. ASSUME toGive \cup givenJobs = {} PROVE returned
    <2>1. firstTestToGive = TestsNumber + 1 /\ givenJobs = {}
      BY <1>1, <1>3
    <2>2. \A k \in Test : internalTestResults[k] # None
      BY <2>1 DEF Inv, ResultInv, Test
    <2>3. testedPrefixLength < TestsNumber => testedPrefixLength + 1 \in Test
      BY <1>1 DEF Test
    <2>4. ~ (testedPrefixLength < TestsNumber)
      BY <2>2, <2>3 DEF PrefixInv
    <2>5. QED
      BY <1>1, <2>4
  <1>4. QED
    BY <1>2, <1>3

LEMMA ReturnedWithLastNext ==
  (Inv /\ PrefixInv /\ state = "finished" => (returned <=> toGive \cup givenJobs = {}))'
  BY ReturnedWithLast, PTL

LEMMA CompileJobCompletedIsComplete ==
  ASSUME Inv, Inv', PrefixInv', CompileJobCompleted PROVE Contract!Complete(0)
  <1>. USE TestsNumberAssumption
  <1>1. /\ givenJobs = {0} /\ givenJobs' = givenJobs \ {0} /\ state' = "finished"
        /\ requiredJobIDs' = requiredJobIDs /\ firstTestToGive = 1 /\ state = "started"
    BY DEF CompileJobCompleted, Inv, TypeOK, CompilationInv
  <1>2. firstTestToGive' = firstTestToGive \/ firstTestToGive' = TestsNumber + 1
    BY <1>1, AfterFailIsEnd DEF CompileJobCompleted, Inv
  <1>3. toGive' \subseteq toGive
    BY <1>1, <1>2 DEF toGive
  <1>4. returned' <=> toGive' \cup givenJobs' = {}
    BY <1>1, ReturnedWithLastNext
  <1>5. QED
    BY <1>1, <1>3, <1>4 DEF Contract!Complete

LEMMA TestJobCompletedIsComplete ==
  ASSUME Inv, Inv', PrefixInv', NEW k \in Test, TestJobCompleted(k) PROVE Contract!Complete(k)
  <1>. USE TestsNumberAssumption
  <1>1. /\ k \in givenJobs /\ givenJobs' = givenJobs \ {k} /\ state' = "finished"
        /\ requiredJobIDs' = requiredJobIDs /\ state = "finished"
    BY DEF TestJobCompleted, Inv, TypeOK, CompilationInv, Test
  <1>2. firstTestToGive' = firstTestToGive \/ firstTestToGive' = TestsNumber + 1
    BY AfterFailIsEnd DEF TestJobCompleted, Inv
  <1>3. toGive' \subseteq toGive
    BY <1>1, <1>2 DEF toGive, Inv, TypeOK
  <1>4. returned' <=> toGive' \cup givenJobs' = {}
    BY <1>1, ReturnedWithLastNext
  <1>5. QED
    BY <1>1, <1>3, <1>4 DEF Contract!Complete

\* Every generator of an ICPC submission is one that module Queue may use: it
\* gives the compile job first, then each test once and in order, and returns the
\* submission with the last result and not before.
THEOREM ContractKept == Spec => KeepsContract
  <1>1. Init => Contract!Init
    BY DEF Init, Contract!Init, toGive, Job
  <1>2. Inv /\ Inv' /\ PrefixInv' /\ [Next]_vars
          => [Contract!Next]_<<toGive, givenJobs, requiredJobIDs, returned>>
    <2>. SUFFICES ASSUME Inv, Inv', PrefixInv', [Next]_vars
                  PROVE  \/ Contract!Next
                         \/ UNCHANGED <<toGive, givenJobs, requiredJobIDs, returned>>
      OBVIOUS
    <2>1. CASE GiveCompileJob
      BY <2>1, GiveCompileJobIsGive, TestsNumberAssumption DEF Contract!Next
    <2>2. CASE GiveTest
      <3>1. firstTestToGive \in 0..TestsNumber
        BY <2>2, TestsNumberAssumption DEF GiveTest, TestsAreLeft, Inv, TypeOK
      <3>2. QED
        BY <2>2, <3>1, GiveTestIsGive DEF Contract!Next
    <2>3. CASE CompileJobCompleted
      BY <2>3, CompileJobCompletedIsComplete, TestsNumberAssumption DEF Contract!Next
    <2>4. ASSUME NEW k \in Test, TestJobCompleted(k) PROVE Contract!Next
      <3>1. k \in 0..TestsNumber
        BY TestsNumberAssumption DEF Test
      <3>2. QED
        BY <2>4, <3>1, TestJobCompletedIsComplete DEF Contract!Next
    <2>5. ASSUME NEW k \in Job, AcceptResult(k)
          PROVE  UNCHANGED <<toGive, givenJobs, requiredJobIDs, returned>>
      BY <2>5 DEF AcceptResult, generatorVars, toGive
    <2>6. CASE UNCHANGED vars
      BY <2>6 DEF vars, generatorVars, toGive
    <2>7. QED
      BY <2>1, <2>2, <2>3, <2>4, <2>5, <2>6 DEF Next, NextJob, JobCompleted
  <1>3. QED
    BY <1>1, <1>2, InvIsInvariant, PrefixInvIsInvariant, PTL DEF Spec, KeepsContract, Contract!Spec

----------------------------------------------------------------------------
(* Steps.                                                                   *)

\* A submission that was not compiled, or one of whose tests failed and is known
\* to the generator, gets no further test.
StoppedInv ==
  \A k \in Test \ givenJobs : HasFailed(k) => firstTestToGive = TestsNumber + 1

LEMMA StoppedInvIsInvariant == Spec => []StoppedInv
  <1>1. Init => StoppedInv
    BY DEF Init, StoppedInv, HasFailed, Test, Job
  <1>2. Inv /\ StoppedInv /\ [Next]_vars => StoppedInv'
    <2>. SUFFICES ASSUME Inv, StoppedInv, [Next]_vars PROVE StoppedInv'
      OBVIOUS
    <2>. USE TestsNumberAssumption
    <2>1. CASE GiveCompileJob
      BY <2>1 DEF GiveCompileJob, StoppedInv, HasFailed
    <2>2. CASE GiveTest
      BY <2>2 DEF GiveTest, TestsAreLeft, StoppedInv, HasFailed
    <2>3. CASE CompileJobCompleted
      <3>1. state = "started" /\ givenJobs = {0} /\ reported' = reported
        BY <2>3 DEF CompileJobCompleted, Inv, TypeOK, CompilationInv
      <3>2. \A k \in Test : reported[k] = None
        BY <3>1 DEF Inv, CompilationInv
      <3>3. QED
        BY <3>1, <3>2 DEF StoppedInv, HasFailed
    <2>4. ASSUME NEW j \in Test, TestJobCompleted(j) PROVE StoppedInv'
      <3>. DEFINE v == IF reported[j] = "??" THEN "CF" ELSE reported[j]
      <3>1. /\ givenJobs' = givenJobs \ {j} /\ reported' = reported /\ reported[j] # None
            /\ firstTestToGive' = IF v = "OK" THEN firstTestToGive ELSE AfterFail
        BY <2>4 DEF TestJobCompleted
      <3>2. AfterFail = TestsNumber + 1
        BY AfterFailIsEnd DEF Inv
      <3>3. HasFailed(j) <=> v # "OK"
        BY <3>1 DEF HasFailed
      <3>4. QED
        BY <3>1, <3>2, <3>3 DEF StoppedInv, HasFailed
    <2>5. ASSUME NEW j \in Job, AcceptResult(j) PROVE StoppedInv'
      <3>1. PICK v : reported' = [reported EXCEPT ![j] = v]
        BY <2>5 DEF AcceptResult
      <3>2. j \in givenJobs /\ UNCHANGED <<givenJobs, firstTestToGive>>
        BY <2>5 DEF AcceptResult, generatorVars
      <3>3. \A k \in Test \ givenJobs : reported'[k] = reported[k]
        BY <3>1, <3>2 DEF Inv, TypeOK, Test, Job
      <3>4. QED
        BY <3>2, <3>3 DEF StoppedInv, HasFailed
    <2>6. CASE UNCHANGED vars
      BY <2>6 DEF vars, generatorVars, StoppedInv, HasFailed
    <2>7. QED
      BY <2>1, <2>2, <2>3, <2>4, <2>5, <2>6 DEF Next, NextJob, JobCompleted
  <1>3. QED
    BY <1>1, <1>2, InvIsInvariant, PTL DEF Spec

\* No step gives a test after JobCompleted was called for a test that failed: time
\* is not spent on a submission whose verdict is already bad.
THEOREM NothingIsGivenAfterFailure == Spec => NothingGivenAfterFailure
  <1>1. Inv /\ StoppedInv /\ [Next]_vars
          => [(\E k \in Test \ givenJobs : reported[k] \notin {None, "OK"})
                => givenJobs' \subseteq givenJobs]_vars
    <2>. SUFFICES ASSUME Inv, StoppedInv, Next,
                         NEW k \in Test \ givenJobs, reported[k] \notin {None, "OK"}
                  PROVE  givenJobs' \subseteq givenJobs
      OBVIOUS
    <2>1. firstTestToGive = TestsNumber + 1
      BY DEF StoppedInv, HasFailed
    <2>2. ~ GiveTest
      BY <2>1, TestsNumberAssumption DEF GiveTest, TestsAreLeft
    <2>3. ~ GiveCompileJob
      BY DEF GiveCompileJob, Inv, CompilationInv
    <2>4. QED
      BY <2>2, <2>3 DEF Next, NextJob, JobCompleted, CompileJobCompleted, TestJobCompleted,
         AcceptResult, generatorVars
  <1>2. QED
    BY <1>1, InvIsInvariant, StoppedInvIsInvariant, PTL DEF Spec, NothingGivenAfterFailure

LEMMA UpdateKeepsShown ==
  ASSUME Inv, NEW v, NEW rs, UpdateSubmissionResult(v, rs), verdict # "RU" => v = verdict
  PROVE  /\ verdict # "RU" => verdict' = verdict
         /\ testedPrefixLength <= testedPrefixLength'
         /\ \A k \in 1..testedPrefixLength : testResults'[k] = testResults[k]
  <1>1. PICK p \in testedPrefixLength..TestsNumber :
          /\ testedPrefixLength' = p
          /\ testResults' = ShownResults(v, p, rs)
          /\ v # "RU" => verdict' = v
    BY DEF UpdateSubmissionResult, IsFirstFailure
  <1>2. testedPrefixLength \in Nat /\ p \in Nat /\ testedPrefixLength <= p
    BY TestsNumberAssumption DEF Inv, TypeOK
  <1>3. \A k \in 1..testedPrefixLength : k \in 1..p /\ k <= testedPrefixLength
    BY <1>2
  <1>4. \A k \in 1..testedPrefixLength : testResults'[k] = testResults[k]
    BY <1>1, <1>3 DEF ShownResults
  <1>5. QED
    BY <1>1, <1>2, <1>4

\* What a client was shown stays true: no step replaces a bad verdict (the "change
\* bad verdict" panic), shortens the tested prefix or changes a result in it.
THEOREM ShownResultsAreFinal == Spec => ShownIsFinal
  <1>1. Inv /\ [Next]_vars
          => [/\ verdict # "RU" => verdict' = verdict
              /\ testedPrefixLength <= testedPrefixLength'
              /\ \A k \in 1..testedPrefixLength : testResults'[k] = testResults[k]]_vars
    <2>. SUFFICES ASSUME Inv, Next
                  PROVE  /\ verdict # "RU" => verdict' = verdict
                         /\ testedPrefixLength <= testedPrefixLength'
                         /\ \A k \in 1..testedPrefixLength : testResults'[k] = testResults[k]
      OBVIOUS
    <2>1. testedPrefixLength \in Nat
      BY TestsNumberAssumption DEF Inv, TypeOK
    <2>2. CASE CompileJobCompleted
      <3>1. verdict = "RU"
        BY <2>2 DEF CompileJobCompleted, Inv, CompilationInv
      <3>2. PICK v, rs : UpdateSubmissionResult(v, rs)
        BY <2>2 DEF CompileJobCompleted
      <3>3. QED
        BY <3>1, <3>2, UpdateKeepsShown
    <2>3. ASSUME NEW k \in Test, TestJobCompleted(k)
          PROVE  /\ verdict # "RU" => verdict' = verdict
                 /\ testedPrefixLength <= testedPrefixLength'
                 /\ \A i \in 1..testedPrefixLength : testResults'[i] = testResults[i]
      <3>1. PICK rs : UpdateSubmissionResult(verdict, rs)
        BY <2>3 DEF TestJobCompleted
      <3>2. QED
        BY <3>1, UpdateKeepsShown
    <2>4. CASE UNCHANGED <<verdict, testedPrefixLength, testResults>>
      BY <2>1, <2>4
    <2>5. QED
      BY <2>2, <2>3, <2>4 DEF Next, NextJob, JobCompleted, GiveCompileJob, GiveTest, AcceptResult,
         generatorVars
  <1>2. QED
    BY <1>1, InvIsInvariant, PTL DEF Spec, ShownIsFinal
=============================================================================
