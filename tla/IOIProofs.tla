------------------------------ MODULE IOIProofs ------------------------------
(***************************************************************************)
(* Proofs about module IOIGenerator, for every list of groups that the     *)
(* generator accepts.  What it knows of a test is what was reported of it; *)
(* the groups that get no more jobs are those that a failure it knows of   *)
(* reaches; the tests shown are as deserved and give the score and the     *)
(* verdict; and the generator keeps the contract of module Generator.      *)
(***************************************************************************)
EXTENDS IOIGenerator, FiniteSetTheorems, WellFoundedInduction, TLAPS

Unknown == Result("RU", NoPoints)
NotReported == Result(None, NoPoints)
Skipped == Result("SK", NoPoints)

shown == Len(testResults)

\* JobCompleted was called for test k.
IsCompleted(k) == internalTestResults[k].verdict # "RU"

\* The result rs[k] prevents testing of the group of k; that of a test that was not
\* completed (RU) does.
Prevents(k, rs) == DoesTestPreventTestingGroup(GroupOf[k], rs[k].verdict)

\* JobCompleted was called for test k, which failed.
HasFailed(k) == IsCompleted(k) /\ Prevents(k, internalTestResults)

\* A failure of test i reaches group g.
Reaches(i, g) == g \in Dependents[GroupOf[i]]

\* Group g is marked by what the loop of updateSubmissionResult does at tests before k.
IsMarked(g, k, rs) == \E i \in 1..(k - 1) : Prevents(i, rs) /\ Reaches(i, g)

CompilationFailed == state = "started" /\ 0 \notin givenJobs

\* How far the compilation is.
CompilationInv ==
  /\ state \in {"notStarted", "started", "finished"}
  /\ reported[0] \in {NotReported} \cup {Result(v, NoPoints) : v \in CompileVerdict}
  /\ state = "notStarted" => givenJobs = {} /\ reported[0] = NotReported
  /\ state # "finished" =>
       /\ givenJobs \subseteq {0}
       /\ firstNotGivenTest = 1
       /\ \A k \in Test : ~ IsCompleted(k)
  /\ state = "finished" => reported[0].verdict = "CD" /\ 0 \notin givenJobs
  /\ CompilationFailed => reported[0].verdict \in {"CE", "CF"}
  /\ state = "notStarted" \/ 0 \in givenJobs =>
       /\ testResults = <<>> /\ groupResults = <<>>
       /\ shouldMarkFinalTestsSkipped = {}
       /\ ~ returned /\ ~ crashed

\* Tests are given in order, and what is known of them is what was reported; the
\* others were passed over because of an earlier failure.
TestInv ==
  /\ firstNotGivenTest \in 1..(TestsNumber + 1)
  /\ givenJobs \subseteq Job
  /\ DOMAIN internalTestResults = Test /\ DOMAIN testState = Test
  /\ \A k \in Test :
       /\ testState[k] \in {"notGiven", "running", "finished"}
       /\ testState[k] = "running" <=> k \in givenJobs
       /\ testState[k] = "notGiven" <=> k >= firstNotGivenTest
       /\ IsCompleted(k) =>
            /\ testState[k] = "finished"
            /\ reported[k].verdict # None
            /\ internalTestResults[k] = Populated(GroupOf[k], reported[k])
       /\ reported[k].verdict # None => k \in givenJobs \/ IsCompleted(k)
       /\ testState[k] = "finished" /\ ~ IsCompleted(k) =>
            \E i \in 1..(k - 1) : HasFailed(i) /\ Reaches(i, GroupOf[k])

\* A test is reported as skipped only if a test it requires failed.
ReportInv ==
  /\ DOMAIN reported = Job
  /\ requiredJobIDs \in [Job -> SUBSET Test]
  /\ \A k \in Test : reported[k] \in {NotReported} \cup TestResult
  /\ \A k \in Test : reported[k].verdict = "SK" => IsSkipped(k)
  /\ requiredJobIDs[0] = {}
  /\ \A k \in Test :
       requiredJobIDs[k] \subseteq
         {j \in 1..(k - 1) : Reaches(j, GroupOf[k]) /\ Groups[GroupOf[j]].scoring # "EachTest"}

\* The groups that get no more jobs are those that a known failure reaches.
FlagInv ==
  shouldGiveNewJobs =
    {g \in GroupIndex : \A i \in Test : HasFailed(i) => ~ Reaches(i, g)}

ShownAs(k, rs) ==
  IF IsMarked(GroupOf[k], k, rs) THEN Skipped
  ELSE IF rs[k].verdict = "SK" THEN Result("CF", rs[k].points) ELSE rs[k]

IsPassed(k, rs, states) ==
  \/ states[k] = "finished"
  \/ states[k] = "notGiven" /\ IsMarked(GroupOf[k], k, rs)

\* The tests shown are those the loop has passed.
ShownInv ==
  /\ shown \in 0..TestsNumber
  /\ shouldMarkFinalTestsSkipped \subseteq GroupIndex
  /\ state = "finished" =>
       /\ \A g \in GroupIndex :
            g \in shouldMarkFinalTestsSkipped <=> IsMarked(g, shown + 1, internalTestResults)
       /\ \A k \in 1..shown :
            /\ IsPassed(k, internalTestResults, testState)
            /\ testResults[k] = ShownAs(k, internalTestResults)
  /\ CompilationFailed => \A k \in 1..shown : testResults[k] = Skipped

\* completeGroupTesting panics at group g if the tests are shown so.
PanicsAt(g, ts) ==
  \E i \in Tests(g) :
    /\ ts[i].points = NoPoints
    /\ \/ Groups[g].scoring = "EachTest"
       \/ Groups[g].scoring = "Min" /\ ts[i].verdict # "SK"

\* The groups shown are those whose tests are, unless the last one made it panic.
ScoreInv ==
  /\ Len(groupResults) \in 0..Len(Groups)
  /\ \A g \in GroupIndex :
       g <= Len(groupResults) <=> Groups[g].last <= shown - (IF crashed THEN 1 ELSE 0)
  /\ \A g \in 1..Len(groupResults) :
       groupResults[g] = GroupResult(g, testResults) /\ ~ PanicsAt(g, testResults)
  /\ crashed => ~ returned
  /\ ~ returned =>
       /\ verdict = IF CompilationFailed THEN reported[0].verdict ELSE "RU"
       /\ score = 0
  /\ returned =>
       /\ shown = TestsNumber /\ givenJobs = {}
       /\ verdict = FinalVerdict(IF CompilationFailed THEN reported[0].verdict ELSE "RU",
                                 testResults)
       /\ score = SumFunction([g \in GroupIndex |-> groupResults[g].points])

Inv == CompilationInv /\ TestInv /\ ReportInv /\ FlagInv /\ ShownInv /\ ScoreInv

----------------------------------------------------------------------------
(* Numbers and sums.                                                        *)

LEMMA LessIsWellFounded == IsWellFoundedOn({p \in Nat \X Nat : p[1] < p[2]}, Nat)
  <1>1. {p \in Nat \X Nat : p[1] < p[2]} = OpToRel(<, Nat)
    BY DEF OpToRel
  <1> QED
    BY <1>1, NatLessThanWellFounded

LEMMA LeastNumber ==
  ASSUME NEW S, S \subseteq Nat, S # {}
  PROVE  \E x \in S : \A y \in S : x <= y
  <1>1. PICK x \in S : \A y \in S : ~ (<<y, x>> \in {p \in Nat \X Nat : p[1] < p[2]})
    BY LessIsWellFounded, WFMin
  <1>2. ASSUME NEW y \in S PROVE x <= y
    <2>1. x \in Nat /\ y \in Nat /\ <<y, x>> \in Nat \X Nat
      OBVIOUS
    <2>2. ~ (y < x)
      BY <1>1, <2>1
    <2> QED
      BY <2>1, <2>2
  <1> QED
    BY <1>2

LEMMA GreatestNumber ==
  ASSUME NEW n \in Nat, NEW S, S \subseteq 1..n, S # {}
  PROVE  Max(S) \in S /\ \A y \in S : y <= Max(S)
  <1> DEFINE T == {n - y : y \in S}
  <1>0. \A y \in S : y \in Nat /\ n - y \in Nat
    OBVIOUS
  <1>1. T \subseteq Nat /\ T # {}
    BY <1>0
  <1>2. PICK t \in T : \A u \in T : t <= u
    BY <1>1, LeastNumber
  <1>3. PICK x \in S : t = n - x
    OBVIOUS
  <1>4. ASSUME NEW y \in S PROVE x >= y
    <2>1. n - x <= n - y
      BY <1>2, <1>3
    <2> QED
      BY <1>0, <2>1
  <1>5. Max(S) \in S /\ \A y \in S : Max(S) >= y
    BY <1>4 DEF Max
  <1> QED
    BY <1>5

LEMMA LeastIsNatural ==
  ASSUME NEW S, S \subseteq Nat, S # {}
  PROVE  Min(S) \in Nat
  <1>1. PICK x \in S : \A y \in S : x <= y
    BY LeastNumber
  <1>2. Min(S) \in S
    BY <1>1 DEF Min
  <1> QED
    BY <1>2

LEMMA LengthOfList ==
  ASSUME NEW n \in Nat, NEW f, f = [k \in 1..n |-> f[k]]
  PROVE  Len(f) = n
  <1> DEFINE S == {f[k] : k \in 1..n}
  <1>1. f \in [1..n -> S]
    OBVIOUS
  <1>2. f \in Seq(S)
    BY <1>1
  <1> HIDE DEF S
  <1> QED
    BY <1>1, <1>2

\* The sum of the values of a function.
Chosen(S) == CHOOSE x \in S : TRUE

\* What adds up the values of f on every set in D.
IsSummation(f, D, sum) ==
  sum = [S \in D |-> IF S = {} THEN 0 ELSE f[Chosen(S)] + sum[S \ {Chosen(S)}]]

LEMMA SumIsChosen ==
  ASSUME NEW f, NEW S
  PROVE  SumFunctionOnSet(f, S) = (CHOOSE sum : IsSummation(f, SUBSET S, sum))[S]
  BY DEF SumFunctionOnSet, FoldFunctionOnSet, MapThenFoldSet, IsSummation, Chosen

LEMMA ChosenIsIn == ASSUME NEW S, S # {} PROVE Chosen(S) \in S
  BY DEF Chosen

LEMMA SummationExists ==
  ASSUME NEW f, NEW D, IsFiniteSet(D)
  PROVE  \E sum : IsSummation(f, SUBSET D, sum)
  <1> DEFINE Small(n) == {S \in SUBSET D : Cardinality(S) <= n}
             Bad == {n \in Nat : ~ \E sum : IsSummation(f, Small(n), sum)}
  <1>0. \A S \in SUBSET D : IsFiniteSet(S) /\ Cardinality(S) \in Nat
    BY FS_Subset, FS_CardinalityType
  <1>1. 0 \notin Bad
    <2> DEFINE sum == [S \in Small(0) |-> 0]
    <2>1. \A S \in Small(0) : S = {}
      <3> SUFFICES ASSUME NEW S \in SUBSET D, Cardinality(S) <= 0 PROVE S = {}
        OBVIOUS
      <3>1. Cardinality(S) = 0
        BY <1>0
      <3> QED
        BY <1>0, <3>1, FS_EmptySet
    <2>2. sum = [S \in Small(0) |-> IF S = {} THEN 0 ELSE f[Chosen(S)] + sum[S \ {Chosen(S)}]]
      BY <2>1
    <2> QED
      BY <2>2 DEF IsSummation
  <1>2. ASSUME NEW n \in Nat, n \notin Bad PROVE n + 1 \notin Bad
    <2>1. PICK sum : IsSummation(f, Small(n), sum)
      BY <1>2
    <2> DEFINE e == [S \in Small(n + 1) |->
                       IF S = {} THEN 0 ELSE f[Chosen(S)] + sum[S \ {Chosen(S)}]]
    <2>2. ASSUME NEW S \in Small(n + 1), S # {}
          PROVE  e[S] = f[Chosen(S)] + e[S \ {Chosen(S)}]
      <3> DEFINE T == S \ {Chosen(S)}
      <3>1. Chosen(S) \in S
        BY <2>2, ChosenIsIn
      <3>2. Cardinality(T) = Cardinality(S) - 1
        BY <1>0, <3>1, FS_RemoveElement
      <3>3. T \in Small(n) /\ T \in Small(n + 1)
        BY <1>0, <3>2
      <3>4. sum[T] = IF T = {} THEN 0 ELSE f[Chosen(T)] + sum[T \ {Chosen(T)}]
        BY <2>1, <3>3 DEF IsSummation
      <3>5. e[T] = sum[T]
        BY <3>3, <3>4
      <3> QED
        BY <2>2, <3>5
    <2>3. e = [S \in Small(n + 1) |-> IF S = {} THEN 0 ELSE f[Chosen(S)] + e[S \ {Chosen(S)}]]
      <3>1. \A S \in Small(n + 1) :
              e[S] = IF S = {} THEN 0 ELSE f[Chosen(S)] + e[S \ {Chosen(S)}]
        BY <2>2
      <3> HIDE DEF Small
      <3>2. e = [S \in Small(n + 1) |-> e[S]]
        OBVIOUS
      <3> QED
        BY <3>1, <3>2
    <2> QED
      BY <2>3 DEF IsSummation
  <1>3. Bad = {}
    <2> SUFFICES ASSUME Bad # {} PROVE FALSE
      OBVIOUS
    <2>1. PICK n \in Bad : \A m \in Bad : n <= m
      BY LeastNumber
    <2>2. n \in Nat
      BY <2>1
    <2> HIDE DEF Bad, Small
    <2>3. n # 0
      BY <1>1
    <2>4. n - 1 \in Nat /\ n - 1 \notin Bad
      BY <2>1, <2>2, <2>3
    <2> QED
      BY <1>2, <2>2, <2>4
  <1>4. Small(Cardinality(D)) = SUBSET D
    BY FS_Subset, <1>0
  <1>5. \E sum : IsSummation(f, Small(Cardinality(D)), sum)
    BY <1>0, <1>3
  <1> QED
    BY <1>4, <1>5

\* A sum of natural numbers is one: a set of least size on which it is not would
\* have a smaller one.
LEMMA SumIsNatural ==
  ASSUME NEW D, IsFiniteSet(D), NEW f \in [D -> Nat]
  PROVE  SumFunction(f) \in Nat
  <1>1. DOMAIN f = D
    OBVIOUS
  <1>2. \E sum : IsSummation(f, SUBSET D, sum)
    BY SummationExists
  <1>3. PICK sum : IsSummation(f, SUBSET D, sum) /\ SumFunction(f) = sum[D]
    <2> DEFINE chosen == CHOOSE sum : IsSummation(f, SUBSET D, sum)
    <2>1. IsSummation(f, SUBSET D, chosen)
      BY <1>2
    <2>2. SumFunction(f) = chosen[D]
      BY <1>1, SumIsChosen DEF SumFunction
    <2> HIDE DEF chosen
    <2> QED
      BY <2>1, <2>2
  <1> DEFINE Bad == {S \in SUBSET D : sum[S] \notin Nat}
             sizes == {Cardinality(S) : S \in Bad}
  <1> SUFFICES ASSUME Bad # {} PROVE FALSE
    BY <1>3
  <1>4. \A S \in SUBSET D : IsFiniteSet(S) /\ Cardinality(S) \in Nat
    BY FS_Subset, FS_CardinalityType
  <1>5. PICK S \in Bad : \A n \in sizes : Cardinality(S) <= n
    <2>1. sizes \subseteq Nat /\ sizes # {}
      BY <1>4
    <2> HIDE DEF sizes
    <2>2. PICK n \in sizes : \A m \in sizes : n <= m
      BY <2>1, LeastNumber
    <2>3. PICK S \in Bad : n = Cardinality(S)
      BY <2>2 DEF sizes
    <2> QED
      BY <2>2, <2>3
  <1>6. S \in SUBSET D /\ sum[S] \notin Nat
    OBVIOUS
  <1>7. sum[S] = IF S = {} THEN 0 ELSE f[Chosen(S)] + sum[S \ {Chosen(S)}]
    BY <1>3, <1>6 DEF IsSummation
  <1>8. S # {}
    BY <1>6, <1>7
  <1>9. Chosen(S) \in S /\ f[Chosen(S)] \in Nat
    BY <1>6, <1>8, ChosenIsIn
  <1>10. S \ {Chosen(S)} \in Bad
    BY <1>6, <1>7, <1>8, <1>9
  <1>11. Cardinality(S \ {Chosen(S)}) = Cardinality(S) - 1
    BY <1>4, <1>6, <1>9, FS_RemoveElement
  <1> QED
    BY <1>4, <1>5, <1>6, <1>10, <1>11


----------------------------------------------------------------------------
(* Groups and what they require.                                            *)

LEMMA GroupFacts ==
  /\ Len(Groups) \in Nat
  /\ \A g \in GroupIndex :
       /\ Groups[g] \in TestGroup
       /\ Groups[g].first \in Nat /\ Groups[g].last \in Nat /\ Groups[g].score \in Nat
       /\ Groups[g].first <= Groups[g].last
       /\ Groups[g].first = IF g = 1 THEN 1 ELSE Groups[g - 1].last + 1
       /\ Groups[g].scoring \in {"Complete", "EachTest", "Min"}
       /\ Groups[g].required \subseteq {h \in 1..(g - 1) : Groups[h].scoring = "Complete"}
  <1>1. GroupsAreOK
    BY GroupsAssumption
  <1>2. Groups \in Seq(TestGroup)
    BY <1>1 DEF GroupsAreOK
  <1>3. \A g \in GroupIndex : Groups[g] \in TestGroup
    BY <1>2 DEF GroupIndex
  <1> QED
    BY <1>1, <1>2, <1>3 DEF GroupsAreOK, TestGroup

LEMMA GroupsInOrder ==
  ASSUME NEW g \in GroupIndex, NEW h \in GroupIndex, g < h
  PROVE  Groups[g].last < Groups[h].first
  <1> DEFINE Bad == {i \in GroupIndex : g < i /\ ~ (Groups[g].last < Groups[i].first)}
  <1> SUFFICES ASSUME Bad # {} PROVE FALSE
    OBVIOUS
  <1>1. Bad \subseteq Nat
    BY GroupFacts DEF GroupIndex
  <1>2. PICK i \in Bad : \A j \in Bad : i <= j
    BY <1>1, LeastNumber
  <1>3. i \in GroupIndex /\ g < i /\ ~ (Groups[g].last < Groups[i].first)
    OBVIOUS
  <1>4. PICK j : j = i - 1
    OBVIOUS
  <1>5. j \in GroupIndex /\ g <= j /\ j < i
    BY <1>3, <1>4, GroupFacts DEF GroupIndex
  <1>6. Groups[i].first = Groups[j].last + 1
    BY <1>3, <1>4, <1>5, GroupFacts DEF GroupIndex
  <1>7. g # j
    BY <1>3, <1>6, GroupFacts
  <1>8. j \notin Bad
    BY <1>1, <1>2, <1>5, GroupFacts DEF GroupIndex
  <1>9. Groups[g].last < Groups[j].first
    BY <1>5, <1>7, <1>8 DEF GroupIndex
  <1> QED
    BY <1>3, <1>5, <1>6, <1>9, GroupFacts

LEMMA TestsOfGroups ==
  /\ TestsNumber \in Nat
  /\ \A g \in GroupIndex : /\ 1 <= Groups[g].first /\ Groups[g].last <= TestsNumber
                           /\ Tests(g) \subseteq Test /\ Groups[g].last \in Tests(g)
  /\ Groups # <<>> => Len(Groups) \in GroupIndex /\ Groups[Len(Groups)].last = TestsNumber
  <1>0. Groups \in Seq(TestGroup)
    BY GroupsAssumption DEF GroupsAreOK
  <1>1. Groups # <<>> => Len(Groups) \in GroupIndex /\ Groups[Len(Groups)].last = TestsNumber
    BY <1>0 DEF GroupIndex, TestsNumber
  <1>2. TestsNumber \in Nat
    BY <1>1, GroupFacts DEF TestsNumber
  <1>3. ASSUME NEW g \in GroupIndex
        PROVE  /\ 1 <= Groups[g].first /\ Groups[g].last <= TestsNumber
               /\ Tests(g) \subseteq Test /\ Groups[g].last \in Tests(g)
    <2>1. Groups # <<>>
      BY DEF GroupIndex
    <2>2. PICK n : n = Len(Groups)
      OBVIOUS
    <2>3. n \in GroupIndex /\ Groups[n].last = TestsNumber /\ g <= n
      BY <1>1, <2>1, <2>2, GroupFacts DEF GroupIndex
    <2>4. Groups[g].last <= TestsNumber
      <3>1. CASE g = n
        BY <2>3, <3>1, GroupFacts
      <3>2. CASE g < n
        BY <2>3, <3>2, GroupFacts, GroupsInOrder
      <3> QED
        BY <2>3, <3>1, <3>2, GroupFacts DEF GroupIndex
    <2>5. 1 <= Groups[g].first
      <3>1. CASE g = 1
        BY <3>1, GroupFacts
      <3>2. CASE g # 1
        <4>1. 1 \in GroupIndex /\ 1 < g
          BY <3>2, GroupFacts DEF GroupIndex
        <4>2. Groups[1].last < Groups[g].first
          BY <4>1, GroupsInOrder
        <4> QED
          BY <4>1, <4>2, GroupFacts
      <3> QED
        BY <3>1, <3>2
    <2> QED
      BY <1>2, <2>4, <2>5, GroupFacts DEF Tests, Test
  <1> QED
    BY <1>1, <1>2, <1>3

LEMMA GroupOfTest ==
  ASSUME NEW k \in Test
  PROVE  GroupOf[k] \in GroupIndex /\ \A g \in GroupIndex : k \in Tests(g) <=> GroupOf[k] = g
  <1>1. \E g \in GroupIndex : k \in Tests(g)
    <2> DEFINE Enough == {g \in GroupIndex : k <= Groups[g].last}
    <2>1. k \in Nat /\ 1 <= k /\ k <= TestsNumber
      BY TestsOfGroups DEF Test
    <2>2. Groups # <<>>
      BY <2>1 DEF TestsNumber
    <2>3. Enough # {} /\ Enough \subseteq Nat
      BY <2>1, <2>2, TestsOfGroups, GroupFacts DEF GroupIndex
    <2>4. PICK g \in Enough : \A h \in Enough : g <= h
      BY <2>3, LeastNumber
    <2>5. g \in GroupIndex /\ k <= Groups[g].last
      OBVIOUS
    <2>6. CASE g = 1
      BY <2>1, <2>5, <2>6, GroupFacts DEF Tests
    <2>7. CASE g # 1
      <3>1. PICK h : h = g - 1
        OBVIOUS
      <3>2. h \in GroupIndex /\ ~ (g <= h)
        BY <2>5, <2>7, <3>1, GroupFacts DEF GroupIndex
      <3>3. h \notin Enough
        BY <2>4, <3>2
      <3>4. Groups[h].last < k
        BY <2>1, <3>2, <3>3, GroupFacts
      <3>5. Groups[g].first = Groups[h].last + 1
        BY <2>5, <2>7, <3>1, GroupFacts
      <3> QED
        BY <2>1, <2>5, <3>2, <3>4, <3>5, GroupFacts DEF Tests
    <2> QED
      BY <2>5, <2>6, <2>7
  <1>2. ASSUME NEW g \in GroupIndex, NEW h \in GroupIndex, k \in Tests(g), k \in Tests(h)
        PROVE  g = h
    <2>1. ~ (g < h)
      BY <1>2, GroupFacts, GroupsInOrder DEF Tests
    <2>2. ~ (h < g)
      BY <1>2, GroupFacts, GroupsInOrder DEF Tests
    <2> QED
      BY <2>1, <2>2, GroupFacts DEF GroupIndex
  <1>3. GroupOf[k] \in GroupIndex /\ k \in Tests(GroupOf[k])
    BY <1>1 DEF GroupOf
  <1> QED
    BY <1>2, <1>3

\* The equation of Needed on the first n groups.
IsNeeded(n, needed) ==
  needed = [g \in 1..n |-> Groups[g].required \cup UNION {needed[h] : h \in Groups[g].required}]

LEMMA NeededExists == \E needed : IsNeeded(Len(Groups), needed)
  <1> DEFINE N == Len(Groups)
             Bad == {n \in 0..N : ~ \E needed : IsNeeded(n, needed)}
  <1>1. N \in Nat
    BY GroupFacts
  <1>2. 0 \notin Bad
    <2>1. PICK needed : needed = [g \in 1..0 |-> {}]
      OBVIOUS
    <2>2. IsNeeded(0, needed)
      BY <2>1 DEF IsNeeded
    <2> QED
      BY <2>2
  <1>3. ASSUME NEW n \in 0..N, n + 1 <= N, n \notin Bad PROVE n + 1 \notin Bad
    <2>1. PICK needed : IsNeeded(n, needed)
      BY <1>3
    <2> DEFINE more == [g \in 1..(n + 1) |->
                          Groups[g].required \cup UNION {needed[h] : h \in Groups[g].required}]
    <2>2. ASSUME NEW g \in 1..n PROVE more[g] = needed[g]
      <3>1. g \in 1..(n + 1)
        OBVIOUS
      <3>2. more[g] = Groups[g].required \cup UNION {needed[h] : h \in Groups[g].required}
        BY <3>1
      <3>3. needed[g] = Groups[g].required \cup UNION {needed[h] : h \in Groups[g].required}
        BY <2>1 DEF IsNeeded
      <3> QED
        BY <3>2, <3>3
    <2>3. ASSUME NEW g \in 1..(n + 1) PROVE Groups[g].required \subseteq 1..n
      <3>1. g \in GroupIndex
        BY <1>1, <1>3 DEF GroupIndex
      <3>2. Groups[g].required \subseteq 1..(g - 1)
        BY <3>1, GroupFacts
      <3> QED
        BY <3>2
    <2>4. ASSUME NEW g \in 1..(n + 1)
          PROVE  more[g] = Groups[g].required \cup UNION {more[h] : h \in Groups[g].required}
      <3>1. {more[h] : h \in Groups[g].required} = {needed[h] : h \in Groups[g].required}
        BY <2>2, <2>3
      <3> QED
        BY <3>1
    <2>5. IsNeeded(n + 1, more)
      <3>1. more = [g \in 1..(n + 1) |-> more[g]]
        OBVIOUS
      <3> HIDE DEF more
      <3> QED
        BY <2>4, <3>1 DEF IsNeeded
    <2> QED
      BY <2>5
  <1>4. Bad = {}
    <2> SUFFICES ASSUME Bad # {} PROVE FALSE
      OBVIOUS
    <2>0. Bad \subseteq Nat
      BY <1>1
    <2>1. PICK n \in Bad : \A m \in Bad : n <= m
      BY <2>0, LeastNumber
    <2>2. n \in 0..N
      BY <2>1
    <2> HIDE DEF Bad
    <2>3. n # 0
      BY <1>2
    <2>4. n - 1 \in 0..N /\ n - 1 \notin Bad
      BY <1>1, <2>1, <2>2, <2>3
    <2> QED
      BY <1>1, <1>3, <2>2, <2>4
  <1> QED
    BY <1>1, <1>4

LEMMA NeededFacts ==
  ASSUME NEW g \in GroupIndex
  PROVE  Needed[g] = Groups[g].required \cup UNION {Needed[h] : h \in Groups[g].required}
  <1>1. Needed = CHOOSE needed : IsNeeded(Len(Groups), needed)
    BY DEF Needed, IsNeeded, GroupIndex
  <1>2. IsNeeded(Len(Groups), Needed)
    BY <1>1, NeededExists
  <1> QED
    BY <1>2 DEF IsNeeded, GroupIndex

\* What a group needs comes before it, and is needed with all that it needs.
LEMMA NeededIsClosed ==
  ASSUME NEW g \in GroupIndex
  PROVE  /\ Needed[g] \subseteq GroupIndex
         /\ \A h \in Needed[g] : Needed[h] \subseteq Needed[g]
  <1> DEFINE IsClosed(i) == /\ Needed[i] \subseteq GroupIndex
                            /\ \A h \in Needed[i] : Needed[h] \subseteq Needed[i]
             Bad == {i \in GroupIndex : ~ IsClosed(i)}
  <1> SUFFICES ASSUME Bad # {} PROVE FALSE
    OBVIOUS
  <1>1. Bad \subseteq Nat
    BY GroupFacts DEF GroupIndex
  <1>2. PICK i \in Bad : \A j \in Bad : i <= j
    BY <1>1, LeastNumber
  <1>3. i \in GroupIndex /\ ~ IsClosed(i)
    OBVIOUS
  <1>4. ASSUME NEW h \in Groups[i].required PROVE h \in GroupIndex /\ IsClosed(h)
    <2>1. h \in GroupIndex /\ ~ (i <= h)
      BY <1>3, <1>4, GroupFacts DEF GroupIndex
    <2> HIDE DEF IsClosed
    <2> QED
      BY <1>2, <2>1
  <1>5. Needed[i] = Groups[i].required \cup UNION {Needed[h] : h \in Groups[i].required}
    BY <1>3, NeededFacts
  <1> QED
    BY <1>3, <1>4, <1>5

LEMMA DependentsFacts ==
  ASSUME NEW g \in GroupIndex
  PROVE  /\ g \in Dependents[g]
         /\ Dependents[g] \subseteq GroupIndex
         /\ \A h \in Dependents[g] : Dependents[h] \subseteq Dependents[g]
         /\ \A h \in GroupIndex : g \in Groups[h].required => h \in Dependents[g]
  <1>1. Dependents[g] = {h \in GroupIndex : h = g \/ g \in Needed[h]}
    BY DEF Dependents
  <1>2. ASSUME NEW h \in Dependents[g], NEW i \in Dependents[h] PROVE i \in Dependents[g]
    <2>1. h \in GroupIndex /\ i \in GroupIndex /\ (i = h \/ h \in Needed[i])
      BY <1>1, <1>2 DEF Dependents
    <2> QED
      BY <1>1, <1>2, <2>1, NeededIsClosed
  <1> QED
    BY <1>1, <1>2, NeededFacts

----------------------------------------------------------------------------
(* Marks and flags.                                                         *)

\* A test that was finished without a result is behind a failure.
OnlyReachedAreSkipped(rs, states) ==
  \A k \in Test :
    states[k] = "finished" /\ rs[k].verdict = "RU" =>
      \E i \in 1..(k - 1) :
        rs[i].verdict # "RU" /\ Prevents(i, rs) /\ Reaches(i, GroupOf[k])

\* The tests that were passed over mark no group that the failure before them did
\* not mark.
LEMMA MarkedByFailure ==
  ASSUME NEW rs, NEW states, OnlyReachedAreSkipped(rs, states),
         NEW p \in 0..TestsNumber, \A i \in 1..p : IsPassed(i, rs, states),
         NEW k \in 1..(p + 1), NEW g \in GroupIndex, IsMarked(g, k, rs)
  PROVE  \E i \in 1..(k - 1) : rs[i].verdict # "RU" /\ Prevents(i, rs) /\ Reaches(i, g)
  <1> DEFINE Has(i, h) == rs[i].verdict # "RU" /\ Prevents(i, rs) /\ Reaches(i, h)
             Bad == {j \in 1..p : Prevents(j, rs) /\ ~ \E i \in 1..j : Has(i, GroupOf[j])}
  <1>1. p \in Nat /\ \A i \in 1..p : i \in Test /\ GroupOf[i] \in GroupIndex
    BY TestsOfGroups, GroupOfTest DEF Test
  <1>2. ASSUME NEW i \in 1..p, NEW j \in 1..p, Has(i, GroupOf[j]), NEW h, Reaches(j, h)
        PROVE  Has(i, h)
    BY <1>1, <1>2, DependentsFacts DEF Reaches
  <1>3. Bad = {}
    <2> SUFFICES ASSUME Bad # {} PROVE FALSE
      OBVIOUS
    <2>1. Bad \subseteq Nat
      BY <1>1
    <2>2. PICK j \in Bad : \A m \in Bad : j <= m
      BY <2>1, LeastNumber
    <2>3. j \in 1..p /\ Prevents(j, rs) /\ ~ \E i \in 1..j : Has(i, GroupOf[j])
      OBVIOUS
    <2>4. Reaches(j, GroupOf[j])
      BY <1>1, <2>3, DependentsFacts DEF Reaches
    <2>5. rs[j].verdict = "RU"
      BY <1>1, <2>3, <2>4
    <2>6. ~ \E i \in 1..(j - 1) : Has(i, GroupOf[j])
      BY <1>1, <2>3
    <2>7. CASE states[j] = "finished"
      BY <1>1, <2>3, <2>5, <2>6, <2>7 DEF OnlyReachedAreSkipped
    <2>8. CASE IsMarked(GroupOf[j], j, rs)
      <3>1. PICK i \in 1..(j - 1) : Prevents(i, rs) /\ Reaches(i, GroupOf[j])
        BY <2>8 DEF IsMarked
      <3>2. i \in 1..p /\ i \notin Bad
        BY <1>1, <2>2, <2>3
      <3>3. PICK m \in 1..i : Has(m, GroupOf[i])
        BY <3>1, <3>2
      <3>4. m \in 1..p /\ m \in 1..(j - 1)
        BY <1>1, <2>3
      <3>5. Has(m, GroupOf[j])
        BY <1>2, <2>3, <3>1, <3>2, <3>3, <3>4
      <3> QED
        BY <2>6, <3>4, <3>5
    <2> QED
      BY <2>3, <2>7, <2>8 DEF IsPassed
  <1>4. PICK j \in 1..(k - 1) : Prevents(j, rs) /\ Reaches(j, g)
    BY DEF IsMarked
  <1>5. j \in 1..p
    BY <1>1
  <1>6. PICK i \in 1..j : Has(i, GroupOf[j])
    BY <1>3, <1>4, <1>5
  <1>7. i \in 1..p /\ i \in 1..(k - 1)
    BY <1>1, <1>5
  <1>8. Has(i, g)
    BY <1>2, <1>4, <1>5, <1>6, <1>7
  <1> QED
    BY <1>7, <1>8

LEMMA SkippedAreReached ==
  ASSUME TestInv
  PROVE  OnlyReachedAreSkipped(internalTestResults, testState)
  BY DEF TestInv, OnlyReachedAreSkipped, IsCompleted, HasFailed

\* A group with a marked test gets no more jobs.
LEMMA MarkedGetNoJobs ==
  ASSUME TestInv, FlagInv, ShownInv, state = "finished",
         NEW k \in 1..(shown + 1), NEW g \in GroupIndex, IsMarked(g, k, internalTestResults)
  PROVE  g \notin shouldGiveNewJobs
  <1>1. PICK p \in 0..TestsNumber : p = shown
    BY DEF ShownInv
  <1>2. \A i \in 1..p : IsPassed(i, internalTestResults, testState)
    BY <1>1 DEF ShownInv
  <1>3. k \in 1..(p + 1)
    BY <1>1
  <1>4. PICK i \in 1..(k - 1) : HasFailed(i) /\ Reaches(i, g)
    BY <1>2, <1>3, SkippedAreReached, MarkedByFailure DEF HasFailed, IsCompleted
  <1>5. i \in Test
    BY <1>3, TestsOfGroups DEF Test
  <1> QED
    BY <1>4, <1>5 DEF FlagInv

\* A group that gets no more jobs failed at a test given before.
LEMMA NoJobsMeansFailed ==
  ASSUME TestInv, FlagInv, NEW g \in GroupIndex, g \notin shouldGiveNewJobs
  PROVE  \E i \in Test : i < firstNotGivenTest /\ HasFailed(i) /\ Reaches(i, g)
  <1>1. PICK i \in Test : HasFailed(i) /\ Reaches(i, g)
    BY DEF FlagInv
  <1>2. testState[i] = "finished"
    BY <1>1 DEF TestInv, HasFailed
  <1>3. ~ (i >= firstNotGivenTest)
    BY <1>2 DEF TestInv
  <1>4. i \in Nat /\ firstNotGivenTest \in Nat
    BY TestsOfGroups DEF Test, TestInv
  <1> QED
    BY <1>1, <1>3, <1>4

----------------------------------------------------------------------------
(* The initial state, NextJob and the results that the registry accepts.    *)

LEMMA JobFacts ==
  /\ Test \subseteq Nat /\ Job \subseteq Nat /\ TestsNumber \in Nat
  /\ Job = {0} \cup Test /\ 0 \notin Test
  /\ Test = 1..TestsNumber
  BY TestsOfGroups DEF Test, Job

LEMMA EmptyScore ==
  ASSUME NEW g \in GroupIndex
  PROVE  ~ (Groups[g].last <= 0)
  BY TestsOfGroups, GroupFacts

LEMMA InitInv == Init => Inv
  <1> SUFFICES ASSUME Init PROVE Inv
    OBVIOUS
  <1>1. shown = 0 /\ Len(groupResults) = 0
    BY DEF Init, shown
  <1>2. \A k \in Test : ~ IsCompleted(k) /\ ~ HasFailed(k)
    BY DEF Init, IsCompleted, HasFailed, Unknown, Result
  <1>3. CompilationInv
    BY <1>2, JobFacts DEF Init, CompilationInv, CompilationFailed, NotReported, Result
  <1>4. TestInv
    BY <1>2, JobFacts DEF Init, TestInv, Result
  <1>5. ReportInv
    BY JobFacts DEF Init, ReportInv, NotReported, Result, None
  <1>6. FlagInv
    BY <1>2 DEF Init, FlagInv
  <1>7. ShownInv
    BY <1>1, JobFacts DEF Init, ShownInv, CompilationFailed
  <1>8. ScoreInv
    <2>1. \A g \in GroupIndex : ~ (g <= 0) /\ ~ (Groups[g].last <= 0)
      BY EmptyScore, GroupFacts DEF GroupIndex
    <2>2. shown - (IF crashed THEN 1 ELSE 0) = 0
      <3>1. ~ crashed
        BY DEF Init
      <3>2. PICK c : c = IF crashed THEN 1 ELSE 0
        OBVIOUS
      <3>3. c = 0
        BY <3>1, <3>2, Zenon
      <3>4. shown - c = 0
        BY <1>1, <3>3
      <3> QED
        BY <3>2, <3>4, Zenon
    <2>3. 0 \in 0..Len(Groups) /\ 1..0 = {}
      BY GroupFacts
    <2> QED
      BY <1>1, <2>1, <2>2, <2>3 DEF Init, ScoreInv, CompilationFailed
  <1> QED
    BY <1>3, <1>4, <1>5, <1>6, <1>7, <1>8 DEF Inv

LEMMA ResultsRest ==
  ASSUME UNCHANGED internalTestResults
  PROVE  /\ \A k : IsCompleted(k)' = IsCompleted(k) /\ HasFailed(k)' = HasFailed(k)
         /\ FlagInv /\ UNCHANGED shouldGiveNewJobs => FlagInv'
  BY DEF IsCompleted, HasFailed, Prevents, FlagInv

LEMMA ScoreRests ==
  ASSUME ScoreInv, UNCHANGED resultVars, CompilationFailed' = CompilationFailed,
         CompilationFailed => UNCHANGED reported,
         returned => givenJobs' = givenJobs
  PROVE  ScoreInv'
  BY DEF ScoreInv, resultVars, shown

LEMMA GiveCompileJobInv == ASSUME Inv, GiveCompileJob PROVE Inv'
  <1>1. /\ state = "notStarted" /\ state' = "started" /\ givenJobs = {} /\ givenJobs' = {0}
        /\ UNCHANGED <<firstNotGivenTest, requiredJobIDs, shouldGiveNewJobs, testState,
                       internalTestResults, shouldMarkFinalTestsSkipped, testResults,
                       groupResults, verdict, score, returned, crashed, reported>>
    BY DEF GiveCompileJob, Inv, CompilationInv, resultVars
  <1>2. CompilationInv'
    BY <1>1, ResultsRest DEF Inv, CompilationInv, CompilationFailed
  <1>3. TestInv'
    <2>1. \A k \in Test : k \notin givenJobs /\ k \notin givenJobs'
      BY <1>1, JobFacts
    <2> QED
      BY <1>1, <2>1, ResultsRest, JobFacts DEF Inv, TestInv
  <1>4. ReportInv'
    BY <1>1 DEF Inv, ReportInv, IsSkipped, FailsGroup
  <1>5. FlagInv'
    BY <1>1, ResultsRest DEF Inv
  <1>6. ShownInv'
    BY <1>1 DEF Inv, ShownInv, shown, CompilationFailed
  <1>7. ScoreInv'
    BY <1>1, ScoreRests DEF Inv, CompilationFailed, CompilationInv, resultVars
  <1> QED
    BY <1>2, <1>3, <1>4, <1>5, <1>6, <1>7 DEF Inv

\* Tests are passed over, and maybe one is given.
PassesTo(k, given) ==
  /\ k \in firstNotGivenTest..(TestsNumber + 1)
  /\ PassOver(k - 1)
  /\ given => k \in Test /\ GroupOf[k] \in shouldGiveNewJobs
  /\ testState' = [i \in Test |-> IF given /\ i = k THEN "running"
                                  ELSE IF i \in firstNotGivenTest..(k - 1) THEN "finished"
                                  ELSE testState[i]]
  /\ givenJobs' = IF given THEN givenJobs \cup {k} ELSE givenJobs
  /\ firstNotGivenTest' = IF given THEN k + 1 ELSE k
  /\ UNCHANGED <<state, shouldGiveNewJobs, internalTestResults, resultVars, reported>>

LEMMA PassesToTest ==
  ASSUME Inv, NEW k \in Test, GiveTest(k)
  PROVE  PassesTo(k, TRUE)
  <1>1. firstNotGivenTest \in Nat /\ k \in Nat /\ k \in firstNotGivenTest..(TestsNumber + 1)
    BY JobFacts DEF GiveTest, Inv, TestInv
  <1>2. testState' = [i \in Test |-> IF i = k THEN "running"
                                     ELSE IF i \in firstNotGivenTest..(k - 1) THEN "finished"
                                     ELSE testState[i]]
    <2>1. testState' = [i \in Test |-> IF i = k THEN "running"
                                       ELSE IF i \in firstNotGivenTest..k THEN "finished"
                                       ELSE testState[i]]
      BY DEF GiveTest
    <2>2. \A i \in Test : i # k => (i \in firstNotGivenTest..k <=> i \in firstNotGivenTest..(k - 1))
      BY <1>1, JobFacts
    <2> QED
      BY <2>1, <2>2
  <1> QED
    BY <1>1, <1>2 DEF GiveTest, PassesTo

LEMMA PassesToEnd ==
  ASSUME Inv, GiveNothing
  PROVE  PassesTo(TestsNumber + 1, FALSE)
  <1>1. firstNotGivenTest \in Nat /\ TestsNumber \in Nat
        /\ TestsNumber + 1 \in firstNotGivenTest..(TestsNumber + 1)
    BY JobFacts DEF Inv, TestInv
  <1>2. PassOver((TestsNumber + 1) - 1)
    <2>1. (TestsNumber + 1) - 1 = TestsNumber
      BY <1>1
    <2> QED
      BY <2>1 DEF GiveNothing
  <1>3. testState' = [i \in Test |-> IF i \in firstNotGivenTest..((TestsNumber + 1) - 1)
                                       THEN "finished" ELSE testState[i]]
    <2>1. \A i \in Test : i >= firstNotGivenTest <=> i \in firstNotGivenTest..((TestsNumber + 1) - 1)
      BY <1>1, JobFacts
    <2> QED
      BY <2>1 DEF GiveNothing
  <1> QED
    BY <1>1, <1>2, <1>3 DEF GiveNothing, PassesTo

LEMMA PassInv ==
  ASSUME Inv, NEW k, NEW given \in BOOLEAN, PassesTo(k, given),
         requiredJobIDs' =
           IF given THEN [requiredJobIDs EXCEPT ![k] =
                            {j \in givenJobs : DoesGroupDependOnJob(GroupOf[k], j)}]
           ELSE requiredJobIDs
  PROVE  Inv'
  <1>1. /\ state = "finished" /\ state' = "finished" /\ reported' = reported
        /\ UNCHANGED internalTestResults
        /\ firstNotGivenTest \in Nat /\ k \in Nat /\ k \in firstNotGivenTest..(TestsNumber + 1)
        /\ \A i \in firstNotGivenTest..(k - 1) : GroupOf[i] \notin shouldGiveNewJobs
    BY JobFacts DEF PassesTo, PassOver, Inv, TestInv
  <1>2. given => k \in Test /\ GroupOf[k] \in shouldGiveNewJobs /\ k \notin givenJobs
                 /\ testState[k] = "notGiven"
    BY <1>1 DEF PassesTo, Inv, TestInv
  <1>3. 0 \notin givenJobs /\ 0 \notin givenJobs'
    BY <1>1, <1>2, JobFacts DEF PassesTo, Inv, CompilationInv
  <1>4. \A i \in Test : testState'[i] = IF given /\ i = k THEN "running"
                                        ELSE IF i \in firstNotGivenTest..(k - 1) THEN "finished"
                                        ELSE testState[i]
    BY DEF PassesTo
  <1>5. CompilationInv'
    BY <1>1, <1>3, ResultsRest DEF Inv, CompilationInv, CompilationFailed
  <1>6. TestInv'
    <2>1. firstNotGivenTest' \in 1..(TestsNumber + 1)
      BY <1>1, <1>2, JobFacts DEF PassesTo, Inv, TestInv
    <2>2. givenJobs' \subseteq Job
      BY <1>2, JobFacts DEF PassesTo, Inv, TestInv
    <2>3. DOMAIN internalTestResults' = Test /\ DOMAIN testState' = Test
      BY <1>1 DEF PassesTo, Inv, TestInv
    <2>4. ASSUME NEW i \in Test
          PROVE /\ testState'[i] \in {"notGiven", "running", "finished"}
                /\ testState'[i] = "running" <=> i \in givenJobs'
                /\ testState'[i] = "notGiven" <=> i >= firstNotGivenTest'
      <3>1. i \in Nat
        BY JobFacts
      <3>2. /\ testState[i] \in {"notGiven", "running", "finished"}
            /\ testState[i] = "running" <=> i \in givenJobs
            /\ testState[i] = "notGiven" <=> i >= firstNotGivenTest
        BY DEF Inv, TestInv
      <3>3. i \in givenJobs' <=> (given /\ i = k) \/ i \in givenJobs
        BY DEF PassesTo
      <3>4. firstNotGivenTest' = IF given THEN k + 1 ELSE k
        BY DEF PassesTo
      <3> QED
        BY <1>1, <1>2, <1>4, <3>1, <3>2, <3>3, <3>4
    <2>5. ASSUME NEW i \in Test
          PROVE  /\ IsCompleted(i) => /\ testState'[i] = "finished"
                                      /\ reported'[i].verdict # None
                                      /\ internalTestResults'[i] = Populated(GroupOf[i], reported'[i])
                 /\ reported'[i].verdict # None => i \in givenJobs' \/ IsCompleted(i)
      <3>1. IsCompleted(i) => /\ testState[i] = "finished" /\ reported[i].verdict # None
                              /\ internalTestResults[i] = Populated(GroupOf[i], reported[i])
        BY DEF Inv, TestInv
      <3>2. reported[i].verdict # None => i \in givenJobs \/ IsCompleted(i)
        BY DEF Inv, TestInv
      <3> QED
        BY <1>1, <1>2, <1>4, <3>1, <3>2 DEF PassesTo
    <2>6. ASSUME NEW i \in Test, testState'[i] = "finished", ~ IsCompleted(i)
          PROVE  \E j \in 1..(i - 1) : HasFailed(j) /\ Reaches(j, GroupOf[i])
      <3>1. CASE testState[i] = "finished"
        BY <2>6, <3>1 DEF Inv, TestInv
      <3>2. CASE testState[i] # "finished"
        <4>1. i \in firstNotGivenTest..(k - 1)
          BY <1>4, <2>6, <3>2
        <4>2. PICK j \in Test : j < firstNotGivenTest /\ HasFailed(j) /\ Reaches(j, GroupOf[i])
          BY <1>1, <4>1, NoJobsMeansFailed, GroupOfTest DEF Inv
        <4>3. j \in 1..(i - 1)
          BY <1>1, <4>1, <4>2, JobFacts
        <4> QED
          BY <4>2, <4>3
      <3> QED
        BY <3>1, <3>2
    <2>7. ASSUME NEW i \in Test, testState'[i] = "finished", ~ IsCompleted(i)'
          PROVE  \E j \in 1..(i - 1) : HasFailed(j)' /\ Reaches(j, GroupOf[i])
      BY <1>1, <2>6, <2>7, ResultsRest
    <2>8. \A i \in Test : IsCompleted(i)' = IsCompleted(i)
      BY <1>1, ResultsRest
    <2> QED
      BY <2>1, <2>2, <2>3, <2>4, <2>5, <2>7, <2>8 DEF TestInv, Reaches
  <1>7. ReportInv'
    <2>1. \A i \in Job : requiredJobIDs'[i] =
                           IF given /\ i = k
                             THEN {j \in givenJobs : DoesGroupDependOnJob(GroupOf[k], j)}
                             ELSE requiredJobIDs[i]
      BY JobFacts, <1>2 DEF Inv, ReportInv
    <2>2. requiredJobIDs' \in [Job -> SUBSET Test]
      <3>1. given => {j \in givenJobs : DoesGroupDependOnJob(GroupOf[k], j)} \subseteq Test
        BY <1>3, JobFacts DEF Inv, TestInv
      <3> QED
        BY <3>1 DEF Inv, ReportInv
    <2>3. ASSUME given, NEW j \in givenJobs, DoesGroupDependOnJob(GroupOf[k], j)
          PROVE  /\ j \in 1..(k - 1)
                 /\ Reaches(j, GroupOf[k]) /\ Groups[GroupOf[j]].scoring # "EachTest"
      <3>1. j \in Test /\ k \in Test
        BY <1>2, <1>3, <2>3, JobFacts DEF Inv, TestInv
      <3>2. testState[j] = "running"
        BY <3>1 DEF Inv, TestInv
      <3>3. ~ (j >= firstNotGivenTest)
        BY <3>1, <3>2 DEF Inv, TestInv
      <3>4. j \in 1..(k - 1)
        BY <1>1, <3>1, <3>3, JobFacts
      <3>5. GroupOf[j] \in GroupIndex /\ GroupOf[k] \in GroupIndex
        BY <3>1, GroupOfTest
      <3>6. Reaches(j, GroupOf[k]) /\ Groups[GroupOf[j]].scoring # "EachTest"
        <4>1. CASE GroupOf[j] = GroupOf[k] /\ Groups[GroupOf[k]].scoring # "EachTest"
          BY <3>5, <4>1, DependentsFacts DEF Reaches
        <4>2. CASE GroupOf[j] \in Groups[GroupOf[k]].required
          BY <3>5, <4>2, DependentsFacts, GroupFacts DEF Reaches
        <4> QED
          BY <2>3, <4>1, <4>2 DEF DoesGroupDependOnJob
      <3> QED
        BY <3>4, <3>6
    <2>4. \A i \in Test :
            requiredJobIDs'[i] \subseteq
              {j \in 1..(i - 1) : Reaches(j, GroupOf[i]) /\ Groups[GroupOf[j]].scoring # "EachTest"}
      BY <1>2, <2>1, <2>3, JobFacts DEF Inv, ReportInv
    <2>5. requiredJobIDs'[0] = {}
      BY <1>2, <2>1, JobFacts DEF Inv, ReportInv
    <2> QED
      BY <1>1, <2>2, <2>4, <2>5 DEF Inv, ReportInv, IsSkipped, FailsGroup, Reaches
  <1>8. FlagInv'
    BY <1>1, ResultsRest DEF Inv, PassesTo
  <1>9. ShownInv'
    <2>1. PICK p \in 0..TestsNumber : p = shown
      BY DEF Inv, ShownInv
    <2>2. shown' = p /\ UNCHANGED <<testResults, shouldMarkFinalTestsSkipped>>
      BY <2>1 DEF PassesTo, resultVars, shown
    <2>3. ASSUME NEW i \in 1..p PROVE IsPassed(i, internalTestResults, testState')
      <3>1. i \in Test /\ i \in 1..(p + 1) /\ GroupOf[i] \in GroupIndex
        BY JobFacts, GroupOfTest
      <3>2. IsPassed(i, internalTestResults, testState)
        BY <1>1, <2>1 DEF Inv, ShownInv
      <3>3. CASE testState[i] = "finished"
        BY <1>2, <1>4, <3>1, <3>3 DEF IsPassed
      <3>4. CASE testState[i] = "notGiven" /\ IsMarked(GroupOf[i], i, internalTestResults)
        <4>1. GroupOf[i] \notin shouldGiveNewJobs
          BY <1>1, <2>1, <3>1, <3>4, MarkedGetNoJobs DEF Inv
        <4>2. ~ (given /\ i = k)
          BY <1>2, <4>1
        <4> QED
          BY <1>4, <3>1, <3>4, <4>2 DEF IsPassed
      <3> QED
        BY <3>2, <3>3, <3>4 DEF IsPassed
    <2> QED
      BY <1>1, <1>3, <2>1, <2>2, <2>3 DEF Inv, ShownInv, CompilationFailed
  <1>10. ScoreInv'
    <2>1. returned => givenJobs' = givenJobs
      <3> SUFFICES ASSUME returned, given PROVE FALSE
        BY DEF PassesTo
      <3>1. shown = TestsNumber /\ k \in 1..shown /\ k \in 1..(shown + 1)
        BY <1>2, JobFacts DEF Inv, ScoreInv
      <3>2. IsMarked(GroupOf[k], k, internalTestResults)
        BY <1>1, <1>2, <3>1 DEF Inv, ShownInv, IsPassed
      <3> QED
        BY <1>1, <1>2, <3>1, <3>2, MarkedGetNoJobs, GroupOfTest DEF Inv
    <2> QED
      BY <1>1, <2>1, ScoreRests DEF Inv, PassesTo, CompilationFailed
  <1> QED
    BY <1>5, <1>6, <1>7, <1>8, <1>9, <1>10 DEF Inv

LEMMA GiveTestInv == ASSUME Inv, NEW k \in Test, GiveTest(k) PROVE Inv'
  BY PassesToTest, PassInv DEF GiveTest

LEMMA GiveNothingInv == ASSUME Inv, GiveNothing PROVE Inv'
  BY PassesToEnd, PassInv DEF GiveNothing

\* Verdicts that were reported stay, and so do the failures among them.
LEMMA ReportedStay ==
  ASSUME NEW k, NEW r, reported[k] = NotReported, reported' = [reported EXCEPT ![k] = r]
  PROVE  /\ \A i : FailsGroup(i) => FailsGroup(i)'
         /\ \A i : IsSkipped(i) => IsSkipped(i)'
  <1>1. \A i : reported[i].verdict # None => reported'[i] = reported[i]
    BY DEF NotReported, Result
  <1>2. ASSUME NEW i, FailsGroup(i) PROVE FailsGroup(i)'
    BY <1>1, <1>2 DEF FailsGroup
  <1> QED
    BY <1>2 DEF IsSkipped

\* Only verdicts other than OK and PT fail a group whose scoring is Min, and only OK
\* does not fail one that is scored as a whole.
LEMMA FailsGroupIs ==
  ASSUME NEW k \in Test
  PROVE  FailsGroup(k) <=>
           reported[k].verdict # None
             /\ DoesTestPreventTestingGroup(GroupOf[k], reported[k].verdict)
  <1>1. GroupOf[k] \in GroupIndex /\ Groups[GroupOf[k]].scoring \in {"Complete", "EachTest", "Min"}
    BY GroupOfTest, GroupFacts
  <1>2. CASE Groups[GroupOf[k]].scoring = "Complete"
    BY <1>2 DEF FailsGroup, DoesTestPreventTestingGroup
  <1>3. CASE Groups[GroupOf[k]].scoring = "EachTest"
    BY <1>3 DEF FailsGroup, DoesTestPreventTestingGroup
  <1>4. CASE Groups[GroupOf[k]].scoring = "Min"
    BY <1>4 DEF FailsGroup, DoesTestPreventTestingGroup
  <1> QED
    BY <1>1, <1>2, <1>3, <1>4

LEMMA AcceptResultInv ==
  ASSUME Inv, NEW k \in Job, AcceptResult(k)
  PROVE  Inv'
  <1>1. PICK r \in IF k = 0 THEN {Result(v, NoPoints) : v \in CompileVerdict} ELSE TestResult :
          /\ r.verdict = "SK" => IsStopped(k)
          /\ reported' = [reported EXCEPT ![k] = r]
    BY DEF AcceptResult
  <1>2. /\ k \in givenJobs /\ reported[k] = NotReported
        /\ UNCHANGED generatorVars
    BY JobFacts DEF AcceptResult, Inv, ReportInv, CompilationInv, Result, NotReported,
       CompileVerdict, TestResult, None
  <1>3. \A i \in Job : reported'[i] = IF i = k THEN r ELSE reported[i]
    BY <1>1 DEF Inv, ReportInv
  <1>4. k \in Test => ~ IsCompleted(k)
    BY <1>2 DEF Inv, TestInv, NotReported, Result
  <1>5. r.verdict # None
    BY <1>1 DEF TestResult, CompileVerdict, Result, None
  <1>6. CompilationInv'
    <2>1. k = 0 => state = "started"
      BY <1>2 DEF Inv, CompilationInv
    <2>2. reported'[0] \in {NotReported} \cup {Result(v, NoPoints) : v \in CompileVerdict}
      BY <1>1, <1>3, JobFacts DEF Inv, CompilationInv
    <2>3. k # 0 => reported'[0] = reported[0]
      BY <1>3, JobFacts
    <2>4. state # "notStarted"
      BY <1>2 DEF Inv, CompilationInv
    <2> QED
      BY <1>2, <2>1, <2>2, <2>3, <2>4, ResultsRest
      DEF Inv, CompilationInv, CompilationFailed, generatorVars, givingVars, resultVars
  <1>7. TestInv'
    <2>1. \A i \in Test : reported'[i] = IF i = k THEN r ELSE reported[i]
      BY <1>3, JobFacts
    <2>2. UNCHANGED <<internalTestResults, testState, firstNotGivenTest, givenJobs>>
      BY <1>2 DEF generatorVars, givingVars
    <2>3. \A i : IsCompleted(i)' = IsCompleted(i) /\ HasFailed(i)' = HasFailed(i)
      BY <2>2, ResultsRest
    <2> QED
      BY <1>2, <1>4, <1>5, <2>1, <2>2, <2>3 DEF Inv, TestInv, Reaches
  <1>8. ReportInv'
    <2>1. \A i : IsSkipped(i) => IsSkipped(i)'
      BY <1>1, <1>2, ReportedStay
    <2>2. ASSUME k \in Test, r.verdict = "SK" PROVE IsSkipped(k)
      <3>1. PICK j \in requiredJobIDs[k] : reported[j].verdict \notin {None, "OK", "PT"}
        BY <1>1, <2>2 DEF IsStopped
      <3>2. /\ j \in 1..(k - 1) /\ Reaches(j, GroupOf[k])
            /\ Groups[GroupOf[j]].scoring # "EachTest"
        BY <2>2, <3>1 DEF Inv, ReportInv
      <3>3. j \in Test
        BY <2>2, <3>2, JobFacts
      <3>4. FailsGroup(j)
        BY <3>1, <3>2, <3>3, FailsGroupIs, GroupOfTest, GroupFacts
        DEF DoesTestPreventTestingGroup
      <3> QED
        BY <3>2, <3>4 DEF IsSkipped, Reaches
    <2>3. \A i \in Test : reported'[i] \in {NotReported} \cup TestResult
      BY <1>1, <1>3, JobFacts DEF Inv, ReportInv
    <2>4. \A i \in Test : reported'[i].verdict = "SK" => IsSkipped(i)'
      BY <1>3, <2>1, <2>2, JobFacts DEF Inv, ReportInv
    <2>5. DOMAIN reported' = Job
      BY <1>1 DEF Inv, ReportInv
    <2>6. requiredJobIDs' = requiredJobIDs
      BY <1>2 DEF generatorVars, givingVars
    <2> QED
      BY <2>3, <2>4, <2>5, <2>6 DEF Inv, ReportInv, Reaches
  <1>9. FlagInv'
    BY <1>2, ResultsRest DEF Inv, generatorVars, givingVars
  <1>10. ShownInv'
    BY <1>2 DEF Inv, ShownInv, generatorVars, givingVars, resultVars, CompilationFailed, shown
  <1>11. ScoreInv'
    <2>1. ~ CompilationFailed
      BY <1>2 DEF Inv, CompilationInv, CompilationFailed
    <2> QED
      BY <1>2, <2>1, ScoreRests DEF Inv, generatorVars, givingVars, CompilationFailed
  <1> QED
    BY <1>6, <1>7, <1>8, <1>9, <1>10, <1>11 DEF Inv

----------------------------------------------------------------------------
(* updateSubmissionResult.                                                  *)

\* The groups whose last test is not after q are the first ones.
LEMMA CompletedGroups ==
  ASSUME NEW q \in Int
  PROVE  \E n \in 0..Len(Groups) :
           /\ Cardinality({g \in GroupIndex : Groups[g].last <= q}) = n
           /\ \A g \in GroupIndex : g <= n <=> Groups[g].last <= q
  <1> DEFINE C == {g \in GroupIndex : Groups[g].last <= q}
  <1> SUFFICES \E n \in 0..Len(Groups) :
                 /\ Cardinality(C) = n
                 /\ \A g \in GroupIndex : g <= n <=> Groups[g].last <= q
    OBVIOUS
  <1>1. PICK N \in Nat : N = Len(Groups) /\ GroupIndex = 1..N
    BY GroupFacts DEF GroupIndex
  <1>2. CASE C = {}
    <2>1. Cardinality(C) = 0
      BY <1>2, FS_EmptySet
    <2>2. \A g \in GroupIndex : ~ (g <= 0) /\ ~ (Groups[g].last <= q)
      BY <1>1, <1>2
    <2>3. 0 \in 0..Len(Groups)
      BY <1>1
    <2> HIDE DEF C
    <2> QED
      BY <2>1, <2>2, <2>3
  <1>3. CASE C # {}
    <2>1. C \subseteq 1..N
      BY <1>1
    <2>2. PICK n \in C : \A g \in C : g <= n
      BY <1>3, <2>1, GreatestNumber
    <2>3. n \in GroupIndex /\ n \in 1..N /\ Groups[n].last <= q
      BY <1>1
    <2>4. ASSUME NEW g \in GroupIndex, g <= n PROVE Groups[g].last <= q
      <3>1. CASE g = n
        BY <2>3, <3>1
      <3>2. CASE g < n
        <4>1. Groups[g].last < Groups[n].first
          BY <2>3, <3>2, GroupsInOrder
        <4> QED
          BY <2>3, <4>1, GroupFacts
      <3> QED
        BY <1>1, <2>3, <2>4, <3>1, <3>2
    <2>5. \A g \in GroupIndex : g <= n <=> Groups[g].last <= q
      BY <2>2, <2>4
    <2>6. C = 1..n
      BY <1>1, <2>3, <2>5
    <2>7. Cardinality(C) = n
      <3>1. n \in Int /\ 1 <= n
        BY <2>3
      <3>2. Cardinality(1..n) = n
        BY <3>1, FS_Interval
      <3> QED
        BY <2>6, <3>2
    <2>8. n \in 0..Len(Groups)
      BY <1>1, <2>3
    <2> HIDE DEF C
    <2> QED
      BY <2>5, <2>7, <2>8
  <1> HIDE DEF C
  <1> QED
    BY <1>2, <1>3

\* The update shows the first p tests.
UpdatesTo(p, v, marked, rs, states) ==
  /\ p \in shown..TestsNumber
  /\ shown' = p
  /\ \A k \in 1..p : testResults'[k] = Shown(k, marked, rs)
  /\ shouldMarkFinalTestsSkipped' = MarkedBefore(p + 1, marked, rs)
  /\ IsTestedPrefix(p, marked, rs, states)
  /\ crashed' <=> p > 0 /\ Panics(p, marked, rs)
  /\ returned' \in BOOLEAN
  /\ returned' <=> p = TestsNumber /\ ~ crashed' /\ givenJobs' = {}
  /\ Len(groupResults') \in 0..Len(Groups)
  /\ \A g \in GroupIndex :
       g <= Len(groupResults') <=> Groups[g].last <= p - (IF crashed' THEN 1 ELSE 0)
  /\ \A g \in 1..Len(groupResults') :
       groupResults'[g] = IF g <= Len(groupResults) THEN groupResults[g]
                          ELSE GroupResult(g, testResults')
  /\ verdict' = IF returned' THEN FinalVerdict(v, testResults') ELSE v
  /\ score' = IF returned' THEN SumFunction([g \in GroupIndex |-> groupResults'[g].points])
              ELSE score

LEMMA UpdateFacts ==
  ASSUME NEW v, NEW marked, NEW rs, NEW states,
         UpdateSubmissionResult(v, marked, rs, states),
         shown \in 0..TestsNumber, givenJobs' \subseteq Job
  PROVE  \E p : UpdatesTo(p, v, marked, rs, states)
  <1> DEFINE list(p) == [k \in 1..p |-> Shown(k, marked, rs)]
             panics(p) == p > 0 /\ Panics(p, marked, rs)
             completed(p) ==
               {g \in GroupIndex : Groups[g].last <= p - (IF panics(p) THEN 1 ELSE 0)}
             results(p) == [g \in 1..Cardinality(completed(p)) |->
                              IF g <= Len(groupResults) THEN groupResults[g]
                              ELSE GroupResult(g, list(p))]
             isTested(p) == p = TestsNumber /\ ~ panics(p) /\ givenJobs' = {}
  <1>1. PICK p \in shown..TestsNumber :
          /\ IsTestedPrefix(p, marked, rs, states)
          /\ shouldMarkFinalTestsSkipped' = MarkedBefore(p + 1, marked, rs)
          /\ testResults' = list(p)
          /\ groupResults' = results(p)
          /\ crashed' = panics(p)
          /\ returned' = isTested(p)
          /\ verdict' = IF isTested(p) THEN FinalVerdict(v, list(p)) ELSE v
          /\ score' = IF isTested(p)
                        THEN SumFunction([g \in GroupIndex |-> results(p)[g].points]) ELSE score
    BY DEF UpdateSubmissionResult, shown
  <1>2. p \in Nat
    BY JobFacts
  <1>3. shown' = p /\ \A k \in 1..p : testResults'[k] = Shown(k, marked, rs)
    <2>1. \A k \in 1..p : testResults'[k] = Shown(k, marked, rs)
      BY <1>1
    <2>2. testResults' = [k \in 1..p |-> testResults'[k]]
      BY <1>1
    <2>3. Len(testResults') = p
      BY <1>2, <2>2, LengthOfList
    <2> QED
      BY <2>1, <2>3 DEF shown
  <1>4. PICK n \in 0..Len(Groups) :
          /\ Cardinality(completed(p)) = n
          /\ \A g \in GroupIndex : g <= n <=> Groups[g].last <= p - (IF panics(p) THEN 1 ELSE 0)
    <2>1. p - (IF panics(p) THEN 1 ELSE 0) \in Int
      BY <1>2
    <2> QED
      BY <2>1, CompletedGroups
  <1>5. n \in Nat
    BY GroupFacts
  <1>6. Len(groupResults') = n
    <2>1. groupResults' = [g \in 1..n |-> groupResults'[g]]
      BY <1>1, <1>4
    <2> QED
      BY <1>5, <2>1, LengthOfList
  <1>7. \A g \in 1..n : groupResults'[g] = IF g <= Len(groupResults) THEN groupResults[g]
                                           ELSE GroupResult(g, testResults')
    BY <1>1, <1>4
  <1>8. (crashed' <=> panics(p)) /\ (returned' <=> isTested(p))
    BY <1>1
  <1>9. score' = IF returned' THEN SumFunction([g \in GroupIndex |-> groupResults'[g].points])
                 ELSE score
    BY <1>1, <1>8
  <1>10. verdict' = IF returned' THEN FinalVerdict(v, testResults') ELSE v
    BY <1>1, <1>8
  <1>11. p - (IF panics(p) THEN 1 ELSE 0) = p - (IF crashed' THEN 1 ELSE 0)
    BY <1>8
  <1> HIDE DEF panics, completed, results, list
  <1>12. returned' <=> p = TestsNumber /\ ~ crashed' /\ givenJobs' = {}
    BY <1>8
  <1>13. crashed' <=> p > 0 /\ Panics(p, marked, rs)
    BY <1>8 DEF panics
  <1> QED
    BY <1>1, <1>3, <1>4, <1>6, <1>7, <1>9, <1>10, <1>11, <1>12, <1>13 DEF UpdatesTo

\* What is marked of the tests shown is marked by their results.
MarksMatch(marked, rs) ==
  /\ marked \subseteq GroupIndex
  /\ \A g \in GroupIndex : g \in marked <=> IsMarked(g, shown + 1, rs)

LEMMA MarkedBeforeIs ==
  ASSUME shown \in 0..TestsNumber, NEW marked, NEW rs, MarksMatch(marked, rs),
         NEW k \in (shown + 1)..(TestsNumber + 1)
  PROVE  /\ MarkedBefore(k, marked, rs) \subseteq GroupIndex
         /\ \A g \in GroupIndex : g \in MarkedBefore(k, marked, rs) <=> IsMarked(g, k, rs)
  <1>1. PICK n \in 0..TestsNumber : n = shown /\ n = Len(testResults)
    BY DEF shown
  <1>2. n \in Nat /\ k \in Nat /\ n + 1 <= k /\ k <= TestsNumber + 1 /\ TestsNumber \in Nat
    BY <1>1, JobFacts
  <1>3. MarkedBefore(k, marked, rs) =
          marked \cup UNION {Dependents[GroupOf[i]] :
                               i \in {i \in (n + 1)..(k - 1) : Prevents(i, rs)}}
    BY <1>1 DEF MarkedBefore, Prevents
  <1>4. \A i \in 1..(k - 1) : i \in Test /\ Dependents[GroupOf[i]] \subseteq GroupIndex
    BY <1>2, JobFacts, GroupOfTest, DependentsFacts
  <1>5. MarkedBefore(k, marked, rs) \subseteq GroupIndex
    <2>1. \A i \in (n + 1)..(k - 1) : i \in 1..(k - 1)
      BY <1>2
    <2> QED
      BY <1>3, <1>4, <2>1 DEF MarksMatch
  <1>6. ASSUME NEW g \in GroupIndex
        PROVE  g \in MarkedBefore(k, marked, rs) <=> IsMarked(g, k, rs)
    <2>1. g \in MarkedBefore(k, marked, rs) <=>
            \/ g \in marked
            \/ \E i \in (n + 1)..(k - 1) : Prevents(i, rs) /\ Reaches(i, g)
      BY <1>3 DEF Reaches
    <2>2. g \in marked <=> \E i \in 1..((n + 1) - 1) : Prevents(i, rs) /\ Reaches(i, g)
      BY <1>1 DEF MarksMatch, IsMarked
    <2>3. \A i : i \in 1..(k - 1) <=> i \in 1..((n + 1) - 1) \/ i \in (n + 1)..(k - 1)
      BY <1>2
    <2> QED
      BY <2>1, <2>2, <2>3 DEF IsMarked
  <1> QED
    BY <1>5, <1>6

LEMMA UpdatedShown ==
  ASSUME shown \in 0..TestsNumber, NEW marked, NEW rs, NEW states, MarksMatch(marked, rs),
         \A k \in 1..shown : IsPassed(k, rs, states) /\ testResults[k] = ShownAs(k, rs),
         NEW p, NEW v, UpdatesTo(p, v, marked, rs, states)
  PROVE  /\ \A k \in 1..p : IsPassed(k, rs, states) /\ testResults'[k] = ShownAs(k, rs)
         /\ shouldMarkFinalTestsSkipped' \subseteq GroupIndex
         /\ \A g \in GroupIndex : g \in shouldMarkFinalTestsSkipped' <=> IsMarked(g, p + 1, rs)
  <1>1. PICK n \in 0..TestsNumber : n = shown /\ n = Len(testResults)
    BY DEF shown
  <1>2. n \in Nat /\ p \in Nat /\ p \in n..TestsNumber /\ TestsNumber \in Nat
    BY <1>1, JobFacts DEF UpdatesTo
  <1>3. /\ shouldMarkFinalTestsSkipped' \subseteq GroupIndex
        /\ \A g \in GroupIndex : g \in shouldMarkFinalTestsSkipped' <=> IsMarked(g, p + 1, rs)
    <2>1. p + 1 \in (shown + 1)..(TestsNumber + 1)
      BY <1>1, <1>2
    <2> QED
      BY <2>1, MarkedBeforeIs DEF UpdatesTo
  <1>4. ASSUME NEW k \in 1..p
        PROVE  IsPassed(k, rs, states) /\ testResults'[k] = ShownAs(k, rs)
    <2>0. testResults'[k] = Shown(k, marked, rs)
      BY DEF UpdatesTo
    <2>1. CASE k <= n
      <3>1. k \in 1..shown
        BY <1>1, <1>2, <2>1
      <3>2. Shown(k, marked, rs) = testResults[k]
        BY <1>1, <2>1 DEF Shown
      <3> QED
        BY <2>0, <3>1, <3>2
    <2>2. CASE ~ (k <= n)
      <3>1. k \in (n + 1)..p /\ k \in (shown + 1)..(TestsNumber + 1) /\ k \in Test
        BY <1>1, <1>2, <2>2, JobFacts
      <3>2. GroupOf[k] \in GroupIndex
        BY <3>1, GroupOfTest
      <3>3. GroupOf[k] \in MarkedBefore(k, marked, rs) <=> IsMarked(GroupOf[k], k, rs)
        BY <3>1, <3>2, MarkedBeforeIs
      <3>4. Shown(k, marked, rs) = ShownAs(k, rs)
        BY <1>1, <2>2, <3>3 DEF Shown, ShownAs, Skipped
      <3>5. CanPass(k, marked, rs, states)
        BY <1>1, <3>1 DEF UpdatesTo, IsTestedPrefix
      <3> QED
        BY <2>0, <3>3, <3>4, <3>5 DEF CanPass, IsPassed
    <2> QED
      BY <2>1, <2>2
  <1> QED
    BY <1>3, <1>4

\* The result of a group depends on its tests only.
LEMMA GroupResultRests ==
  ASSUME NEW g, NEW ts, NEW us, \A k \in Tests(g) : ts[k] = us[k]
  PROVE  GroupResult(g, ts) = GroupResult(g, us) /\ (PanicsAt(g, ts) <=> PanicsAt(g, us))
  <1>1. (\A k \in Tests(g) : ts[k].verdict = "OK") <=> (\A k \in Tests(g) : us[k].verdict = "OK")
    OBVIOUS
  <1>2. [k \in Tests(g) |-> ts[k].points] = [k \in Tests(g) |-> us[k].points]
    OBVIOUS
  <1>3. {IF ts[k].verdict = "SK" THEN 0 ELSE ts[k].points : k \in Tests(g)}
          = {IF us[k].verdict = "SK" THEN 0 ELSE us[k].points : k \in Tests(g)}
    OBVIOUS
  <1>4. GroupResult(g, ts) = GroupResult(g, us)
    BY <1>1, <1>2, <1>3 DEF GroupResult
  <1> QED
    BY <1>4 DEF PanicsAt


LEMMA UpdatedScore ==
  ASSUME ScoreInv, shown \in 0..TestsNumber, ~ crashed, ~ returned,
         NEW p, NEW v, NEW marked, NEW rs, NEW states, UpdatesTo(p, v, marked, rs, states),
         v = IF CompilationFailed' THEN reported'[0].verdict ELSE "RU"
  PROVE  ScoreInv'
  <1>1. PICK n \in 0..TestsNumber : n = shown /\ n = Len(testResults)
    BY DEF shown
  <1>2. n \in Nat /\ p \in Nat /\ p \in n..TestsNumber /\ TestsNumber \in Nat /\ shown' = p
    BY <1>1, JobFacts DEF UpdatesTo
  <1>3. PICK len \in 0..Len(Groups) : len = Len(groupResults)
    BY DEF ScoreInv
  <1>4. PICK len2 \in 0..Len(Groups) : len2 = Len(groupResults')
    BY DEF UpdatesTo
  <1>5. PICK q \in {p - 1, p} : q = p - (IF crashed' THEN 1 ELSE 0) /\ (~ crashed' => q = p)
    <2>1. PICK d : d = IF crashed' THEN 1 ELSE 0
      OBVIOUS
    <2>2. d \in {0, 1} /\ (~ crashed' => d = 0)
      BY <2>1, Zenon
    <2>3. p - d \in {p - 1, p} /\ (~ crashed' => p - d = p)
      BY <1>2, <2>2
    <2>4. p - d = p - (IF crashed' THEN 1 ELSE 0)
      BY <2>1, Zenon
    <2> QED
      BY <2>3, <2>4
  <1>6. /\ len \in Nat /\ len2 \in Nat
        /\ 1..len \subseteq GroupIndex /\ 1..len2 \subseteq GroupIndex
    BY GroupFacts DEF GroupIndex
  <1>7. \A g \in GroupIndex : g <= len <=> Groups[g].last <= n
    <2>1. PICK d : d = IF crashed THEN 1 ELSE 0
      OBVIOUS
    <2>2. d = 0
      BY <2>1, Zenon
    <2>3. \A g \in GroupIndex : g <= len <=> Groups[g].last <= n - d
      BY <1>1, <1>3, <2>1 DEF ScoreInv
    <2>4. n - d = n
      BY <1>2, <2>2
    <2> QED
      BY <2>3, <2>4
  <1>8. \A g \in GroupIndex : g <= len2 <=> Groups[g].last <= q
    BY <1>4, <1>5 DEF UpdatesTo
  <1>9. ASSUME NEW g \in 1..len2
        PROVE  groupResults'[g] = GroupResult(g, testResults') /\ ~ PanicsAt(g, testResults')
    <2>1. g \in GroupIndex /\ Groups[g].last <= q
      BY <1>6, <1>8
    <2>2. PICK last \in Nat : last = Groups[g].last
      BY <2>1, GroupFacts
    <2>3. last <= p /\ \A k \in Tests(g) : k \in Nat /\ 1 <= k /\ k <= last
      BY <1>2, <1>5, <2>1, <2>2, TestsOfGroups, GroupFacts, JobFacts DEF Tests
    <2>4. \A k \in Tests(g) : k \in 1..p /\ testResults'[k] = Shown(k, marked, rs)
      BY <1>2, <2>3 DEF UpdatesTo
    <2>5. CASE g <= len
      <3>1. last <= n
        BY <1>7, <2>1, <2>2, <2>5
      <3>2. \A k \in Tests(g) : testResults'[k] = testResults[k]
        BY <1>1, <1>2, <2>3, <2>4, <3>1 DEF Shown
      <3>3. /\ GroupResult(g, testResults') = GroupResult(g, testResults)
            /\ PanicsAt(g, testResults') <=> PanicsAt(g, testResults)
        BY <3>2, GroupResultRests
      <3>4. g \in 1..Len(groupResults)
        BY <1>3, <1>6, <2>5
      <3>5. groupResults[g] = GroupResult(g, testResults) /\ ~ PanicsAt(g, testResults)
        BY <3>4 DEF ScoreInv
      <3>6. groupResults'[g] = groupResults[g]
        BY <1>3, <1>4, <2>5 DEF UpdatesTo
      <3> QED
        BY <3>3, <3>5, <3>6
    <2>6. CASE ~ (g <= len)
      <3>1. ~ (last <= n)
        BY <1>7, <2>1, <2>2, <2>6
      <3>2. last \in Test /\ last \in (n + 1)..p /\ GroupOf[last] = g
        BY <1>2, <2>1, <2>2, <2>3, <3>1, TestsOfGroups, GroupOfTest
      <3>3. ~ Panics(last, marked, rs)
        <4>1. CASE last = p
          <5>1. ~ crashed'
            BY <1>2, <1>5, <2>1, <2>2, <4>1
          <5> QED
            BY <1>2, <3>2, <4>1, <5>1 DEF UpdatesTo
        <4>2. CASE last # p
          <5>1. last \in (Len(testResults) + 1)..(p - 1)
            BY <1>1, <1>2, <3>2, <4>2
          <5> QED
            BY <5>1 DEF UpdatesTo, IsTestedPrefix
        <4> QED
          BY <4>1, <4>2
      <3>4. last > Len(testResults)
        BY <1>1, <1>2, <3>2
      <3>5. ~ \E i \in Tests(g) :
                /\ Shown(i, marked, rs).points = NoPoints
                /\ \/ Groups[g].scoring = "EachTest"
                   \/ Groups[g].scoring = "Min" /\ Shown(i, marked, rs).verdict # "SK"
        BY <2>2, <3>2, <3>3, <3>4 DEF Panics
      <3>6. ~ PanicsAt(g, testResults')
        BY <2>4, <3>5 DEF PanicsAt
      <3>7. groupResults'[g] = GroupResult(g, testResults')
        BY <1>3, <1>4, <2>6 DEF UpdatesTo
      <3> QED
        BY <3>6, <3>7
    <2> QED
      BY <2>5, <2>6
  <1>10. /\ crashed' => ~ returned'
         /\ ~ returned' => verdict' = v /\ score' = 0
         /\ returned' =>
              /\ shown' = TestsNumber /\ givenJobs' = {}
              /\ verdict' = FinalVerdict(v, testResults')
              /\ score' = SumFunction([g \in GroupIndex |-> groupResults'[g].points])
    BY DEF UpdatesTo, ScoreInv
  <1>11. \A g \in GroupIndex :
           g <= Len(groupResults') <=> Groups[g].last <= shown' - (IF crashed' THEN 1 ELSE 0)
    BY <1>2 DEF UpdatesTo
  <1> QED
    BY <1>4, <1>9, <1>10, <1>11 DEF ScoreInv

----------------------------------------------------------------------------
(* JobCompleted.                                                            *)

LEMMA CompileJobCompletedInv ==
  ASSUME Inv, ~ crashed, CompileJobCompleted
  PROVE  Inv'
  <1>1. /\ state = "started" /\ 0 \in givenJobs /\ givenJobs = {0} /\ givenJobs' = {}
        /\ reported' = reported
        /\ reported[0].verdict \in CompileVerdict
        /\ shown = 0 /\ shouldMarkFinalTestsSkipped = {} /\ ~ returned
        /\ UNCHANGED <<firstNotGivenTest, requiredJobIDs, shouldGiveNewJobs, testState,
                       internalTestResults>>
    BY DEF CompileJobCompleted, Inv, CompilationInv, NotReported, Result, CompileVerdict, None, shown
  <1>2. \A k \in Test : k \notin givenJobs /\ k \notin givenJobs'
    BY <1>1, JobFacts
  <1>3. TestInv'
    BY <1>1, <1>2, ResultsRest DEF Inv, TestInv, Reaches
  <1>4. ReportInv'
    BY <1>1 DEF Inv, ReportInv, IsSkipped, FailsGroup, Reaches
  <1>5. FlagInv'
    BY <1>1, ResultsRest DEF Inv
  <1>6. shown \in 0..TestsNumber /\ givenJobs' \subseteq Job
    BY <1>1, JobFacts
  <1>7. verdict = "RU"
    BY <1>1 DEF Inv, ScoreInv, CompilationFailed
  <1>8. CASE reported[0].verdict = "CD"
    <2>1. /\ state' = "finished"
          /\ UpdateSubmissionResult(verdict, shouldMarkFinalTestsSkipped,
                                    internalTestResults, testState)
      BY <1>8 DEF CompileJobCompleted
    <2>2. PICK p : UpdatesTo(p, verdict, shouldMarkFinalTestsSkipped, internalTestResults, testState)
      BY <1>6, <2>1, UpdateFacts
    <2>3. ~ CompilationFailed'
      BY <2>1 DEF CompilationFailed
    <2>4. CompilationInv'
      BY <1>1, <1>8, <2>1, <2>3, ResultsRest DEF Inv, CompilationInv, CompilationFailed
    <2>5. MarksMatch(shouldMarkFinalTestsSkipped, internalTestResults)
      BY <1>1 DEF MarksMatch, IsMarked
    <2>6. \A k \in 1..shown : /\ IsPassed(k, internalTestResults, testState)
                              /\ testResults[k] = ShownAs(k, internalTestResults)
      BY <1>1
    <2>7. /\ \A k \in 1..p : /\ IsPassed(k, internalTestResults, testState)
                             /\ testResults'[k] = ShownAs(k, internalTestResults)
          /\ shouldMarkFinalTestsSkipped' \subseteq GroupIndex
          /\ \A g \in GroupIndex : g \in shouldMarkFinalTestsSkipped'
                                     <=> IsMarked(g, p + 1, internalTestResults)
      BY <1>6, <2>2, <2>5, <2>6, UpdatedShown
    <2>8. shown' = p /\ p \in 0..TestsNumber
      BY <1>1, <2>2 DEF UpdatesTo
    <2>9. ShownInv'
      BY <1>1, <2>3, <2>7, <2>8 DEF ShownInv, IsPassed, ShownAs, IsMarked, Prevents, Reaches
    <2>10. ScoreInv'
      BY <1>1, <1>6, <1>7, <2>2, <2>3, UpdatedScore DEF Inv
    <2> QED
      BY <1>3, <1>4, <1>5, <2>4, <2>9, <2>10 DEF Inv
  <1>9. CASE reported[0].verdict # "CD"
    <2>1. /\ state' = "started"
          /\ UpdateSubmissionResult(reported[0].verdict, GroupIndex, internalTestResults, testState)
      BY <1>1, <1>9 DEF CompileJobCompleted
    <2>2. PICK p : UpdatesTo(p, reported[0].verdict, GroupIndex, internalTestResults, testState)
      BY <1>6, <2>1, UpdateFacts
    <2>3. CompilationFailed'
      BY <1>1, <2>1 DEF CompilationFailed
    <2>4. CompilationInv'
      BY <1>1, <1>9, <2>1, ResultsRest DEF Inv, CompilationInv, CompilationFailed, CompileVerdict
    <2>5. p \in 0..TestsNumber /\ shown' = p
      BY <1>1, <2>2 DEF UpdatesTo
    <2>6. \A k \in 1..p : k \in Test /\ testResults'[k] = Skipped
      <3>1. \A k \in 1..p : k \in Test /\ GroupOf[k] \in GroupIndex /\ ~ (k <= Len(testResults))
        BY <1>1, <2>5, JobFacts, GroupOfTest DEF shown
      <3>2. \A k : GroupIndex \subseteq MarkedBefore(k, GroupIndex, internalTestResults)
        BY DEF MarkedBefore
      <3> QED
        BY <2>2, <3>1, <3>2 DEF UpdatesTo, Shown, Skipped
    <2>7. shouldMarkFinalTestsSkipped' \subseteq GroupIndex
      <3>1. \A i \in 1..p : Dependents[GroupOf[i]] \subseteq GroupIndex
        BY <2>6, GroupOfTest, DependentsFacts
      <3>2. Len(testResults) = 0
        BY <1>1 DEF shown
      <3>3. p \in Nat
        BY <2>5, JobFacts
      <3>4. \A i \in (0 + 1)..((p + 1) - 1) : i \in 1..p
        BY <3>3
      <3> QED
        BY <2>2, <3>1, <3>2, <3>4 DEF UpdatesTo, MarkedBefore
    <2>8. ShownInv'
      BY <2>1, <2>5, <2>6, <2>7 DEF ShownInv
    <2>9. ScoreInv'
      BY <1>1, <1>6, <2>2, <2>3, UpdatedScore DEF Inv
    <2> QED
      BY <1>3, <1>4, <1>5, <2>4, <2>8, <2>9 DEF Inv
  <1> QED
    BY <1>8, <1>9

\* A result is known with the verdict that was reported: one with the verdict PT
\* comes with points.
LEMMA PopulatedVerdict ==
  ASSUME NEW g, NEW r \in TestResult
  PROVE  Populated(g, r).verdict = r.verdict /\ r.verdict \in {"OK", "WA", "CF", "SK", "PT"}
  <1>1. ASSUME r.verdict = "PT" PROVE r.points # NoPoints
    <2>1. PICK p \in PartialPoints : r = Result("PT", p)
      BY <1>1 DEF TestResult, Result
    <2>2. r.points \in Nat
      BY <2>1, GroupsAssumption DEF Result
    <2> QED
      BY <2>2 DEF NoPoints
  <1>2. r.verdict \in {"OK", "WA", "CF", "SK", "PT"}
    BY DEF TestResult, Result
  <1> QED
    BY <1>1, <1>2 DEF Populated, Result

\* A running test is not among those shown: its result changes no mark of theirs.
LEMMA ShownStay ==
  ASSUME Inv, state = "finished", NEW k \in Test, k \in givenJobs,
         NEW r, internalTestResults' = [internalTestResults EXCEPT ![k] = r]
  PROVE  /\ \A i \in 1..shown : i \in Test /\ i # k
         /\ \A g, i : i \in 1..(shown + 1) =>
              (IsMarked(g, i, internalTestResults') <=> IsMarked(g, i, internalTestResults))
         /\ MarksMatch(shouldMarkFinalTestsSkipped, internalTestResults')
  <1>1. PICK n \in 0..TestsNumber : n = shown
    BY DEF Inv, ShownInv
  <1>2. \A i \in 1..n : i \in Test /\ i # k
    BY <1>1, JobFacts DEF Inv, TestInv, ShownInv, IsPassed
  <1>3. \A i \in Test : i # k => internalTestResults'[i] = internalTestResults[i]
    BY DEF Inv, TestInv
  <1>4. \A g, i : i \in 1..(n + 1) =>
           (IsMarked(g, i, internalTestResults') <=> IsMarked(g, i, internalTestResults))
    <2>1. \A i \in 1..n : Prevents(i, internalTestResults') <=> Prevents(i, internalTestResults)
      BY <1>2, <1>3 DEF Prevents
    <2>2. \A i \in 1..(n + 1) : \A j \in 1..(i - 1) : j \in 1..n
      BY JobFacts
    <2> QED
      BY <2>1, <2>2 DEF IsMarked
  <1>5. MarksMatch(shouldMarkFinalTestsSkipped, internalTestResults')
    <2>1. n + 1 \in 1..(n + 1)
      BY JobFacts
    <2> QED
      BY <1>1, <1>4, <2>1 DEF Inv, ShownInv, MarksMatch
  <1> QED
    BY <1>1, <1>2, <1>4, <1>5

LEMMA TestJobCompletedInv ==
  ASSUME Inv, ~ crashed, NEW k \in Test, TestJobCompleted(k)
  PROVE  Inv'
  <1> DEFINE r == Populated(GroupOf[k], reported[k])
  <1>1. /\ k \in givenJobs /\ reported[k].verdict # None /\ reported[k] \in TestResult
        /\ givenJobs' = givenJobs \ {k}
        /\ state = "finished" /\ 0 \notin givenJobs
        /\ UNCHANGED <<state, firstNotGivenTest, requiredJobIDs, reported>>
    BY JobFacts DEF TestJobCompleted, Inv, CompilationInv, ReportInv, NotReported, Result
  <1>2. GroupOf[k] \in GroupIndex /\ testState[k] = "running" /\ ~ IsCompleted(k)
    BY <1>1, GroupOfTest DEF Inv, TestInv
  <1>3. /\ internalTestResults' = [internalTestResults EXCEPT ![k] = r]
        /\ testState' = [testState EXCEPT ![k] = "finished"]
        /\ shouldGiveNewJobs' = StopGivingNewTestsIfNeeded(GroupOf[k], r.verdict)
        /\ UpdateSubmissionResult(verdict, shouldMarkFinalTestsSkipped,
                                  internalTestResults', testState')
    BY DEF TestJobCompleted
  <1>4. r.verdict # "RU"
    BY <1>1, PopulatedVerdict
  <1>5. /\ DOMAIN internalTestResults' = Test /\ DOMAIN testState' = Test
        /\ \A i \in Test : internalTestResults'[i] = IF i = k THEN r ELSE internalTestResults[i]
        /\ \A i \in Test : testState'[i] = IF i = k THEN "finished" ELSE testState[i]
    BY <1>3 DEF Inv, TestInv
  <1> HIDE DEF r
  <1>6. /\ \A i \in Test : IsCompleted(i)' <=> i = k \/ IsCompleted(i)
        /\ \A i \in Test : HasFailed(i) => HasFailed(i)'
        /\ \A i \in Test : i # k => (HasFailed(i)' <=> HasFailed(i))
        /\ HasFailed(k)' <=> DoesTestPreventTestingGroup(GroupOf[k], r.verdict)
    BY <1>2, <1>4, <1>5 DEF IsCompleted, HasFailed, Prevents
  <1>7. /\ verdict = "RU" /\ ~ returned
    BY <1>1 DEF Inv, ScoreInv, CompilationFailed
  <1>8. givenJobs' \subseteq Job /\ shown \in 0..TestsNumber
    BY <1>1 DEF Inv, TestInv, ShownInv
  <1>9. PICK p : UpdatesTo(p, verdict, shouldMarkFinalTestsSkipped, internalTestResults', testState')
    BY <1>3, <1>8, UpdateFacts
  <1>10. CompilationInv'
    BY <1>1 DEF Inv, CompilationInv, CompilationFailed
  <1>11. TestInv'
    <2>1. ASSUME NEW i \in Test
          PROVE  /\ testState'[i] \in {"notGiven", "running", "finished"}
                 /\ testState'[i] = "running" <=> i \in givenJobs'
                 /\ testState'[i] = "notGiven" <=> i >= firstNotGivenTest
                 /\ IsCompleted(i)' =>
                      /\ testState'[i] = "finished"
                      /\ reported[i].verdict # None
                      /\ internalTestResults'[i] = Populated(GroupOf[i], reported[i])
                 /\ reported[i].verdict # None => i \in givenJobs' \/ IsCompleted(i)'
      BY <1>1, <1>2, <1>5, <1>6 DEF Inv, TestInv, r
    <2>2. ASSUME NEW i \in Test, testState'[i] = "finished", ~ IsCompleted(i)'
          PROVE  \E j \in 1..(i - 1) : HasFailed(j)' /\ Reaches(j, GroupOf[i])
      <3>1. i # k /\ testState[i] = "finished" /\ ~ IsCompleted(i)
        BY <1>5, <1>6, <2>2
      <3>2. PICK j \in 1..(i - 1) : HasFailed(j) /\ Reaches(j, GroupOf[i])
        BY <3>1 DEF Inv, TestInv
      <3>3. j \in Test
        BY JobFacts
      <3> QED
        BY <1>6, <3>2, <3>3
    <2> QED
      BY <1>1, <1>5, <1>8, <2>1, <2>2 DEF Inv, TestInv, Reaches
  <1>12. ReportInv'
    BY <1>1 DEF Inv, ReportInv, IsSkipped, FailsGroup, Reaches
  <1>13. FlagInv'
    <2>1. shouldGiveNewJobs = {g \in GroupIndex : \A i \in Test : HasFailed(i) => ~ Reaches(i, g)}
      BY DEF Inv, FlagInv
    <2>2. \A g \in GroupIndex :
            (\A i \in Test : HasFailed(i)' => ~ Reaches(i, g))
              <=> /\ \A i \in Test : HasFailed(i) => ~ Reaches(i, g)
                  /\ HasFailed(k)' => ~ Reaches(k, g)
      BY <1>2, <1>6 DEF HasFailed
    <2>3. shouldGiveNewJobs' =
            {g \in GroupIndex : \A i \in Test : HasFailed(i)' => ~ Reaches(i, g)}
      <3>1. CASE DoesTestPreventTestingGroup(GroupOf[k], r.verdict)
        BY <1>3, <1>6, <2>1, <2>2, <3>1 DEF StopGivingNewTestsIfNeeded, Reaches
      <3>2. CASE ~ DoesTestPreventTestingGroup(GroupOf[k], r.verdict)
        BY <1>3, <1>6, <2>1, <2>2, <3>2 DEF StopGivingNewTestsIfNeeded
      <3> QED
        BY <3>1, <3>2
    <2> QED
      BY <2>3 DEF FlagInv, Reaches
  <1>14. PICK n \in 0..TestsNumber : n = shown
    BY <1>8
  <1>15. \A i \in 1..n : i \in Test /\ i # k
    BY <1>1, <1>3, <1>14, ShownStay DEF Inv
  <1>16. \A g, i : i \in 1..(n + 1) =>
           (IsMarked(g, i, internalTestResults') <=> IsMarked(g, i, internalTestResults))
    BY <1>1, <1>3, <1>14, ShownStay DEF Inv
  <1>17. MarksMatch(shouldMarkFinalTestsSkipped, internalTestResults')
    BY <1>1, <1>3, ShownStay DEF Inv
  <1>18. ASSUME NEW i \in 1..shown
         PROVE  /\ IsPassed(i, internalTestResults', testState')
                /\ testResults[i] = ShownAs(i, internalTestResults')
    <2>1. i \in Test /\ i # k /\ i \in 1..(n + 1)
      BY <1>14, <1>15, JobFacts
    <2>2. internalTestResults'[i] = internalTestResults[i] /\ testState'[i] = testState[i]
      BY <1>5, <2>1
    <2>3. /\ IsPassed(i, internalTestResults, testState)
          /\ testResults[i] = ShownAs(i, internalTestResults)
      BY <1>1 DEF Inv, ShownInv
    <2> QED
      BY <1>16, <2>1, <2>2, <2>3 DEF IsPassed, ShownAs
  <1>19. /\ \A i \in 1..p : /\ IsPassed(i, internalTestResults', testState')
                            /\ testResults'[i] = ShownAs(i, internalTestResults')
         /\ shouldMarkFinalTestsSkipped' \subseteq GroupIndex
         /\ \A g \in GroupIndex : g \in shouldMarkFinalTestsSkipped'
                                    <=> IsMarked(g, p + 1, internalTestResults')
    <2> DEFINE rs == internalTestResults'
               states == testState'
    <2>1. /\ MarksMatch(shouldMarkFinalTestsSkipped, rs)
          /\ UpdatesTo(p, verdict, shouldMarkFinalTestsSkipped, rs, states)
          /\ \A i \in 1..shown : IsPassed(i, rs, states) /\ testResults[i] = ShownAs(i, rs)
      BY <1>9, <1>17, <1>18
    <2> HIDE DEF rs, states
    <2>2. /\ \A i \in 1..p : IsPassed(i, rs, states) /\ testResults'[i] = ShownAs(i, rs)
          /\ shouldMarkFinalTestsSkipped' \subseteq GroupIndex
          /\ \A g \in GroupIndex : g \in shouldMarkFinalTestsSkipped' <=> IsMarked(g, p + 1, rs)
      BY <1>8, <2>1, UpdatedShown
    <2> QED
      BY <2>2 DEF rs, states
  <1>20. shown' = p /\ p \in 0..TestsNumber
    BY <1>9, <1>14, JobFacts DEF UpdatesTo
  <1>21. ~ CompilationFailed'
    BY <1>1 DEF CompilationFailed
  <1>22. ShownInv'
    BY <1>19, <1>20, <1>21 DEF ShownInv, IsPassed, ShownAs, IsMarked, Prevents, Reaches
  <1>23. ScoreInv'
    BY <1>7, <1>8, <1>9, <1>21, UpdatedScore DEF Inv
  <1> QED
    BY <1>10, <1>11, <1>12, <1>13, <1>22, <1>23 DEF Inv

THEOREM InvIsInvariant == Spec => []Inv
  <1>1. Inv /\ [Next]_vars => Inv'
    <2> SUFFICES ASSUME Inv, [Next]_vars PROVE Inv'
      OBVIOUS
    <2>1. CASE UNCHANGED vars
      <3>1. UNCHANGED <<state, firstNotGivenTest, givenJobs, requiredJobIDs, shouldGiveNewJobs,
                        shouldMarkFinalTestsSkipped, testState, internalTestResults, testResults,
                        groupResults, verdict, score, returned, crashed, reported>>
        BY <2>1 DEF vars, generatorVars, givingVars, resultVars
      <3>2. CompilationInv' /\ TestInv' /\ ReportInv' /\ FlagInv'
        BY <3>1, ResultsRest
        DEF Inv, CompilationInv, CompilationFailed, TestInv, Reaches, ReportInv, IsSkipped, FailsGroup
      <3>3. ShownInv' /\ ScoreInv'
        BY <3>1, ScoreRests DEF Inv, ShownInv, shown, CompilationFailed, IsPassed, ShownAs,
           IsMarked, Prevents, Reaches, resultVars
      <3> QED
        BY <3>2, <3>3 DEF Inv
    <2>2. CASE Next
      BY <2>2, GiveCompileJobInv, GiveTestInv, GiveNothingInv, CompileJobCompletedInv,
         TestJobCompletedInv, AcceptResultInv DEF Next, NextJob, JobCompleted
    <2> QED
      BY <2>1, <2>2
  <1> QED
    BY <1>1, InitInv, PTL DEF Spec

----------------------------------------------------------------------------
(* What is shown is deserved.                                               *)

\* What is known of a test is what was reported of it.
LEMMA KnownFailure ==
  ASSUME Inv, NEW k \in Test, IsCompleted(k)
  PROVE  /\ reported[k] \in TestResult
         /\ internalTestResults[k] = Populated(GroupOf[k], reported[k])
         /\ internalTestResults[k].verdict = reported[k].verdict
         /\ Prevents(k, internalTestResults) <=> FailsGroup(k)
  <1>1. reported[k] \in TestResult /\ reported[k].verdict # None
    BY DEF Inv, TestInv, ReportInv, NotReported, Result
  <1>2. internalTestResults[k] = Populated(GroupOf[k], reported[k])
    BY DEF Inv, TestInv
  <1>3. internalTestResults[k].verdict = reported[k].verdict
    BY <1>1, <1>2, PopulatedVerdict
  <1> QED
    BY <1>1, <1>2, <1>3, FailsGroupIs DEF Prevents

LEMMA MarkedAreSkipped ==
  ASSUME Inv, state = "finished", NEW k \in 1..shown
  PROVE  /\ IsMarked(GroupOf[k], k, internalTestResults) <=> IsSkipped(k)
         /\ ~ IsSkipped(k) => IsCompleted(k)
  <1>1. PICK n \in 0..TestsNumber : n = shown
    BY DEF Inv, ShownInv
  <1>2. /\ k \in Test /\ GroupOf[k] \in GroupIndex /\ k \in 1..(n + 1)
        /\ \A i \in 1..(k - 1) : i \in Test /\ i \in 1..n
    BY <1>1, JobFacts, GroupOfTest
  <1>3. \A i \in 1..n : IsPassed(i, internalTestResults, testState)
    BY <1>1 DEF Inv, ShownInv
  <1>4. ASSUME IsMarked(GroupOf[k], k, internalTestResults) PROVE IsSkipped(k)
    <2>1. PICK i \in 1..(k - 1) : HasFailed(i) /\ Reaches(i, GroupOf[k])
      BY <1>2, <1>3, <1>4, SkippedAreReached, MarkedByFailure DEF Inv, HasFailed, IsCompleted
    <2>2. FailsGroup(i)
      BY <1>2, <2>1, KnownFailure DEF HasFailed
    <2> QED
      BY <2>1, <2>2 DEF IsSkipped, Reaches
  <1>5. ASSUME IsSkipped(k) PROVE IsMarked(GroupOf[k], k, internalTestResults)
    <2>1. PICK i \in 1..(k - 1) : FailsGroup(i) /\ Reaches(i, GroupOf[k])
      BY <1>5 DEF IsSkipped, Reaches
    <2>2. i \in Test /\ testState[i] # "running" /\ reported[i].verdict # None
      BY <1>2, <1>3, <2>1 DEF IsPassed, FailsGroup
    <2>3. IsCompleted(i)
      BY <2>2 DEF Inv, TestInv
    <2>4. Prevents(i, internalTestResults)
      BY <2>1, <2>2, <2>3, KnownFailure
    <2> QED
      BY <2>1, <2>4 DEF IsMarked
  <1>6. ASSUME ~ IsMarked(GroupOf[k], k, internalTestResults) PROVE IsCompleted(k)
    <2> SUFFICES ASSUME ~ IsCompleted(k) PROVE FALSE
      OBVIOUS
    <2>1. testState[k] = "finished"
      BY <1>1, <1>3, <1>6 DEF IsPassed
    <2>2. PICK i \in 1..(k - 1) : HasFailed(i) /\ Reaches(i, GroupOf[k])
      BY <1>2, <2>1 DEF Inv, TestInv
    <2> QED
      BY <1>6, <2>2 DEF IsMarked, HasFailed
  <1> QED
    BY <1>4, <1>5, <1>6

\* A test is shown as skipped, or with what was reported of it.
LEMMA ShownIs ==
  ASSUME Inv, state = "finished", NEW k \in 1..shown
  PROVE  IF IsSkipped(k) THEN testResults[k] = Skipped
         ELSE /\ testResults[k] = Populated(GroupOf[k], reported[k])
              /\ reported[k] \in TestResult /\ reported[k].verdict # "SK"
              /\ testResults[k].verdict = reported[k].verdict
  <1>1. testResults[k] = ShownAs(k, internalTestResults)
    BY DEF Inv, ShownInv
  <1>2. CASE IsSkipped(k)
    BY <1>1, <1>2, MarkedAreSkipped DEF ShownAs
  <1>3. CASE ~ IsSkipped(k)
    <2>1. k \in Test
      BY JobFacts DEF Inv, ShownInv
    <2>2. IsCompleted(k) /\ ~ IsMarked(GroupOf[k], k, internalTestResults)
      BY <1>3, MarkedAreSkipped
    <2>3. reported[k].verdict # "SK"
      BY <1>3, <2>1 DEF Inv, ReportInv
    <2> QED
      BY <1>1, <1>3, <2>1, <2>2, <2>3, KnownFailure DEF ShownAs
  <1> QED
    BY <1>2, <1>3

\* How far the compilation is when tests are shown.
LEMMA WhenTestsAreShown ==
  ASSUME Inv, NEW k \in 1..shown
  PROVE  \/ state = "finished" /\ reported[0].verdict = "CD"
         \/ CompilationFailed /\ reported[0].verdict # "CD" /\ testResults[k] = Skipped
  <1>1. ~ (state = "notStarted" \/ 0 \in givenJobs)
    BY DEF Inv, CompilationInv, shown
  <1>2. CASE state = "finished"
    BY <1>2 DEF Inv, CompilationInv
  <1>3. CASE CompilationFailed
    BY <1>3 DEF Inv, CompilationInv, ShownInv
  <1> QED
    BY <1>1, <1>2, <1>3 DEF Inv, CompilationInv, CompilationFailed

LEMMA ShownAreDeserved == Inv => ResultsAreDeserved
  <1> SUFFICES ASSUME Inv, NEW k \in 1..shown PROVE testResults[k].verdict = DeservedVerdict(k)
    BY DEF ResultsAreDeserved, shown
  <1>1. CASE state = "finished" /\ reported[0].verdict = "CD"
    BY <1>1, ShownIs DEF DeservedVerdict, Skipped, Result
  <1>2. CASE reported[0].verdict # "CD" /\ testResults[k] = Skipped
    BY <1>2 DEF DeservedVerdict, Skipped, Result
  <1> QED
    BY <1>1, <1>2, WhenTestsAreShown

\* Whatever order the results come in, the tests shown have the verdicts they deserve.
THEOREM ResultsAreAsDeserved == Spec => []ResultsAreDeserved
  BY InvIsInvariant, ShownAreDeserved, PTL

\* The points that test k brings group g.
TestPoints(k, g) ==
  IF DeservedVerdict(k) = "OK" THEN Groups[g].score
  ELSE IF DeservedVerdict(k) = "PT" THEN reported[k].points ELSE 0

LEMMA ReportedPoints ==
  ASSUME NEW r \in TestResult
  PROVE  IF r.verdict = "PT" THEN r.points \in Nat ELSE r.points = NoPoints
  <1>1. CASE r \in {Result(v, NoPoints) : v \in {"OK", "WA", "CF", "SK"}}
    BY <1>1 DEF Result
  <1>2. CASE r \in {Result("PT", p) : p \in PartialPoints}
    BY <1>2, GroupsAssumption DEF Result
  <1> QED
    BY <1>1, <1>2 DEF TestResult

LEMMA PointsAreDeserved ==
  ASSUME Inv, NEW g \in GroupIndex, NEW k \in Tests(g), k \in 1..shown
  PROVE  /\ TestPoints(k, g) \in Nat
         /\ Groups[g].scoring # "Complete" /\ testResults[k].verdict # "SK"
              /\ testResults[k].points # NoPoints
              => testResults[k].points = TestPoints(k, g)
         /\ testResults[k].verdict = "SK" =>
              TestPoints(k, g) = 0 /\ testResults[k].points = NoPoints
  <1>1. k \in Test /\ GroupOf[k] = g /\ Groups[g].score \in Nat
    BY TestsOfGroups, GroupOfTest, GroupFacts
  <1>2. testResults[k].verdict = DeservedVerdict(k)
    BY ShownAreDeserved DEF ResultsAreDeserved, shown
  <1>3. CASE DeservedVerdict(k) = "SK" /\ testResults[k] = Skipped
    BY <1>3 DEF TestPoints, Skipped, Result
  <1>4. CASE /\ testResults[k] = Populated(g, reported[k])
             /\ reported[k] \in TestResult /\ reported[k].verdict # "SK"
             /\ DeservedVerdict(k) = reported[k].verdict
    <2>1. /\ reported[k].verdict = "PT" => reported[k].points \in Nat
          /\ reported[k].verdict # "PT" => reported[k].points = NoPoints
      BY <1>4, ReportedPoints
    <2>2. TestPoints(k, g) \in Nat
      BY <1>1, <1>4, <2>1 DEF TestPoints
    <2>3. ASSUME Groups[g].scoring # "Complete", testResults[k].points # NoPoints
          PROVE  testResults[k].points = TestPoints(k, g)
      BY <1>4, <2>1, <2>3 DEF TestPoints, Populated, Result
    <2> QED
      BY <1>2, <1>4, <2>2, <2>3
  <1>5. CASE state = "finished" /\ reported[0].verdict = "CD"
    BY <1>1, <1>2, <1>3, <1>4, <1>5, ShownIs DEF Skipped, Result
  <1>6. CASE testResults[k] = Skipped
    BY <1>2, <1>3, <1>6 DEF Skipped, Result
  <1> QED
    BY <1>5, <1>6, WhenTestsAreShown

LEMMA GroupsAreDeserved ==
  ASSUME Inv, NEW g \in GroupIndex, g <= Len(groupResults)
  PROVE  groupResults[g].points = DeservedPoints(g) /\ DeservedPoints(g) \in Nat
  <1>1. PICK n \in 0..TestsNumber : n = shown
    BY DEF Inv, ShownInv
  <1>2. PICK d \in {0, 1} : d = IF crashed THEN 1 ELSE 0
    OBVIOUS
  <1>3. Groups[g].last <= n - d
    BY <1>1, <1>2 DEF Inv, ScoreInv
  <1>4. \A k \in Tests(g) : k \in 1..shown
    BY <1>1, <1>2, <1>3, TestsOfGroups, GroupFacts, JobFacts DEF Tests
  <1>5. groupResults[g] = GroupResult(g, testResults) /\ ~ PanicsAt(g, testResults)
    <2>1. g \in 1..Len(groupResults)
      BY GroupFacts DEF GroupIndex, Inv, ScoreInv
    <2> QED
      BY <2>1 DEF Inv, ScoreInv
  <1>6. \A k \in Tests(g) : testResults[k].verdict = DeservedVerdict(k) /\ TestPoints(k, g) \in Nat
    BY <1>4, ShownAreDeserved, PointsAreDeserved DEF ResultsAreDeserved, shown
  <1>7. Groups[g].score \in Nat /\ Groups[g].scoring \in {"Complete", "EachTest", "Min"}
        /\ Groups[g].first \in Nat /\ Groups[g].last \in Nat
    BY GroupFacts
  <1>8. DeservedPoints(g) =
          IF Groups[g].scoring = "EachTest" THEN SumFunction([k \in Tests(g) |-> TestPoints(k, g)])
          ELSE IF Groups[g].scoring = "Min"
          THEN Min({Groups[g].score} \cup {TestPoints(k, g) : k \in Tests(g)})
          ELSE IF \A k \in Tests(g) : DeservedVerdict(k) = "OK" THEN Groups[g].score ELSE 0
    <2> DEFINE points == [k \in Tests(g) |-> TestPoints(k, g)]
    <2>1. {points[k] : k \in Tests(g)} = {TestPoints(k, g) : k \in Tests(g)}
      OBVIOUS
    <2> QED
      BY <2>1 DEF DeservedPoints, TestPoints
  <1>9. CASE Groups[g].scoring = "Complete"
    <2>1. (\A k \in Tests(g) : testResults[k].verdict = "OK")
            <=> \A k \in Tests(g) : DeservedVerdict(k) = "OK"
      BY <1>6
    <2> QED
      BY <1>5, <1>7, <1>8, <1>9, <2>1 DEF GroupResult
  <1>10. CASE Groups[g].scoring = "EachTest"
    <2>1. \A k \in Tests(g) : testResults[k].points = TestPoints(k, g)
      BY <1>4, <1>5, <1>10, PointsAreDeserved DEF PanicsAt
    <2>2. [k \in Tests(g) |-> testResults[k].points] = [k \in Tests(g) |-> TestPoints(k, g)]
      BY <2>1
    <2>3. SumFunction([k \in Tests(g) |-> TestPoints(k, g)]) \in Nat
      <3>1. IsFiniteSet(Tests(g))
        <4>1. Groups[g].first \in Int /\ Groups[g].last \in Int
          BY <1>7
        <4>2. IsFiniteSet(Groups[g].first .. Groups[g].last)
          BY <4>1, FS_Interval
        <4> QED
          BY <4>2 DEF Tests
      <3>2. [k \in Tests(g) |-> TestPoints(k, g)] \in [Tests(g) -> Nat]
        BY <1>6
      <3> QED
        BY <3>1, <3>2, SumIsNatural
    <2> QED
      BY <1>5, <1>8, <1>10, <2>2, <2>3 DEF GroupResult
  <1>11. CASE Groups[g].scoring = "Min"
    <2>1. \A k \in Tests(g) :
            (IF testResults[k].verdict = "SK" THEN 0 ELSE testResults[k].points) = TestPoints(k, g)
      BY <1>4, <1>5, <1>11, PointsAreDeserved DEF PanicsAt
    <2>2. {IF testResults[k].verdict = "SK" THEN 0 ELSE testResults[k].points : k \in Tests(g)}
            = {TestPoints(k, g) : k \in Tests(g)}
      BY <2>1
    <2>3. Min({Groups[g].score} \cup {TestPoints(k, g) : k \in Tests(g)}) \in Nat
      <3> DEFINE S == {Groups[g].score} \cup {TestPoints(k, g) : k \in Tests(g)}
      <3>1. S \subseteq Nat /\ S # {}
        BY <1>6, <1>7
      <3> HIDE DEF S
      <3>2. Min(S) \in Nat
        BY <3>1, LeastIsNatural
      <3> QED
        BY <3>2 DEF S
    <2>4. groupResults[g].points =
            Min({Groups[g].score} \cup
                {IF testResults[k].verdict = "SK" THEN 0 ELSE testResults[k].points : k \in Tests(g)})
      BY <1>5, <1>11 DEF GroupResult
    <2>5. DeservedPoints(g) = Min({Groups[g].score} \cup {TestPoints(k, g) : k \in Tests(g)})
      BY <1>8, <1>11
    <2> QED
      BY <2>2, <2>3, <2>4, <2>5
  <1> QED
    BY <1>7, <1>9, <1>10, <1>11

\* When the submission is returned, all tests and groups are shown.
LEMMA AllAreShown ==
  ASSUME Inv, returned
  PROVE  /\ shown = TestsNumber
         /\ score = SumFunction([g \in GroupIndex |-> DeservedPoints(g)])
         /\ \A g \in GroupIndex : DeservedPoints(g) \in Nat
         /\ \A k \in Test : testResults[k].verdict = DeservedVerdict(k)
  <1>1. shown = TestsNumber /\ ~ crashed
    BY DEF Inv, ScoreInv
  <1>2. \A g \in GroupIndex : g <= Len(groupResults)
    <2>1. PICK d : d = IF crashed THEN 1 ELSE 0
      OBVIOUS
    <2>2. d = 0
      BY <1>1, <2>1, Zenon
    <2>3. \A g \in GroupIndex : g <= Len(groupResults) <=> Groups[g].last <= TestsNumber - d
      BY <1>1, <2>1 DEF Inv, ScoreInv
    <2> QED
      BY <2>2, <2>3, TestsOfGroups, GroupFacts
  <1>3. \A g \in GroupIndex :
          groupResults[g].points = DeservedPoints(g) /\ DeservedPoints(g) \in Nat
    BY <1>2, GroupsAreDeserved
  <1>4. [g \in GroupIndex |-> groupResults[g].points] = [g \in GroupIndex |-> DeservedPoints(g)]
    BY <1>3
  <1>5. \A k \in Test : testResults[k].verdict = DeservedVerdict(k)
    BY <1>1, ShownAreDeserved, JobFacts DEF ResultsAreDeserved, shown
  <1> QED
    BY <1>1, <1>3, <1>4, <1>5 DEF Inv, ScoreInv

\* A test is skipped only behind one that is shown with another verdict than OK.
LEMMA SkippedBehindBad ==
  ASSUME Inv, reported[0].verdict = "CD", NEW k \in Test, DeservedVerdict(k) # "OK"
  PROVE  \E i \in Test : DeservedVerdict(i) \notin {"OK", "SK"}
  <1>0. \A i \in Test : reported[i].verdict = "SK" => IsSkipped(i)
    BY DEF Inv, ReportInv
  <1>1. CASE ~ IsSkipped(k)
    BY <1>0, <1>1 DEF DeservedVerdict
  <1>2. CASE IsSkipped(k)
    <2> DEFINE Bad == {i \in Test : FailsGroup(i)}
    <2>1. Bad # {} /\ Bad \subseteq Nat
      BY <1>2, JobFacts DEF IsSkipped
    <2>2. PICK i \in Bad : \A j \in Bad : i <= j
      BY <2>1, LeastNumber
    <2>3. i \in Test /\ FailsGroup(i)
      OBVIOUS
    <2>4. ~ IsSkipped(i)
      BY <2>2, <2>3, JobFacts DEF IsSkipped
    <2>5. reported[i].verdict # "OK"
      BY <2>3, FailsGroupIs DEF DoesTestPreventTestingGroup
    <2> QED
      BY <1>0, <2>3, <2>4, <2>5 DEF DeservedVerdict
  <1> QED
    BY <1>1, <1>2

LEMMA FinalVerdictIsDeserved ==
  ASSUME Inv, returned, state = "finished"
  PROVE  /\ verdict \in {"OK", "CF", "PT"}
         /\ verdict = "OK" <=> \A k \in Test : DeservedVerdict(k) = "OK"
         /\ verdict = "CF" => \E k \in Test : DeservedVerdict(k) = "CF"
         /\ verdict = "PT" => \E k \in Test : DeservedVerdict(k) \notin {"OK", "SK"}
  <1> DEFINE bad == {k \in Test : testResults[k].verdict \notin {"OK", "SK"}}
  <1>1. \A k \in Test : testResults[k].verdict = DeservedVerdict(k)
    BY AllAreShown
  <1>2. verdict = FinalVerdict("RU", testResults)
    BY DEF Inv, ScoreInv, CompilationFailed
  <1>3. verdict = IF bad = {} THEN "OK"
                  ELSE IF testResults[Max(bad)].verdict = "CF" THEN "CF" ELSE "PT"
    BY <1>2 DEF FinalVerdict
  <1>4. CASE bad = {}
    <2>1. ASSUME NEW k \in Test PROVE DeservedVerdict(k) = "OK"
      <3>1. reported[0].verdict = "CD"
        BY DEF Inv, CompilationInv
      <3>2. \A i \in Test : DeservedVerdict(i) \in {"OK", "SK"}
        BY <1>1, <1>4
      <3> QED
        BY <3>1, <3>2, SkippedBehindBad
    <2> QED
      BY <1>3, <1>4, <2>1
  <1>5. CASE bad # {}
    <2>1. bad \subseteq 1..TestsNumber /\ TestsNumber \in Nat
      BY JobFacts
    <2>2. Max(bad) \in bad
      BY <1>5, <2>1, GreatestNumber
    <2>3. PICK k \in Test : k = Max(bad) /\ testResults[k].verdict \notin {"OK", "SK"}
      BY <2>2
    <2> HIDE DEF bad
    <2> QED
      BY <1>1, <1>3, <1>5, <2>3
  <1> QED
    BY <1>4, <1>5

LEMMA VerdictAndScore ==
  ASSUME Inv
  PROVE  VerdictIsDeserved /\ TypeOK
  <1>1. /\ score \in Nat
        /\ returned => score = SumFunction([g \in GroupIndex |-> DeservedPoints(g)])
    <2>1. CASE ~ returned
      BY <2>1 DEF Inv, ScoreInv
    <2>2. CASE returned
      <3>1. IsFiniteSet(GroupIndex)
        <4>1. Len(Groups) \in Int /\ 1 \in Int
          BY GroupFacts
        <4>2. IsFiniteSet(1..Len(Groups))
          BY <4>1, FS_Interval
        <4> QED
          BY <4>2 DEF GroupIndex
      <3>2. [g \in GroupIndex |-> DeservedPoints(g)] \in [GroupIndex -> Nat]
        BY <2>2, AllAreShown
      <3>3. SumFunction([g \in GroupIndex |-> DeservedPoints(g)]) \in Nat
        BY <3>1, <3>2, SumIsNatural
      <3> QED
        BY <2>2, <3>3, AllAreShown
    <2> QED
      BY <2>1, <2>2
  <1>2. returned => state = "finished" \/ CompilationFailed
    BY DEF Inv, CompilationInv, CompilationFailed
  <1>3. ASSUME returned, CompilationFailed
        PROVE  verdict = reported[0].verdict /\ verdict \in {"CE", "CF"}
    BY <1>3 DEF Inv, ScoreInv, CompilationInv, FinalVerdict
  <1>4. state = "finished" => reported[0].verdict = "CD"
    BY DEF Inv, CompilationInv
  <1>5. VerdictIsDeserved
    BY <1>1, <1>2, <1>3, <1>4, FinalVerdictIsDeserved DEF VerdictIsDeserved
  <1>6. verdict \in {"RU", "OK", "PT", "CE", "CF"}
    BY <1>2, <1>3, FinalVerdictIsDeserved DEF Inv, ScoreInv, CompilationInv
  <1>7. \A k \in Job : requiredJobIDs[k] \subseteq 1..(k - 1)
    BY JobFacts DEF Inv, ReportInv
  <1>8. Len(testResults) <= TestsNumber /\ Len(groupResults) <= Len(Groups)
    BY JobFacts, GroupFacts DEF Inv, ShownInv, ScoreInv, shown
  <1> QED
    BY <1>1, <1>5, <1>6, <1>7, <1>8
    DEF TypeOK, Inv, CompilationInv, TestInv, FlagInv, ShownInv

\* The score and the verdict of a submission are those that the deserved results give.
THEOREM VerdictIsAsDeserved == Spec => []VerdictIsDeserved
  BY InvIsInvariant, VerdictAndScore, PTL

\* The variables have the types the code gives them.
THEOREM TypeCorrectness == Spec => []TypeOK
  BY InvIsInvariant, VerdictAndScore, PTL

----------------------------------------------------------------------------
(* Steps.                                                                   *)

\* No test of a group is given that a known failure reaches: its flag is down.
THEOREM NoUselessTestIsGiven == Spec => NoUselessTest
  <1> DEFINE IsUseful == \A k \in givenJobs' \ givenJobs : \A i \in Test \ givenJobs :
                           FailsGroup(i) => GroupOf[k] \notin Dependents[GroupOf[i]]
  <1>1. Inv /\ [Next]_vars => [IsUseful]_vars
    <2> SUFFICES ASSUME Inv, Next, NEW k \in givenJobs' \ givenJobs,
                        NEW i \in Test \ givenJobs, FailsGroup(i)
                 PROVE  GroupOf[k] \notin Dependents[GroupOf[i]]
      OBVIOUS
    <2>1. reported[i].verdict # None
      BY FailsGroupIs
    <2>2. IsCompleted(i) /\ HasFailed(i)
      <3>1. IsCompleted(i)
        BY <2>1 DEF Inv, TestInv
      <3> QED
        BY <3>1, KnownFailure DEF HasFailed
    <2>3. state = "finished"
      BY <2>2 DEF Inv, CompilationInv
    <2>4. k \in Test /\ GroupOf[k] \in shouldGiveNewJobs
      BY <2>3 DEF Next, NextJob, JobCompleted, GiveCompileJob, GiveTest, GiveNothing,
         CompileJobCompleted, TestJobCompleted, AcceptResult, generatorVars, givingVars
    <2> QED
      BY <2>2, <2>4 DEF Inv, FlagInv, Reaches
  <1> HIDE DEF IsUseful
  <1>2. Spec => [][IsUseful]_vars
    BY <1>1, InvIsInvariant, PTL DEF Spec
  <1> QED
    BY <1>2 DEF IsUseful, NoUselessTest

----------------------------------------------------------------------------
(* The contract of the queue.                                               *)

\* What the invariant says of the jobs left.
LeftInv ==
  /\ \A g \in GroupIndex \ shouldGiveNewJobs :
       \E i \in Test : i < firstNotGivenTest /\ HasFailed(i) /\ Reaches(i, g)
  /\ returned => toGive \cup givenJobs = {}

LEMMA NothingIsLeft == Inv => LeftInv
  <1> SUFFICES ASSUME Inv PROVE LeftInv
    OBVIOUS
  <1>1. \A g \in GroupIndex \ shouldGiveNewJobs :
          \E i \in Test : i < firstNotGivenTest /\ HasFailed(i) /\ Reaches(i, g)
    BY NoJobsMeansFailed DEF Inv
  <1>2. ASSUME returned PROVE toGive \cup givenJobs = {}
    <2>1. shown = TestsNumber /\ givenJobs = {} /\ state # "notStarted"
      BY <1>2 DEF Inv, ScoreInv, CompilationInv
    <2>2. CASE state = "finished"
      <3> SUFFICES ASSUME NEW k \in Test, k >= firstNotGivenTest PROVE GroupOf[k] \notin shouldGiveNewJobs
        BY <2>1, <2>2 DEF toGive
      <3>1. k \in 1..shown /\ k \in 1..(shown + 1) /\ GroupOf[k] \in GroupIndex
        BY <2>1, JobFacts, GroupOfTest
      <3>2. testState[k] = "notGiven"
        BY DEF Inv, TestInv
      <3>3. IsMarked(GroupOf[k], k, internalTestResults)
        BY <2>2, <3>1, <3>2 DEF Inv, ShownInv, IsPassed
      <3> QED
        BY <2>2, <3>1, <3>3, MarkedGetNoJobs DEF Inv
    <2> QED
      BY <2>1, <2>2 DEF Inv, CompilationInv, toGive
  <1> QED
    BY <1>1, <1>2 DEF LeftInv

\* The update that leaves nothing to wait for returns the submission.
LEMMA UpdateReturns ==
  ASSUME Inv, Inv', LeftInv', ~ crashed', state' = "finished", givenJobs' = {}, toGive' = {},
         NEW v, NEW marked, MarksMatch(marked, internalTestResults'),
         NEW p, UpdatesTo(p, v, marked, internalTestResults', testState')
  PROVE  returned'
  <1> SUFFICES ASSUME p # TestsNumber PROVE FALSE
    BY DEF UpdatesTo
  <1>1. PICK n \in 0..TestsNumber : n = shown
    BY DEF Inv, ShownInv
  <1>2. PICK k : k = p + 1
    OBVIOUS
  <1>3. p \in Nat /\ k \in (shown + 1)..(TestsNumber + 1) /\ k \in Test /\ p < TestsNumber
    BY <1>1, <1>2, JobFacts DEF UpdatesTo
  <1>4. ~ CanPass(k, marked, internalTestResults', testState')
    BY <1>2, <1>3 DEF UpdatesTo, IsTestedPrefix
  <1>5. testState'[k] = "notGiven"
    BY <1>3, <1>4 DEF CanPass, Inv, TestInv
  <1>6. GroupOf[k] \in GroupIndex \ shouldGiveNewJobs'
    <2>1. k >= firstNotGivenTest'
      BY <1>3, <1>5 DEF Inv, TestInv
    <2> QED
      BY <1>3, <2>1, GroupOfTest DEF toGive
  <1>7. PICK i \in Test : i < firstNotGivenTest' /\ HasFailed(i)' /\ Reaches(i, GroupOf[k])
    BY <1>6 DEF LeftInv, Reaches
  <1>8. i \in 1..(k - 1)
    <2>1. k >= firstNotGivenTest' /\ firstNotGivenTest' \in Nat
      BY <1>3, <1>5, JobFacts DEF Inv, TestInv
    <2> QED
      BY <1>3, <1>7, <2>1, JobFacts
  <1>9. IsMarked(GroupOf[k], k, internalTestResults')
    BY <1>7, <1>8 DEF IsMarked, HasFailed, Prevents
  <1>10. GroupOf[k] \in MarkedBefore(k, marked, internalTestResults')
    <2> DEFINE rs == internalTestResults'
    <2>1. MarksMatch(marked, rs) /\ IsMarked(GroupOf[k], k, rs)
      BY <1>9
    <2> HIDE DEF rs
    <2>2. GroupOf[k] \in MarkedBefore(k, marked, rs)
      BY <1>1, <1>3, <1>6, <2>1, MarkedBeforeIs
    <2> QED
      BY <2>2 DEF rs
  <1> QED
    BY <1>4, <1>5, <1>10 DEF CanPass

LEMMA GiveCompileJobIsGive ==
  ASSUME Inv, GiveCompileJob
  PROVE  Contract!Give(0)
  <1>1. state = "notStarted" /\ state' = "started" /\ givenJobs = {} /\ givenJobs' = {0}
        /\ requiredJobIDs' = requiredJobIDs /\ returned' = returned
    BY DEF GiveCompileJob, Inv, CompilationInv, resultVars
  <1>2. toGive = Job /\ toGive' = Test
    BY <1>1 DEF toGive
  <1>3. 0 \in toGive /\ (\A other \in toGive : 0 <= other) /\ toGive' = toGive \ {0}
    BY <1>2, JobFacts
  <1>4. requiredJobIDs' = [requiredJobIDs EXCEPT ![0] = {}]
    BY <1>1, JobFacts DEF Inv, ReportInv
  <1> QED
    BY <1>1, <1>3, <1>4 DEF Contract!Give

LEMMA GiveTestIsGive ==
  ASSUME Inv, NEW k \in Test, GiveTest(k)
  PROVE  Contract!Give(k)
  <1>1. /\ state = "finished" /\ state' = "finished" /\ 0 \notin givenJobs
        /\ firstNotGivenTest \in Nat /\ firstNotGivenTest <= k /\ firstNotGivenTest' = k + 1
        /\ GroupOf[k] \in shouldGiveNewJobs
        /\ \A i \in firstNotGivenTest..(k - 1) : GroupOf[i] \notin shouldGiveNewJobs
        /\ givenJobs' = givenJobs \cup {k}
        /\ UNCHANGED <<shouldGiveNewJobs, returned>>
    BY DEF GiveTest, PassOver, Inv, CompilationInv, TestInv, resultVars
  <1>2. /\ toGive = {i \in Test : i >= firstNotGivenTest /\ GroupOf[i] \in shouldGiveNewJobs}
        /\ toGive' = {i \in Test : i >= k + 1 /\ GroupOf[i] \in shouldGiveNewJobs}
    BY <1>1 DEF toGive
  <1>3. k \in toGive /\ (\A other \in toGive : k <= other) /\ toGive' = toGive \ {k}
    BY <1>1, <1>2, JobFacts
  <1>4. /\ {j \in givenJobs : DoesGroupDependOnJob(GroupOf[k], j)} \in SUBSET givenJobs
        /\ requiredJobIDs' = [requiredJobIDs EXCEPT ![k] =
                                {j \in givenJobs : DoesGroupDependOnJob(GroupOf[k], j)}]
    BY DEF GiveTest
  <1> QED
    BY <1>1, <1>3, <1>4 DEF Contract!Give

LEMMA GiveNothingIsStutter ==
  ASSUME Inv, GiveNothing
  PROVE  UNCHANGED <<toGive, givenJobs, requiredJobIDs, returned>>
  <1>1. /\ state = "finished" /\ state' = "finished"
        /\ firstNotGivenTest \in Nat /\ firstNotGivenTest' = TestsNumber + 1
        /\ \A i \in firstNotGivenTest..TestsNumber : GroupOf[i] \notin shouldGiveNewJobs
        /\ UNCHANGED <<shouldGiveNewJobs, givenJobs, requiredJobIDs, returned>>
    BY DEF GiveNothing, PassOver, Inv, TestInv, resultVars
  <1>2. toGive = {} /\ toGive' = {}
    BY <1>1, JobFacts DEF toGive
  <1> QED
    BY <1>1, <1>2

LEMMA CompileJobCompletedIsComplete ==
  ASSUME Inv, Inv', LeftInv', ~ crashed', CompileJobCompleted
  PROVE  Contract!Complete(0)
  <1>1. /\ state = "started" /\ 0 \in givenJobs /\ givenJobs' = givenJobs \ {0} /\ givenJobs' = {}
        /\ shown = 0 /\ shouldMarkFinalTestsSkipped = {}
        /\ firstNotGivenTest = 1
        /\ UNCHANGED <<firstNotGivenTest, requiredJobIDs, shouldGiveNewJobs, testState,
                       internalTestResults>>
    BY DEF CompileJobCompleted, Inv, CompilationInv, NotReported, Result, None, shown
  <1>2. toGive = Test
    BY <1>1 DEF toGive
  <1>3. shown \in 0..TestsNumber /\ givenJobs' \subseteq Job
    BY <1>1, JobFacts
  <1>4. toGive' \subseteq toGive /\ returned' \in BOOLEAN /\ (toGive' = {} => returned')
    <2>1. CASE reported[0].verdict = "CD"
      <3>1. state' = "finished"
            /\ UpdateSubmissionResult(verdict, shouldMarkFinalTestsSkipped,
                                      internalTestResults, testState)
        BY <2>1 DEF CompileJobCompleted
      <3>2. PICK p : UpdatesTo(p, verdict, shouldMarkFinalTestsSkipped,
                               internalTestResults, testState)
        BY <1>3, <3>1, UpdateFacts
      <3>3. UpdatesTo(p, verdict, shouldMarkFinalTestsSkipped, internalTestResults', testState')
        BY <1>1, <3>2
      <3>4. MarksMatch(shouldMarkFinalTestsSkipped, internalTestResults')
        BY <1>1 DEF MarksMatch, IsMarked
      <3>5. toGive' = {} => returned'
        BY <1>1, <3>1, <3>3, <3>4, UpdateReturns
      <3>6. toGive' \subseteq Test
        BY <3>1 DEF toGive
      <3> QED
        BY <1>2, <3>2, <3>5, <3>6 DEF UpdatesTo
    <2>2. CASE reported[0].verdict # "CD"
      <3>1. state' = "started"
            /\ UpdateSubmissionResult(reported[0].verdict, GroupIndex,
                                      internalTestResults, testState)
        BY <1>1, <2>2 DEF CompileJobCompleted
      <3>2. PICK p : UpdatesTo(p, reported[0].verdict, GroupIndex, internalTestResults, testState)
        BY <1>3, <3>1, UpdateFacts
      <3>3. p = TestsNumber
        <4> SUFFICES ASSUME p # TestsNumber PROVE FALSE
          OBVIOUS
        <4>1. PICK k : k = p + 1
          OBVIOUS
        <4>2. p \in Nat /\ k \in Test /\ p < TestsNumber
          BY <1>1, <3>2, <4>1, JobFacts DEF UpdatesTo
        <4>3. ~ CanPass(k, GroupIndex, internalTestResults, testState)
          BY <3>2, <4>1, <4>2 DEF UpdatesTo, IsTestedPrefix
        <4>4. testState[k] = "notGiven"
          BY <1>1, <4>2, JobFacts DEF Inv, TestInv
        <4> QED
          BY <4>2, <4>3, <4>4, GroupOfTest DEF CanPass, MarkedBefore
      <3>4. toGive' = {}
        BY <1>1, <3>1 DEF toGive
      <3> QED
        BY <1>1, <3>2, <3>3, <3>4 DEF UpdatesTo
    <2> QED
      BY <2>1, <2>2
  <1>5. returned' = (toGive' \cup givenJobs' = {})
    BY <1>1, <1>4 DEF LeftInv
  <1>6. toGive \ toGive' \in SUBSET toGive /\ toGive' = toGive \ (toGive \ toGive')
    BY <1>4
  <1> QED
    BY <1>1, <1>5, <1>6 DEF Contract!Complete

LEMMA TestJobCompletedIsComplete ==
  ASSUME Inv, Inv', LeftInv', ~ crashed', NEW k \in Test, TestJobCompleted(k)
  PROVE  Contract!Complete(k)
  <1> DEFINE r == Populated(GroupOf[k], reported[k])
  <1>1. /\ k \in givenJobs /\ givenJobs' = givenJobs \ {k}
        /\ state = "finished" /\ state' = "finished"
        /\ UNCHANGED <<firstNotGivenTest, requiredJobIDs>>
        /\ shouldGiveNewJobs' = StopGivingNewTestsIfNeeded(GroupOf[k], r.verdict)
        /\ internalTestResults' = [internalTestResults EXCEPT ![k] = r]
        /\ UpdateSubmissionResult(verdict, shouldMarkFinalTestsSkipped,
                                  internalTestResults', testState')
    BY JobFacts DEF TestJobCompleted, Inv, CompilationInv
  <1> HIDE DEF r
  <1>2. toGive' \subseteq toGive
    <2>1. shouldGiveNewJobs' \subseteq shouldGiveNewJobs
      BY <1>1 DEF StopGivingNewTestsIfNeeded
    <2> QED
      BY <1>1, <2>1 DEF toGive
  <1>3. shown \in 0..TestsNumber /\ givenJobs' \subseteq Job
    BY <1>1 DEF Inv, TestInv, ShownInv
  <1>4. PICK p : UpdatesTo(p, verdict, shouldMarkFinalTestsSkipped, internalTestResults', testState')
    BY <1>1, <1>3, UpdateFacts
  <1>5. MarksMatch(shouldMarkFinalTestsSkipped, internalTestResults')
    BY <1>1, ShownStay
  <1>6. givenJobs' = {} /\ toGive' = {} => returned'
    BY <1>1, <1>4, <1>5, UpdateReturns
  <1>7. returned' = (toGive' \cup givenJobs' = {})
    BY <1>4, <1>6 DEF LeftInv, UpdatesTo
  <1>8. toGive \ toGive' \in SUBSET toGive /\ toGive' = toGive \ (toGive \ toGive')
    BY <1>2
  <1> QED
    BY <1>1, <1>7, <1>8 DEF Contract!Complete

\* Until it panics the generator does what module Generator promises the queue:
\* tests in order and each once, and the submission returned when nothing is left.
THEOREM ContractKept == Spec => KeepsContract
  <1>1. Init => Contract!Init
    BY DEF Init, Contract!Init, toGive, Job
  <1>2. Inv /\ Inv' /\ LeftInv' /\ [Next]_vars
          => [crashed' \/ Contract!Next]_<<toGive, givenJobs, requiredJobIDs, returned>>
    <2> SUFFICES ASSUME Inv, Inv', LeftInv', [Next]_vars, ~ crashed'
                 PROVE  \/ Contract!Next
                        \/ UNCHANGED <<toGive, givenJobs, requiredJobIDs, returned>>
      OBVIOUS
    <2>0. 0 \in 0..TestsNumber /\ Test \subseteq 0..TestsNumber
      BY JobFacts
    <2>1. CASE GiveCompileJob
      BY <2>0, <2>1, GiveCompileJobIsGive DEF Contract!Next
    <2>2. ASSUME NEW k \in Test, GiveTest(k) PROVE Contract!Next
      BY <2>0, <2>2, GiveTestIsGive DEF Contract!Next
    <2>3. CASE GiveNothing
      BY <2>3, GiveNothingIsStutter
    <2>4. CASE CompileJobCompleted
      BY <2>0, <2>4, CompileJobCompletedIsComplete DEF Contract!Next
    <2>5. ASSUME NEW k \in Test, TestJobCompleted(k) PROVE Contract!Next
      BY <2>0, <2>5, TestJobCompletedIsComplete DEF Contract!Next
    <2>6. ASSUME NEW k \in Job, AcceptResult(k)
          PROVE  UNCHANGED <<toGive, givenJobs, requiredJobIDs, returned>>
      BY <2>6 DEF AcceptResult, generatorVars, givingVars, resultVars, toGive
    <2>7. CASE UNCHANGED vars
      BY <2>7 DEF vars, generatorVars, givingVars, resultVars, toGive
    <2> QED
      BY <2>1, <2>2, <2>3, <2>4, <2>5, <2>6, <2>7 DEF Next, NextJob, JobCompleted
  <1>3. Inv => LeftInv
    BY NothingIsLeft
  <1> QED
    BY <1>1, <1>2, <1>3, InvIsInvariant, PTL DEF Spec, KeepsContract
=============================================================================
