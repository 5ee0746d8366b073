----------------------------- MODULE MCAdminSite -----------------------------
(* A problem of two groups of one test each, the second of which requires the
   first: made by the form, or imported with a first group that is scored test by
   test.  The site is opened at the home page, a problem, a creation, a submission
   or the list.                                                               *)
EXTENDS AdminSite, ProblemImport

CONSTANTS A, B

MCName == {A, B}

MadeProblem ==
  [type |-> "IOI", tests |-> 2,
   groups |-> <<[name |-> A, first |-> 1, last |-> 1, scoring |-> "complete",
                 score |-> "group", required |-> {}],
                [name |-> B, first |-> 2, last |-> 2, scoring |-> "each",
                 score |-> "test", required |-> {A}]>>]

PolygonPackage ==
  [groups |-> <<[name |-> B, scoring |-> "each", required |-> {}],
                [name |-> A, scoring |-> "complete", required |-> {B}]>>,
   tests |-> <<B, A>>]

ASSUME PackageAssumption == PolygonPackage \in Package

MCProblems == {MadeProblem, BuildProblemModel(PolygonPackage)}

MCStart == {At("home"), AtProblem(1), At("newProblem"), At("submission"), At("submissions")}
=============================================================================
