---------------------------- MODULE ProblemImport ----------------------------
(* The problems that tools/polygon_importer stores without the form or the API:
   buildProblemModel (xml.go), the result of which main.go gives to db.Create.
   The package is made by polygon (external), and what it says of groups is
   copied as it is: dependencies may be on groups that the IOI generator does not
   let be required.                                                           *)
EXTENDS ProblemForm, FiniteSetsExt

\* A package: its groups, and the group of each of its tests.  Polygon knows no
\* groups scored by the least test, and lists a dependency once.
PackageGroup == [name : Name, scoring : {"complete", "each"}, required : SUBSET Name]
Package == [groups : Seq(PackageGroup), tests : Seq(Name)]

TestsOf(package, name) == {id \in DOMAIN package.tests : package.tests[id] = name}

\* The first and the last test start at the number of tests and at 0.
ImportedGroup(package, g) ==
  LET ids == TestsOf(package, g.name)
  IN  [name |-> g.name, scoring |-> g.scoring, required |-> g.required,
       first |-> Min(ids \cup {Len(package.tests)}), last |-> Max(ids \cup {0}),
       score |-> ScoreInput(g)]

BuildProblemModel(package) ==
  [type |-> IF package.groups = <<>> THEN "ICPC" ELSE "IOI",
   tests |-> Len(package.tests),
   groups |-> [i \in DOMAIN package.groups |-> ImportedGroup(package, package.groups[i])]]
=============================================================================
