----------------------------- MODULE ProblemAPI -----------------------------
(* What the server makes of a problem: addProblem, modifyProblem and
   checkProblemIsOK of clients/tsapi/problem.go, and the conditions under which
   the IOI generator takes it (ioi_generator.go).  The two checks were written
   apart; a problem that passes the first and not the second is one whose
   submissions can not be tested.                                            *)
EXTENDS ProblemForm

\* What JSON makes of a form: an empty number (NaN, then null) is read as 0.
Stored(p) ==
  LET Read(n) == IF n = Blank THEN 0 ELSE n
  IN  [p EXCEPT !.tests = Read(@),
                !.groups = [i \in DOMAIN p.groups |->
                  [p.groups[i] EXCEPT !.first = Read(@), !.last = Read(@)]]]

\* The last test before group i.
LastTestBefore(p, i) == IF i = 1 THEN 0 ELSE p.groups[i - 1].last

NamesBefore(p, i) == {p.groups[j].name : j \in 1..(i - 1)}

StartsInPlace(p, i) == p.groups[i].first = LastTestBefore(p, i) + 1

\* (Mistake: any start after the previous group will do.)
GroupIsOKLater(p, i) ==
  /\ p.groups[i].name \notin NamesBefore(p, i)
  /\ p.groups[i].first > LastTestBefore(p, i)
  /\ p.groups[i].score = ScoreInput(p.groups[i])
  /\ p.groups[i].required \subseteq NamesBefore(p, i)

\* checkProblemIsOK goes on with the next group.
GroupIsOK(p, i) ==
  /\ p.groups[i].name \notin NamesBefore(p, i)
  /\ StartsInPlace(p, i)
  /\ p.groups[i].score = ScoreInput(p.groups[i])
  /\ p.groups[i].required \subseteq NamesBefore(p, i)

\* checkProblemIsOK: TRUE, or FALSE and the answer is an error.
IsOK(p) ==
  p.type = "IOI" =>
    /\ \A i \in DOMAIN p.groups : GroupIsOK(p, i)
    /\ LastTestBefore(p, Len(p.groups) + 1) = p.tests

\* checkProblemIsOK writes an error and, without a return, goes on: a group ends
\* before it starts.  The answer is then an error whatever follows.
Complains(p) ==
  /\ p.type = "IOI"
  /\ \E i \in DOMAIN p.groups :
       /\ \A j \in 1..(i - 1) : GroupIsOK(p, j)
       /\ p.groups[i].name \notin NamesBefore(p, i)
       /\ StartsInPlace(p, i)
       /\ p.groups[i].first > p.groups[i].last

----------------------------------------------------------------------------
(* The generator.                                                           *)

\* groupNameToGroupInfo: the last group of a name, complete before it is read.
InfoIsComplete(p, name) ==
  \E j \in DOMAIN p.groups :
    /\ p.groups[j].name = name
    /\ p.groups[j].scoring = "complete"
    /\ \A k \in DOMAIN p.groups : k > j => p.groups[k].name # name

\* newIOIGenerator succeeds: prepareGenerator and checkIfGroupsDependenciesOK.
\* (ICPC takes every problem.)
GeneratorAccepts(p) ==
  p.type = "IOI" =>
    /\ \A i \in DOMAIN p.groups :
         LET g == p.groups[i]
         IN  /\ g.score = ScoreInput(g)
             /\ g.first <= g.last
             /\ StartsInPlace(p, i)
             /\ g.name \notin NamesBefore(p, i)
             /\ \A name \in g.required :
                  name \in NamesBefore(p, i) /\ InfoIsComplete(p, name)
    /\ LastTestBefore(p, Len(p.groups) + 1) = p.tests
=============================================================================
