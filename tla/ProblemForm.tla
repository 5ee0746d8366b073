---------------------------- MODULE ProblemForm ----------------------------
(* The form of a problem: clients/frontend/admin/components/problem/
   ProblemForm.jsx.  A problem is what the form edits: its type, its number of
   tests and its groups of tests; name and limits, which no control combines
   with anything, are left out: they are filled in before the form is sent.
   One operator per control; together they are ProblemReducer.  React (external)
   applies the actions of one page in the order they were dispatched in, each
   once, so one that changes the objects of the problem in place does what one
   that returns new ones would.  *)
EXTENDS Integers, Sequences

CONSTANTS Name,       \* names an admin may give to groups
          NoName,     \* a name that is missing or empty
          MaxTest     \* bound of the test numbers that are typed

ASSUME FormAssumption == /\ NoName \notin Name
                         /\ MaxTest \in Nat

Blank == -1           \* a number input that is empty (parseInt gives NaN)
Number == {Blank} \cup 0..MaxTest

\* "complete", "each" and "min" are the scoring types 1, 2 and 3.  score says
\* which of group_score and test_score is present, the reducer keeps one at most.
\* The required names are a set: neither a list of the form nor a package shows a
\* name twice, and their order means nothing.
Group == [name : Name \cup {NoName}, first : Number, last : Number,
          scoring : {"complete", "each", "min"},
          score : {"none", "group", "test"}, required : SUBSET Name]

Problem == [type : {"ICPC", "IOI"}, tests : Number, groups : Seq(Group)]

\* ProblemInitialState: the form of a new problem.
InitialProblem == [type |-> "ICPC", tests |-> Blank, groups |-> <<>>]

----------------------------------------------------------------------------
(* The reducer.                                                             *)

NewGroup == [name |-> NoName, first |-> Blank, last |-> Blank,
             scoring |-> "complete", score |-> "none", required |-> {}]

AddGroup(p) == [p EXCEPT !.groups = Append(@, NewGroup)]

\* removeRequired: no group requires the name of group i any more.
RemoveRequired(groups, i) ==
  [j \in DOMAIN groups |->
    [groups[j] EXCEPT !.required = @ \ {groups[i].name}]]

RenameGroup(p, i, name) ==
  [p EXCEPT !.groups = [RemoveRequired(@, i) EXCEPT ![i].name = name]]

SetFirst(p, i, n) == [p EXCEPT !.groups[i].first = n]
SetLast(p, i, n) == [p EXCEPT !.groups[i].last = n]

\* (Mistake: the groups that require group i are forgotten.)
SetScoringOnly(p, i, scoring) == [p EXCEPT !.groups[i].scoring = scoring]

\* Only a group that is scored as a whole may be required.
SetScoring(p, i, scoring) ==
  [p EXCEPT !.groups =
    [(IF scoring = "complete" THEN @ ELSE RemoveRequired(@, i))
        EXCEPT ![i].scoring = scoring]]

\* The score input shown is that of the scoring type; typing into it removes
\* the other score.
ScoreInput(group) == IF group.scoring = "each" THEN "test" ELSE "group"

SetScore(p, i, isFilled) ==
  [p EXCEPT !.groups[i].score = IF isFilled THEN ScoreInput(p.groups[i]) ELSE "none"]

AddRequired(p, i, name) == [p EXCEPT !.groups[i].required = @ \cup {name}]
DropRequired(p, i, name) == [p EXCEPT !.groups[i].required = @ \ {name}]

Without(groups, i) ==
  [j \in 1..(Len(groups) - 1) |-> groups[IF j < i THEN j ELSE j + 1]]

RemoveGroup(p, i) == [p EXCEPT !.groups = Without(RemoveRequired(@, i), i)]

----------------------------------------------------------------------------
(* The controls.                                                            *)

\* renderRequiredGroups: the names offered are those of earlier groups scored as
\* a whole; an option without a name cannot be chosen.
CanAdd(p, i) ==
  {p.groups[j].name : j \in {k \in 1..(i - 1) : p.groups[k].scoring = "complete"}}
    \ (p.groups[i].required \cup {NoName})

\* What one control of group i makes of the problem.
GroupEdits(p, i) ==
  {RenameGroup(p, i, name) : name \in Name \cup {NoName}}
    \cup {SetFirst(p, i, n) : n \in Number}
    \cup {SetLast(p, i, n) : n \in Number}
    \cup {SetScoring(p, i, s) : s \in {"complete", "each", "min"}}
    \cup {SetScore(p, i, isFilled) : isFilled \in BOOLEAN}
    \cup {AddRequired(p, i, name) : name \in CanAdd(p, i)}
    \cup {DropRequired(p, i, name) : name \in p.groups[i].required}
    \cup {RemoveGroup(p, i)}

\* What one control makes of the problem; the groups are shown for IOI only.
Edits(p) ==
  {[p EXCEPT !.type = type] : type \in {"ICPC", "IOI"}}
    \cup {[p EXCEPT !.tests = n] : n \in Number}
    \cup (IF p.type = "IOI"
            THEN {AddGroup(p)} \cup UNION {GroupEdits(p, i) : i \in DOMAIN p.groups}
            ELSE {})

\* The browser submits a form only when every required input of it is filled in;
\* the input of tests_number is empty for 0 too.
IsFilledIn(p) ==
  /\ p.tests \notin {Blank, 0}
  /\ p.type = "IOI" =>
       \A i \in DOMAIN p.groups :
         LET g == p.groups[i]
         IN  /\ g.name # NoName /\ Blank \notin {g.first, g.last}
             /\ g.score = ScoreInput(g)

\* The names that a group requires and no earlier group scored as a whole has.
Unmet(p) ==
  {name \in Name : \E i \in DOMAIN p.groups :
     /\ name \in p.groups[i].required
     /\ \A j \in 1..(i - 1) :
          ~(p.groups[j].name = name /\ p.groups[j].scoring = "complete")}
=============================================================================
