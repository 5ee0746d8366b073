----------------------------- MODULE AdminProofs -----------------------------
(* What the form of a problem, the check of the server and the IOI generator
   make of each other, for problems with any number of groups and tests; the
   types of the admin site, and that no edit, request or stored problem requires a
   group that the IOI generator would refuse, unless that was imported.       *)
EXTENDS AdminSite, TLAPS

(* The edits of a problem.                                                  *)

LEMMA GroupsOfProblem ==
  ASSUME NEW p \in Problem
  PROVE  /\ p.groups \in Seq(Group)
         /\ Len(p.groups) \in Nat
         /\ DOMAIN p.groups = 1..Len(p.groups)
         /\ \A i \in 1..Len(p.groups) : p.groups[i] \in Group
  BY DEF Problem

LEMMA FunctionIsSeq ==
  ASSUME NEW S, NEW n \in Nat, NEW f \in [1..n -> S]
  PROVE  f \in Seq(S) /\ Len(f) = n
  OBVIOUS

LEMMA WithGroups ==
  ASSUME NEW p \in Problem, NEW gs \in Seq(Group)
  PROVE  [p EXCEPT !.groups = gs] \in Problem /\ [p EXCEPT !.groups = gs].groups = gs
  BY DEF Problem

\* A group that requires less is a group.
LEMMA LessRequired ==
  ASSUME NEW g \in Group, NEW names
  PROVE  LET h == [g EXCEPT !.required = @ \ names]
         IN  /\ h \in Group
             /\ h.name = g.name /\ h.scoring = g.scoring
             /\ h.required = g.required \ names
  BY DEF Group

\* Removing a name from every list.
LEMMA RemoveRequiredKeeps ==
  ASSUME NEW gs \in Seq(Group), NEW i \in 1..Len(gs)
  PROVE  LET hs == RemoveRequired(gs, i)
         IN  /\ hs \in Seq(Group)
             /\ Len(hs) = Len(gs)
             /\ \A j \in 1..Len(gs) :
                  /\ hs[j] \in Group
                  /\ hs[j].name = gs[j].name /\ hs[j].scoring = gs[j].scoring
                  /\ hs[j].required = gs[j].required \ {gs[i].name}
  <1>1. DOMAIN gs = 1..Len(gs) /\ Len(gs) \in Nat /\ \A j \in 1..Len(gs) : gs[j] \in Group
    OBVIOUS
  <1>2. RemoveRequired(gs, i) =
          [j \in 1..Len(gs) |-> [gs[j] EXCEPT !.required = @ \ {gs[i].name}]]
    BY <1>1 DEF RemoveRequired
  <1>3. \A j \in 1..Len(gs) :
          LET h == [gs[j] EXCEPT !.required = @ \ {gs[i].name}]
          IN  /\ h \in Group
              /\ h.name = gs[j].name /\ h.scoring = gs[j].scoring
              /\ h.required = gs[j].required \ {gs[i].name}
    BY <1>1, LessRequired
  <1>4. RemoveRequired(gs, i) \in [1..Len(gs) -> Group]
    BY <1>2, <1>3
  <1> QED
    BY <1>1, <1>2, <1>3, <1>4, FunctionIsSeq

\* Unmet speaks of the groups only.
InVain(gs, i, name) ==
  /\ name \in gs[i].required
  /\ \A j \in 1..(i - 1) : ~(gs[j].name = name /\ gs[j].scoring = "complete")
UnmetOf(gs) == {name \in Name : \E i \in 1..Len(gs) : InVain(gs, i, name)}

LEMMA UnmetIsOfGroups ==
  ASSUME NEW p \in Problem
  PROVE  Unmet(p) = UnmetOf(p.groups)
  BY GroupsOfProblem DEF Unmet, UnmetOf, InVain

\* Groups that require no more than before, of groups that are as before wherever
\* they are still required.
LEMMA NoMoreRequired ==
  ASSUME NEW gs \in Seq(Group), NEW hs \in Seq(Group),
         Len(hs) = Len(gs),
         \A i \in 1..Len(gs) : hs[i].required \subseteq gs[i].required,
         \A i, j \in 1..Len(gs) :
           (gs[j].name \in hs[i].required /\ gs[j].scoring = "complete")
             => (hs[j].name = gs[j].name /\ hs[j].scoring = "complete")
  PROVE  UnmetOf(hs) \subseteq UnmetOf(gs)
  <1> SUFFICES ASSUME NEW name \in Name, NEW i \in 1..Len(hs), InVain(hs, i, name)
               PROVE  InVain(gs, i, name)
    BY DEF UnmetOf
  <1>1. name \in gs[i].required /\ name \in hs[i].required
    BY DEF InVain
  <1>2. ASSUME NEW j \in 1..(i - 1), gs[j].name = name, gs[j].scoring = "complete"
        PROVE  FALSE
    <2>1. j \in 1..Len(gs) /\ i \in 1..Len(gs)
      OBVIOUS
    <2>2. hs[j].name = name /\ hs[j].scoring = "complete"
      BY <1>1, <1>2, <2>1
    <2> QED
      BY <2>2 DEF InVain
  <1> QED
    BY <1>1, <1>2 DEF InVain

\* What an edit of the groups must do.
KeepsComplete(gs, hs) == hs \in Seq(Group) /\ UnmetOf(hs) \subseteq UnmetOf(gs)

\* One field of one group is changed, in groups that require no more than before.
LEMMA ReplaceGroup ==
  ASSUME NEW gs \in Seq(Group), NEW i \in 1..Len(gs), NEW hs \in Seq(Group),
         Len(hs) = Len(gs), NEW g \in Group,
         \A j \in 1..Len(gs) :
           /\ hs[j].name = gs[j].name /\ hs[j].scoring = gs[j].scoring
           /\ hs[j].required \subseteq gs[j].required,
         g.required \subseteq hs[i].required,
         \/ g.name = gs[i].name /\ (gs[i].scoring = "complete" => g.scoring = "complete")
         \/ \A j \in 1..Len(gs) : gs[i].name \notin hs[j].required
  PROVE  KeepsComplete(gs, [hs EXCEPT ![i] = g])
  <1> DEFINE ks == [hs EXCEPT ![i] = g]
  <1>1. ks \in Seq(Group) /\ Len(ks) = Len(gs)
    OBVIOUS
  <1>2. \A j \in 1..Len(gs) : ks[j] = IF j = i THEN g ELSE hs[j]
    OBVIOUS
  <1>3. \A j \in 1..Len(gs) : ks[j].required \subseteq hs[j].required
    BY <1>2
  <1>4. \A j, k \in 1..Len(gs) :
          (gs[k].name \in ks[j].required /\ gs[k].scoring = "complete")
            => (ks[k].name = gs[k].name /\ ks[k].scoring = "complete")
    BY <1>2, <1>3
  <1> HIDE DEF ks
  <1>5. \A j \in 1..Len(gs) : ks[j].required \subseteq gs[j].required
    BY <1>3
  <1>6. UnmetOf(ks) \subseteq UnmetOf(gs)
    BY <1>1, <1>4, <1>5, NoMoreRequired
  <1> QED
    BY <1>1, <1>6 DEF KeepsComplete, ks

----------------------------------------------------------------------------
(* The controls of a group.                                                 *)

LEMMA GroupFields ==
  ASSUME NEW g \in Group
  PROVE  /\ \A n \in Name \cup {NoName} : [g EXCEPT !.name = n] \in Group
         /\ \A n \in Number : [g EXCEPT !.first = n] \in Group /\ [g EXCEPT !.last = n] \in Group
         /\ \A s \in {"complete", "each", "min"} : [g EXCEPT !.scoring = s] \in Group
         /\ \A s \in {"none", "group", "test"} : [g EXCEPT !.score = s] \in Group
         /\ \A r \in SUBSET Name : [g EXCEPT !.required = r] \in Group
  BY DEF Group

LEMMA EditName ==
  ASSUME NEW p \in Problem, NEW i \in 1..Len(p.groups), NEW name \in Name \cup {NoName}
  PROVE  KeepsComplete(p.groups, [RemoveRequired(p.groups, i) EXCEPT ![i].name = name])
  <1> DEFINE gs == p.groups
             hs == RemoveRequired(gs, i)
             g == [hs[i] EXCEPT !.name = name]
  <1>1. gs \in Seq(Group)
    BY GroupsOfProblem
  <1>2. /\ hs \in Seq(Group) /\ Len(hs) = Len(gs)
        /\ \A j \in 1..Len(gs) :
             /\ hs[j] \in Group
             /\ hs[j].name = gs[j].name /\ hs[j].scoring = gs[j].scoring
             /\ hs[j].required = gs[j].required \ {gs[i].name}
    BY <1>1, RemoveRequiredKeeps
  <1>3. g \in Group /\ g.required = hs[i].required
    <2>1. hs[i] \in Group
      BY <1>2
    <2> HIDE DEF hs
    <2> QED
      BY <2>1 DEF Group
  <1>4. [hs EXCEPT ![i].name = name] = [hs EXCEPT ![i] = g]
    OBVIOUS
  <1> HIDE DEF gs, hs, g
  <1>5. KeepsComplete(gs, [hs EXCEPT ![i] = g])
    <2>1. i \in 1..Len(gs)
      BY DEF gs
    <2>2. \A j \in 1..Len(gs) :
            /\ hs[j].name = gs[j].name /\ hs[j].scoring = gs[j].scoring
            /\ hs[j].required \subseteq gs[j].required
            /\ gs[i].name \notin hs[j].required
      BY <1>2
    <2> QED
      BY <1>1, <1>2, <1>3, <2>1, <2>2, ReplaceGroup
  <1> QED
    BY <1>4, <1>5 DEF gs, hs

\* Fields that Unmet does not read.
LEMMA EditOtherField ==
  ASSUME NEW p \in Problem, NEW i \in 1..Len(p.groups), NEW g \in Group,
         g.name = p.groups[i].name, g.scoring = p.groups[i].scoring,
         g.required \subseteq p.groups[i].required
  PROVE  KeepsComplete(p.groups, [p.groups EXCEPT ![i] = g])
  <1>1. p.groups \in Seq(Group)
    BY GroupsOfProblem
  <1> QED
    BY <1>1, ReplaceGroup

LEMMA EditScoring ==
  ASSUME NEW p \in Problem, NEW i \in 1..Len(p.groups),
         NEW scoring \in {"complete", "each", "min"}
  PROVE  KeepsComplete(p.groups, SetScoring(p, i, scoring).groups)
  <1> DEFINE gs == p.groups
  <1>1. gs \in Seq(Group) /\ i \in 1..Len(gs)
    BY GroupsOfProblem
  <1>2. PICK hs : hs = IF scoring = "complete" THEN gs ELSE RemoveRequired(gs, i)
    OBVIOUS
  <1>3. PICK g : g = [hs[i] EXCEPT !.scoring = scoring]
    OBVIOUS
  <1>4. SetScoring(p, i, scoring).groups = [hs EXCEPT ![i] = g]
    BY <1>2, <1>3, <1>1 DEF SetScoring, Problem
  <1>5. /\ hs \in Seq(Group) /\ Len(hs) = Len(gs)
        /\ \A j \in 1..Len(gs) :
             /\ hs[j] \in Group
             /\ hs[j].name = gs[j].name /\ hs[j].scoring = gs[j].scoring
             /\ hs[j].required \subseteq gs[j].required
        /\ scoring = "complete" \/ \A j \in 1..Len(gs) : gs[i].name \notin hs[j].required
    <2>1. CASE scoring = "complete"
      BY <1>1, <1>2, <2>1
    <2>2. CASE scoring # "complete"
      <3>1. hs = RemoveRequired(gs, i)
        BY <1>2, <2>2
      <3>2. LET rs == RemoveRequired(gs, i)
            IN  /\ rs \in Seq(Group) /\ Len(rs) = Len(gs)
                /\ \A j \in 1..Len(gs) :
                     /\ rs[j] \in Group
                     /\ rs[j].name = gs[j].name /\ rs[j].scoring = gs[j].scoring
                     /\ rs[j].required = gs[j].required \ {gs[i].name}
        BY <1>1, RemoveRequiredKeeps
      <3> HIDE DEF gs
      <3> QED
        BY <3>1, <3>2
    <2> QED
      BY <2>1, <2>2
  <1>6. g \in Group /\ g.required = hs[i].required /\ g.name = gs[i].name /\ g.scoring = scoring
    <2>1. hs[i] \in Group /\ hs[i].name = gs[i].name
      BY <1>1, <1>5
    <2> QED
      BY <1>3, <2>1 DEF Group
  <1> HIDE DEF gs
  <1>7. KeepsComplete(gs, [hs EXCEPT ![i] = g])
    BY <1>1, <1>5, <1>6, ReplaceGroup
  <1> QED
    BY <1>4, <1>7 DEF gs

\* renderRequiredGroups offers complete groups that come earlier, and no others.
LEMMA EditRequired ==
  ASSUME NEW p \in Problem, NEW i \in 1..Len(p.groups), NEW name \in CanAdd(p, i)
  PROVE  KeepsComplete(p.groups, AddRequired(p, i, name).groups)
  <1> DEFINE gs == p.groups
  <1>1. /\ gs \in Seq(Group) /\ Len(gs) \in Nat /\ DOMAIN gs = 1..Len(gs)
        /\ \A j \in 1..Len(gs) : gs[j] \in Group
    BY GroupsOfProblem
  <1>2. PICK j \in 1..(i - 1) : gs[j].name = name /\ gs[j].scoring = "complete"
    BY DEF CanAdd
  <1>3. name \in Name
    <2>1. gs[j] \in Group /\ name # NoName
      BY <1>1, <1>2 DEF CanAdd
    <2> QED
      BY <1>2, <2>1 DEF Group
  <1>4. PICK g : g = [gs[i] EXCEPT !.required = @ \cup {name}]
    OBVIOUS
  <1>5. /\ g \in Group /\ g.name = gs[i].name /\ g.scoring = gs[i].scoring
        /\ g.required = gs[i].required \cup {name}
    BY <1>1, <1>3, <1>4 DEF Group
  <1>6. PICK ks : ks = [gs EXCEPT ![i] = g]
    OBVIOUS
  <1>7. AddRequired(p, i, name).groups = ks
    BY <1>1, <1>4, <1>6 DEF AddRequired, Problem
  <1>8. ks \in Seq(Group) /\ Len(ks) = Len(gs)
    BY <1>1, <1>5, <1>6
  <1>9. \A k \in 1..Len(gs) : ks[k] = IF k = i THEN g ELSE gs[k]
    BY <1>1, <1>6
  <1>10. UnmetOf(ks) \subseteq UnmetOf(gs)
    <2> SUFFICES ASSUME NEW other \in Name, NEW k \in 1..Len(ks), InVain(ks, k, other)
                 PROVE  InVain(gs, k, other)
      BY <1>8 DEF UnmetOf
    <2>1. \A l \in 1..(k - 1) : ks[l].name = gs[l].name /\ ks[l].scoring = gs[l].scoring
      BY <1>1, <1>5, <1>8, <1>9
    <2>2. ASSUME other \notin gs[k].required PROVE FALSE
      <3>1. k = i /\ other = name
        BY <1>5, <1>8, <1>9, <2>2 DEF InVain
      <3> QED
        BY <1>2, <2>1, <3>1 DEF InVain
    <2> QED
      BY <2>1, <2>2 DEF InVain
  <1> QED
    BY <1>7, <1>8, <1>10 DEF KeepsComplete

LEMMA EditRemove ==
  ASSUME NEW p \in Problem, NEW i \in 1..Len(p.groups)
  PROVE  KeepsComplete(p.groups, Without(RemoveRequired(p.groups, i), i))
  <1> DEFINE gs == p.groups
  <1>1. gs \in Seq(Group) /\ Len(gs) \in Nat /\ i \in 1..Len(gs)
    BY GroupsOfProblem
  <1>2. PICK hs : hs = RemoveRequired(gs, i)
    OBVIOUS
  <1>3. /\ hs \in Seq(Group) /\ Len(hs) = Len(gs)
        /\ \A j \in 1..Len(gs) :
             /\ hs[j] \in Group
             /\ hs[j].name = gs[j].name /\ hs[j].scoring = gs[j].scoring
             /\ hs[j].required = gs[j].required \ {gs[i].name}
    <2>1. LET rs == RemoveRequired(gs, i)
          IN  /\ rs \in Seq(Group) /\ Len(rs) = Len(gs)
              /\ \A j \in 1..Len(gs) :
                   /\ rs[j] \in Group
                   /\ rs[j].name = gs[j].name /\ rs[j].scoring = gs[j].scoring
                   /\ rs[j].required = gs[j].required \ {gs[i].name}
      BY <1>1, RemoveRequiredKeeps
    <2> HIDE DEF gs
    <2> QED
      BY <1>2, <2>1
  <1>4. PICK ks : ks = Without(hs, i)
    OBVIOUS
  <1> HIDE DEF gs
  <1>5. ks = [j \in 1..(Len(gs) - 1) |-> hs[IF j < i THEN j ELSE j + 1]]
    BY <1>3, <1>4 DEF Without
  <1>6. ks \in [1..(Len(gs) - 1) -> Group]
    BY <1>1, <1>3, <1>5
  <1>7. ks \in Seq(Group) /\ Len(ks) = Len(gs) - 1
    <2>1. Len(gs) - 1 \in Nat
      BY <1>1
    <2> QED
      BY <1>6, <2>1, FunctionIsSeq
  <1>8. UnmetOf(ks) \subseteq UnmetOf(gs)
    <2> SUFFICES ASSUME NEW name \in Name, NEW k \in 1..Len(ks), InVain(ks, k, name)
                 PROVE  \E m \in 1..Len(gs) : InVain(gs, m, name)
      BY DEF UnmetOf
    <2>1. PICK m : m = IF k < i THEN k ELSE k + 1
      OBVIOUS
    <2>2. ks[k] = hs[m] /\ m \in 1..Len(gs)
      BY <1>1, <1>5, <1>7, <2>1
    <2>3. name \in gs[m].required /\ name # gs[i].name
      BY <1>3, <2>2 DEF InVain
    <2>4. ASSUME NEW j \in 1..(m - 1), gs[j].name = name, gs[j].scoring = "complete"
          PROVE  FALSE
      <3>1. j # i
        BY <2>3, <2>4
      <3>2. PICK l : l = IF j < i THEN j ELSE j - 1
        OBVIOUS
      <3>3. l \in 1..(k - 1) /\ l \in 1..(Len(gs) - 1) /\ j = IF l < i THEN l ELSE l + 1
        BY <1>1, <1>7, <2>1, <2>2, <3>1, <3>2
      <3>4. ks[l] = hs[j]
        BY <1>5, <3>3
      <3>5. j \in 1..Len(gs)
        BY <1>1, <2>2
      <3> QED
        BY <1>3, <2>4, <3>3, <3>4, <3>5 DEF InVain
    <2> QED
      BY <2>2, <2>3, <2>4 DEF InVain
  <1> QED
    BY <1>2, <1>4, <1>7, <1>8 DEF KeepsComplete, gs

----------------------------------------------------------------------------
(* All controls.                                                            *)

\* q is a problem, and no name is required in vain that is not so in p.
Follows(q, p) == q \in Problem /\ Unmet(q) \subseteq Unmet(p)

LEMMA EditGroups ==
  ASSUME NEW p \in Problem, NEW gs, KeepsComplete(p.groups, gs)
  PROVE  Follows([p EXCEPT !.groups = gs], p)
  <1>1. gs \in Seq(Group) /\ UnmetOf(gs) \subseteq UnmetOf(p.groups)
    BY DEF KeepsComplete
  <1>2. [p EXCEPT !.groups = gs] \in Problem /\ [p EXCEPT !.groups = gs].groups = gs
    BY <1>1, WithGroups
  <1> QED
    BY <1>1, <1>2, UnmetIsOfGroups DEF Follows

LEMMA GroupEditsKeep ==
  ASSUME NEW p \in Problem, NEW i \in DOMAIN p.groups, NEW q \in GroupEdits(p, i)
  PROVE  Follows(q, p)
  <1>1. /\ p.groups \in Seq(Group) /\ i \in 1..Len(p.groups) /\ p.groups[i] \in Group
        /\ \A j \in 1..Len(p.groups) : p.groups[j] \in Group
    BY GroupsOfProblem
  <1>2. ASSUME NEW name \in Name \cup {NoName}, q = RenameGroup(p, i, name) PROVE Follows(q, p)
    <2>1. KeepsComplete(p.groups, [RemoveRequired(p.groups, i) EXCEPT ![i].name = name])
      BY <1>1, EditName
    <2>2. q = [p EXCEPT !.groups = [RemoveRequired(p.groups, i) EXCEPT ![i].name = name]]
      BY <1>2 DEF RenameGroup
    <2> QED
      BY <2>1, <2>2, EditGroups
  <1>3. ASSUME NEW g \in Group, g.name = p.groups[i].name, g.scoring = p.groups[i].scoring,
               g.required \subseteq p.groups[i].required,
               q = [p EXCEPT !.groups = [p.groups EXCEPT ![i] = g]]
        PROVE  Follows(q, p)
    <2>1. KeepsComplete(p.groups, [p.groups EXCEPT ![i] = g])
      BY <1>1, <1>3, EditOtherField
    <2> QED
      BY <1>3, <2>1, EditGroups
  <1>4. ASSUME NEW n \in Number, q = SetFirst(p, i, n) \/ q = SetLast(p, i, n) PROVE Follows(q, p)
    <2>1. PICK g : g = IF q = SetFirst(p, i, n) THEN [p.groups[i] EXCEPT !.first = n]
                                                ELSE [p.groups[i] EXCEPT !.last = n]
      OBVIOUS
    <2>2. /\ g \in Group /\ g.name = p.groups[i].name /\ g.scoring = p.groups[i].scoring
          /\ g.required = p.groups[i].required
      BY <1>1, <2>1 DEF Group
    <2>3. q = [p EXCEPT !.groups = [p.groups EXCEPT ![i] = g]]
      BY <1>4, <2>1 DEF SetFirst, SetLast
    <2> QED
      BY <1>3, <2>2, <2>3
  <1>5. ASSUME NEW s \in {"complete", "each", "min"}, q = SetScoring(p, i, s) PROVE Follows(q, p)
    <2>1. KeepsComplete(p.groups, q.groups)
      BY <1>1, <1>5, EditScoring
    <2>2. q = [p EXCEPT !.groups = q.groups]
      BY <1>5 DEF SetScoring, Problem
    <2> QED
      BY <2>1, <2>2, EditGroups
  <1>6. ASSUME NEW isFilled \in BOOLEAN, q = SetScore(p, i, isFilled) PROVE Follows(q, p)
    <2>1. PICK score : score = IF isFilled THEN ScoreInput(p.groups[i]) ELSE "none"
      OBVIOUS
    <2>2. score \in {"none", "group", "test"}
      BY <2>1 DEF ScoreInput
    <2>3. PICK g : g = [p.groups[i] EXCEPT !.score = score]
      OBVIOUS
    <2>4. /\ g \in Group /\ g.name = p.groups[i].name /\ g.scoring = p.groups[i].scoring
          /\ g.required = p.groups[i].required
      BY <1>1, <2>2, <2>3 DEF Group
    <2>5. q = [p EXCEPT !.groups = [p.groups EXCEPT ![i] = g]]
      BY <1>6, <2>1, <2>3 DEF SetScore
    <2> QED
      BY <1>3, <2>4, <2>5
  <1>7. ASSUME NEW name \in CanAdd(p, i), q = AddRequired(p, i, name) PROVE Follows(q, p)
    <2>1. KeepsComplete(p.groups, q.groups)
      BY <1>1, <1>7, EditRequired
    <2>2. q = [p EXCEPT !.groups = q.groups]
      BY <1>7 DEF AddRequired, Problem
    <2> QED
      BY <2>1, <2>2, EditGroups
  <1>8. ASSUME NEW name \in p.groups[i].required, q = DropRequired(p, i, name) PROVE Follows(q, p)
    <2>1. PICK g : g = [p.groups[i] EXCEPT !.required = @ \ {name}]
      OBVIOUS
    <2>2. /\ g \in Group /\ g.name = p.groups[i].name /\ g.scoring = p.groups[i].scoring
          /\ g.required \subseteq p.groups[i].required
      BY <1>1, <2>1 DEF Group
    <2>3. q = [p EXCEPT !.groups = [p.groups EXCEPT ![i] = g]]
      BY <1>8, <2>1 DEF DropRequired
    <2> QED
      BY <1>3, <2>2, <2>3
  <1>9. ASSUME q = RemoveGroup(p, i) PROVE Follows(q, p)
    <2>1. KeepsComplete(p.groups, Without(RemoveRequired(p.groups, i), i))
      BY <1>1, EditRemove
    <2>2. q = [p EXCEPT !.groups = Without(RemoveRequired(p.groups, i), i)]
      BY <1>9 DEF RemoveGroup
    <2> QED
      BY <2>1, <2>2, EditGroups
  <1> QED
    BY <1>2, <1>4, <1>5, <1>6, <1>7, <1>8, <1>9 DEF GroupEdits

LEMMA AddGroupKeeps ==
  ASSUME NEW p \in Problem
  PROVE  Follows(AddGroup(p), p)
  <1>1. p.groups \in Seq(Group) /\ Len(p.groups) \in Nat
    BY GroupsOfProblem
  <1>2. NewGroup \in Group /\ NewGroup.required = {}
    BY DEF NewGroup, Group, Number
  <1>3. PICK gs : gs = Append(p.groups, NewGroup)
    OBVIOUS
  <1>4. /\ gs \in Seq(Group) /\ Len(gs) = Len(p.groups) + 1
        /\ \A j \in 1..Len(p.groups) : gs[j] = p.groups[j]
        /\ gs[Len(gs)] = NewGroup
    BY <1>1, <1>2, <1>3
  <1>5. UnmetOf(gs) \subseteq UnmetOf(p.groups)
    <2> SUFFICES ASSUME NEW name \in Name, NEW i \in 1..Len(gs), InVain(gs, i, name)
                 PROVE  i \in 1..Len(p.groups) /\ InVain(p.groups, i, name)
      BY DEF UnmetOf
    <2>1. i \in 1..Len(p.groups)
      BY <1>1, <1>2, <1>4 DEF InVain
    <2>2. \A j \in 1..i : gs[j] = p.groups[j]
      BY <1>1, <1>4, <2>1
    <2>3. i \in 1..i /\ 1..(i - 1) \subseteq 1..i
      OBVIOUS
    <2> QED
      BY <2>1, <2>2, <2>3 DEF InVain
  <1>6. KeepsComplete(p.groups, gs)
    BY <1>4, <1>5 DEF KeepsComplete
  <1> QED
    BY <1>3, <1>6, EditGroups DEF AddGroup

\* No control of the form makes a name required in vain, whatever problem was
\* loaded into it: an added requirement is of an earlier group scored as a whole,
\* and one whose group is renamed, removed or scored otherwise goes with it
\* (ProblemReducer with renderRequiredGroups).
THEOREM EditsKeep ==
  ASSUME NEW p \in Problem, NEW q \in Edits(p)
  PROVE  q \in Problem /\ Unmet(q) \subseteq Unmet(p)
  <1>1. ASSUME q \in Problem, q.groups = p.groups PROVE Follows(q, p)
    BY <1>1, UnmetIsOfGroups DEF Follows
  <1>2. ASSUME NEW type \in {"ICPC", "IOI"}, q = [p EXCEPT !.type = type] PROVE Follows(q, p)
    <2>1. q \in Problem /\ q.groups = p.groups
      BY <1>2 DEF Problem
    <2> QED
      BY <1>1, <2>1
  <1>3. ASSUME NEW n \in Number, q = [p EXCEPT !.tests = n] PROVE Follows(q, p)
    <2>1. q \in Problem /\ q.groups = p.groups
      BY <1>3 DEF Problem
    <2> QED
      BY <1>1, <2>1
  <1>4. CASE q = AddGroup(p)
    BY <1>4, AddGroupKeeps DEF Follows
  <1>5. ASSUME NEW i \in DOMAIN p.groups, q \in GroupEdits(p, i) PROVE Follows(q, p)
    BY <1>5, GroupEditsKeep
  <1> QED
    BY <1>2, <1>3, <1>4, <1>5 DEF Edits, Follows

\* A problem of which no more is required in vain than was imported.
Good(p) == p \in Problem /\ Unmet(p) \subseteq Imported

LEMMA InitialIsGood == Good(InitialProblem)
  BY DEF Good, InitialProblem, Problem, Unmet, Number

\* Storing a problem changes none of its groups' names, scorings and requirements.
LEMMA StoredKeeps ==
  ASSUME NEW p \in Problem, Good(p)
  PROVE  Good(Stored(p))
  <1>1. /\ p.groups \in Seq(Group) /\ Len(p.groups) \in Nat /\ DOMAIN p.groups = 1..Len(p.groups)
        /\ \A j \in 1..Len(p.groups) : p.groups[j] \in Group
        /\ p.tests \in Number
    BY GroupsOfProblem DEF Problem
  <1> DEFINE Read(n) == IF n = Blank THEN 0 ELSE n
             New(g) == [g EXCEPT !.first = Read(@), !.last = Read(@)]
             gs == [j \in 1..Len(p.groups) |-> New(p.groups[j])]
  <1>2. \A n \in Number : Read(n) \in Number
    BY FormAssumption DEF Number, Blank
  <1>3. ASSUME NEW g \in Group
        PROVE  /\ New(g) \in Group /\ New(g).name = g.name
               /\ New(g).scoring = g.scoring /\ New(g).required = g.required
    BY <1>2, <1>3 DEF Group
  <1> HIDE DEF Read, New
  <1>4. gs \in [1..Len(p.groups) -> Group]
    BY <1>1, <1>3
  <1>5. gs \in Seq(Group) /\ Len(gs) = Len(p.groups)
    BY <1>1, <1>4, FunctionIsSeq
  <1>6. \A j \in 1..Len(p.groups) :
          /\ gs[j].name = p.groups[j].name /\ gs[j].scoring = p.groups[j].scoring
          /\ gs[j].required = p.groups[j].required
    BY <1>1, <1>3
  <1>7. Stored(p) = [p EXCEPT !.tests = Read(p.tests), !.groups = gs]
    <2>1. gs = [j \in DOMAIN p.groups |->
                 [p.groups[j] EXCEPT !.first = Read(@), !.last = Read(@)]]
      BY <1>1 DEF New
    <2> QED
      BY <2>1 DEF Stored, Read
  <1> HIDE DEF gs
  <1>8. UnmetOf(gs) \subseteq UnmetOf(p.groups)
    BY <1>1, <1>5, <1>6, NoMoreRequired
  <1>9. Stored(p) \in Problem /\ Stored(p).groups = gs
    BY <1>1, <1>2, <1>5, <1>7 DEF Problem
  <1> QED
    BY <1>8, <1>9, UnmetIsOfGroups DEF Good

\* checkProblemIsOK says nothing of the scoring of required groups, and answers
\* with an error but stores the problem when a group ends before it starts; what
\* it answers as OK and requires nothing in vain is what newIOIGenerator takes.
THEOREM CheckedIsTestable ==
  ASSUME NEW p \in Problem, Unmet(p) = {}, IsOK(p), ~Complains(p)
  PROVE  GeneratorAccepts(p)
  <1> SUFFICES ASSUME p.type = "IOI" PROVE GeneratorAccepts(p)
    BY DEF GeneratorAccepts
  <1>1. /\ Len(p.groups) \in Nat /\ DOMAIN p.groups = 1..Len(p.groups)
        /\ \A j \in 1..Len(p.groups) : p.groups[j] \in Group
    BY GroupsOfProblem
  <1>2. \A i \in 1..Len(p.groups) : GroupIsOK(p, i)
    BY <1>1 DEF IsOK
  <1>3. ASSUME NEW i \in 1..Len(p.groups) PROVE p.groups[i].first <= p.groups[i].last
    <2>1. ~(p.groups[i].first > p.groups[i].last)
      BY <1>1, <1>2 DEF Complains, GroupIsOK
    <2>2. p.groups[i].first \in Int /\ p.groups[i].last \in Int
      BY <1>1, FormAssumption DEF Group, Number, Blank
    <2> QED
      BY <2>1, <2>2
  <1>4. ASSUME NEW i \in 1..Len(p.groups), NEW name \in p.groups[i].required
        PROVE  InfoIsComplete(p, name)
    <2>1. PICK j \in 1..(i - 1) : p.groups[j].name = name /\ p.groups[j].scoring = "complete"
      BY <1>1 DEF Unmet, Group
    <2>2. j \in DOMAIN p.groups
      BY <1>1
    <2>3. ASSUME NEW k \in DOMAIN p.groups, k > j PROVE p.groups[k].name # name
      <3>1. j \in 1..(k - 1)
        BY <1>1, <2>3
      <3> QED
        BY <1>1, <1>2, <2>1, <3>1 DEF GroupIsOK, NamesBefore
    <2> QED
      BY <2>1, <2>2, <2>3 DEF InfoIsComplete
  <1>5. LastTestBefore(p, Len(p.groups) + 1) = p.tests
    BY DEF IsOK
  <1>6. ASSUME NEW i \in DOMAIN p.groups
        PROVE  /\ p.groups[i].score = ScoreInput(p.groups[i])
               /\ StartsInPlace(p, i)
               /\ p.groups[i].name \notin NamesBefore(p, i)
               /\ \A name \in p.groups[i].required : name \in NamesBefore(p, i)
    BY <1>1, <1>2 DEF GroupIsOK
  <1> QED
    BY <1>1, <1>3, <1>4, <1>5, <1>6 DEF GeneratorAccepts

\* Relieved changes nothing but what is required.
LEMMA RelievedFields ==
  ASSUME NEW p \in Problem
  PROVE  LET q == Relieved(p)
         IN  /\ q \in Problem /\ q.type = p.type /\ q.tests = p.tests
             /\ Len(q.groups) = Len(p.groups)
             /\ \A i \in 1..Len(p.groups) :
                  q.groups[i] = [p.groups[i] EXCEPT !.required = @ \ (Unmet(p) \cap Imported)]
  <1>1. /\ p.groups \in Seq(Group) /\ Len(p.groups) \in Nat
        /\ DOMAIN p.groups = 1..Len(p.groups)
        /\ \A i \in 1..Len(p.groups) : p.groups[i] \in Group
    BY GroupsOfProblem
  <1>2. PICK names : names = Unmet(p) \cap Imported
    OBVIOUS
  <1>3. PICK gs : gs = [i \in 1..Len(p.groups) |->
                          [p.groups[i] EXCEPT !.required = @ \ names]]
    OBVIOUS
  <1>4. gs \in [1..Len(p.groups) -> Group]
    BY <1>1, <1>3, LessRequired
  <1>5. gs \in Seq(Group) /\ Len(gs) = Len(p.groups)
    BY <1>1, <1>4, FunctionIsSeq
  <1>6. Relieved(p) = [p EXCEPT !.groups = gs]
    BY <1>1, <1>2, <1>3 DEF Relieved
  <1>7. /\ Relieved(p) \in Problem /\ Relieved(p).groups = gs
        /\ Relieved(p).type = p.type /\ Relieved(p).tests = p.tests
    BY <1>5, <1>6 DEF Problem
  <1> QED
    BY <1>2, <1>3, <1>5, <1>7

\* Where nothing is required in vain, Relieved changes nothing at all.
LEMMA NothingToRelieve ==
  ASSUME NEW p \in Problem, Unmet(p) \cap Imported = {}
  PROVE  Relieved(p) = p
  <1>1. /\ p.groups \in Seq(Group) /\ DOMAIN p.groups = 1..Len(p.groups)
        /\ \A i \in 1..Len(p.groups) : p.groups[i] \in Group
    BY GroupsOfProblem
  <1>2. ASSUME NEW g \in Group PROVE [g EXCEPT !.required = @ \ {}] = g
    BY DEF Group
  <1>3. [i \in DOMAIN p.groups |-> [p.groups[i] EXCEPT !.required = @ \ {}]]
          = [i \in DOMAIN p.groups |-> p.groups[i]]
    BY <1>1, <1>2
  <1>4. [i \in DOMAIN p.groups |-> p.groups[i]] = p.groups
    BY <1>1
  <1>5. PICK gs : gs = p.groups
    OBVIOUS
  <1>6. Relieved(p) = [p EXCEPT !.groups = gs]
    BY <1>3, <1>4, <1>5 DEF Relieved
  <1> QED
    BY <1>5, <1>6 DEF Problem

\* The same of a problem with imported requirements: but for them it is accepted.
LEMMA RelievedIsTestable ==
  ASSUME NEW p \in Problem, Unmet(p) \subseteq Imported, IsOK(p), ~Complains(p)
  PROVE  GeneratorAccepts(Relieved(p))
  <1>1. PICK q : q = Relieved(p)
    OBVIOUS
  <1>2. /\ Len(p.groups) \in Nat /\ DOMAIN p.groups = 1..Len(p.groups)
        /\ \A i \in 1..Len(p.groups) : p.groups[i] \in Group
    BY GroupsOfProblem
  <1>3. /\ q \in Problem /\ q.type = p.type /\ q.tests = p.tests
        /\ Len(q.groups) = Len(p.groups) /\ DOMAIN q.groups = 1..Len(p.groups)
        /\ \A i \in 1..Len(p.groups) :
             /\ q.groups[i].name = p.groups[i].name
             /\ q.groups[i].first = p.groups[i].first /\ q.groups[i].last = p.groups[i].last
             /\ q.groups[i].scoring = p.groups[i].scoring
             /\ q.groups[i].score = p.groups[i].score
             /\ q.groups[i].required = p.groups[i].required \ Unmet(p)
    <2>1. PICK names : names = Unmet(p)
      OBVIOUS
    <2>2. Unmet(p) \cap Imported = names
      BY <2>1
    <2>3. /\ q \in Problem /\ q.type = p.type /\ q.tests = p.tests
          /\ Len(q.groups) = Len(p.groups)
          /\ \A i \in 1..Len(p.groups) :
               q.groups[i] = [p.groups[i] EXCEPT !.required = @ \ names]
      BY <1>1, <2>2, RelievedFields
    <2>4. DOMAIN q.groups = 1..Len(p.groups)
      BY <2>3, GroupsOfProblem
    <2>5. ASSUME NEW g \in Group
          PROVE  LET h == [g EXCEPT !.required = @ \ names]
                 IN  /\ h.name = g.name /\ h.first = g.first /\ h.last = g.last
                     /\ h.scoring = g.scoring /\ h.score = g.score
                     /\ h.required = g.required \ names
      BY DEF Group
    <2>6. ASSUME NEW i \in 1..Len(p.groups)
          PROVE  /\ q.groups[i].name = p.groups[i].name
                 /\ q.groups[i].first = p.groups[i].first /\ q.groups[i].last = p.groups[i].last
                 /\ q.groups[i].scoring = p.groups[i].scoring
                 /\ q.groups[i].score = p.groups[i].score
                 /\ q.groups[i].required = p.groups[i].required \ names
      BY <1>2, <2>3, <2>5
    <2> QED
      BY <2>1, <2>3, <2>4, <2>6
  <1>4. Unmet(q) = {}
    <2> SUFFICES ASSUME NEW name \in Unmet(q) PROVE FALSE
      OBVIOUS
    <2>1. name \in Name
      BY DEF Unmet
    <2>2. PICK i \in 1..Len(p.groups) :
            /\ name \in q.groups[i].required
            /\ \A j \in 1..(i - 1) :
                 ~(q.groups[j].name = name /\ q.groups[j].scoring = "complete")
      BY <1>3 DEF Unmet
    <2>3. \A j \in 1..(i - 1) : j \in 1..Len(p.groups)
      BY <1>2
    <2>4. name \in p.groups[i].required /\ name \notin Unmet(p)
      BY <1>3, <2>2
    <2>5. \A j \in 1..(i - 1) :
            ~(p.groups[j].name = name /\ p.groups[j].scoring = "complete")
      BY <1>3, <2>2, <2>3
    <2> QED
      BY <1>2, <2>1, <2>4, <2>5 DEF Unmet
  <1>5. \A i \in 1..(Len(p.groups) + 1) :
          /\ LastTestBefore(q, i) = LastTestBefore(p, i)
          /\ NamesBefore(q, i) = NamesBefore(p, i)
    BY <1>2, <1>3 DEF LastTestBefore, NamesBefore
  <1>6. \A i \in 1..Len(p.groups) : GroupIsOK(p, i) => GroupIsOK(q, i)
    BY <1>2, <1>3, <1>5 DEF GroupIsOK, StartsInPlace, ScoreInput
  <1>7. IsOK(q)
    BY <1>2, <1>3, <1>5, <1>6 DEF IsOK
  <1>8. ~Complains(q)
    <2> SUFFICES ASSUME NEW i \in 1..Len(p.groups), q.type = "IOI",
                        q.groups[i].first > q.groups[i].last
                 PROVE  FALSE
      BY <1>3 DEF Complains
    <2>1. \A j \in 1..Len(p.groups) : GroupIsOK(p, j)
      BY <1>2, <1>3 DEF IsOK
    <2>2. \A j \in 1..(i - 1) : GroupIsOK(p, j)
      BY <1>2, <2>1
    <2> QED
      BY <1>2, <1>3, <2>1, <2>2 DEF Complains, GroupIsOK
  <1> QED
    BY <1>1, <1>3, <1>4, <1>7, <1>8, CheckedIsTestable

----------------------------------------------------------------------------
(* The admin site.                                                          *)

\* The problems of pending loads are as good as the form they go to.
LoadsAreComplete == \A k \in DOMAIN fetches : Unmet(fetches[k].problem) \subseteq Imported

Inv == TypeOK /\ OnlyImportedIsUnmet /\ LoadsAreComplete /\ SavedIsTestable

----------------------------------------------------------------------------
(* Locations.                                                               *)

LEMMA AtIsLocation ==
  /\ \A r \in Route : At(r) \in Location
  /\ \A i \in ProblemID : AtProblem(i) \in Location
  BY PagesAssumption DEF At, AtProblem, Location, Route, ProblemID

LEMMA WithPageIsLocation ==
  ASSUME NEW l \in Location
  PROVE  WithPage(l) \in Location
  BY PagesAssumption DEF WithPage, Location

LEMMA LoadIsFetch ==
  ASSUME NEW l \in Location
  PROVE  /\ NewFetch(l) \in Fetch /\ NewFetch(l).problem = InitialProblem
         /\ Load(l) \in Seq(Fetch)
         /\ \A k \in DOMAIN Load(l) : Load(l)[k].problem = InitialProblem
         /\ NoView(l) \in [state : {"loading", "ready", "error"}, of : Location,
                           ids : SUBSET ProblemID]
  <1>1. NewFetch(l) \in Fetch /\ NewFetch(l).problem = InitialProblem
    BY InitialIsGood DEF NewFetch, Fetch, Good
  <1>2. Load(l) = <<>> \/ Load(l) = <<NewFetch(l)>>
    BY DEF Load
  <1>3. /\ Load(l) \in Seq(Fetch)
        /\ \A k \in DOMAIN Load(l) : Load(l)[k].problem = InitialProblem
    <2>1. PICK f \in Fetch : f = NewFetch(l) /\ f.problem = InitialProblem
      BY <1>1
    <2>2. CASE Load(l) = <<>>
      BY <2>2
    <2>3. CASE Load(l) = <<f>>
      <3>1. <<f>> \in Seq(Fetch) /\ DOMAIN <<f>> = {1} /\ <<f>>[1] = f
        OBVIOUS
      <3> QED
        BY <2>1, <2>3, <3>1
    <2> QED
      BY <1>2, <2>1, <2>2, <2>3
  <1> QED
    BY <1>1, <1>3 DEF NoView

LEMMA LinksAreLocations ==
  ASSUME TypeOK
  PROVE  Links \subseteq Location
  <1>1. view.ids \subseteq ProblemID
    BY DEF TypeOK, PageTypeOK
  <1>2. {AtProblem(i) : i \in view.ids} \subseteq Location
    BY <1>1, AtIsLocation
  <1>3. \A f \in SUBSET Filter : Submissions(f) \subseteq Location
    BY PagesAssumption DEF Submissions, At, Location, Route, ProblemID
  <1>4. /\ Crumbs \subseteq Location
        /\ At("problems") \in Location /\ At("submissions") \in Location
        /\ At("status") \in Location /\ At("newProblem") \in Location
        /\ At("newSubmission") \in Location /\ At("submission") \in Location
    BY AtIsLocation DEF Crumbs, Route
  <1>5. FixedLinks \subseteq Location
    <2>1. Submissions((IF view.state # "loading" THEN Filter \ {Malformed} ELSE {})
                        \cup (IF view.state # "ready" THEN {Malformed} ELSE {}))
            \subseteq Location
      BY <1>3, PagesAssumption
    <2> QED
      BY <1>4, <2>1 DEF FixedLinks
  <1>6. DataLinks \subseteq Location
    <2>1. Submissions(Filter \ {Malformed}) \subseteq Location
      BY <1>3
    <2> QED
      BY <1>2, <1>4, <2>1 DEF DataLinks
  <1> QED
    BY <1>4, <1>5, <1>6 DEF Links

LEMMA PanelsAreTyped ==
  /\ DOMAIN Panels(0) = 0..0
  /\ \A p \in DOMAIN Panels(0) : Panels(0)[p] \in Panel(p)
  /\ \A p : NewPanel(p) \in Panel(p)
  BY DEF Panels, NewPanel, Panel

LEMMA NoSubmissionIsTyped == NoSubmission \in SubmissionShown
  BY DEF SubmissionShown

----------------------------------------------------------------------------
(* The initial state.                                                       *)

LEMMA InitInv == Init => Inv
  <1> SUFFICES ASSUME Init PROVE Inv
    OBVIOUS
  <1>1. PICK l \in Start : /\ loc = WithPage(l)
                           /\ fetches = Load(WithPage(l))
                           /\ view = NoView(WithPage(l))
    BY DEF Init, PageInit
  <1>2. WithPage(l) \in Location
    BY <1>1, PagesAssumption, WithPageIsLocation
  <1>3. PageTypeOK
    <2>1. loc \in Location /\ disturbed \in BOOLEAN /\ alert = "none" /\ timers = 0
          /\ writes = {} /\ visits = 0
      BY <1>1, <1>2 DEF Init, PageInit
    <2>2. /\ fetches \in Seq(Fetch)
          /\ view \in [state : {"loading", "ready", "error"}, of : Location,
                       ids : SUBSET ProblemID]
      BY <1>1, <1>2, LoadIsFetch
    <2> QED
      BY <2>1, <2>2, PagesAssumption DEF PageTypeOK
  <1>4. /\ DOMAIN db = {1} /\ db[1].problem \in FirstProblems /\ db[1].checked = FALSE
        /\ db[1] \in [problem : Problem, checked : BOOLEAN]
    BY PagesAssumption DEF Init
  <1>5. TypeOK
    <2>1. 0..0 \in {0..n : n \in 0..MaxTests}
      BY SiteAssumption
    <2>2. DOMAIN db \subseteq ProblemID
          /\ \A i \in DOMAIN db : db[i] \in [problem : Problem, checked : BOOLEAN]
      BY <1>4 DEF ProblemID
    <2>3. form \in Problem /\ edits \in 0..MaxEdits
      BY InitialIsGood, SiteAssumption DEF Init, Good
    <2>4. submission \in SubmissionShown /\ due \subseteq {"tests", "source"}
      BY NoSubmissionIsTyped DEF Init
    <2>5. /\ DOMAIN panels \in {0..n : n \in 0..MaxTests}
          /\ \A p \in DOMAIN panels : panels[p] \in Panel(p)
      BY <2>1, PanelsAreTyped DEF Init
    <2> QED
      BY <1>3, <2>2, <2>3, <2>4, <2>5 DEF TypeOK
  <1>6. OnlyImportedIsUnmet /\ SavedIsTestable
    <2>1. Unmet(db[1].problem) \subseteq Imported
      BY <1>4 DEF Imported
    <2> QED
      BY <1>4, <2>1, InitialIsGood
      DEF Init, PageInit, OnlyImportedIsUnmet, SavedIsTestable, Good
  <1>7. LoadsAreComplete
    BY <1>1, <1>2, LoadIsFetch, InitialIsGood DEF LoadsAreComplete, Good
  <1> QED
    BY <1>5, <1>6, <1>7 DEF Inv

----------------------------------------------------------------------------
(* The parts of the invariant.                                              *)

PageIsTyped ==
  /\ loc \in Location
  /\ view \in [state : {"loading", "ready", "error"}, of : Location, ids : SUBSET ProblemID]
  /\ disturbed \in BOOLEAN
LoadsAreGood ==
  /\ fetches \in Seq(Fetch)
  /\ \A k \in DOMAIN fetches : Unmet(fetches[k].problem) \subseteq Imported
AlertIsTyped == alert \in {"none", "ok", "error"} /\ timers \in Nat
GoodWrite == {w \in Write : Unmet(w.problem) \subseteq Imported}
WritesAreGood == writes \in SUBSET GoodWrite
GoodRow == {r \in [problem : Problem, checked : BOOLEAN] :
              /\ Unmet(r.problem) \subseteq Imported
              /\ r.checked => GeneratorAccepts(Relieved(r.problem))}
RowsAreGood == DOMAIN db \subseteq ProblemID /\ \A i \in DOMAIN db : db[i] \in GoodRow
CountersAreTyped == visits \in 0..MaxVisits /\ edits \in 0..MaxEdits
PanelsAreGood ==
  /\ submission \in SubmissionShown
  /\ DOMAIN panels \in {0..n : n \in 0..MaxTests}
  /\ \A p \in DOMAIN panels : panels[p] \in Panel(p)
  /\ due \subseteq {"tests", "source"}

Parts == /\ PageIsTyped /\ LoadsAreGood /\ AlertIsTyped /\ WritesAreGood
         /\ RowsAreGood /\ CountersAreTyped /\ Good(form) /\ PanelsAreGood

LEMMA InvIsParts == Inv <=> Parts
  BY DEF Inv, Parts, TypeOK, PageTypeOK, OnlyImportedIsUnmet, LoadsAreComplete, SavedIsTestable,
         PageIsTyped, LoadsAreGood, AlertIsTyped, WritesAreGood, GoodWrite, RowsAreGood,
         GoodRow, CountersAreTyped, Good, PanelsAreGood

LEMMA InvIsPartsNext == (Inv <=> Parts)'
  BY InvIsParts, PTL

LEMMA Unchanged ==
  ASSUME Parts
  PROVE  /\ UNCHANGED <<loc, view, disturbed>> => PageIsTyped'
         /\ UNCHANGED fetches => LoadsAreGood'
         /\ UNCHANGED alertVars => AlertIsTyped'
         /\ UNCHANGED writes => WritesAreGood'
         /\ UNCHANGED db => RowsAreGood'
         /\ UNCHANGED <<visits, edits>> => CountersAreTyped'
         /\ UNCHANGED form => Good(form)'
         /\ UNCHANGED submissionVars => PanelsAreGood'
  BY DEF Parts, PageIsTyped, LoadsAreGood, AlertIsTyped, WritesAreGood, RowsAreGood,
         CountersAreTyped, Good, PanelsAreGood, alertVars, submissionVars

----------------------------------------------------------------------------
(* Navigation and loads.                                                    *)

LEMMA UnawaitedAreGood ==
  ASSUME NEW ws \in SUBSET GoodWrite
  PROVE  Unawaited(ws) \in SUBSET GoodWrite
  <1>1. ASSUME NEW w \in GoodWrite PROVE [w EXCEPT !.awaited = FALSE] \in GoodWrite
    BY DEF GoodWrite, Write
  <1> QED
    BY <1>1 DEF Unawaited

LEMMA MountKeeps ==
  ASSUME Parts, NEW l \in Location, NEW ws \in SUBSET GoodWrite, MountPage(l, ws),
         visits' \in 0..MaxVisits
  PROVE  Parts'
  <1>1. WithPage(l) \in Location
    BY WithPageIsLocation
  <1>2. PageIsTyped' /\ LoadsAreGood'
    <2>1. PICK m \in Location : m = WithPage(l)
      BY <1>1
    <2>2. /\ loc' = m /\ fetches' = Load(m) /\ view' = NoView(m) /\ disturbed' = FALSE
      BY <2>1 DEF MountPage, Mount
    <2> QED
      BY <2>2, LoadIsFetch, InitialIsGood DEF PageIsTyped, LoadsAreGood, Good
  <1>3. AlertIsTyped'
    BY DEF MountPage, Mount, AlertIsTyped
  <1>4. WritesAreGood'
    BY UnawaitedAreGood DEF MountPage, Mount, WritesAreGood
  <1>5. RowsAreGood' /\ CountersAreTyped'
    BY DEF MountPage, Parts, RowsAreGood, CountersAreTyped
  <1>6. Good(form)'
    BY InitialIsGood DEF MountPage
  <1>7. PanelsAreGood'
    <2>1. 0..0 \in {0..n : n \in 0..MaxTests}
      BY SiteAssumption
    <2> QED
      BY <2>1, PanelsAreTyped, NoSubmissionIsTyped DEF MountPage, PanelsAreGood
  <1> QED
    BY <1>2, <1>3, <1>4, <1>5, <1>6, <1>7 DEF Parts

LEMMA FollowLinkKeeps == ASSUME Parts, FollowLink PROVE Parts'
  <1>1. PICK l \in Links : MountPage(l, writes)
    BY DEF FollowLink
  <1>2. l \in Location
    BY InvIsParts, LinksAreLocations DEF Inv
  <1>3. visits' \in 0..MaxVisits
    BY PagesAssumption DEF FollowLink, Parts, CountersAreTyped
  <1> QED
    BY <1>1, <1>2, <1>3, MountKeeps DEF Parts, WritesAreGood

LEMMA WithoutFetchIsGood ==
  ASSUME LoadsAreGood, NEW k \in DOMAIN fetches, fetches' = WithoutFetch(k)
  PROVE  LoadsAreGood'
  <1>1. /\ Len(fetches) \in Nat /\ k \in 1..Len(fetches) /\ DOMAIN fetches = 1..Len(fetches)
        /\ \A j \in 1..Len(fetches) : fetches[j] \in Fetch
    BY DEF LoadsAreGood
  <1>2. \A j \in 1..(Len(fetches) - 1) : (IF j < k THEN j ELSE j + 1) \in 1..Len(fetches)
    BY <1>1
  <1>3. fetches' \in [1..(Len(fetches) - 1) -> Fetch]
    BY <1>1, <1>2 DEF WithoutFetch
  <1>4. fetches' \in Seq(Fetch) /\ DOMAIN fetches' = 1..(Len(fetches) - 1)
    <2>1. Len(fetches) - 1 \in Nat
      BY <1>1
    <2> QED
      BY <1>3, <2>1, FunctionIsSeq
  <1> QED
    BY <1>1, <1>2, <1>4 DEF LoadsAreGood, WithoutFetch

LEMMA ServeLoadKeeps ==
  ASSUME Parts, NEW k \in DOMAIN fetches, ServeLoad(k)
  PROVE  Parts'
  <1>1. fetches \in Seq(Fetch) /\ fetches[k] \in Fetch /\ Unmet(fetches[k].problem) \subseteq Imported
    BY DEF Parts, LoadsAreGood
  <1>2. PICK f : fetches' = [fetches EXCEPT ![k] = f] /\ f \in Fetch /\ Unmet(f.problem) \subseteq Imported
    <2>1. CASE fetches' = [fetches EXCEPT ![k].reply = "refused"]
      <3>1. PICK f : f = [fetches[k] EXCEPT !.reply = "refused"]
        OBVIOUS
      <3>2. f \in Fetch /\ f.problem = fetches[k].problem
        BY <1>1, <3>1 DEF Fetch
      <3> QED
        BY <1>1, <2>1, <3>1, <3>2
    <2>2. CASE fetches' # [fetches EXCEPT ![k].reply = "refused"]
      <3>1. PICK ids : ids = IF fetches[k].of.route = "status" \/ fetches[k].of.filter = Malformed
                               THEN {} ELSE DOMAIN db
        OBVIOUS
      <3>2. PICK p : p = IF fetches[k].of.route = "problem"
                           THEN db[fetches[k].of.id].problem ELSE fetches[k].problem
        OBVIOUS
      <3>3. PICK f : f = [fetches[k] EXCEPT !.reply = "found", !.ids = ids, !.problem = p]
        OBVIOUS
      <3>4. ids \in SUBSET ProblemID
        BY <3>1 DEF Parts, RowsAreGood
      <3>5. p \in Problem /\ Unmet(p) \subseteq Imported
        <4>1. CASE fetches[k].of.route = "problem"
          <5>1. fetches[k].of.id \in DOMAIN db
            BY <2>2, <4>1 DEF ServeLoad
          <5>2. db[fetches[k].of.id] \in GoodRow
            BY <5>1 DEF Parts, RowsAreGood
          <5> QED
            BY <3>2, <4>1, <5>2 DEF GoodRow
        <4>2. CASE fetches[k].of.route # "problem"
          BY <1>1, <3>2, <4>2 DEF Fetch
        <4> QED
          BY <4>1, <4>2
      <3>6. f \in Fetch /\ f.problem = p
        BY <1>1, <3>3, <3>4, <3>5 DEF Fetch
      <3>7. fetches' = [fetches EXCEPT ![k] = f]
        BY <2>2, <3>1, <3>2, <3>3 DEF ServeLoad
      <3> QED
        BY <3>5, <3>6, <3>7
    <2> QED
      BY <2>1, <2>2
  <1>3. LoadsAreGood'
    <2>1. fetches' \in Seq(Fetch) /\ DOMAIN fetches' = DOMAIN fetches
      BY <1>1, <1>2
    <2>2. \A j \in DOMAIN fetches : fetches'[j] = IF j = k THEN f ELSE fetches[j]
      BY <1>1, <1>2
    <2> QED
      BY <1>2, <2>1, <2>2 DEF Parts, LoadsAreGood
  <1> QED
    BY <1>3, Unchanged DEF ServeLoad, Parts, problemVars, alertVars

LEMMA ReceiveLoadKeeps ==
  ASSUME Parts, NEW k \in DOMAIN fetches, ReceiveLoad(k)
  PROVE  Parts'
  <1>1. fetches[k] \in Fetch /\ Unmet(fetches[k].problem) \subseteq Imported
    BY DEF Parts, LoadsAreGood
  <1>2. PageIsTyped'
    BY <1>1 DEF ReceiveLoad, Show, Parts, PageIsTyped, Fetch
  <1>3. LoadsAreGood'
    BY WithoutFetchIsGood DEF ReceiveLoad, Show, Parts
  <1>4. Good(form)'
    BY <1>1 DEF ReceiveLoad, Parts, Good, Fetch
  <1>5. PanelsAreGood'
    BY DEF ReceiveLoad, Parts, PanelsAreGood
  <1> QED
    BY <1>2, <1>3, <1>4, <1>5, Unchanged DEF ReceiveLoad, Parts

LEMMA LoseLoadKeeps ==
  ASSUME Parts, NEW k \in DOMAIN fetches, LoseLoad(k)
  PROVE  Parts'
  <1>1. LoadsAreGood'
    BY WithoutFetchIsGood DEF LoseLoad, LoseFetch, Parts
  <1>2. PageIsTyped'
    BY DEF LoseLoad, LoseFetch, Parts, PageIsTyped
  <1> QED
    BY <1>1, <1>2, Unchanged DEF LoseLoad, LoseFetch, Parts, problemVars

LEMMA ReloadKeeps ==
  ASSUME Parts, NEW l \in Location, Reload(l)
  PROVE  PageIsTyped' /\ LoadsAreGood'
  <1>1. PageIsTyped'
    BY DEF Reload, Parts, PageIsTyped
  <1>2. NewFetch(l) \in Fetch /\ Unmet(NewFetch(l).problem) \subseteq Imported
    BY LoadIsFetch, InitialIsGood DEF Good
  <1>3. PICK f \in Fetch : fetches' = Append(fetches, f) /\ Unmet(f.problem) \subseteq Imported
    BY <1>2 DEF Reload
  <1>4. fetches \in Seq(Fetch) /\ \A k \in DOMAIN fetches : Unmet(fetches[k].problem) \subseteq Imported
    BY DEF Parts, LoadsAreGood
  <1> QED
    BY <1>1, <1>3, <1>4 DEF LoadsAreGood

----------------------------------------------------------------------------
(* The pages of problems.                                                   *)

LEMMA EditFormKeeps == ASSUME Parts, EditForm PROVE Parts'
  <1>1. Good(form)'
    BY EditsKeep DEF EditForm, Parts, Good
  <1>2. CountersAreTyped'
    BY SiteAssumption DEF EditForm, Parts, CountersAreTyped
  <1> QED
    BY <1>1, <1>2, Unchanged DEF EditForm, Parts, pageVars, alertVars, submissionVars

LEMMA SendKeeps ==
  ASSUME Parts, NEW kind \in {"modify", "add", "other"}, NEW id \in ProblemID,
         NEW p, Good(p), Send(kind, id, p), UNCHANGED <<problemVars, submissionVars>>
  PROVE  Parts'
  <1>1. PICK w : w = [kind |-> kind, id |-> id, problem |-> p,
                      reply |-> "none", awaited |-> TRUE]
    OBVIOUS
  <1>2. w \in GoodWrite
    BY <1>1 DEF GoodWrite, Write, Good
  <1>3. writes' = writes \cup {w}
    BY <1>1 DEF Send
  <1>4. WritesAreGood'
    BY <1>2, <1>3 DEF Parts, WritesAreGood
  <1> QED
    BY <1>4, Unchanged DEF Send, Parts, pageVars, problemVars

LEMMA SubmitFormKeeps == ASSUME Parts, SubmitForm PROVE Parts'
  <1>1. Good(form) /\ loc.id \in ProblemID /\ 0 \in ProblemID
    BY DEF Parts, PageIsTyped, Location, ProblemID
  <1>2. CASE loc.route = "problem"
    BY <1>1, <1>2, SendKeeps DEF SubmitForm
  <1>3. CASE loc.route # "problem"
    BY <1>1, <1>3, SendKeeps DEF SubmitForm
  <1> QED
    BY <1>2, <1>3

LEMMA SendOtherKeeps == ASSUME Parts, SendOther PROVE Parts'
  BY SendKeeps, InitialIsGood DEF SendOther, ProblemID

LEMMA AnswerKeeps ==
  ASSUME WritesAreGood, NEW w \in writes, NEW reply \in {"ok", "refused"},
         NEW id \in ProblemID, Answer(w, reply, id)
  PROVE  WritesAreGood'
  <1>1. w \in GoodWrite
    BY DEF WritesAreGood
  <1>2. [w EXCEPT !.reply = reply, !.id = id] \in GoodWrite
    BY <1>1 DEF GoodWrite, Write
  <1> QED
    BY <1>2 DEF Answer, WritesAreGood

\* The row of a problem that modifyProblem stores.
LEMMA ModifyStores ==
  ASSUME Parts, NEW w \in writes, ServeModify(w)
  PROVE  RowsAreGood' /\ WritesAreGood'
  <1>1. w \in GoodWrite /\ Good(w.problem)
    BY DEF Parts, WritesAreGood, GoodWrite, Write, Good
  <1>2. PICK p : p = Stored(w.problem)
    OBVIOUS
  <1>3. Good(p)
    BY <1>1, <1>2, StoredKeeps DEF Good
  <1>4. ~Complains(p) => GeneratorAccepts(Relieved(p))
    BY <1>2, <1>3, RelievedIsTestable DEF ServeModify, Good
  <1>5. PICK row : row = [problem |-> p, checked |-> ~Complains(p)]
    OBVIOUS
  <1>6. row \in GoodRow
    <2>1. CASE Complains(p)
      <3>1. row = [problem |-> p, checked |-> FALSE]
        BY <1>5, <2>1
      <3> QED
        BY <1>3, <3>1 DEF GoodRow, Good
    <2>2. CASE ~Complains(p)
      <3>1. row = [problem |-> p, checked |-> TRUE]
        BY <1>5, <2>2
      <3> QED
        BY <1>3, <1>4, <2>2, <3>1 DEF GoodRow, Good
    <2> QED
      BY <2>1, <2>2
  <1>7. db' = [db EXCEPT ![w.id] = row]
    BY <1>2, <1>5 DEF ServeModify
  <1>8. RowsAreGood'
    BY <1>6, <1>7 DEF Parts, RowsAreGood
  <1>9. WritesAreGood'
    <2>1. w.id \in ProblemID
      BY <1>1 DEF GoodWrite, Write
    <2>2. PICK reply \in {"ok", "refused"} : Answer(w, reply, w.id)
      BY DEF ServeModify
    <2> QED
      BY <2>1, <2>2, AnswerKeeps DEF Parts
  <1> QED
    BY <1>8, <1>9

LEMMA AddStores ==
  ASSUME Parts, NEW w \in writes, ServeAdd(w)
  PROVE  RowsAreGood' /\ WritesAreGood'
  <1>1. w \in GoodWrite /\ Good(w.problem)
    BY DEF Parts, WritesAreGood, GoodWrite, Write, Good
  <1>2. PICK row : row = [problem |-> Stored(w.problem), checked |-> FALSE]
    OBVIOUS
  <1>3. row \in GoodRow
    BY <1>1, <1>2, StoredKeeps DEF GoodRow, Good
  <1>4. db' = [i \in DOMAIN db \cup {2} |-> IF i = 2 THEN row ELSE db[i]]
    BY <1>2 DEF ServeAdd
  <1>5. RowsAreGood'
    BY <1>3, <1>4 DEF Parts, RowsAreGood, ProblemID
  <1>6. WritesAreGood'
    BY AnswerKeeps DEF ServeAdd, Parts, ProblemID
  <1> QED
    BY <1>5, <1>6

LEMMA ServeWriteKeeps == ASSUME Parts, ServeWrite PROVE Parts'
  <1>1. PICK w \in writes :
          ServeModify(w) \/ ServeAdd(w) \/ ServeAddFailed(w) \/ ServeOther(w) \/ Refuse(w)
    BY DEF ServeWrite
  <1>2. w.id \in ProblemID
    BY DEF Parts, WritesAreGood, GoodWrite, Write
  <1>3. ASSUME ServeAddFailed(w) \/ ServeOther(w) \/ Refuse(w)
        PROVE  RowsAreGood' /\ WritesAreGood'
    <2>1. PICK reply \in {"ok", "refused"}, id \in ProblemID : Answer(w, reply, id)
      BY <1>2, <1>3 DEF ServeAddFailed, ServeOther, Refuse, ProblemID
    <2>2. UNCHANGED db
      BY <1>3 DEF ServeAddFailed, ServeOther, Refuse
    <2> QED
      BY <2>1, <2>2, AnswerKeeps, Unchanged DEF Parts
  <1>4. RowsAreGood' /\ WritesAreGood'
    BY <1>1, <1>3, ModifyStores, AddStores
  <1> QED
    BY <1>4, Unchanged DEF ServeWrite, Parts, pageVars, alertVars

LEMMA ReceiveWriteKeeps == ASSUME Parts, ReceiveWrite PROVE Parts'
  <1>1. PICK w \in writes : ShowAlert(w)
    BY DEF ReceiveWrite
  <1>2. WritesAreGood'
    BY <1>1 DEF ShowAlert, Parts, WritesAreGood
  <1>3. AlertIsTyped'
    BY <1>1 DEF ShowAlert, Parts, AlertIsTyped
  <1> QED
    BY <1>1, <1>2, <1>3, Unchanged DEF ReceiveWrite, ShowAlert, Parts, pageVars, problemVars

LEMMA ReceiveAddKeeps == ASSUME Parts, ReceiveAdd PROVE Parts'
  <1>1. PICK w \in writes :
          /\ IF loc.route = "problem"
               THEN /\ IF loc.id = w.id THEN UNCHANGED pageVars ELSE Reload(AtProblem(w.id))
                    /\ writes' = writes \ {w}
                    /\ UNCHANGED <<alertVars, problemVars, submissionVars>>
               ELSE MountPage(AtProblem(w.id), writes \ {w})
          /\ UNCHANGED visits
    BY DEF ReceiveAdd
  <1>2. w.id \in ProblemID /\ writes \ {w} \in SUBSET GoodWrite
    BY DEF Parts, WritesAreGood, GoodWrite, Write
  <1>3. AtProblem(w.id) \in Location
    BY <1>2, AtIsLocation
  <1>4. CASE loc.route = "problem"
    <2>1. PageIsTyped' /\ LoadsAreGood'
      <3>1. CASE loc.id = w.id
        BY <1>1, <1>4, <3>1, Unchanged DEF pageVars, Parts
      <3>2. CASE loc.id # w.id
        BY <1>1, <1>3, <1>4, <3>2, ReloadKeeps
      <3> QED
        BY <3>1, <3>2
    <2>2. WritesAreGood'
      BY <1>1, <1>2, <1>4 DEF WritesAreGood
    <2> QED
      BY <1>1, <1>4, <2>1, <2>2, Unchanged DEF Parts, problemVars
  <1>5. CASE loc.route # "problem"
    <2>1. visits' \in 0..MaxVisits
      BY <1>1 DEF Parts, CountersAreTyped
    <2> QED
      BY <1>1, <1>2, <1>3, <1>5, <2>1, MountKeeps
  <1> QED
    BY <1>4, <1>5

LEMMA LoseAnswerKeeps == ASSUME Parts, LoseAnswer PROVE Parts'
  <1>1. WritesAreGood'
    BY DEF LoseAnswer, LoseWrite, Parts, WritesAreGood
  <1> QED
    BY <1>1, Unchanged DEF LoseAnswer, LoseWrite, Parts, pageVars, problemVars

LEMMA ClearAlertKeeps == ASSUME Parts, ClearAlert PROVE Parts'
  <1>1. AlertIsTyped'
    BY DEF ClearAlert, Timeout, Parts, AlertIsTyped
  <1> QED
    BY <1>1, Unchanged DEF ClearAlert, Timeout, Parts, pageVars, problemVars

----------------------------------------------------------------------------
(* The pages of submissions.                                                *)

LEMMA SetParamsKeeps ==
  ASSUME Parts, NEW l \in Location, SetParams(l)
  PROVE  Parts'
  <1>1. PageIsTyped' /\ LoadsAreGood'
    BY ReloadKeeps DEF SetParams
  <1> QED
    BY <1>1, Unchanged DEF SetParams, Parts, problemVars

LEMMA ListKeeps == ASSUME Parts, TurnPage \/ ApplyFilter PROVE Parts'
  <1>1. loc \in Location
    BY DEF Parts, PageIsTyped
  <1>2. CASE TurnPage
    <2>1. PICK n \in {loc.page - 1, loc.page + 1} \cap 1..MaxPage :
            SetParams([loc EXCEPT !.page = n])
      BY <1>2 DEF TurnPage
    <2>2. [loc EXCEPT !.page = n] \in Location
      BY <1>1, PagesAssumption DEF Location
    <2> QED
      BY <2>1, <2>2, SetParamsKeeps
  <1>3. CASE ApplyFilter
    <2>1. PICK f \in Filter \cup {NoFilter} : SetParams([loc EXCEPT !.filter = f])
      BY <1>3 DEF ApplyFilter
    <2>2. [loc EXCEPT !.filter = f] \in Location
      BY <1>1 DEF Location
    <2> QED
      BY <2>1, <2>2, SetParamsKeeps
  <1> QED
    BY <1>2, <1>3

\* One panel becomes another one.
LEMMA ReplacePanel ==
  ASSUME PanelsAreGood, NEW p \in DOMAIN panels, NEW q \in Panel(p),
         panels' = [panels EXCEPT ![p] = q], due' \subseteq {"tests", "source"},
         UNCHANGED submission
  PROVE  PanelsAreGood'
  <1>1. DOMAIN panels' = DOMAIN panels
    OBVIOUS
  <1>2. \A r \in DOMAIN panels : panels'[r] = IF r = p THEN q ELSE panels[r]
    OBVIOUS
  <1> QED
    BY <1>1, <1>2 DEF PanelsAreGood

LEMMA PanelStep ==
  ASSUME Parts, UNCHANGED panelUnchanged, PanelsAreGood'
  PROVE  Parts'
  BY Unchanged DEF panelUnchanged, Parts, pageVars, problemVars

LEMMA WatcherIsTyped == \A p : Watcher(p) \in {"tests", "source"}
  BY DEF Watcher

LEMMA TogglePanelKeeps ==
  ASSUME Parts, NEW p \in DOMAIN panels, TogglePanel(p)
  PROVE  Parts'
  <1>1. panels[p] \in Panel(p) /\ due \subseteq {"tests", "source"}
    BY DEF Parts, PanelsAreGood
  <1>2. PICK q : q = [panels[p] EXCEPT !.show = ~@]
    OBVIOUS
  <1>3. q \in Panel(p)
    BY <1>1, <1>2 DEF Panel
  <1>4. panels' = [panels EXCEPT ![p] = q] /\ due' \subseteq {"tests", "source"}
    BY <1>1, <1>2, WatcherIsTyped DEF TogglePanel
  <1>5. PanelsAreGood'
    BY <1>3, <1>4, ReplacePanel DEF TogglePanel, panelUnchanged, Parts
  <1> QED
    BY <1>5, PanelStep DEF TogglePanel

LEMMA BoxKeeps ==
  ASSUME Parts, NEW p \in DOMAIN panels, NEW b \in Boxes(p), ReceiveBox(p, b) \/ LoseBox(p, b)
  PROVE  Parts'
  <1>1. panels[p] \in Panel(p) /\ due \subseteq {"tests", "source"}
    BY DEF Parts, PanelsAreGood
  <1>2. PICK q : q = [panels[p] EXCEPT !.boxes[b] = "done"]
    OBVIOUS
  <1>3. q \in Panel(p)
    BY <1>1, <1>2 DEF Panel
  <1>4. panels' = [panels EXCEPT ![p] = q] /\ due' \subseteq {"tests", "source"}
    BY <1>1, <1>2, WatcherIsTyped DEF ReceiveBox, LoseBox
  <1>5. UNCHANGED panelUnchanged
    BY DEF ReceiveBox, LoseBox
  <1>6. PanelsAreGood'
    BY <1>3, <1>4, <1>5, ReplacePanel DEF panelUnchanged, Parts
  <1> QED
    BY <1>5, <1>6, PanelStep

LEMMA RequestKeeps ==
  ASSUME PanelsAreGood, NEW p \in DOMAIN panels, Request(p), UNCHANGED submission
  PROVE  PanelsAreGood'
  <1>1. panels[p] \in Panel(p) /\ due \subseteq {"tests", "source"}
    BY DEF PanelsAreGood
  <1>2. PICK q : q = [panels[p] EXCEPT !.requested = TRUE,
                                       !.boxes = [b \in Boxes(p) |-> "asked"]]
    OBVIOUS
  <1>3. q \in Panel(p)
    BY <1>1, <1>2 DEF Panel
  <1>4. panels' = [panels EXCEPT ![p] = q] /\ due' \subseteq {"tests", "source"}
    BY <1>1, <1>2, WatcherIsTyped DEF Request
  <1> QED
    BY <1>3, <1>4, ReplacePanel

LEMMA WatchSourceKeeps == ASSUME Parts, WatchSource PROVE Parts'
  <1>1. PanelsAreGood /\ UNCHANGED submission
    BY DEF Parts, WatchSource, panelUnchanged
  <1>2. PanelsAreGood'
    <2>1. CASE Request(Source) /\ Source \in Wanted
      BY <1>1, <2>1, RequestKeeps DEF Wanted
    <2>2. CASE due' = due \ {"source"} /\ UNCHANGED panels
      BY <1>1, <2>2 DEF PanelsAreGood
    <2> QED
      BY <2>1, <2>2 DEF WatchSource
  <1> QED
    BY <1>2, PanelStep DEF WatchSource

LEMMA WatchTestsKeeps == ASSUME Parts, WatchTests PROVE Parts'
  <1>1. PanelsAreGood /\ UNCHANGED submission
    BY DEF Parts, WatchTests, panelUnchanged
  <1>2. PanelsAreGood'
    <2>1. CASE submission.tests >= 0 /\ DOMAIN panels = {Source}
      <3>1. Prepare /\ UNCHANGED due
        BY <2>1 DEF WatchTests
      <3>2. submission.tests \in 0..MaxTests
        <4>1. submission \in SubmissionShown
          BY <1>1 DEF PanelsAreGood
        <4>2. CASE submission \in {NoSubmission, [tests |-> 0, compiled |-> FALSE]}
          BY <2>1, <4>2, SiteAssumption DEF NoSubmission, NoList
        <4>3. CASE submission \in [tests : {NoList} \cup 1..MaxTests, compiled : {TRUE}]
          <5>1. submission.tests \in {NoList} \cup 1..MaxTests
            BY <4>3
          <5> QED
            BY <2>1, <5>1, SiteAssumption DEF NoList
        <4> QED
          BY <4>1, <4>2, <4>3 DEF SubmissionShown
      <3>3. DOMAIN panels' \in {0..n : n \in 0..MaxTests}
        BY <3>1, <3>2 DEF Prepare
      <3>4. \A p \in DOMAIN panels' : panels'[p] \in Panel(p)
        BY <1>1, <2>1, <3>1, PanelsAreTyped DEF Prepare, PanelsAreGood
      <3> QED
        BY <1>1, <3>1, <3>3, <3>4 DEF PanelsAreGood
    <2>2. CASE ~(submission.tests >= 0 /\ DOMAIN panels = {Source})
      <3>1. CASE due' = due \ {"tests"} /\ UNCHANGED panels
        BY <1>1, <3>1 DEF PanelsAreGood
      <3>2. CASE \E p \in Wanted \ {Source} : Request(p)
        BY <1>1, <3>2, RequestKeeps DEF Wanted
      <3> QED
        BY <2>2, <3>1, <3>2 DEF WatchTests
    <2> QED
      BY <2>1, <2>2
  <1> QED
    BY <1>2, PanelStep DEF WatchTests

----------------------------------------------------------------------------

LEMMA Step == Inv /\ [Next]_vars => Inv'
  <1> SUFFICES ASSUME Parts, [Next]_vars PROVE Parts'
    BY InvIsParts, InvIsPartsNext
  <1>1. CASE UNCHANGED vars
    BY <1>1, Unchanged DEF vars, Parts, pageVars, alertVars, problemVars, submissionVars
  <1>2. CASE Next
    BY <1>2, FollowLinkKeeps, ServeLoadKeeps, ReceiveLoadKeeps, LoseLoadKeeps, EditFormKeeps,
       SubmitFormKeeps, SendOtherKeeps, ServeWriteKeeps, ReceiveWriteKeeps, ReceiveAddKeeps,
       LoseAnswerKeeps, ClearAlertKeeps, ListKeeps, TogglePanelKeeps, BoxKeeps,
       WatchSourceKeeps, WatchTestsKeeps
    DEF Next
  <1> QED
    BY <1>1, <1>2

LEMMA AlwaysInv == Spec => []Inv
  BY InitInv, Step, PTL DEF Spec

\* Every variable of the site keeps its type, whatever the admin does and whatever
\* order the answers come in.
THEOREM SiteIsTyped == Spec => []TypeOK
  <1>1. Inv => TypeOK
    BY DEF Inv
  <1> QED
    BY <1>1, AlwaysInv, PTL

\* Neither the form nor the requests nor the stored problems require a name in vain
\* that a problem stored without the form did not, whatever that problem is.
THEOREM NothingMoreIsUnmet == Spec => []OnlyImportedIsUnmet
  <1>1. Inv => OnlyImportedIsUnmet
    BY DEF Inv
  <1> QED
    BY <1>1, AlwaysInv, PTL

\* A problem that modifyProblem last answered as OK is one whose submissions the
\* generators take but for what was imported, for any number of groups, tests and
\* edits.
THEOREM SavedStaysTestable == Spec => []SavedIsTestable
  <1>1. Inv => SavedIsTestable
    BY DEF Inv
  <1> QED
    BY <1>1, AlwaysInv, PTL

\* Where all problems are made by the form, and thus require nothing in vain at the
\* start either, a problem last answered as OK is one the generators take as it is.
THEOREM WithoutImportsSavedIsTestable ==
  ASSUME \A p \in FirstProblems : Unmet(p) = {}
  PROVE  Spec => [](\A i \in DOMAIN db : db[i].checked => GeneratorAccepts(db[i].problem))
  <1>1. Imported = {}
    BY DEF Imported
  <1>2. Inv => (\A i \in DOMAIN db : db[i].checked => GeneratorAccepts(db[i].problem))
    BY <1>1, NothingToRelieve DEF Inv, TypeOK, SavedIsTestable
  <1> QED
    BY <1>2, AlwaysInv, PTL

----------------------------------------------------------------------------
(* The page and the data on it.                                             *)

\* Unless a load was lost or overtaken, the one sent last is of the location shown;
\* when there is none left, so is the data.
ViewInv ==
  ~ disturbed =>
    IF fetches = <<>> THEN view.state # "loading" /\ view.of = loc
    ELSE fetches[Len(fetches)].of = loc

LEMMA ViewIsKept ==
  ASSUME ViewInv, UNCHANGED pageVars
  PROVE  ViewInv'
  BY DEF ViewInv, pageVars

LEMMA MountedView ==
  ASSUME NEW l, NEW ws, Mount(l, ws)
  PROVE  ViewInv'
  <1>1. PICK m : m = WithPage(l)
    OBVIOUS
  <1>2. loc' = m /\ fetches' = Load(m) /\ view' = NoView(m)
    BY <1>1 DEF Mount
  <1>3. CASE m.route \in Loading
    <2>1. PICK f : f = NewFetch(m)
      OBVIOUS
    <2>2. f.of = m
      BY <2>1 DEF NewFetch
    <2>3. fetches' = <<f>>
      BY <1>2, <1>3, <2>1 DEF Load
    <2> QED
      BY <1>2, <2>2, <2>3 DEF ViewInv
  <1>4. CASE m.route \notin Loading
    BY <1>2, <1>4 DEF ViewInv, Load, NoView
  <1> QED
    BY <1>3, <1>4

LEMMA ReloadedView ==
  ASSUME fetches \in Seq(Fetch), NEW l, Reload(l)
  PROVE  ViewInv'
  <1>1. PICK f : f = NewFetch(l)
    OBVIOUS
  <1>2. f.of = l /\ loc' = l /\ fetches' = Append(fetches, f)
    BY <1>1 DEF NewFetch, Reload
  <1>3. PICK len \in Nat : len = Len(fetches)
    OBVIOUS
  <1>4. Len(fetches') = len + 1 /\ fetches'[len + 1] = f /\ fetches' # <<>>
    BY <1>2, <1>3
  <1> QED
    BY <1>2, <1>4 DEF ViewInv

\* The first load is answered: it was the last one, or the last one stays.
LEMMA ShownView ==
  ASSUME fetches \in Seq(Fetch), ViewInv, NEW k \in DOMAIN fetches, Show(k),
         fetches[k].reply # "none"
  PROVE  ViewInv'
  <1> SUFFICES ASSUME ~ disturbed' PROVE ViewInv'
    BY DEF ViewInv
  <1>1. PICK len \in Nat : len = Len(fetches)
    OBVIOUS
  <1>2. DOMAIN fetches = 1..len
    BY <1>1
  <1>3. ~ disturbed /\ k = 1
    <2>1. ~ (disturbed \/ k > 1)
      BY DEF Show
    <2>2. ~ (k > 1)
      BY <2>1
    <2> QED
      BY <1>2, <2>1, <2>2
  <1>4. fetches[len].of = loc /\ loc' = loc
    BY <1>1, <1>2, <1>3 DEF ViewInv, Show
  <1>5. fetches' = [j \in 1..(len - 1) |-> fetches[j + 1]]
    <2>1. fetches' = [j \in 1..(len - 1) |-> fetches[IF j < 1 THEN j ELSE j + 1]]
      BY <1>1, <1>3 DEF Show, WithoutFetch
    <2> QED
      BY <2>1
  <1>6. CASE len = 1
    <2>1. fetches' = <<>>
      BY <1>5, <1>6
    <2>2. view'.of = fetches[1].of /\ view'.state # "loading"
      BY <1>3 DEF Show
    <2> QED
      BY <1>4, <1>6, <2>1, <2>2 DEF ViewInv
  <1>7. CASE len # 1
    <2>1. len - 1 \in Nat /\ len - 1 \in 1..(len - 1)
      BY <1>2, <1>7
    <2>2. \A j \in 1..(len - 1) : fetches[j + 1] \in Fetch
      BY <1>1
    <2>3. fetches' \in Seq(Fetch) /\ Len(fetches') = len - 1
      BY <1>5, <2>1, <2>2, FunctionIsSeq
    <2>4. fetches'[len - 1] = fetches[len]
      BY <1>5, <2>1
    <2>5. fetches' # <<>>
      BY <2>1, <2>3
    <2> QED
      BY <1>4, <2>3, <2>4, <2>5 DEF ViewInv
  <1> QED
    BY <1>6, <1>7

LEMMA ServedView ==
  ASSUME fetches \in Seq(Fetch), ViewInv, NEW k \in DOMAIN fetches, ServeLoad(k)
  PROVE  ViewInv'
  <1>1. PICK len \in Nat : len = Len(fetches) /\ DOMAIN fetches = 1..len
    OBVIOUS
  <1>2. \E f : fetches' = [fetches EXCEPT ![k] = f] /\ f.of = fetches[k].of
    <2>1. fetches[k] \in Fetch
      OBVIOUS
    <2>2. CASE fetches' = [fetches EXCEPT ![k].reply = "refused"]
      <3>1. PICK f : f = [fetches[k] EXCEPT !.reply = "refused"]
        OBVIOUS
      <3>2. f.of = fetches[k].of
        BY <2>1, <3>1 DEF Fetch
      <3> QED
        BY <2>2, <3>1, <3>2
    <2>3. CASE fetches' # [fetches EXCEPT ![k].reply = "refused"]
      <3>1. PICK ids, p : fetches' = [fetches EXCEPT ![k] =
                            [@ EXCEPT !.reply = "found", !.ids = ids, !.problem = p]]
        BY <2>3 DEF ServeLoad
      <3>2. PICK f : f = [fetches[k] EXCEPT !.reply = "found", !.ids = ids, !.problem = p]
        OBVIOUS
      <3>3. f.of = fetches[k].of
        BY <2>1, <3>2 DEF Fetch
      <3> QED
        BY <3>1, <3>2, <3>3
    <2> QED
      BY <2>2, <2>3
  <1>3. /\ Len(fetches') = len
        /\ \A j \in 1..len : fetches'[j].of = fetches[j].of
    BY <1>1, <1>2
  <1>4. len > 0 /\ fetches # <<>> /\ fetches' # <<>>
    BY <1>1, <1>3
  <1> QED
    BY <1>1, <1>3, <1>4 DEF ViewInv, ServeLoad

LEMMA ViewStep == Inv /\ ViewInv /\ [Next]_vars => ViewInv'
  <1> SUFFICES ASSUME Inv, ViewInv, [Next]_vars PROVE ViewInv'
    OBVIOUS
  <1>1. fetches \in Seq(Fetch)
    BY DEF Inv, TypeOK, PageTypeOK
  <1>2. CASE UNCHANGED pageVars
    BY <1>2, ViewIsKept
  <1>3. CASE FollowLink
    BY <1>3, MountedView DEF FollowLink, MountPage
  <1>4. ASSUME NEW k \in DOMAIN fetches, ServeLoad(k) \/ ReceiveLoad(k) \/ LoseLoad(k)
        PROVE  ViewInv'
    <2>1. CASE LoseLoad(k)
      BY <2>1 DEF LoseLoad, LoseFetch, ViewInv
    <2> QED
      BY <1>1, <1>4, <2>1, ServedView, ShownView DEF ReceiveLoad
  <1>5. CASE ReceiveAdd
    <2>1. CASE UNCHANGED pageVars
      BY <2>1, ViewIsKept
    <2>2. CASE \E w \in writes : Reload(AtProblem(w.id))
      BY <1>1, <2>2, ReloadedView
    <2>3. CASE \E w \in writes : Mount(AtProblem(w.id), writes \ {w})
      BY <2>3, MountedView
    <2> QED
      BY <1>5, <2>1, <2>2, <2>3 DEF ReceiveAdd, MountPage
  <1>6. CASE TurnPage \/ ApplyFilter
    <2>1. \E l : Reload(l)
      BY <1>6 DEF TurnPage, ApplyFilter, SetParams
    <2> QED
      BY <1>1, <2>1, ReloadedView
  <1>7. CASE EditForm \/ SubmitForm \/ SendOther \/ ServeWrite \/ ReceiveWrite \/ LoseAnswer
               \/ ClearAlert
    <2>1. UNCHANGED pageVars
      BY <1>7 DEF EditForm, SubmitForm, SendOther, Send, ServeWrite, ReceiveWrite, ShowAlert,
                  LoseAnswer, LoseWrite, ClearAlert, Timeout
    <2> QED
      BY <2>1, ViewIsKept
  <1>8. ASSUME NEW p \in DOMAIN panels,
               TogglePanel(p) \/ (\E b \in Boxes(p) : ReceiveBox(p, b) \/ LoseBox(p, b))
        PROVE  ViewInv'
    <2>1. UNCHANGED pageVars
      BY <1>8 DEF TogglePanel, ReceiveBox, LoseBox, panelUnchanged
    <2> QED
      BY <2>1, ViewIsKept
  <1>9. CASE WatchSource \/ WatchTests
    <2>1. UNCHANGED pageVars
      BY <1>9 DEF WatchSource, WatchTests, panelUnchanged
    <2> QED
      BY <2>1, ViewIsKept
  <1> QED
    BY <1>2, <1>3, <1>4, <1>5, <1>6, <1>7, <1>8, <1>9 DEF Next, vars

\* A page that all loads of came back to, in order, shows the data of its own
\* location (Problem.jsx saves to the id in the location what it shows of the answer),
\* for any number of links, pages and loads in flight.
THEOREM ViewStaysOfLocation == Spec => []ViewIsOfLocation
  <1>1. Init => ViewInv
    <2> SUFFICES ASSUME Init PROVE ViewInv
      OBVIOUS
    <2>1. PICK m : loc = m /\ fetches = Load(m) /\ view = NoView(m)
      BY DEF Init, PageInit
    <2>2. CASE m.route \in Loading
      <3>1. PICK f : f = NewFetch(m)
        OBVIOUS
      <3>2. f.of = m /\ fetches = <<f>>
        BY <2>1, <2>2, <3>1 DEF NewFetch, Load
      <3> QED
        BY <2>1, <3>2 DEF ViewInv
    <2>3. CASE m.route \notin Loading
      BY <2>1, <2>3 DEF ViewInv, Load, NoView
    <2> QED
      BY <2>2, <2>3
  <1>2. ViewInv => ViewIsOfLocation
    BY DEF ViewInv, ViewIsOfLocation
  <1> QED
    BY <1>1, <1>2, ViewStep, AlwaysInv, PTL DEF Spec
=============================================================================
