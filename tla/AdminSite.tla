------------------------------ MODULE AdminSite ------------------------------
(* The admin site: the pages of problems (Problems.jsx, Problem.jsx,
   NewProblem.jsx) against the database of problems, the list of submissions
   (Submissions.jsx and its filters), a submission with the data of its tests
   and of its compilation (Submission.jsx, TestData.jsx, CompilationData.jsx),
   a new submission and the status of the master.                            *)
EXTENDS AdminPages

CONSTANTS MaxEdits,     \* bound of the edits of forms
          MaxTests,     \* bound of the test results of a submission
          TestBox,      \* the resources shown for a test
          SourceBox     \* the resources shown for the compilation

ASSUME SiteAssumption == MaxEdits \in Nat /\ MaxTests \in Nat

NoList == -1            \* a submission without test_results
Source == 0             \* the panel of the compilation

VARIABLES
  db,           \* the problems: id -> [problem, checked]; checked: the last
                \* write of it was answered as OK
  form,         \* the problem in the form of the page
  edits,        \* edits so far
  submission,   \* what the submission shown has: [tests, compiled]
  panels,       \* what is shown of its compilation and of its tests
  due           \* panels whose effect is to be run: "source", "tests"

problemVars == <<db, form, edits>>
submissionVars == <<submission, panels, due>>
vars == <<pageVars, alertVars, writes, visits, problemVars, submissionVars>>

Boxes(p) == IF p = Source THEN SourceBox ELSE TestBox

\* show, requested, and which boxes were asked for and are done: with data or an
\* error to show, or empty because the answer was lost.
Panel(p) == [show : BOOLEAN, requested : BOOLEAN,
             boxes : [Boxes(p) -> {"none", "asked", "done"}]]

NoSubmission == [tests |-> NoList, compiled |-> FALSE]

\* A submission at any stage of its testing: nothing, an empty list (RU and
\* unknown to the API's cache), or its compilation and maybe tests.
SubmissionShown ==
  {NoSubmission, [tests |-> 0, compiled |-> FALSE]}
    \cup [tests : {NoList} \cup 1..MaxTests, compiled : {TRUE}]

NewPanel(p) == [show |-> FALSE, requested |-> FALSE,
                boxes |-> [b \in Boxes(p) |-> "none"]]
Panels(n) == [p \in 0..n |-> NewPanel(p)]

TypeOK ==
  /\ PageTypeOK
  /\ DOMAIN db \subseteq ProblemID
  /\ \A i \in DOMAIN db : db[i] \in [problem : Problem, checked : BOOLEAN]
  /\ form \in Problem
  /\ edits \in 0..MaxEdits
  /\ submission \in SubmissionShown
  /\ DOMAIN panels \in {0..n : n \in 0..MaxTests}
  /\ \A p \in DOMAIN panels : panels[p] \in Panel(p)
  /\ due \subseteq {"tests", "source"}

Init ==
  /\ PageInit
  /\ \E p \in FirstProblems : db = [i \in {1} |-> [problem |-> p, checked |-> FALSE]]
  /\ form = InitialProblem
  /\ edits = 0
  /\ submission = NoSubmission
  /\ panels = Panels(0)
  /\ due = {}

----------------------------------------------------------------------------
(* Navigation and loads.                                                    *)

MountPage(l, ws) ==
  /\ Mount(l, ws)
  /\ form' = InitialProblem
  /\ submission' = NoSubmission
  /\ panels' = Panels(0)
  /\ due' = {}
  /\ UNCHANGED <<db, edits>>

FollowLink ==
  /\ visits < MaxVisits
  /\ \E l \in Links : MountPage(l, writes)
  /\ visits' = visits + 1

\* The server answers load k.  A query it can not parse is answered twice in one
\* body, of which the page reads no error: it shows an empty list.
ServeLoad(k) ==
  LET l == fetches[k].of
  IN  /\ fetches[k].reply = "none"
      /\ \/ /\ l.route = "problem" => l.id \in DOMAIN db
            /\ fetches' = [fetches EXCEPT ![k] =
                 [@ EXCEPT !.reply = "found",
                           !.ids = IF l.route = "status" \/ l.filter = Malformed
                                     THEN {} ELSE DOMAIN db,
                           !.problem = IF l.route = "problem"
                                         THEN db[l.id].problem ELSE fetches[k].problem]]
         \/ fetches' = [fetches EXCEPT ![k].reply = "refused"]
      /\ UNCHANGED <<loc, view, disturbed, alertVars, writes, visits,
                     problemVars, submissionVars>>

\* The answer of load k arrives; a problem goes to the form, a submission is
\* shown and its tests are to be prepared.
ReceiveLoad(k) ==
  LET found == fetches[k].reply = "found"
  IN  /\ fetches[k].reply # "none"
      /\ Show(k)
      /\ form' = IF loc.route = "problem" /\ found THEN fetches[k].problem ELSE form
      /\ IF loc.route = "submission" /\ found
           THEN submission' \in SubmissionShown /\ due' = due \cup {"tests"}
           ELSE UNCHANGED <<submission, due>>
      /\ UNCHANGED <<alertVars, writes, visits, db, edits, panels>>

LoseLoad(k) == LoseFetch(k) /\ UNCHANGED <<problemVars, submissionVars>>

----------------------------------------------------------------------------
(* The pages of problems.                                                   *)

FormIsShown ==
  loc.route = "newProblem" \/ (loc.route = "problem" /\ view.state = "ready")

EditForm ==
  /\ FormIsShown /\ edits < MaxEdits
  /\ form' \in Edits(form) \ {form}
  /\ edits' = edits + 1
  /\ UNCHANGED <<pageVars, alertVars, writes, visits, db, submissionVars>>

\* modifyProblem and newProblem of the pages.  Bound: one creation at a time
\* and in all, its id is 2.
SubmitForm ==
  /\ FormIsShown /\ IsFilledIn(form)
  /\ IF loc.route = "problem"
       THEN Send("modify", loc.id, form)
       ELSE 2 \notin DOMAIN db /\ ~(\E w \in writes : w.kind = "add") /\ Send("add", 0, form)
  /\ UNCHANGED <<problemVars, submissionVars>>

\* newSubmission and resetInvokerCache, which the pages wait for in the same way.
SendOther ==
  /\ loc.route = "newSubmission" \/ (loc.route = "status" /\ view.state = "ready")
  /\ Send("other", 0, InitialProblem)
  /\ UNCHANGED <<problemVars, submissionVars>>

\* modifyProblem of the server.
ServeModify(w) ==
  /\ w.kind = "modify" /\ w.id \in DOMAIN db
  /\ LET p == Stored(w.problem)
     IN  /\ IsOK(p)
         /\ db' = [db EXCEPT ![w.id] = [problem |-> p, checked |-> ~Complains(p)]]
         /\ Answer(w, IF Complains(p) THEN "refused" ELSE "ok", w.id)

\* addProblem of the server: the problem is not looked at.
ServeAdd(w) ==
  /\ w.kind = "add"
  /\ db' = [i \in DOMAIN db \cup {2} |->
              IF i = 2 THEN [problem |-> Stored(w.problem), checked |-> FALSE] ELSE db[i]]
  /\ Answer(w, "ok", 2)

\* addProblem ignores the error of Create and answers with a problem without id.
ServeAddFailed(w) == w.kind = "add" /\ Answer(w, "ok", 0) /\ UNCHANGED db

ServeOther(w) == w.kind = "other" /\ Answer(w, "ok", w.id) /\ UNCHANGED db

\* Any write may be refused: what was typed can not be read, a check or the
\* database fails.
Refuse(w) == Answer(w, "refused", w.id) /\ UNCHANGED db

ServeWrite ==
  /\ \E w \in writes :
       /\ w.reply = "none"
       /\ ServeModify(w) \/ ServeAdd(w) \/ ServeAddFailed(w) \/ ServeOther(w) \/ Refuse(w)
  /\ UNCHANGED <<pageVars, alertVars, visits, form, edits, submissionVars>>

ReceiveWrite == (\E w \in writes : ShowAlert(w)) /\ UNCHANGED <<problemVars, submissionVars>>

\* The answer to an add: navigate, from whatever page is shown by now.
ReceiveAdd ==
  \E w \in writes :
    /\ w.kind = "add" /\ w.reply = "ok"
    /\ IF loc.route = "problem"
         THEN /\ IF loc.id = w.id THEN UNCHANGED pageVars ELSE Reload(AtProblem(w.id))
              /\ writes' = writes \ {w}
              /\ UNCHANGED <<alertVars, problemVars, submissionVars>>
         ELSE MountPage(AtProblem(w.id), writes \ {w})
    /\ UNCHANGED visits

LoseAnswer == (\E w \in writes : LoseWrite(w)) /\ UNCHANGED <<problemVars, submissionVars>>

ClearAlert == Timeout /\ UNCHANGED <<problemVars, submissionVars>>

----------------------------------------------------------------------------
(* The list of submissions.                                                 *)

ListIsShown == loc.route = "submissions" /\ view.state = "ready"

\* (Mistake: the effect depends on the page of the list only.)
SetParamsOfPage(l) ==
  /\ l # loc
  /\ Len(fetches) < MaxFetches
  /\ IF l.page # loc.page THEN Reload(l)
                          ELSE loc' = l /\ UNCHANGED <<view, fetches, disturbed>>
  /\ UNCHANGED <<alertVars, writes, visits, problemVars, submissionVars>>

\* setParams: the effect loads the list.
SetParams(l) ==
  /\ l # loc
  /\ Len(fetches) < MaxFetches
  /\ Reload(l)
  /\ UNCHANGED <<alertVars, writes, visits, problemVars, submissionVars>>

\* Pagination
TurnPage ==
  /\ ListIsShown
  /\ \E n \in {loc.page - 1, loc.page + 1} \cap 1..MaxPage :
       SetParams([loc EXCEPT !.page = n])

\* FiltersForm: what is typed is a copy of the query, so the page is kept; text
\* that was not sent is lost with the next change of the query (setFilterParams).
ApplyFilter ==
  /\ ListIsShown
  /\ \E f \in (Filter \cup {NoFilter}) \ {Malformed} : SetParams([loc EXCEPT !.filter = f])

----------------------------------------------------------------------------
(* A submission: TestDataReducer and CompilationDataReducer, and the effects
   that watch what they made.                                               *)

panelUnchanged == <<pageVars, alertVars, writes, visits, problemVars, submission>>

Watcher(p) == IF p = Source THEN "source" ELSE "tests"

\* toggleTest, toggleShow.  (A test that is clicked in the moment between its
\* row and the effect that prepares it is an error in the reducer.)
TogglePanel(p) ==
  /\ loc.route = "submission" /\ view.state = "ready"
  /\ p = Source => submission.compiled
  /\ panels' = [panels EXCEPT ![p].show = ~@]
  /\ due' = due \cup {Watcher(p)}
  /\ UNCHANGED panelUnchanged

Wanted == {p \in DOMAIN panels : panels[p].show /\ ~panels[p].requested}

\* Every box of panel p is asked for, and p is marked, which is a change to watch.
Request(p) ==
  /\ panels' = [panels EXCEPT ![p] =
       [@ EXCEPT !.requested = TRUE, !.boxes = [b \in Boxes(p) |-> "asked"]]]
  /\ due' = due \cup {Watcher(p)}

\* The action "submission": a panel for each test.
Prepare ==
  panels' = [p \in 0..submission.tests |->
               IF p = Source THEN panels[p] ELSE NewPanel(p)]

\* WatchCompilationData
WatchSource ==
  /\ "source" \in due
  /\ IF submission.compiled /\ Source \in Wanted
       THEN Request(Source)
       ELSE due' = due \ {"source"} /\ UNCHANGED panels
  /\ UNCHANGED panelUnchanged

\* (Mistake: the effect gives up at the first test shown.)
WatchFirstTest ==
  LET shown == {p \in DOMAIN panels \ {Source} : panels[p].show}
  IN  /\ "tests" \in due
      /\ IF submission.tests >= 0 /\ DOMAIN panels = {Source}
           THEN Prepare /\ UNCHANGED due
           ELSE IF \E p \in shown \cap Wanted : \A q \in shown : p <= q
             THEN \E p \in shown \cap Wanted : (\A q \in shown : p <= q) /\ Request(p)
             ELSE due' = due \ {"tests"} /\ UNCHANGED panels
      /\ UNCHANGED panelUnchanged

\* WatchTestData: the tests are prepared (over and over if there are none), or the
\* first test that is shown and was not asked for is.
WatchTests ==
  LET wanted == Wanted \ {Source}
  IN  /\ "tests" \in due
      /\ IF submission.tests >= 0 /\ DOMAIN panels = {Source}
           THEN Prepare /\ UNCHANGED due
           ELSE IF wanted = {}
             THEN due' = due \ {"tests"} /\ UNCHANGED panels
             ELSE \E p \in wanted : (\A q \in wanted : p <= q) /\ Request(p)
      /\ UNCHANGED panelUnchanged

ReceiveBox(p, b) ==
  /\ panels[p].boxes[b] = "asked"
  /\ panels' = [panels EXCEPT ![p].boxes[b] = "done"]
  /\ due' = due \cup {Watcher(p)}
  /\ UNCHANGED panelUnchanged

\* As with loads, catch throws when there is no answer: nothing is dispatched.
LoseBox(p, b) ==
  /\ panels[p].boxes[b] = "asked"
  /\ panels' = [panels EXCEPT ![p].boxes[b] = "done"]
  /\ UNCHANGED <<due, panelUnchanged>>

----------------------------------------------------------------------------

Next ==
  \/ FollowLink
  \/ \E k \in DOMAIN fetches : ServeLoad(k) \/ ReceiveLoad(k) \/ LoseLoad(k)
  \/ EditForm \/ SubmitForm \/ SendOther
  \/ ServeWrite \/ ReceiveWrite \/ ReceiveAdd \/ LoseAnswer \/ ClearAlert
  \/ TurnPage \/ ApplyFilter
  \/ \E p \in DOMAIN panels :
       \/ TogglePanel(p)
       \/ \E b \in Boxes(p) : ReceiveBox(p, b) \/ LoseBox(p, b)
  \/ WatchSource \/ WatchTests

\* An effect that is due is run, and the request for a text of a panel is answered or
\* lost in the end.  Nobody need follow a link or click, and no other request is waited for.
Fairness ==
  /\ WF_vars(WatchSource) /\ WF_vars(WatchTests)
  /\ \A p \in 0..MaxTests : \A b \in Boxes(p) :
       WF_vars(p \in DOMAIN panels /\ (ReceiveBox(p, b) \/ LoseBox(p, b)))

Spec == Init /\ [][Next]_vars /\ Fairness

----------------------------------------------------------------------------
(* Properties.                                                              *)

\* The names that a problem stored without the form requires in vain; none if the
\* form made the first problem.
Imported == UNION {Unmet(p) : p \in FirstProblems}

\* No name becomes required in vain, in the form, in what is sent or in what is
\* stored, whatever is renamed, moved up by a removal or scored otherwise
\* (removeRequired and renderRequiredGroups of ProblemForm.jsx), and from whatever
\* the polygon importer stored: the server does not check the scoring.
OnlyImportedIsUnmet ==
  /\ Unmet(form) \subseteq Imported
  /\ \A w \in writes : Unmet(w.problem) \subseteq Imported
  /\ \A i \in DOMAIN db : Unmet(db[i].problem) \subseteq Imported

\* Problem p, were its groups not to require what was imported and is not met.
Relieved(p) ==
  [p EXCEPT !.groups =
    [i \in DOMAIN p.groups |->
      [p.groups[i] EXCEPT !.required = @ \ (Unmet(p) \cap Imported)]]]

\* A problem whose last change was answered as OK is one whose submissions can be
\* tested but for imported requirements: beside them checkProblemIsOK and the form
\* leave nothing that the generator refuses.  (An imported requirement of a group
\* that is not scored as a whole is answered as OK, and refused by the generator.)
SavedIsTestable ==
  \A i \in DOMAIN db : db[i].checked => GeneratorAccepts(Relieved(db[i].problem))

\* When all loads of a page were answered, in order, the data shown is that of the
\* location shown: of the problem that Save will write to, of the query of the list.
ViewIsOfLocation ==
  (fetches = <<>> /\ ~disturbed) => (view.state # "loading" /\ view.of = loc)

\* Whatever order tests are shown and hidden in, each that stays shown gets its data.
ShownPanelsAreFilled ==
  \A p \in 0..MaxTests :
    (p \in DOMAIN panels /\ panels[p].show)
      ~> (p \notin DOMAIN panels \/ ~panels[p].show
            \/ \A b \in Boxes(p) : panels[p].boxes[b] = "done")
=============================================================================
