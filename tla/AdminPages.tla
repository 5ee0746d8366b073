---------------------------- MODULE AdminPages ----------------------------
(* What the pages of clients/frontend/admin share: the router (Admin.jsx, the
   links), the request that loads the data of a page, and the alert about a
   write (ChangeAlert.jsx).  One admin, one browser tab.

   A component stays mounted while the route stays the same; when it is
   unmounted its state is gone, and the answers and timers it waited for do
   nothing.  React and React Router (external) render a new location and run its
   effects before the next event: events seen by the old page in between are
   taken as events before the navigation.                                     *)
EXTENDS ProblemAPI, FiniteSets

CONSTANTS FirstProblems, \* what the problem stored at the start, its id is 1, may be:
                         \* made by the form, or stored by a tool
          Filter,        \* queries of the submissions, beside all of them
          NoFilter,
          Malformed,     \* the one of them that the server can not parse
          MaxPage,       \* bound of the pages of the submissions
          MaxVisits,     \* bound of the links followed
          MaxFetches,    \* bound of the loads of one component in flight
          MaxWrites,     \* bound of the writes in flight and the timers set
          Start          \* locations the site is opened at

\* Id 0 is that of a problem that was not stored, 2 that of a created one.
ProblemID == 0..2

Route == {"home", "problems", "problem", "newProblem",
          "submissions", "submission", "newSubmission", "status"}

\* A location: the id of a problem; the page (0: none) and the filter of a list.
Location == [route : Route, id : ProblemID, page : 0..MaxPage,
             filter : Filter \cup {NoFilter}]

At(route) == [route |-> route, id |-> 0, page |-> 0, filter |-> NoFilter]
AtProblem(id) == [At("problem") EXCEPT !.id = id]

ASSUME PagesAssumption ==
  /\ NoFilter \notin Filter /\ Malformed \in Filter
  /\ MaxPage \in Nat \ {0} /\ MaxVisits \in Nat
  /\ Start \subseteq Location
  /\ FirstProblems \subseteq Problem

\* The routes with a useEffect that loads data.
Loading == {"problems", "problem", "submissions", "submission", "status"}

VARIABLES
  loc,        \* the location shown
  view,       \* what the data shown is: [state, of, ids], of a location;
              \* ids are those of the problems named in it
  fetches,    \* loads of the mounted component in flight, in the order sent
  disturbed,  \* one of its loads was lost or answered after a later one
  alert,      \* "none", "ok" or "error"
  timers,     \* pending timeouts, each of which clears the alert
  writes,     \* requests that write, in flight
  visits      \* links followed so far

pageVars == <<loc, view, fetches, disturbed>>
alertVars == <<alert, timers>>

\* ids and problem are the data of an answer.
Fetch == [of : Location, reply : {"none", "found", "refused"},
          ids : SUBSET ProblemID, problem : Problem]

\* id is the problem written or, in the answer to an add, the one created.
\* awaited: the component that sent it is still mounted.
Write == [kind : {"modify", "add", "other"}, id : ProblemID, problem : Problem,
          reply : {"none", "ok", "refused"}, awaited : BOOLEAN]

PageTypeOK ==
  /\ loc \in Location
  /\ view \in [state : {"loading", "ready", "error"}, of : Location,
               ids : SUBSET ProblemID]
  /\ fetches \in Seq(Fetch)
  /\ disturbed \in BOOLEAN
  /\ alert \in {"none", "ok", "error"}
  /\ timers \in Nat
  /\ writes \in SUBSET Write
  /\ visits \in 0..MaxVisits

----------------------------------------------------------------------------
(* The router.                                                              *)

\* The effect of a list without a page sets page 1.
WithPage(l) ==
  IF l.route \in {"problems", "submissions"} /\ l.page = 0 THEN [l EXCEPT !.page = 1] ELSE l

NewFetch(l) == [of |-> l, reply |-> "none", ids |-> {}, problem |-> InitialProblem]

Load(l) == IF l.route \in Loading THEN <<NewFetch(l)>> ELSE <<>>

NoView(l) == [state |-> IF l.route \in Loading THEN "loading" ELSE "ready",
              of |-> l, ids |-> {}]

\* Nobody waits for the writes of a component that is unmounted.  What is left of
\* them is that they may still change a problem; the answer to an add navigates.
Unawaited(ws) ==
  {[w EXCEPT !.awaited = FALSE] :
     w \in {v \in ws : v.kind = "add" \/ (v.kind = "modify" /\ v.reply = "none")}}

PageInit ==
  /\ \E l \in Start :
       /\ loc = WithPage(l)
       /\ fetches = Load(WithPage(l))
       /\ view = NoView(WithPage(l))
  /\ disturbed = FALSE
  /\ alert = "none" /\ timers = 0
  /\ writes = {}
  /\ visits = 0

\* The component of another route is mounted; ws are the writes in flight.
Mount(l, ws) ==
  /\ loc' = WithPage(l)
  /\ fetches' = Load(WithPage(l))
  /\ view' = NoView(WithPage(l))
  /\ disturbed' = FALSE
  /\ alert' = "none" /\ timers' = 0
  /\ writes' = Unawaited(ws)

\* The dependencies of the effect change, the component stays.
Reload(l) ==
  /\ loc' = l
  /\ fetches' = Append(fetches, NewFetch(l))
  /\ UNCHANGED <<view, disturbed>>

Crumbs ==
  (IF loc.route = "home" THEN {} ELSE {At("home")})
    \cup (IF loc.route \in {"problem", "newProblem"} THEN {At("problems")} ELSE {})
    \cup (IF loc.route \in {"submission", "newSubmission"} THEN {At("submissions")} ELSE {})

Submissions(filters) == {[At("submissions") EXCEPT !.filter = f] : f \in filters}

\* Links that do not wait for data.  Before the first load of a problem its id
\* is undefined, and so is the query of the link to its submissions.
FixedLinks ==
  CASE loc.route = "home" -> {At("problems"), At("submissions"), At("status")}
    [] loc.route = "problems" -> {At("newProblem")}
    [] loc.route = "problem" ->
         {At("newSubmission")}
           \cup Submissions((IF view.state # "loading" THEN Filter \ {Malformed} ELSE {})
                             \cup (IF view.state # "ready" THEN {Malformed} ELSE {}))
    [] loc.route = "submissions" -> {At("newSubmission")}
    [] OTHER -> {}

DataLinks ==
  CASE loc.route \in {"problems", "submission"} -> {AtProblem(i) : i \in view.ids}
    [] loc.route = "submissions" ->
         {AtProblem(i) : i \in view.ids}
           \cup (IF view.ids = {} THEN {} ELSE {At("submission")})
    [] loc.route = "status" -> Submissions(Filter \ {Malformed})
    [] OTHER -> {}

\* The links of the page shown; all of them lead to another route.
Links == Crumbs \cup FixedLinks \cup (IF view.state = "ready" THEN DataLinks ELSE {})

----------------------------------------------------------------------------
(* Loads: useEffect(() => axios.get(...).then(...).catch(...)).             *)

WithoutFetch(k) ==
  [j \in 1..(Len(fetches) - 1) |-> fetches[IF j < k THEN j ELSE j + 1]]

\* then or catch of load k: what is shown is its answer.
Show(k) ==
  /\ fetches' = WithoutFetch(k)
  /\ disturbed' = (disturbed \/ k > 1)
  /\ view' = [state |-> IF fetches[k].reply = "found" THEN "ready" ELSE "error",
              of |-> fetches[k].of, ids |-> fetches[k].ids]
  /\ UNCHANGED loc

\* No answer: catch reads err.response.data of an error without a response, and
\* throws.  The page stays as it is.
LoseFetch(k) ==
  /\ fetches' = WithoutFetch(k)
  /\ disturbed' = TRUE
  /\ UNCHANGED <<loc, view, alertVars, writes, visits>>

----------------------------------------------------------------------------
(* SendAlertRequest.                                                        *)

\* Bound: no two equal writes are in flight at once.
Send(kind, id, problem) ==
  LET w == [kind |-> kind, id |-> id, problem |-> problem,
            reply |-> "none", awaited |-> TRUE]
  IN  /\ Cardinality(writes) + timers < MaxWrites
      /\ \A v \in writes : <<v.kind, v.id, v.problem>> # <<kind, id, problem>>
      /\ writes' = writes \cup {w}
      /\ UNCHANGED <<pageVars, alertVars, visits>>

\* The server answers w; an answer nobody waits for is dropped.
Answer(w, reply, id) ==
  writes' = (writes \ {w}) \cup
    (IF w.awaited \/ w.kind = "add"
       THEN {[w EXCEPT !.reply = reply, !.id = id]} ELSE {})

\* The alert of an answer, and the timeout that will clear it.
ShowAlert(w) ==
  /\ w \in writes /\ w.awaited /\ w.reply # "none"
  /\ ~(w.kind = "add" /\ w.reply = "ok")
  /\ writes' = writes \ {w}
  /\ alert' = IF w.reply = "ok" THEN "ok" ELSE "error"
  /\ timers' = timers + 1
  /\ UNCHANGED <<pageVars, visits>>

\* No answer: as with loads, catch throws; no alert and no timeout.
LoseWrite(w) ==
  /\ w \in writes
  /\ writes' = writes \ {w}
  /\ UNCHANGED <<pageVars, alertVars, visits>>

\* clearAlert
Timeout ==
  /\ timers > 0
  /\ timers' = timers - 1
  /\ alert' = "none"
  /\ UNCHANGED <<pageVars, writes, visits>>
=============================================================================
