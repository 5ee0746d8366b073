# Verification of testing-system

A testing system runs the solutions that contestants submit.  One **master**
process cuts every submission into jobs (compile it, run it on test k), several
**invoker** processes run the jobs in sandboxes, a **storage** process keeps the
files, and clients submit solutions and watch the verdicts.  This directory holds
TLA+ models of the parts where order, failure and time make the code hard, the
TLC runs that check them and the TLAPS proofs about them.

## 1. The system

| part | state it keeps | operations | talks to | modelled in |
|---|---|---|---|---|
| job queue, `master/queue/queue.go` | list and set of active generators, renaming map, jobs handed out, failed jobs | Submit, JobCompleted, RescheduleJob, NextJob, all under `q.mutex` | generators (calls), registry (called by it) | `Queue` |
| ICPC / IOI generators, `master/queue/jobgenerators` | compilation state, jobs given, test and group results | NextJob, JobCompleted | queue, queue status | contract in `Queue` and `Generator`; `ICPCGenerator`, `IOIGenerator` |
| invoker registry, `master/registry` | trackers (one per registered invoker: status, held jobs by type, failed), `invokerByJobID`, `testingJobs`, `nextJob` | UpsertInvoker, HandleInvokerJobResult, SendJobs, OnInvokerFailure; per tracker ping, completeSendJob, updateStatus, ensureJobIsNotLost, StopJob | queue, invokers (HTTP) | `Registry`, `JobLedger` |
| master handlers, `master/*.go` | none of their own | status, job result, new submission, retried database operations, periodic SendJobs | registry, queue, queue status, database, storage | `Registry`; `StatusFeed` |
| queue status and its reader, `queuestatus/status.go`, `tsapi/masterstatus` | list of submissions ordered by the epoch of their last change; the map the API fills from its polls | AddSubmission, UpdateSubmission, FinishSubmissionTesting, GetStatus; updateStatus | generators, API | `QueueStatus`, `StatusFeed` |
| invoker process, `invoker/*.go` | `ActiveJobs`, two executors, pipelines | handleNewJob, stopJob, getStatus, runStatusLoop, pipelines, shutdown | master (HTTP), storage cache, sandboxes | from outside `Cluster`; from inside `InvokerJobs` |
| file cache, `lib/cache`, `invoker/storage` | holders with lock counts and sizes, recency list, epoch | Lock, Get, Unlock, background load, removal, reset | pipelines, storage | `LRUCache`, `InvokerJobs` |
| client API, `clients/tsapi` | the database rows of problems | addProblem, modifyProblem with checkProblemIsOK, addSubmission, loads | database, master | `ProblemAPI`, `AdminSite` |
| admin frontend, `clients/frontend/admin` | the location, the data of the page, requests and timers in flight, the problem form, the panels of a submission | links, loads, edits, saves, pages and filters, panels | client API | `ProblemForm`, `AdminPages`, `AdminSite` |
| process lifecycle, `common/testing_system.go` | wait group, defers, StopCtx | Go, AddProcess, AddDefer, Run | all | as the invoker uses it: `InvokerJobs` |
| polygon importer, `tools/polygon_importer` | problem rows, stored without the form or the API | buildProblemModel | database | `ProblemImport`, as the first problem of `MCAdminSite` |
| storage, connectors, config, db models, metrics, logger, custom fields, compiler | files, rows, counters | request handlers and conversions | | not modelled: sequential I/O and data definitions |

What makes it hard: every call between master and invoker has its own connection
and may be answered late, out of order or not at all; every tracker, the registry
and the queue have their own mutex and hand jobs to each other between critical
sections; a failed invoker's jobs are handed out again under new IDs while the
old ones may still run and report; timers (`LostJobTimeout`), pings, pushes and
answers all carry statuses.  What would make each part correct: a job is in one
place, completed or rescheduled; an accepted result is one the queue waits for;
no process is overloaded or tracked twice; every submission gets its verdict.

Around this core, an invoker shares a bounded cache of files among pipelines that
load, wait, fail and are stopped, in two thread pools that are shut down one after
the other; a client that polls must be told every change although it names only
the epoch of its last answer, and answers get lost; and the admin site, written
apart from the server that checks problems and from the generator that takes them,
edits problems whose groups refer to each other, while answers to its loads and
saves arrive late or never.  Correct there means: a file stays on the disk while
a pipeline uses it and the cache shrinks again; a shutdown loses no accepted job
and fails none; no change is missed and none undone; nothing stays RU by itself;
a problem saved with an OK can be tested; a page shows the data of its location.

## 2. The modules

* **`Queue`** is `master/queue/queue.go`, one action per critical section.  A job is
  `<<submission, k>>` (0 compiles, k runs test k) and the ID the n-th renaming of
  job j gives it is `<<j, n>>`, so IDs are fresh as UUIDs are and only identity
  matters.  `jobIDToOriginalJobID` is kept as the set of its keys, as the original
  ID of `<<j, n>>` is `<<j, 0>>`; `originalJobIDToJob` and
  `originalJobIDToGenerator`, which always have the same keys, as one set.
  The generator of a submission is reduced to what the queue relies on: the
  compile job, then nothing until it completes, then the wanted tests in order;
  a result may cancel tests not handed out; the submission comes back when
  nothing is left.
* **`Registry`** extends it with `master/registry` and the master's handlers.  A
  tracker `<<a, n>>` is the n-th `registry.Invoker` made for address a.
  `jobHolderByID` is three sets, one per JobType.  `r.mutex` is held across the
  steps of one SendJobs (`sendAt > 0`) or one second half of OnInvokerFailure (phase
  "rescheduling"); what happens under one `i.mutex` or `q.mutex` is one action.
  The goroutines are `calls` (completeSendJob), `stops` (StopJob), the phases
  "failed" and "extracted" (OnInvokerFailure), `upserting` and `completing` (the rest
  of handleInvokerJobResult after the result was accepted).  The invokers are
  untrusted here: any status, any result for an ID ever minted, any failure.  Of the
  IDs a status lists only those held by a tracker (`Held`) are enumerated: updateStatus
  looks for no others.
* **`JobLedger`** is the abstract promise about jobs: handed out once, run by one
  invoker at a time, handed out again only from running, accepted at most once.
  `Registry` defines the ledger its variables stand for (`ledgerOf`) and
  `KeepsLedger` says that it implements it.
* **`Cluster`** composes `Registry` with the invoker process (`invoker/handler.go`,
  `invoker.go`, `pipeline.go`) and the HTTP calls.  `snapshots[a][e]` is `ActiveJobs`
  when the e-th status of process a was made; a ping or push may deliver any
  status ever made, again and again.  handleNewJob is three steps (job in the
  executor; job in `ActiveJobs`; answer), the end of a pipeline two (finish; status
  and upload).  A request may carry any ID the job object had since it was given
  to TrySendJob, because completeSendJob marshals the object outside the queue's
  lock.  Faults (lost calls, answers, results, restarts, a LostJobTimeout that
  fires before a result in flight) are counted.
* **`Generator`** is what `Queue` relies on of one generator, as a specification of
  its own: the compile job first and alone, each test once and in order, the
  submission returned by the completion that leaves nothing given and nothing
  wanted.
* **`ICPCGenerator`** and **`IOIGenerator`** are
  `master/queue/jobgenerators/{icpc,ioi}_generator.go` in full, for one submission, with
  its surroundings: `reported[k]` is the result the registry accepted for job k
  (`AcceptResult`; a test may be reported as stopped, SK, only when a job it requires
  was reported as failed, which is when the registry calls StopJob), and later
  `JobCompleted` takes it, in any order.  The loops of `updateSubmissionResult` are
  stated by their result: p is the prefix of the tests that can be shown, and the
  shown results, group results and verdict are functions of it.  In `IOIGenerator`
  the groups of the problem, their scoring, scores and required groups are the
  constant `Groups`, assumed to be what `NewIOIGenerator` accepts; points are
  integers, `NoPoints` is Go's nil, and `crashed` says that `logger.Panic` was
  called, after which gin's recovery stops the master (`common/server.go`).
* **`QueueStatus`** is `queuestatus/status.go`: `holders` (the pointer to the
  submission and the epoch) and `order`, the list.  A submission is whether it is
  compiled and how many results it has.  AddSubmission keeps the original pointer
  and UpdateSubmission a copy (`original`), because what GetStatus returns is encoded
  after the mutex is given up: the fields of an original are read while the
  generator may write them.
* **`StatusFeed`** composes it with handleNewSubmission (row inserted, sources
  stored, generator made, accepted), the retried saves and removals
  (`actions.go`), the database, crashes of the master, and the polling thread of
  the API with its map.  Where a field may be read during a write the poll gets any
  value between.  Encoding an answer and its arrival are one step; polls without
  news are left out; the upload of the source is part of `Accept`; a retry that gives
  up panics, which is a `Restart`.
* **`LRUCache`** is `lib/cache/cache.go` with the getter and remover of
  `invoker/storage`, one operator per section under the mutex: `Lock`, `GetLoaded`,
  `GetAndWait` and `GetAfterWait` (the mutex is free in between), `Unlock`, the load
  in the background, and `Swept`, the loop of removeItemsIfNeeded from the front of the
  recency list (`Removes` is its condition at one key).  A key has the
  epoch of the storage, a file on the disk its epoch at the load as content.
  Remove and Insert are called only by tests of the cache.
* **`InvokerJobs`** uses it in an invoker: handleNewJob locks the files of a job one
  by one and hands it to the executor (`AddJob`, refused once closed, which leaves
  the locks); `at[j]` is where the pipeline is; each download, copy, process,
  check, upload and unlock is a step.  The executors are their lists of values
  and a flag; threads are counted, not named.  StopCtx closes the sandbox executor,
  its last thread the runners (`StopRunnerThreads`), and `Exit` waits for the threads and
  the results that successJob sends.  With isolate a process that is stopped
  before it starts fails, one that runs is reported as SK.  A download that fails
  stays cached as an error.  A file that cannot be copied (`pipeline_files.go:137-145`) ends the
  pipeline as `ProcessFails` does, after the copies; the error of the copying itself
  is dropped by the code (lines 147-149).  The section of a pipeline that downloads a file is
  merged with its loading; refusals before the first lock (unknown submission or test)
  are left out.
* **`ProblemForm`** has one operator per control of `ProblemForm.jsx`, on a problem that is
  its type, number of tests and groups; **`ProblemAPI`** is checkProblemIsOK with its
  missing `return` (`problem.go:201`), and the conditions under which `NewIOIGenerator` takes a
  problem (`GeneratorAccepts`).  `Unmet` are the names that a problem requires in vain: no
  earlier group that is scored as a whole has them.
* **`ProblemImport`** is buildProblemModel of the polygon importer, from a package (groups with
  dependencies, and the group of each test) to the row that `main.go:103` stores.  It
  copies dependencies as they are, so an imported problem may require names in vain; the form
  and the API then find it in the database (`FirstProblems` of `AdminPages`).
* **`AdminPages`** is what pages share: navigation, loads (`fetches`, answered in any
  order or never), writes and alerts with their timers.  **`AdminSite`** adds the pages:
  problem lists and forms against `db`, the list of submissions with its pages and
  filter, a submission with its panels (TestData, CompilationData and the effects
  that fetch for them), a new submission, the status.  A render and the effects of a
  navigation are one step; the history of the browser is left out.
* Proofs: **`RegistryProofs`** (types, and the place of a job) and, on top of it,
  **`HolderProofs`** (holders, panics, the ledger) about `Registry`; on top of these
  **`ClusterProofs`** about `Cluster`; **`ICPCProofs`** and **`IOIProofs`** about the
  generators; **`FeedProofs`** about `StatusFeed`; **`InvokerProofs`** about `InvokerJobs` and
  its cache; **`AdminProofs`** about the form, the check and the site.
* **`MCRegistry`**, **`MCCluster`**, **`MCIOIGenerator`**, **`MCStatusFeed`**, **`MCInvoker`** and
  **`MCAdminSite`** are instances for TLC.

Operators whose comment starts with "(Mistake: ...)" are variants of the definition
after them with a plausible bug.  They are not part of any specification; they
document what each property is able to find.

## 3. The runs

| run | question | bounds |
|---|---|---|
| `registry` | no job in two places, accepted results are awaited, one live tracker per process, holders and maps agree, no consistency panic, the ledger is implemented | 1 submission, compile + 2 tests with stops, 1 address registered at most twice, 2 epochs, room for 2 jobs |
| `registry_lost_job` | *violated*: every job handed out is waiting, assigned or accepted | 1 job |
| `cluster` | reordered statuses never make a running job NoReply (first tracker); the composition is a `Registry` | 1 job, room for 1, 1 status of its own, 1 fault, 2 registrations, 4 epochs |
| `cluster_load` | of the jobs that the first tracker of a process holds, those sent to it and those it runs never exceed MaxJobs, with tests that require others and are stopped | compile + 2 tests, room for 1 job, 1 fault, 4 epochs |
| `cluster_finish` | every submission is finished | compile + 1 test, no fault, room for both |
| `cluster_failures` | a failed tracker is removed; NoReply ends | 1 job, 1 fault |
| `icpc_generator` | the verdict is deserved, shown results are final, the contract is kept, the submission is returned | 4 tests |
| `ioi_generator` | results, score and verdict over groups are deserved, no useless test is given, the contract is kept, the submission is returned | 5 tests in 4 groups: Complete; Complete requiring it; Min (2 tests) requiring that; EachTest beside them |
| `ioi_each_test` | *violated*: an EachTest group scores TestScore for each test with OK | 1 group of 2 tests |
| `status_feed` | no change is missed, nothing shown goes back, updates arrive, results get stored, no row stays RU by itself | submissions of 2 tests and of 1, 1 fault |
| `invoker` | files stay while they are used, locks are given back, the cache exceeds its bound by locked files only, files are as fresh as the job, no verdict becomes CF for the shutdown, accepted jobs end and their results are sent, the shutdown ends | 1 compilation that comes twice, 1 test, isolate, sizes 3 and 1 with room for 1, 2 sandbox threads, 1 runner, 1 reset, 1 fault |
| `admin_site` | no edit, request or row adds a requirement that is not met, what is saved with OK can be tested but for imported requirements, the data is that of the location, shown panels are filled | a problem made by the form or one imported, whose second group requires a first that is scored test by test; 2 groups of 1 test, 1 edit, 2 links, 2 loads and 2 writes in flight, 2 tests, 1 text per panel |

Why the bounds are enough: the hazards of the registry involve one job and two
trackers that held it, or two jobs on one tracker; two epochs make a status newer
or older; a second registration is what a failure leads to.  Four tests give an ICPC
submission a tested prefix, a gap, a running test behind it and one not given; the
IOI chain has a group of each scoring, a dependency through another group, a
group of two tests, and one group no failure of the others reaches.
In the status feed one submission is updated twice while another enters, leaves
and moves in the list, which is what a poll that stops early could miss.
In the invoker three loads compete for room for one file, and the two sandbox
threads and the one runner make every wait possible: for a file that another job
loads, for a thread, and for the runner; the compilation that comes again after
the reset uses a file beside its older version.  On the
site two links and one edit are enough for an answer, a timer or a second save to
meet another page than the one it belongs to; a removal, a renaming and a new scoring
each break a requirement in one edit.
`Registrations`, `MaxStatuses`, `MaxEpoch`, `MaxFaults`, `MaxResets`, `MaxVisits`, `MaxEdits`,
`MaxFetches`, `MaxWrites` and `MaxPage` are the only bounds on
counters: at the bound nothing further of the kind happens, and where it may
matter (the liveness runs) `MaxEpoch` is beyond what can be reached.  The systems
may come to rest (nothing submitted, nothing sent, submission returned, process
exited, an admin who does nothing more), so
deadlock is not checked; what must not rest is stated as liveness.

Fairness.  `Cluster!Fairness`: goroutines that can take a step do; those that need
`r.mutex`, which others keep taking, are strongly fair because Go's mutexes do not
starve a waiter; HTTP calls end; the periodic loops run for ever; pipelines end
(time limits).  No fault and no repeated delivery is assumed to happen.  The
generators: the registry keeps asking the queue for jobs (`sendingJobsLoop`), every
job given gets a result (what `Cluster` is about), and a handler that accepted one
goes on to `JobCompleted`.

The status feed: retries that do not crash the master succeed in the end and the
API keeps polling; jobs may take for ever.  The invoker: of the work that is left
(requests, downloads, pipelines, results, closing) some is done; this is one weak
fairness condition on all of it and enough, as a job takes finitely many steps.
No request, stop, reset or shutdown need come.  The site: an effect that is due is run,
and the request for a text of a panel is answered or lost.

`cluster_finish` has MaxJobs large enough that phantom entries (section 4) cannot
use up the room: with `MaxJobs = 1` one phantom entry stops the process for ever.

## 4. What the violated runs show

1. **A lost job** (`registry/registry.go:38`).  OnInvokerFailure extracts the jobs
   before it takes `r.mutex`.  A result handled between the two is refused
   (JobTested finds no holder) but has already deleted the job from
   `invokerByJobID`, so OnInvokerFailure skips the job: it is never completed nor
   rescheduled, although `queue/interface.go:33` asks for one of the two.
2. **No score for skipped tests** (`ioi_generator.go:237`).  In a group scored test by
   test a skipped test has no points, and `completeGroupTesting` panics when points
   are missing: a submission that does not compile, sent to a problem with such
   a group, stops the master, although `common/db/models/problem.go:27` defines the
   score by the number of tests with OK.

Behaviour of the code that the models contain and no property denies:

* A job that ends before handleNewJob puts it into `ActiveJobs`
  (`invoker/handler.go:38`) stays there: a phantom that takes one slot until the restart.
* The queue renames a job object that the goroutine of a failed tracker may still be
  sending (`queue/queue.go:102`): the process may run two pipelines under one ID.  With
  two processes the old request runs at the failed one under the new ID; its result
  then takes the job from the tracker that was handed it, while the job is still on its
  way to that process or running there, and the master sends it one job more.
  `NotOverloaded` therefore counts the jobs the tracker holds; counting all of them it is
  violated (2 addresses, 1 registration of each, 1 job, 1 fault).
* The answer of GetStatus reads a submission that AddSubmission did not copy while
  the generator writes it (`status.go:44`; the comment at lines 73-75 is about the
  copies of UpdateSubmission).  `ShownNeverGoesBack` excepts what was read so.
* A row whose insert was done and answered as failed, or which was RU when the master
  crashed, stays RU (`left`): nothing submits it again.
* The polygon importer stores groups that require groups scored test by test
  (`tools/polygon_importer/xml.go:143`, `main.go:103`).  When such a problem is loaded in the
  form and saved, checkProblemIsOK answers OK (`problem.go:181-254` never looks at the scoring of
  a required group), and `ioi_generator.go:82-86` refuses every submission to it.
  `SavedIsTestable` therefore excepts the names that were imported so (`Relieved`);
  without the exception TLC finds it violated in five states: open the problem, receive it,
  save, answer.  No text of the repository promises more.
* A refused job keeps its files locked, and a failed download stays cached as an
  error until the next reset of the cache.
* The result of a failed job is sent by a goroutine nobody waits for (`pipeline.go:121`).
* A load whose answer is lost leaves the page loading (`Problem.jsx:30`: there is no
  `err.response`), one answered after a later one shows older data
  (`disturbed`); the answer to a creation navigates from whatever page is shown; a list
  without results makes the effect of TestData dispatch for ever (`TestData.jsx:85`).

## 5. The proofs

* **`RegistryProofs!TypeCorrect`**: `Spec => []TypeOK`.  `TypeOK` is not inductive:
  that `sendAt` stays within `r.invokers` when OnInvokerFailure shortens the list
  needs that `r.mutex` has one holder, and that the invoker of a stopped job exists
  needs that `testingJobs` and `invokerByJobID` have the same keys.  `RegistryInv`
  adds both.
* **`RegistryProofs!OnePlace`** and **`ResultAwaited`**: `Spec => []JobIsInOnePlace` and
  `Spec => []AcceptedResultIsAwaited`.  They need two facts more.  `QueueInv`: the
  renaming map has at most the current ID of each job, that one if the job was
  renamed, and only of jobs its generator waits for; a job not handed out yet was
  never renamed.  `PlaceInv`: a job is in a place only after it was handed out,
  and an assigned or accepted ID is the current one.  So a renaming makes an ID that
  is in no place, and takes the only one there was.  The invokers are free in this
  specification, so nothing is assumed of them.
* **`HolderProofs!HoldersAgree`**, **`NeverPanics`** and **`OneTracker`**:
  `Spec => []HoldersMatchAssignments`, `Spec => []NoPanic`,
  `Spec => []OneTrackerPerAddress`.  The strengthening `HInv` says that a tracker has
  its jobs as holders before `ExtractJobs` and as extracted ones after it, never
  both (`HolderInv`); that an extracted ID which was not renamed belongs to a job that
  does not wait to be sent, so it cannot be assigned again under that ID
  (`ExtractedInv`); and that no job being sent is held under another type (`SendsInv`).
  `OneTrackerPerAddress` is inductive with the types.  No theorem excludes the lost
  job of section 4: it is assigned to nobody and held by nobody.
* **`HolderProofs!LedgerKept`**: `Spec => KeepsLedger`, the refinement of `JobLedger`.  Each
  step of the registry is one step of the ledger for one job (a completion also
  cancels new ones) or leaves it alone; that the step starts in the right state of
  the ledger is `JobIsInOnePlace` with `QueueInv` and `PlaceInv`.
* **`ClusterProofs!ClusterIsRegistry`**: `ClusterSpec => ImplementsRegistry`.  Every step of the
  composition is a step of `Registry` or leaves its variables alone, so the theorems
  above hold among real processes too.  A status lists jobs the registry knows nothing
  of; `Alike` says which statuses it cannot tell apart, and `StatusIsAny` that among them is
  one that `Registry` lets an invoker send.
* **`ClusterProofs!RunningJobsAreSeen`**: `ClusterSpec => []NoFalseDisappearance`.  `WorkInv`: what
  travels to a live tracker's process or runs there carries the current ID of a job that
  was handed to it (`WorkIsOwned`), a call is first one request and then one pipeline
  (`WorkIsOnce`), while a first tracker lives there is no other (`FirstIsAlone`), the kept
  status was made by the process (`StatusIsKept`), and a running job whose answer came is
  listed in every status from the epoch of the answer on (`RunningIsListed`), so that a
  status which does not list it is older and refused.
* **`ClusterProofs!ProcessesAreNotOverloaded`**: `ClusterSpec => []NotOverloaded`.  `LoadInv` counts
  IDs: each job on its way or running is being sent, or listed in the status that the
  tracker keeps (`LoadIsCounted`), which is what CanSend compares with MaxJobs.
* **`ICPCProofs`**: `TypeCorrect`; **`VerdictCorrect`**, `Spec => []VerdictIsDeserved`;
  **`ContractKept`**, `Spec => KeepsContract` (the refinement of `Generator`).  The
  inductive invariant says when each phase of the compilation has which jobs
  (`CompilationInv`), that a job requires only earlier tests (`RequiredInv`), how the
  kept results relate to the reported ones (`ResultInv`), that the verdict is that of
  the first failure in the prefix or still RU (`VerdictInv`), and that the prefix
  ends at a test without result (`PrefixInv`).  That a stopped test is not
  blamed follows: the test it was stopped for is earlier and failed.
  **`ShownResultsAreFinal`** and **`NothingIsGivenAfterFailure`** prove the two action
  properties, the second from `StoppedInv` (a known failure moved
  `firstTestToGive` past the last test).
* **`IOIProofs`**: **`ResultsAreAsDeserved`**, `Spec => []ResultsAreDeserved`;
  **`VerdictIsAsDeserved`**, `Spec => []VerdictIsDeserved`; **`TypeCorrectness`**;
  **`NoUselessTestIsGiven`**, `Spec => NoUselessTest`; **`ContractKept`**, `Spec => KeepsContract`:
  for every list of groups.  The invariant `Inv` ties the two marks of the code together.
  `FlagInv`: the groups that get no more jobs are those a known failure reaches; `TestInv`:
  a test is passed over only behind such a failure; `ShownInv`: the tests shown are those
  the loop has passed, each as the marks before it say; `ReportInv`: a test is reported as
  skipped only behind a reported failure; `ScoreInv`: the groups shown are scored, and the
  last one is missing only if it made the generator panic.  The argument is
  `MarkedByFailure`: a test that was passed over is marked as not OK (its result is still
  RU) and marks groups itself, but none that the first failure before it does not reach,
  because what a group needs is closed under what that needs (`NeededIsClosed`).  So the
  mark made when a test is shown and the flag taken when its result came agree.  That a
  verdict is not OK while all tests shown are OK or skipped is excluded by the least
  test that failed its group.

* **`FeedProofs`**: the list has each holder once and is ordered by epoch, newest
  first (`ListInv`); hence a poll that stops at the first older holder misses nothing
  (**`NothingIsEverMissed`**, with `PollMissesNothing` for the poll in flight).
  `WorkIsInStatus` says in which phases of its work a submission is in the status,
  which gives **`StatusIsUsedInOrder`** (no panic of the status is reached) and
  **`RowsAreRemembered`**.
* **`InvokerProofs`**: **`FailuresHaveCauses`** and **`ResultsAreAwaited`**, of any jobs, files
  and numbers of threads.  `RunnersOutlive`: once the runners are closed there is
  neither a pipeline nor a job to take, because a closed executor refuses.
  `AcceptedStay`: an accepted job is in the list of the executor or beyond it.
  About the files: **`CopiedFilesAreThere`**, **`CopiedFilesAreFresh`**, **`LocksAreCounted`**,
  **`TheRestFits`** and **`InvokerTypeOK`**, of any files, sizes and bound.  `FileInv`: the cache is
  well formed, its size the sum of the sizes of its holders, and what exceeds the bound is
  locked (`CacheInv`); the stage of a job says how many files it has locked and copied
  (`StageInv`); no key is of a later epoch (`KeysInv`); and the lock count of a file is the
  number of jobs that have it locked or wait for it (`LocksInv`), which is what keeps a file
  from the sweep while it is copied.
* **`AdminProofs`**: **`EditsKeep`**, no control of the form makes a name required in vain
  that was not, whatever problem was loaded; **`CheckedIsTestable`**, a problem which
  requires nothing in vain and which checkProblemIsOK accepts is one `NewIOIGenerator` accepts.
  **`SiteIsTyped`**, **`NothingMoreIsUnmet`** and **`SavedStaysTestable`** lift both to the site, for
  requests in flight and rows too, in any order, and for any problems stored first: what
  was imported in vain is excepted by name (`RelievedIsTestable`: the check does not depend on
  it).  **`WithoutImportsSavedIsTestable`**: if the first problems require nothing in vain, rows
  saved with OK are accepted as they are.  **`ViewStaysOfLocation`**: unless a load was
  lost or overtaken, the one sent last is of the location shown (`ViewInv`).

Sums, sweeps and recursive functions.  The sum of the sizes in the cache or of the
points of a group, the loop of removeItemsIfNeeded and the groups a group needs are
recursive functions, whose value TLA+ chooses among the functions that satisfy their
equation.  That there is one (`SummationExists`, `NeededExists`), and what it computes, is
proved by taking the least number at which it fails: `LeastNumber` follows from the
well-foundedness of < on the naturals, so no induction theorem with an operator
parameter is needed.

Assumed: `QueueAssumption`, `RegistryAssumption`, `ClusterAssumption`,
`StatusAssumption` (every room and every epoch that a process can report is in `Capacity` and
`Epoch`, which only bound what TLC enumerates), `TestsNumberAssumption`, `GroupsAssumption`
(the groups are a list of records that the checks of `NewIOIGenerator` accept), `FeedAssumption`,
`CacheAssumption`, `JobsAssumption`, `FormAssumption`, `PagesAssumption` and `SiteAssumption`
(the constants are numbers, sets and functions of them; NoJob is no job; of the problems
stored first only the type is assumed); TLC checks all of them in the runs.

Only proved, not repeated by a run: the types of `Registry`, `ICPCGenerator`,
`StatusFeed` and `AdminSite`, `StatusNeverPanics` and `NothingGivenAfterFailure`.

Only model-checked: `ShownNeverGoesBack`, and all liveness, which is out of the prover's
reach with its fairness and ENABLED.

## 6. Not modelled, and what could be done next

Not modelled: the storage server, connectors, configuration, database models,
metrics, logger, custom fields and compiler scripts transform or store data in one
sequential step; of the polygon importer the download, the parsing and the files are left
out; the inside of a sandbox is an external program.
Of the API the read-only loads of files and the SQL of paging and filters are left
out; of the pages layout, inputs nothing depends on and the history of the browser.
The lists of testing submissions and invokers in the status, and the check for an
outdated status, change no state.

Next: prove `ShownNeverGoesBack`; that the generator inside `Queue` is `Generator`, which would
join the contracts that both generators keep with what the queue relies on.
