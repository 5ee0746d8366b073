----------------------------- MODULE StatusFeed -----------------------------
(* A submission from the request that creates it to what the API shows of it:
   handleNewSubmission, the retried operations and handleStatus of the master
   (client_handlers.go, actions.go), the generator as far as it writes the
   submission, the database, and the thread of the API that polls the master
   (clients/tsapi/masterstatus).

   q.mutex makes one result at a time change a submission; the mutex of the
   status is another one, and what GetStatus returns is encoded without either:
   the fields of a submission that was not copied yet are read one by one, while
   they may be written.                                                       *)
EXTENDS QueueStatus

CONSTANT MaxFaults     \* bound of the operations that fail and of the crashes

ASSUME FeedAssumption == MaxFaults \in Nat

VARIABLES
  stage,      \* how far handleNewSubmission is with each submission
  rows,       \* the database: "none", "running" (verdict RU), "stored", "removed"
  objects,    \* the submission that the generator writes
  result,     \* the result in the hands of JobCompleted: of which submission,
              \* and what its object was before
  saving,     \* submissions for which finishSubmissionTesting is retried
  saved,      \* those of them whose row is saved
  removing,   \* submissions for which removeSubmissionFromDB is retried
  left,       \* rows nobody works on, of a crash or of an insert that was
              \* done and answered as failed
  faults,     \* faults so far
  cache,      \* MasterStatus.submissions; original: it was read where it is written
  status,     \* the epoch of MasterStatus.status, 0 without one; the submissions
              \* and the invokers it lists are left out
  poll        \* the GetStatus request in flight

dbVars == <<stage, rows, saving, saved, removing, left>>
workVars == <<objects, result>>
apiVars == <<cache, status, poll>>
vars == <<statusVars, dbVars, workVars, faults, apiVars>>

NoResult == [sub |-> "none"]
NoPoll == [epoch |-> 0]
NoStatus == 0

\* What is sent of submission s: a pointer until it is encoded.
Pointer == [original : BOOLEAN, submission : Value]

Poll == [epoch : Nat \ {0},
         updated : UNION {[S -> Pointer] : S \in SUBSET Submission}]

TypeOK ==
  /\ StatusTypeOK
  /\ stage \in [Submission -> {"none", "row", "refused", "accepted"}]
  /\ rows \in [Submission -> {"none", "running", "stored", "removed"}]
  /\ objects \in [Submission -> Value]
  /\ result = NoResult \/ result \in [sub : Submission, before : Value]
  /\ saving \subseteq Submission /\ saved \subseteq Submission
  /\ removing \subseteq Submission /\ left \subseteq Submission
  /\ faults \in 0..MaxFaults
  /\ DOMAIN cache \subseteq Submission
  /\ \A s \in DOMAIN cache : cache[s] \in Pointer
  /\ status \in Nat
  /\ poll = NoPoll \/ poll \in Poll

Init ==
  /\ StatusInit
  /\ stage = [s \in Submission |-> "none"]
  /\ rows = [s \in Submission |-> "none"]
  /\ objects = [s \in Submission |-> NothingYet]
  /\ result = NoResult
  /\ saving = {} /\ saved = {} /\ removing = {} /\ left = {}
  /\ faults = 0
  /\ cache = [s \in {} |-> 0]
  /\ status = NoStatus
  /\ poll = NoPoll

Fault == faults < MaxFaults /\ faults' = faults + 1

----------------------------------------------------------------------------
(* handleNewSubmission and what it retries.                                 *)

Stage(s, from, to) == stage[s] = from /\ stage' = [stage EXCEPT ![s] = to]

\* saveSubmissionInDB
InsertRow(s) ==
  /\ Stage(s, "none", "row")
  /\ rows' = [rows EXCEPT ![s] = "running"]
  /\ UNCHANGED <<statusVars, workVars, saving, saved, removing, left, faults, apiVars>>

\* The insert fails, or is done and the answer lost: nothing is undone.
InsertFails(s) ==
  /\ Stage(s, "none", "refused")
  /\ Fault
  /\ \/ UNCHANGED <<rows, left>>
     \/ rows' = [rows EXCEPT ![s] = "running"] /\ left' = left \cup {s}
  /\ UNCHANGED <<statusVars, workVars, saving, saved, removing, apiVars>>

\* (Mistake: the row stays.)
RefuseKeepRow(s) ==
  /\ Stage(s, "row", "refused")
  /\ Fault
  /\ UNCHANGED <<statusVars, workVars, rows, saving, saved, removing, left, apiVars>>

\* saveSubmissionInStorage fails, or NewGenerator does: the row is to be removed.
Refuse(s) ==
  /\ Stage(s, "row", "refused")
  /\ Fault
  /\ removing' = removing \cup {s}
  /\ UNCHANGED <<statusVars, workVars, rows, saving, saved, left, apiVars>>

\* The source is stored (saveSubmissionInStorage), then Queue.Submit, under q.mutex.
Accept(s) ==
  /\ result = NoResult
  /\ Stage(s, "row", "accepted")
  /\ AddSubmission(s)
  /\ UNCHANGED <<workVars, rows, saving, saved, removing, left, faults, apiVars>>

\* removeSubmissionFromDB; an attempt that fails is followed by another one.
RemoveRow(s) ==
  /\ s \in removing
  /\ removing' = removing \ {s}
  /\ rows' = [rows EXCEPT ![s] = "removed"]
  /\ UNCHANGED <<statusVars, workVars, stage, saving, saved, left, faults, apiVars>>

----------------------------------------------------------------------------
(* Testing: the results that the queue hands to the generator.              *)

\* JobCompleted of the generator writes the object: the compilation, after which
\* all tests have results or none, or tests.  (A result that waits for those of
\* earlier tests writes nothing.)
Write(s) ==
  LET was == objects[s]
  IN  /\ result = NoResult
      /\ stage[s] = "accepted" /\ was.tests < TestsNumber[s]
      /\ result' = [sub |-> s, before |-> was]
      /\ \E n \in 0..TestsNumber[s] :
           /\ IF was.compiled THEN n > was.tests ELSE n \in {0, TestsNumber[s]}
           /\ objects' = [objects EXCEPT ![s] = [compiled |-> TRUE, tests |-> n]]
      /\ UNCHANGED <<statusVars, dbVars, faults, apiVars>>

\* The end of JobCompleted: what was added is put in the status; the submission
\* that is tested is to be saved.
Publish ==
  /\ result # NoResult
  /\ LET s == result.sub
     IN  /\ IF objects[s].tests > result.before.tests
              THEN UpdateSubmission(s, objects[s]) ELSE UNCHANGED statusVars
         /\ saving' = IF objects[s].tests = TestsNumber[s] THEN saving \cup {s} ELSE saving
  /\ result' = NoResult
  /\ UNCHANGED <<objects, stage, rows, saved, removing, left, faults, apiVars>>

\* finishSubmissionTesting: the row, then the status.
SaveResult(s) ==
  /\ s \in saving
  /\ saving' = saving \ {s}
  /\ saved' = saved \cup {s}
  /\ rows' = [rows EXCEPT ![s] = "stored"]
  /\ UNCHANGED <<statusVars, workVars, stage, removing, left, faults, apiVars>>

\* (Mistake: what failed is not retried.)
SaveFailsOnce(s) ==
  /\ s \in saving
  /\ Fault
  /\ saving' = saving \ {s}
  /\ UNCHANGED <<statusVars, workVars, stage, rows, saved, removing, left, apiVars>>

\* An attempt that fails is followed by another one; the row may be stored by then.
SaveFails(s) ==
  /\ s \in saving
  /\ Fault
  /\ rows' = [rows EXCEPT ![s] = "stored"]
  /\ UNCHANGED <<statusVars, workVars, stage, saving, saved, removing, left, apiVars>>

Finish(s) ==
  /\ s \in saved
  /\ saved' = saved \ {s}
  /\ FinishSubmissionTesting(s)
  /\ UNCHANGED <<workVars, stage, rows, saving, removing, left, faults, apiVars>>

\* The master stops, by itself or because the retries of an operation gave up
\* (retryUntilOK panics), and starts again: it knows of no submission, and does
\* not look for those of the database.
Restart ==
  /\ Fault
  /\ holders' = [s \in {} |-> 0] /\ order' = <<>> /\ UNCHANGED clock
  /\ objects' = [s \in Submission |-> NothingYet] /\ result' = NoResult
  /\ stage' = [s \in Submission |->
                 IF stage[s] \in {"row", "accepted"} THEN "refused" ELSE stage[s]]
  /\ saving' = {} /\ saved' = {} /\ removing' = {}
  /\ left' = {s \in Submission : rows[s] = "running"}
  /\ poll' = NoPoll
  /\ UNCHANGED <<rows, cache, status>>

----------------------------------------------------------------------------
(* The API.                                                                 *)

\* Bound: polls without news, which would change nothing but the epoch, are not
\* taken.
HasNews ==
  \/ status = NoStatus
  \/ \E s \in DOMAIN holders : holders[s].lastUpdatedEpoch >= status

PointerTo(s) ==
  IF holders[s].original
    THEN [original |-> TRUE,
          submission |-> IF result # NoResult /\ result.sub = s
                           THEN result.before ELSE objects[s]]
    ELSE [original |-> FALSE, submission |-> holders[s].submission]

\* (Mistake: the epoch of the answer is that of the last update.)
GetStatusOfLastUpdate ==
  /\ poll = NoPoll /\ HasNews
  /\ poll' = [epoch |-> clock, updated |-> [s \in UpdatedSince(status) |-> PointerTo(s)]]
  /\ UNCHANGED <<statusVars, dbVars, workVars, faults, cache, status>>

\* updateStatus asks with the epoch of its status, and GetStatus answers.
GetStatus ==
  /\ poll = NoPoll /\ HasNews
  /\ clock' = clock + 1
  /\ poll' = [epoch |-> clock + 1,
              updated |-> [s \in UpdatedSince(status) |-> PointerTo(s)]]
  /\ UNCHANGED <<holders, order, dbVars, workVars, faults, cache, status>>

\* The answer as it is encoded (c.JSON): each field of what a pointer points to is
\* read at a moment of its own since GetStatus returned.
IsAnswer(read) ==
  \A s \in DOMAIN poll.updated :
    LET from == poll.updated[s]
    IN  IF from.original
          THEN UpTo(from.submission, read[s]) /\ UpTo(read[s], objects[s])
          ELSE read[s] = from.submission

\* (Mistake: only the last update is kept.)
UpdateStatusAnew ==
  /\ poll # NoPoll
  /\ \E read \in [DOMAIN poll.updated -> Value] :
       /\ IsAnswer(read)
       /\ cache' = [s \in DOMAIN read |->
            [original |-> poll.updated[s].original, submission |-> read[s]]]
  /\ status' = poll.epoch
  /\ poll' = NoPoll
  /\ UNCHANGED <<statusVars, dbVars, workVars, faults>>

\* The answer reaches updateStatus.  (Until then what is not encoded may change;
\* an answer encoded earlier is one of those that can be read.)
UpdateStatus ==
  /\ poll # NoPoll
  /\ \E read \in [DOMAIN poll.updated -> Value] :
       /\ IsAnswer(read)
       /\ cache' = [s \in DOMAIN cache \cup DOMAIN read |->
            IF s \in DOMAIN read
              THEN [original |-> poll.updated[s].original, submission |-> read[s]]
              ELSE cache[s]]
  /\ status' = poll.epoch
  /\ poll' = NoPoll
  /\ UNCHANGED <<statusVars, dbVars, workVars, faults>>

LosePoll ==
  /\ poll # NoPoll
  /\ Fault
  /\ poll' = NoPoll
  /\ UNCHANGED <<statusVars, dbVars, workVars, cache, status>>

RestartAPI ==
  /\ Fault
  /\ cache' = [s \in {} |-> 0]
  /\ status' = NoStatus
  /\ poll' = NoPoll
  /\ UNCHANGED <<statusVars, dbVars, workVars>>

\* GetSubmission of a submission in the database: the row; if its verdict is RU,
\* the map.  (The row is read first; what the map gets in between is later.)
Shown(s) ==
  CASE rows[s] = "stored" -> Complete(s)
    [] rows[s] # "stored" /\ s \in DOMAIN cache -> cache[s].submission
    [] OTHER -> NothingYet

----------------------------------------------------------------------------

Next ==
  \/ \E s \in Submission :
       \/ InsertRow(s) \/ InsertFails(s) \/ Refuse(s) \/ Accept(s)
       \/ RemoveRow(s)
       \/ Write(s) \/ SaveResult(s) \/ SaveFails(s) \/ Finish(s)
  \/ Publish \/ Restart
  \/ GetStatus \/ UpdateStatus \/ LosePoll
  \/ RestartAPI

\* Retries go on until they succeed, and the API polls; jobs may take for ever.
Fairness ==
  /\ \A s \in Submission :
       WF_vars(RemoveRow(s)) /\ WF_vars(SaveResult(s)) /\ WF_vars(Finish(s))
  /\ WF_vars(Publish)
  /\ WF_vars(GetStatus) /\ WF_vars(UpdateStatus)

Spec == Init /\ [][Next]_vars /\ Fairness

----------------------------------------------------------------------------
(* Properties.                                                              *)

\* What the status has of a submission since before the epoch of the client, the
\* client has: GetStatus leaves nothing out that the client was not sent.  (Of a
\* submission without test results it may have less than the generator does: the
\* end of the compilation is no update.)
NothingIsMissed ==
  \A s \in DOMAIN holders :
    holders[s].lastUpdatedEpoch < status =>
      /\ s \in DOMAIN cache
      /\ holders[s].original \/ cache[s].submission = holders[s].submission

\* None of the panics of the status is reached: a submission is added once, and
\* updated and removed while it is there.
StatusNeverPanics ==
  /\ \A s \in Submission : stage[s] = "row" => s \notin DOMAIN holders
  /\ result # NoResult => result.sub \in DOMAIN holders
  /\ saving \cup saved \subseteq DOMAIN holders
  /\ saving \cap saved = {}

\* A submission is RU in the database only while the master works on it: it is
\* being sent or removed, or is in the status, where it stays until the result is
\* stored (actions.go:127), unless a crash or a lost answer left it.
NoRowIsForgotten ==
  \A s \in Submission :
    rows[s] = "running" =>
      \/ stage[s] = "row"
      \/ s \in removing \cup left
      \/ s \in DOMAIN holders \ saved

\* What the API shows of a submission never goes back, from the map that the polls
\* fill to the database, unless it was read where it is written: that may be ahead
\* of the copy that is sent next.
ShownNeverGoesBack ==
  [][status' # NoStatus =>
       \A s \in Submission :
         \/ UpTo(Shown(s), Shown(s)')
         \/ rows[s] # "stored" /\ s \in DOMAIN cache /\ cache[s].original]_vars

\* When the last result of a submission is in, it gets stored, unless the master
\* crashes.
ResultsAreStored ==
  \A s \in Submission :
    objects[s].tests = TestsNumber[s] ~> (rows[s] = "stored" \/ s \in left)

\* Every update of a submission reaches the API, though no other may follow.
UpdatesArrive ==
  \A s \in Submission :
    (s \in DOMAIN holders /\ holders[s].lastUpdatedEpoch >= status)
      ~> (s \notin DOMAIN holders \/ holders[s].lastUpdatedEpoch < status)
=============================================================================
