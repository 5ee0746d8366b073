------------------------------ MODULE Registry ------------------------------
(***************************************************************************)
(* The master's invoker registry (master/registry) on top of the queue.    *)
(*                                                                         *)
(* A tracker is one registry.Invoker object: <<a, n>> is the n-th object   *)
(* made for the invoker at address a (a tracker that failed is never       *)
(* revived, the address gets a new one).  Its jobHolderByID is kept as     *)
(* three sets of job IDs, one per JobType; an ID in none of them is an     *)
(* UnknownJob.                                                             *)
(*                                                                         *)
(* Two kinds of mutex matter.  r.mutex guards the registry's own maps and  *)
(* is held across a whole SendJobs and a whole second half of              *)
(* OnInvokerFailure, each of which takes several steps here.  Everything   *)
(* done under one tracker's i.mutex, or under q.mutex, is one step.        *)
(*                                                                         *)
(* The invokers are not trusted: in this module a status may list any IDs, *)
(* with any epoch, a result may come for any ID the master ever minted,    *)
(* repeatedly or never, and any call may fail at any time.  Module Cluster *)
(* composes the registry with the real invoker process.                    *)
(***************************************************************************)
EXTENDS Queue

CONSTANTS
  Address,        \* addresses of invoker processes
  Registrations,  \* bound: trackers made for one address
  Epoch,          \* Status.Epoch values (UUIDv7: totally ordered)
  Capacity        \* Status.MaxNewJobs values

Tracker == Address \X (1..Registrations)

ASSUME RegistryAssumption == /\ Registrations \in Nat
                             /\ Epoch \subseteq Nat
                             /\ Capacity \subseteq Nat

VARIABLES
  phase,          \* life of a tracker object, see Phase
  epoch,          \* i.status.Epoch
  maxNewJobs,     \* i.status.MaxNewJobs
  sending,        \* IDs held as SendingJob
  testing,        \* IDs held as TestingJob
  noReply,        \* IDs held as NoReplyJob
  calls,          \* running completeSendJob goroutines: <<tracker, job object>>
  stops,          \* running StopJob goroutines: <<tracker, ID>>
  extracted,      \* jobsToReschedule of the tracker's OnInvokerFailure
  invokers,       \* r.invokers
  invokerByJobID, \* r.invokerByJobID
  testingJobs,    \* keys of r.testingJobs
  nextJob,        \* r.nextJob
  sendAt,         \* 0, or the index SendJobs is at (SendJobs holds r.mutex)
  upserting,      \* accepted results before their deferred UpsertInvoker
  completing      \* accepted results before queue.JobCompleted

\* "unborn" no such object yet; "live" not failed; "failed" markFailed was
\* called and OnInvokerFailure has not extracted the jobs; "extracted" it has,
\* and waits for r.mutex; "rescheduling" it holds r.mutex; "removed" it is done.
Phase == {"unborn", "live", "failed", "extracted", "rescheduling", "removed"}

statusVars == <<epoch, maxNewJobs>>
holderVars == <<sending, testing, noReply>>
mapVars == <<invokers, invokerByJobID, testingJobs, nextJob, sendAt>>
handlerVars == <<upserting, completing>>
registryVars == <<phase, statusVars, holderVars, calls, stops, extracted, mapVars,
                  handlerVars>>
vars == <<queueVars, registryVars>>

Holders(t) == sending[t] \cup testing[t] \cup noReply[t]

MutexIsFree == sendAt = 0 /\ \A t \in Tracker : phase[t] # "rescheduling"

RegistryInit ==
  /\ phase = [t \in Tracker |-> "unborn"]
  /\ epoch = [t \in Tracker |-> 0]
  /\ maxNewJobs = [t \in Tracker |-> 0]
  /\ sending = [t \in Tracker |-> {}]
  /\ testing = [t \in Tracker |-> {}]
  /\ noReply = [t \in Tracker |-> {}]
  /\ calls = {}
  /\ stops = {}
  /\ extracted = [t \in Tracker |-> {}]
  /\ invokers = <<>>
  /\ invokerByJobID = [id \in {} |-> CHOOSE t \in Tracker : TRUE]
  /\ testingJobs = {}
  /\ nextJob = NoJob
  /\ sendAt = 0
  /\ upserting = {}
  /\ completing = {}

Init == QueueInit /\ RegistryInit

----------------------------------------------------------------------------
(* Under one tracker's i.mutex.                                            *)

\* markFailed: the goroutine it starts is the rest of the phases.
MarkFailed(t) ==
  phase' = [phase EXCEPT ![t] = IF @ = "live" THEN "failed" ELSE @]

\* (Mistake: an older status is accepted.)
AcceptsAny(t, st) == phase[t] = "live" /\ epoch[t] # st.epoch

\* updateStatus returns at once for a failed tracker and for a status that is
\* not newer than the last one.
Accepts(t, st) == phase[t] = "live" /\ epoch[t] < st.epoch

\* It calls markFailed when a NoReply job is listed again.
Distrusts(t, st) == Accepts(t, st) /\ noReply[t] \cap st.activeJobIDs # {}

\* The status kept by the trackers ts becomes st.
KeepStatus(ts, st) ==
  /\ epoch' = [t \in Tracker |-> IF t \in ts THEN st.epoch ELSE epoch[t]]
  /\ maxNewJobs' = [t \in Tracker |-> IF t \in ts THEN st.maxNewJobs ELSE maxNewJobs[t]]

\* (Mistake: jobs that are being sent are expected in the status.)
MarkNoReplySending(t, st, test) ==
  LET missing == IF Accepts(t, st) THEN (test \cup sending[t]) \ st.activeJobIDs ELSE {}
  IN  \E marked \in SUBSET missing :
        /\ ~ Distrusts(t, st) => marked = missing
        /\ testing' = [testing EXCEPT ![t] = test \ marked]
        /\ noReply' = [noReply EXCEPT ![t] = @ \cup marked]

\* updateStatus iterates over the holders (test: the TestingJobs it finds) and
\* marks as NoReply those that st does not list; it stops at the first NoReply
\* job that is listed, so the order of the iteration decides how many of the
\* others it marked.
MarkNoReply(t, st, test) ==
  LET missing == IF Accepts(t, st) THEN test \ st.activeJobIDs ELSE {}
  IN  \E marked \in SUBSET missing :
        /\ ~ Distrusts(t, st) => marked = missing
        /\ testing' = [testing EXCEPT ![t] = test \ marked]
        /\ noReply' = [noReply EXCEPT ![t] = @ \cup marked]

UpdateStatus(t, st, test) ==
  /\ KeepStatus({x \in {t} : Accepts(x, st)}, st)
  /\ MarkNoReply(t, st, test)
  /\ IF Distrusts(t, st) THEN MarkFailed(t) ELSE UNCHANGED phase

\* ping, when the invoker answered.
PingAnswered(t, st) ==
  /\ phase[t] = "live"
  /\ UpdateStatus(t, st, testing[t])
  /\ UNCHANGED <<queueVars, sending, calls, stops, extracted, mapVars, handlerVars>>

\* ping or ResetCache, when the call failed.
PingFailed(t) ==
  /\ phase[t] = "live"
  /\ MarkFailed(t)
  /\ UNCHANGED <<queueVars, statusVars, holderVars, calls, stops, extracted, mapVars,
                 handlerVars>>

\* completeSendJob panics: "SendingJob unexpectedly changed its status".
SendPanicsOn(t, j) == CurrentID(j) \in testing[t] \cup noReply[t]

\* completeSendJob, when the invoker took the job and answered with a status.
SendAnswered(t, j, st) ==
  /\ <<t, j>> \in calls
  /\ ~ SendPanicsOn(t, j)
  /\ calls' = calls \ {<<t, j>>}
  /\ sending' = [sending EXCEPT ![t] = @ \ {CurrentID(j)}]
  /\ UpdateStatus(t, st, testing[t] \cup (sending[t] \cap {CurrentID(j)}))
  /\ UNCHANGED <<queueVars, stops, extracted, mapVars, handlerVars>>

\* completeSendJob, when the call failed.
SendFailed(t, j) ==
  /\ <<t, j>> \in calls
  /\ calls' = calls \ {<<t, j>>}
  /\ MarkFailed(t)
  /\ UNCHANGED <<queueVars, statusVars, holderVars, stops, extracted, mapVars,
                 handlerVars>>

\* The goroutine of StopJob: nothing to do when the call succeeded.
StopAnswered(t, id) ==
  /\ <<t, id>> \in stops
  /\ stops' = stops \ {<<t, id>>}
  /\ UNCHANGED <<queueVars, phase, statusVars, holderVars, calls, extracted, mapVars,
                 handlerVars>>

StopFailed(t, id) ==
  /\ <<t, id>> \in stops
  /\ stops' = stops \ {<<t, id>>}
  /\ MarkFailed(t)
  /\ UNCHANGED <<queueVars, statusVars, holderVars, calls, extracted, mapVars,
                 handlerVars>>

\* (Mistake: the timer looks for a TestingJob.)
EnsureJobIsTesting(t, id) ==
  /\ phase[t] = "live"
  /\ id \in testing[t]
  /\ MarkFailed(t)
  /\ UNCHANGED <<queueVars, statusVars, holderVars, calls, stops, extracted, mapVars,
                 handlerVars>>

\* The timer LostJobTimeout after a job became NoReply.
EnsureJobIsNotLost(t, id) ==
  /\ phase[t] = "live"
  /\ id \in noReply[t]
  /\ MarkFailed(t)
  /\ UNCHANGED <<queueVars, statusVars, holderVars, calls, stops, extracted, mapVars,
                 handlerVars>>

\* (Mistake: an invoker without jobs is left alone.)
ExtractSomeJobs(t) ==
  /\ phase[t] = "failed"
  /\ Holders(t) # {}
  /\ phase' = [phase EXCEPT ![t] = "extracted"]
  /\ extracted' = [extracted EXCEPT ![t] = Holders(t)]
  /\ sending' = [sending EXCEPT ![t] = {}]
  /\ testing' = [testing EXCEPT ![t] = {}]
  /\ noReply' = [noReply EXCEPT ![t] = {}]
  /\ UNCHANGED <<queueVars, statusVars, calls, stops, mapVars, handlerVars>>

\* OnInvokerFailure, first half: ExtractJobs, before r.mutex is taken.
ExtractJobs(t) ==
  /\ phase[t] = "failed"
  /\ phase' = [phase EXCEPT ![t] = "extracted"]
  /\ extracted' = [extracted EXCEPT ![t] = Holders(t)]
  /\ sending' = [sending EXCEPT ![t] = {}]
  /\ testing' = [testing EXCEPT ![t] = {}]
  /\ noReply' = [noReply EXCEPT ![t] = {}]
  /\ UNCHANGED <<queueVars, statusVars, calls, stops, mapVars, handlerVars>>

----------------------------------------------------------------------------
(* Under r.mutex.                                                          *)

\* f without the key id, as delete(f, id) leaves it.
WithoutKey(f, id) == [x \in DOMAIN f \ {id} |-> f[x]]

\* OnInvokerFailure, second half: r.mutex is taken, ...
LockForRescheduling(t) ==
  /\ phase[t] = "extracted"
  /\ MutexIsFree
  /\ phase' = [phase EXCEPT ![t] = "rescheduling"]
  /\ UNCHANGED <<queueVars, statusVars, holderVars, calls, stops, extracted, mapVars,
                 handlerVars>>

\* (Mistake: a rescheduled job stays in the registry's maps.)
RescheduleWithoutDelete(t, id) ==
  /\ phase[t] = "rescheduling"
  /\ id \in extracted[t]
  /\ extracted' = [extracted EXCEPT ![t] = @ \ {id}]
  /\ IF id \in DOMAIN invokerByJobID THEN RescheduleJob(id) ELSE UNCHANGED queueVars
  /\ UNCHANGED <<phase, statusVars, holderVars, calls, stops, mapVars, handlerVars>>

\* ... the extracted jobs that the registry still knows are rescheduled, ...
RescheduleExtracted(t, id) ==
  /\ phase[t] = "rescheduling"
  /\ id \in extracted[t]
  /\ extracted' = [extracted EXCEPT ![t] = @ \ {id}]
  /\ IF id \in DOMAIN invokerByJobID
     THEN /\ RescheduleJob(id)
          /\ invokerByJobID' = WithoutKey(invokerByJobID, id)
          /\ testingJobs' = testingJobs \ {id}
     ELSE UNCHANGED <<queueVars, invokerByJobID, testingJobs>>
  /\ UNCHANGED <<phase, statusVars, holderVars, calls, stops, invokers, nextJob, sendAt,
                 handlerVars>>

\* ... and the tracker leaves r.invokers.
RemoveInvoker(t) ==
  /\ phase[t] = "rescheduling"
  /\ extracted[t] = {}
  /\ phase' = [phase EXCEPT ![t] = "removed"]
  /\ \E i \in DOMAIN invokers :
       /\ invokers[i] = t
       /\ invokers' = SubSeq(invokers, 1, i-1) \o SubSeq(invokers, i+1, Len(invokers))
  /\ UNCHANGED <<queueVars, statusVars, holderVars, calls, stops, extracted,
                 invokerByJobID, testingJobs, nextJob, sendAt, handlerVars>>

\* The next object newInvoker makes for the address: none when the bound
\* Registrations is reached.
NewTracker(a) ==
  {<<a, n>> : n \in {m \in 1..Registrations :
                       /\ phase[<<a, m>>] = "unborn"
                       /\ \A k \in 1..(m-1) : phase[<<a, k>>] # "unborn"}}

\* (Mistake: a tracker that knows a newer status does not claim its address.)
CurrentTrackersOf(st) == {t \in Elements(invokers) : t[1] = st.address /\ Accepts(t, st)}

\* The trackers of the address of st that are not failed.
CurrentTrackers(st) == {t \in Elements(invokers) : t[1] = st.address /\ phase[t] = "live"}

\* UpsertInvoker(st): the tracker of the address that is not failed after
\* VerifyAndUpdateStatus keeps the status; when there is none, or st just made
\* it fail, a new tracker is made that starts from st as it is.
Upsert(st) ==
  LET current == CurrentTrackers(st)
      distrusting == {t \in current : Distrusts(t, st)}
      born == IF current = distrusting THEN NewTracker(st.address) ELSE {}
  IN  /\ current = distrusting => born # {}
      /\ phase' = [t \in Tracker |-> IF t \in distrusting THEN "failed"
                                     ELSE IF t \in born THEN "live" ELSE phase[t]]
      /\ KeepStatus({t \in current : Accepts(t, st)} \cup born, st)
      /\ \/ \E t \in current : MarkNoReply(t, st, testing[t])
         \/ current = {} /\ UNCHANGED <<testing, noReply>>
      /\ \/ \E t \in born : invokers' = Append(invokers, t)
         \/ born = {} /\ UNCHANGED invokers
      /\ UNCHANGED <<queueVars, sending, calls, stops, extracted, invokerByJobID,
                     testingJobs, nextJob, sendAt>>

\* handleInvokerStatus.
InvokerStatus(st) ==
  /\ MutexIsFree
  /\ Upsert(st)
  /\ UNCHANGED handlerVars

\* HandleInvokerJobResult for a job the registry does not (any more) know: all
\* that remains is its deferred UpsertInvoker, which is InvokerStatus.

\* (Mistake: the job keeps its invoker.)
InvokerJobResultKeepsInvoker(id, good) ==
  LET t == invokerByJobID[id]
      dependent == {other \in testingJobs : id \in requiredJobIDs[other[1]]}
  IN  /\ MutexIsFree
      /\ id \in DOMAIN invokerByJobID
      /\ stops' = IF good THEN stops
                  ELSE stops \cup {<<invokerByJobID[other], other>> : other \in dependent}
      /\ sending' = [sending EXCEPT ![t] = @ \ {id}]
      /\ testing' = [testing EXCEPT ![t] = @ \ {id}]
      /\ noReply' = [noReply EXCEPT ![t] = @ \ {id}]
      /\ upserting' = IF id \in Holders(t) THEN upserting \cup {id} ELSE upserting
      /\ UNCHANGED <<queueVars, phase, statusVars, calls, extracted, mapVars,
                     completing>>

\* HandleInvokerJobResult for a job it knows.  Unless the verdict is OK or PT
\* (good), StopJob is called for every running job that requires this one.  The
\* result is accepted when the tracker still holds the job (JobTested).
InvokerJobResult(id, good) ==
  LET t == invokerByJobID[id]
      dependent == {other \in testingJobs : id \in requiredJobIDs[other[1]]}
  IN  /\ MutexIsFree
      /\ id \in DOMAIN invokerByJobID
      /\ stops' = IF good THEN stops
                  ELSE stops \cup {<<invokerByJobID[other], other>> : other \in dependent}
      /\ invokerByJobID' = WithoutKey(invokerByJobID, id)
      /\ testingJobs' = testingJobs \ {id}
      /\ sending' = [sending EXCEPT ![t] = @ \ {id}]
      /\ testing' = [testing EXCEPT ![t] = @ \ {id}]
      /\ noReply' = [noReply EXCEPT ![t] = @ \ {id}]
      /\ upserting' = IF id \in Holders(t) THEN upserting \cup {id} ELSE upserting
      /\ UNCHANGED <<queueVars, phase, statusVars, calls, extracted, invokers, nextJob,
                     sendAt, completing>>

\* The deferred UpsertInvoker of an accepted result, ...
UpsertAfterResult(id, st) ==
  /\ MutexIsFree
  /\ id \in upserting
  /\ Upsert(st)
  /\ upserting' = upserting \ {id}
  /\ completing' = completing \cup {id}

\* ... and then handleInvokerJobResult passes it to the queue.  The SendJobs
\* that follows is not different from the periodic one.
CompleteJob(id) ==
  /\ id \in completing
  /\ JobCompleted(id)
  /\ completing' = completing \ {id}
  /\ UNCHANGED <<phase, statusVars, holderVars, calls, stops, extracted, mapVars,
                 upserting>>

\* handleNewSubmission, as far as queue.Submit.
NewSubmission(s) == Submit(s) /\ UNCHANGED registryVars

----------------------------------------------------------------------------
(* SendJobs, called by sendingJobsLoop and by the handlers, under r.mutex.  *)

SendJobs ==
  /\ MutexIsFree
  /\ invokers # <<>>
  /\ sendAt' = 1
  /\ UNCHANGED <<queueVars, phase, statusVars, holderVars, calls, stops, extracted,
                 invokers, invokerByJobID, testingJobs, nextJob, handlerVars>>

\* r.nextJob is nil: ask the queue, and return when it has nothing.
FetchNextJob ==
  /\ sendAt > 0
  /\ nextJob = NoJob
  /\ \E j \in Job \cup {NoJob} :
       /\ NextJob(j)
       /\ nextJob' = j
       /\ sendAt' = IF j = NoJob THEN 0 ELSE sendAt
  /\ UNCHANGED <<phase, statusVars, holderVars, calls, stops, extracted, invokers,
                 invokerByJobID, testingJobs, handlerVars>>

\* (Mistake: the job about to be sent is not counted.)
CanSendOneMore(t) == phase[t] = "live" /\ Cardinality(sending[t]) <= maxNewJobs[t]

\* TrySendJob takes the job: the invoker said it can take one more than is
\* being sent to it already.
CanSend(t) == phase[t] = "live" /\ Cardinality(sending[t]) + 1 <= maxNewJobs[t]

SendNextJob ==
  LET t == invokers[sendAt]
      id == CurrentID(nextJob)
  IN  /\ sendAt > 0
      /\ nextJob # NoJob
      /\ CanSend(t)
      /\ sending' = [sending EXCEPT ![t] = @ \cup {id}]
      /\ calls' = calls \cup {<<t, nextJob>>}
      /\ invokerByJobID' = [x \in DOMAIN invokerByJobID \cup {id} |->
                              IF x = id THEN t ELSE invokerByJobID[x]]
      /\ testingJobs' = testingJobs \cup {id}
      /\ nextJob' = NoJob
      /\ UNCHANGED <<queueVars, phase, statusVars, testing, noReply, stops, extracted,
                     invokers, sendAt, handlerVars>>

\* TrySendJob refuses: the same job is tried on the next invoker of the list.
TryNextInvoker ==
  /\ sendAt > 0
  /\ nextJob # NoJob
  /\ ~ CanSend(invokers[sendAt])
  /\ sendAt' = IF sendAt < Len(invokers) THEN sendAt + 1 ELSE 0
  /\ UNCHANGED <<queueVars, phase, statusVars, holderVars, calls, stops, extracted,
                 invokers, invokerByJobID, testingJobs, nextJob, handlerVars>>

----------------------------------------------------------------------------
(* The registry among invokers that may say anything at any time.  The IDs  *)
(* they can name are those the master minted.                              *)

Minted == UNION {{j} \X (0..idNumber[j]) : j \in Job}

\* A status may list any IDs, but the registry looks only for those of the jobs that
\* a tracker holds (updateStatus): the others are left out.
Held == UNION {Holders(t) : t \in Tracker}

AnyStatus == [address : Address, epoch : Epoch, activeJobIDs : SUBSET Held,
              maxNewJobs : Capacity]

TrackerNext(t) ==
  \/ PingFailed(t)
  \/ ExtractJobs(t)
  \/ LockForRescheduling(t)
  \/ RemoveInvoker(t)
  \/ \E id \in extracted[t] : RescheduleExtracted(t, id)
  \/ \E id \in noReply[t] : EnsureJobIsNotLost(t, id)
  \/ \E st \in AnyStatus : st.address = t[1] /\ PingAnswered(t, st)

CallNext ==
  \/ \E c \in calls :
       \/ SendFailed(c[1], c[2])
       \/ \E st \in AnyStatus : st.address = c[1][1] /\ SendAnswered(c[1], c[2], st)
  \/ \E c \in stops : StopAnswered(c[1], c[2]) \/ StopFailed(c[1], c[2])

HandlerNext ==
  \/ \E s \in Submission : NewSubmission(s)
  \/ \E st \in AnyStatus : InvokerStatus(st)
  \/ \E id \in Minted, good \in BOOLEAN : InvokerJobResult(id, good)
  \/ \E id \in upserting, st \in AnyStatus : UpsertAfterResult(id, st)
  \/ \E id \in completing : CompleteJob(id)

SendNext == SendJobs \/ FetchNextJob \/ SendNextJob \/ TryNextInvoker

Next == (\E t \in Tracker : TrackerNext(t)) \/ CallNext \/ HandlerNext \/ SendNext

Spec == Init /\ [][Next]_vars

----------------------------------------------------------------------------
(* Correctness.                                                             *)

RegistryTypeOK ==
  /\ phase \in [Tracker -> Phase]
  /\ epoch \in [Tracker -> Nat] /\ maxNewJobs \in [Tracker -> Nat]
  /\ sending \in [Tracker -> SUBSET JobID]
  /\ testing \in [Tracker -> SUBSET JobID]
  /\ noReply \in [Tracker -> SUBSET JobID]
  /\ extracted \in [Tracker -> SUBSET JobID]
  /\ calls \subseteq Tracker \X Job /\ stops \subseteq Tracker \X JobID
  /\ invokers \in Seq(Tracker)
  /\ DOMAIN invokerByJobID \subseteq JobID
  /\ invokerByJobID \in [DOMAIN invokerByJobID -> Tracker]
  /\ testingJobs \subseteq JobID
  /\ nextJob \in Job \cup {NoJob}
  /\ sendAt \in 0..Len(invokers)
  /\ upserting \subseteq JobID /\ completing \subseteq JobID

\* Every variable keeps its type; the index of SendJobs stays inside r.invokers,
\* which the loop reads without a check.
TypeOK == QueueTypeOK /\ RegistryTypeOK

\* Where a job that was handed out can be.
IsWaiting(j) == nextJob = j \/ j \in Elements(newFailedJobs)
IsAssigned(j) == CurrentID(j) \in DOMAIN invokerByJobID
IsAccepted(j) == CurrentID(j) \in upserting \cup completing

\* No job is in two places at once: it waits to be sent (at most once), or is
\* assigned to an invoker, or its result was accepted.  A job in two places would
\* be run, or its result counted, twice.
JobIsInOnePlace ==
  /\ \A j \in Job : /\ ~ (IsWaiting(j) /\ IsAssigned(j))
                    /\ ~ (IsWaiting(j) /\ IsAccepted(j))
                    /\ ~ (IsAssigned(j) /\ IsAccepted(j))
                    /\ ~ (nextJob = j /\ j \in Elements(newFailedJobs))
  /\ \A i, k \in DOMAIN newFailedJobs : newFailedJobs[i] = newFailedJobs[k] => i = k
  /\ upserting \cap completing = {}

\* A result the registry accepted is always one the queue and the generator
\* still wait for, whatever was rescheduled meanwhile: JobCompleted answers
\* neither "no job with id" nor with a panic of the queue or of the generator.
AcceptedResultIsAwaited ==
  \A id \in upserting \cup completing : IsKnownID(id) /\ id[1] \in givenJobs

\* None of the master's consistency panics can be reached: a job changing its
\* type while being sent, a running job without an invoker, a renamed job the
\* queue does not know.
NoPanic ==
  /\ \A c \in calls : ~ SendPanicsOn(c[1], c[2])
  /\ testingJobs = DOMAIN invokerByJobID
  /\ \A id \in DOMAIN invokerByJobID \cup upserting \cup completing :
       IsKnownID(id) /\ ~ QueuePanicsOn(id)

\* The trackers' holders and the registry's maps tell the same story: a job
\* held by a tracker is assigned to it, and a job assigned to a tracker is
\* held by it until its OnInvokerFailure extracts (and then reschedules) it.
HoldersMatchAssignments ==
  \A t \in Tracker :
    /\ \A id \in Holders(t) : id \in DOMAIN invokerByJobID /\ invokerByJobID[id] = t
    /\ \A id \in DOMAIN invokerByJobID :
         invokerByJobID[id] = t => id \in Holders(t) \cup extracted[t]

\* An invoker process is never tracked twice at the same time: jobs would be
\* sent to it on the strength of two counts.  A live tracker can be found.
OneTrackerPerAddress ==
  /\ \A t, u \in Tracker :
       phase[t] = "live" /\ phase[u] = "live" /\ t[1] = u[1] => t = u
  /\ \A t \in Tracker : phase[t] = "live" => t \in Elements(invokers)

\* "each job should be completed or rescheduled" (queue/interface.go:33): a job
\* the queue handed out is waiting, assigned or accepted.
NoLostJob ==
  \A j \in originalJobIDToJob : IsWaiting(j) \/ IsAssigned(j) \/ IsAccepted(j)

\* The ledger of module JobLedger that the queue and the registry keep.
ledgerOf == [j \in Job |->
  IF j \in toGive \/ j[1] \notin submitted THEN "new"
  ELSE IF j \notin originalJobIDToJob THEN "done"
  ELSE IF IsWaiting(j) THEN "waiting"
  ELSE IF IsAccepted(j) THEN "accepted"
  ELSE "running"]

Ledger == INSTANCE JobLedger WITH ledger <- ledgerOf

\* The registry and the queue implement the ledger: no step hands a job out
\* again unless its invoker failed, and no result is counted twice.
KeepsLedger == Ledger!Spec
=============================================================================
