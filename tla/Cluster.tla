------------------------------ MODULE Cluster ------------------------------
(***************************************************************************)
(* The master's registry and queue composed with the invoker processes     *)
(* (invoker/handler.go, pipeline.go, invoker.go) and the HTTP calls        *)
(* between them.                                                           *)
(*                                                                         *)
(* A status is what getStatus saw: snapshots[a][e] is Invoker.ActiveJobs   *)
(* when the e-th status of address a was made, and e is its epoch.  A      *)
(* status travels in the answer to a ping or to NewJob, in a job result or *)
(* in a push of the invoker's status loop, each over its own connection,   *)
(* so any of them may be overtaken by later ones: pings and pushes may     *)
(* deliver every status ever made, at any time, repeatedly.                *)
(*                                                                         *)
(* A pipeline is one accepted /job/new request being executed; it is named *)
(* by the call of completeSendJob that sent it.                            *)
(***************************************************************************)
EXTENDS Registry

CONSTANTS
  MaxJobs,      \* Invoker.MaxJobs: QueueSize + Sandboxes
  MaxStatuses,  \* bound: an address that made so many statuses makes no more
                \* than those of its NewJob answers and results
  MaxEpoch,     \* bound: statuses an address makes at all
  MaxFaults     \* bound: calls and results lost, processes restarted

ASSUME ClusterAssumption == /\ MaxJobs \in Nat
                            /\ MaxStatuses \in Nat
                            /\ MaxEpoch \in Nat
                            /\ MaxFaults \in Nat

\* The statuses of real processes are among those the registry is ready for.
ASSUME StatusAssumption == 1..MaxEpoch \subseteq Epoch /\ 0..MaxJobs \subseteq Capacity

VARIABLES
  snapshots,    \* the statuses each address made
  activeJobs,   \* Invoker.ActiveJobs of each address
  requests,     \* /job/new requests: [call, stage, id, epoch]
  pipelines,    \* jobs in the executors: [call, id]
  results,      \* job results to upload: [id, address, epoch], epoch 0 at first
  carried,      \* status carried by an accepted result: [id, address, epoch]
  faults        \* faults so far

processVars == <<snapshots, activeJobs, requests, pipelines, results, carried, faults>>
clusterVars == <<vars, processVars>>

StatusOf(a, e) ==
  LET busy == Cardinality(snapshots[a][e])
  IN  [address |-> a, epoch |-> e, activeJobIDs |-> snapshots[a][e],
       maxNewJobs |-> IF busy > MaxJobs THEN 0 ELSE MaxJobs - busy]

StatusesOf(a) == {StatusOf(a, e) : e \in DOMAIN snapshots[a]}

ClusterInit ==
  /\ Init
  /\ snapshots = [a \in Address |-> <<>>]
  /\ activeJobs = [a \in Address |-> {}]
  /\ requests = {}
  /\ pipelines = {}
  /\ results = {}
  /\ carried = {}
  /\ faults = 0

Fault == faults < MaxFaults /\ faults' = faults + 1

AddressOf(call) == call[1][1]

----------------------------------------------------------------------------
(* The invoker process at address a.                                        *)

\* getStatus of a process whose ActiveJobs are active.
MakeStatus(a, active) ==
  /\ Len(snapshots[a]) < MaxEpoch
  /\ snapshots' = [snapshots EXCEPT ![a] = Append(@, active)]

\* handleStatus, or one turn of runStatusLoop: the status is delivered by
\* DeliverPing or DeliverPush.
MakeOwnStatus(a) ==
  /\ Len(snapshots[a]) < MaxStatuses
  /\ MakeStatus(a, activeJobs[a])
  /\ UNCHANGED <<vars, activeJobs, requests, pipelines, results, carried, faults>>

\* handleNewJob, until the job is in SandboxThreads.  The request was written
\* by completeSendJob without the queue's lock, so it may carry any ID the job
\* object had since it was given to TrySendJob.
AcceptNewJob(r) ==
  /\ r \in requests /\ r.stage = "sent"
  /\ \E n \in r.id[2]..idNumber[r.id[1]] :
       /\ requests' = (requests \ {r}) \cup
                        {[r EXCEPT !.stage = "queued", !.id = <<r.id[1], n>>]}
       /\ pipelines' = pipelines \cup {[call |-> r.call, id |-> <<r.id[1], n>>]}
  /\ UNCHANGED <<vars, snapshots, activeJobs, results, carried, faults>>

\* handleNewJob: ActiveJobs[job.ID] = job, after the job may already be over.
RegisterActiveJob(r) ==
  /\ r \in requests /\ r.stage = "queued"
  /\ activeJobs' = [activeJobs EXCEPT ![AddressOf(r.call)] = @ \cup {r.id}]
  /\ requests' = (requests \ {r}) \cup {[r EXCEPT !.stage = "registered"]}
  /\ UNCHANGED <<vars, snapshots, pipelines, results, carried, faults>>

\* handleNewJob: the answer is the status of this moment.
AnswerNewJob(r) ==
  LET a == AddressOf(r.call)
  IN  /\ r \in requests /\ r.stage = "registered"
      /\ MakeStatus(a, activeJobs[a])
      /\ requests' = (requests \ {r}) \cup
                       {[r EXCEPT !.stage = "answered", !.epoch = Len(snapshots'[a])]}
      /\ UNCHANGED <<vars, activeJobs, pipelines, results, carried, faults>>

\* The pipeline ends, stopped or not, and finish() takes the job out of
\* ActiveJobs, ...
FinishJob(p) ==
  LET a == AddressOf(p.call)
  IN  /\ p \in pipelines
      /\ pipelines' = pipelines \ {p}
      /\ activeJobs' = [activeJobs EXCEPT ![a] = @ \ {p.id}]
      /\ results' = results \cup {[id |-> p.id, address |-> a, epoch |-> 0]}
      /\ UNCHANGED <<vars, snapshots, requests, carried, faults>>

\* ... and then failJob or successJob makes a status and uploads it with the
\* result.
UploadResult(r) ==
  /\ r \in results /\ r.epoch = 0
  /\ MakeStatus(r.address, activeJobs[r.address])
  /\ results' = (results \ {r}) \cup {[r EXCEPT !.epoch = Len(snapshots'[r.address])]}
  /\ UNCHANGED <<vars, activeJobs, requests, pipelines, carried, faults>>

\* The process dies, with the jobs it runs and some of the results it uploads,
\* and is started again at the same address.
Restart(a) ==
  /\ Fault
  /\ activeJobs' = [activeJobs EXCEPT ![a] = {}]
  /\ pipelines' = {p \in pipelines : AddressOf(p.call) # a}
  /\ requests' = {r \in requests : AddressOf(r.call) # a}
  /\ \E sent \in SUBSET {r \in results : r.epoch > 0} :
       results' = sent \cup {r \in results : r.address # a}
  /\ UNCHANGED <<vars, snapshots, carried>>

----------------------------------------------------------------------------
(* The calls between master and invokers.                                   *)

DeliverPing(t) ==
  /\ \E st \in StatusesOf(t[1]) : PingAnswered(t, st)
  /\ UNCHANGED processVars

DeliverPush(a) ==
  /\ \E st \in StatusesOf(a) : InvokerStatus(st)
  /\ UNCHANGED processVars

LosePing(t) ==
  /\ PingFailed(t)
  /\ Fault
  /\ UNCHANGED <<snapshots, activeJobs, requests, pipelines, results, carried>>

\* TrySendJob starts completeSendJob, whose request is on its way at once.
SendRequest ==
  /\ SendNextJob
  /\ requests' = requests \cup {[call |-> <<invokers[sendAt], nextJob>>, stage |-> "sent",
                                 id |-> CurrentID(nextJob), epoch |-> 0]}
  /\ UNCHANGED <<snapshots, activeJobs, pipelines, results, carried, faults>>

DeliverAnswer(r) ==
  /\ r \in requests /\ r.stage = "answered"
  /\ SendAnswered(r.call[1], r.call[2], StatusOf(AddressOf(r.call), r.epoch))
  /\ requests' = requests \ {r}
  /\ UNCHANGED <<snapshots, activeJobs, pipelines, results, carried, faults>>

\* The call fails because the process is gone with it, ...
CallRefused(c) ==
  /\ \A r \in requests : r.call # c
  /\ SendFailed(c[1], c[2])
  /\ UNCHANGED processVars

\* (Mistake: the error of the call is ignored.)
CallLostIgnored(r) ==
  /\ r \in requests
  /\ r.call \in calls
  /\ calls' = calls \ {r.call}
  /\ sending' = [sending EXCEPT ![r.call[1]] = @ \ {r.id}]
  /\ Fault
  /\ requests' = requests \ {r}
  /\ UNCHANGED <<queueVars, phase, statusVars, testing, noReply, stops, extracted, mapVars,
                 handlerVars, snapshots, activeJobs, pipelines, results, carried>>

\* ... or because the request or its answer is lost, the process continuing
\* with what it received.
CallLost(r) ==
  /\ r \in requests
  /\ SendFailed(r.call[1], r.call[2])
  /\ Fault
  /\ requests' \in {requests, requests \ {r}}
  /\ r.stage = "answered" => requests' = requests \ {r}
  /\ r.stage \in {"queued", "registered"} => requests' = requests
  /\ UNCHANGED <<snapshots, activeJobs, pipelines, results, carried>>

\* Nobody waits for this answer any more.
DropAnswer(r) ==
  /\ r \in requests /\ r.stage = "answered" /\ r.call \notin calls
  /\ requests' = requests \ {r}
  /\ UNCHANGED <<vars, snapshots, activeJobs, pipelines, results, carried, faults>>

StopJobCall(c) ==
  \/ StopAnswered(c[1], c[2]) /\ UNCHANGED processVars
  \/ /\ StopFailed(c[1], c[2]) /\ Fault
     /\ UNCHANGED <<snapshots, activeJobs, requests, pipelines, results, carried>>

\* The verdict of a result, which the pipeline gave it, is chosen when it comes
\* in.  The status of a result that is not accepted is one more push.
DeliverResult(r) ==
  /\ r \in results /\ r.epoch > 0
  /\ results' = results \ {r}
  /\ IF r.id \in DOMAIN invokerByJobID
     THEN /\ \E good \in BOOLEAN : InvokerJobResult(r.id, good)
          /\ carried' = carried \cup
               {[id |-> id, address |-> r.address, epoch |-> r.epoch] : id \in upserting' \ upserting}
     ELSE MutexIsFree /\ UNCHANGED <<vars, carried>>
  /\ UNCHANGED <<snapshots, activeJobs, requests, pipelines, faults>>

UpsertCarried(c) ==
  /\ c \in carried
  /\ UpsertAfterResult(c.id, StatusOf(c.address, c.epoch))
  /\ carried' = carried \ {c}
  /\ UNCHANGED <<snapshots, activeJobs, requests, pipelines, results, faults>>

LoseResult(r) ==
  /\ r \in results /\ r.epoch > 0
  /\ results' = results \ {r}
  /\ Fault
  /\ UNCHANGED <<vars, snapshots, activeJobs, requests, pipelines, carried>>

\* LostJobTimeout passes.  That it passes before the result, which is on its
\* way or not even being uploaded, comes in is a fault too.
LostJobTimer(t, id) ==
  /\ EnsureJobIsNotLost(t, id)
  /\ IF \E r \in results : r.id = id THEN Fault ELSE UNCHANGED faults
  /\ UNCHANGED <<snapshots, activeJobs, requests, pipelines, results, carried>>

----------------------------------------------------------------------------
(* The whole system.                                                        *)

\* Steps of the master that involve no invoker process.
FailureHandling(t) ==
  ExtractJobs(t) \/ LockForRescheduling(t) \/ RemoveInvoker(t)
    \/ \E id \in extracted[t] : RescheduleExtracted(t, id)

MasterNext ==
  /\ \/ \E s \in Submission : NewSubmission(s)
     \/ \E id \in completing : CompleteJob(id)
     \/ \E t \in Tracker : FailureHandling(t)
     \/ SendJobs \/ FetchNextJob \/ TryNextInvoker
  /\ UNCHANGED processVars

ProcessNext ==
  \/ \E a \in Address : MakeOwnStatus(a) \/ Restart(a)
  \/ \E r \in requests : AcceptNewJob(r) \/ RegisterActiveJob(r) \/ AnswerNewJob(r)
  \/ \E p \in pipelines : FinishJob(p)
  \/ \E r \in results : UploadResult(r)

NetworkNext ==
  \/ \E t \in Tracker : DeliverPing(t) \/ LosePing(t) \/ \E id \in noReply[t] : LostJobTimer(t, id)
  \/ \E a \in Address : DeliverPush(a)
  \/ SendRequest
  \/ \E r \in requests : DeliverAnswer(r) \/ CallLost(r) \/ DropAnswer(r)
  \/ \E c \in calls : CallRefused(c)
  \/ \E c \in stops : StopJobCall(c)
  \/ \E r \in results : DeliverResult(r) \/ LoseResult(r)
  \/ \E c \in carried : UpsertCarried(c)

ClusterNext == MasterNext \/ ProcessNext \/ NetworkNext

ClusterSpec == ClusterInit /\ [][ClusterNext]_clusterVars

\* Clients do submit; every goroutine of the master and of the invokers that
\* can go on does (r.mutex, which others keep taking, is obtained in the end:
\* strong fairness); calls end; sendingJobsLoop and runStatusLoop run for ever,
\* so a process that is not registered is registered.  Faults, and the repeated
\* or delayed delivery of statuses, need not happen.
Master(action) == action /\ UNCHANGED processVars

Fairness ==
  /\ \A s \in Submission : WF_clusterVars(Master(NewSubmission(s)))
  /\ \A j \in Job : WF_clusterVars(Master(CompleteJob(CurrentID(j))))
  /\ SF_clusterVars(Master(SendJobs))
  /\ WF_clusterVars(Master(FetchNextJob \/ TryNextInvoker) \/ SendRequest)
  /\ \A t \in Tracker : SF_clusterVars(Master(FailureHandling(t)))
  /\ \A t \in Tracker : WF_clusterVars(\E id \in noReply[t] : LostJobTimer(t, id))
  /\ WF_clusterVars(\E r \in requests : AcceptNewJob(r) \/ RegisterActiveJob(r) \/ AnswerNewJob(r))
  /\ WF_clusterVars(\E p \in pipelines : FinishJob(p))
  /\ WF_clusterVars(\E r \in results : UploadResult(r))
  /\ WF_clusterVars(\E r \in requests : DeliverAnswer(r) \/ DropAnswer(r))
  /\ WF_clusterVars(\E c \in calls : CallRefused(c))
  /\ WF_clusterVars(\E c \in stops : Master(StopAnswered(c[1], c[2])))
  /\ SF_clusterVars(\E r \in results : DeliverResult(r))
  /\ SF_clusterVars(\E c \in carried : UpsertCarried(c))
  /\ \A a \in Address : /\ WF_clusterVars(MakeOwnStatus(a))
                        /\ SF_clusterVars(DeliverPush(a))

LiveSpec == ClusterSpec /\ Fairness

\* The registry among real invoker processes is the registry among invokers
\* that may say anything: what holds in module Registry holds here.
ImplementsRegistry == Spec

\* A NoReply job "is tested, but not verified" (registry/invoker.go:20).  Of the first
\* tracker of a process: no delayed or reordered status makes the master believe
\* that a job disappeared while it runs.  (A second one may be handed the job while
\* the request of the first still runs under the same ID.)
NoFalseDisappearance ==
  \A t \in Tracker : phase[t] = "live" /\ t[2] = 1 =>
    \A p \in pipelines : p.call[1] = t => p.id \notin noReply[t]

\* The master never overloads a process that was not registered twice: of the jobs
\* that its first tracker holds, those on their way to it and those it runs are not
\* more than MaxJobs, though the room it reports and the answers that say it took a
\* job come in any order.  (What is not held is not counted: a job that another
\* process ran to the end under this ID, see AcceptNewJob, may still be here.)
NotOverloaded ==
  \A t \in Tracker : phase[t] = "live" /\ t[2] = 1 =>
    Cardinality({p \in pipelines : p.call[1] = t /\ p.id \in Holders(t)})
      + Cardinality({r \in requests : r.call[1] = t /\ r.stage = "sent" /\ r.id \in Holders(t)})
        <= MaxJobs

\* While nothing fails every submission is tested to the end, however statuses,
\* answers and results overtake each other.
EverySubmissionFinishes == \A s \in Submission : <>(s \in finished)

\* A tracker that failed is taken out of the registry, its jobs being handled,
\* though SendJobs and the handlers keep taking r.mutex.
FailedTrackerIsRemoved ==
  \A t \in Tracker : phase[t] = "failed" ~> phase[t] = "removed"

\* A tracker does not wait for ever for the result of a job that disappeared:
\* the result comes in, or the tracker is failed and the job handed out again.
NoReplyEnds ==
  \A t \in Tracker, j \in Job :
    <<j, 0>> \in noReply[t] ~> <<j, 0>> \notin noReply[t]
=============================================================================
