---------------------------- MODULE HolderProofs ----------------------------
(***************************************************************************)
(* Proofs about module Registry: the trackers and the registry agree on    *)
(* who runs which job, an invoker process has one live tracker, no         *)
(* consistency panic of the master is reachable, and registry and queue    *)
(* implement JobLedger, for any number of submissions, tests, invokers and *)
(* registrations.                                                          *)
(***************************************************************************)
EXTENDS RegistryProofs

\* OnInvokerFailure did not extract the jobs of the tracker yet.
Early == {"unborn", "live", "failed"}

\* A tracker has its jobs as holders and later as extracted ones, never both.
HolderInv ==
  /\ HoldersMatchAssignments
  /\ \A t \in Tracker : \A id \in extracted[t] :
       id \in DOMAIN invokerByJobID => invokerByJobID[id] = t
  /\ \A t \in Tracker : phase[t] \in Early => extracted[t] = {}
  /\ \A t \in Tracker : phase[t] \notin Early => Holders(t) = {}

\* The job of this ID was handed out under it, so unless it was renamed it does
\* not wait to be sent under it.
WasSent(id) ==
  /\ id \in JobID
  /\ id[1] \notin toGive /\ id[1][1] \in submitted
  /\ id[2] <= idNumber[id[1]]
  /\ id[2] = idNumber[id[1]] => ~ IsWaiting(id[1])

ExtractedInv == \A t \in Tracker : \A id \in extracted[t] : WasSent(id)

SendsInv == \A c \in calls : ~ SendPanicsOn(c[1], c[2])

HInv == HolderInv /\ ExtractedInv /\ SendsInv

----------------------------------------------------------------------------
(* A job that was sent under an ID is never waiting to be sent under it.    *)

LEMMA SameSent ==
  ASSUME NEW id, WasSent(id), UNCHANGED <<submitted, toGive, idNumber, newFailedJobs, nextJob>>
  PROVE  WasSent(id)'
  BY DEF WasSent, IsWaiting, Elements

LEMMA NewSubmissionSent ==
  ASSUME NEW id, WasSent(id), NEW s \in Submission, NewSubmission(s) PROVE WasSent(id)'
  <1>1. /\ s \notin submitted /\ submitted' = submitted \cup {s}
        /\ toGive' = toGive \cup JobsOf(s)
        /\ UNCHANGED <<idNumber, newFailedJobs, nextJob>>
    BY DEF NewSubmission, Submit, registryVars, mapVars
  <1>2. \A j \in JobsOf(s) : j[1] = s
    BY DEF JobsOf
  <1>3. QED
    BY <1>1, <1>2 DEF WasSent, IsWaiting, Elements

LEMMA CompleteJobSent ==
  ASSUME NEW id, WasSent(id), NEW x, CompleteJob(x) PROVE WasSent(id)'
  <1>1. /\ toGive' \subseteq toGive
        /\ UNCHANGED <<submitted, idNumber, newFailedJobs, nextJob>>
    BY DEF CompleteJob, JobCompleted, GeneratorJobCompleted, mapVars
  <1>2. QED
    BY <1>1 DEF WasSent, IsWaiting, Elements

LEMMA SendNextJobSent ==
  ASSUME NEW id, WasSent(id), SendNextJob PROVE WasSent(id)'
  <1>1. nextJob' = NoJob /\ UNCHANGED queueVars
    BY DEF SendNextJob
  <1>2. id[1] \in Job /\ NoJob \notin Job
    BY QueueAssumption DEF WasSent, JobID
  <1>3. IsWaiting(id[1])' => IsWaiting(id[1])
    BY <1>1, <1>2 DEF IsWaiting, Elements, queueVars
  <1>4. QED
    BY <1>1, <1>3 DEF WasSent, queueVars

LEMMA FetchNextJobSent ==
  ASSUME Inv, NEW id, WasSent(id), FetchNextJob PROVE WasSent(id)'
  <1>1. PICK j \in Job \cup {NoJob} : NextJob(j) /\ nextJob' = j
    BY DEF FetchNextJob
  <1>2. UNCHANGED <<submitted, idNumber>> /\ toGive' \subseteq toGive /\ nextJob = NoJob
    BY <1>1 DEF FetchNextJob, NextJob, NextFailedJob, NextNewJob, GeneratorGives, NoNextJob
  <1>3. id[1] \in Job \ toGive
    BY DEF WasSent, JobID
  <1>4. IsWaiting(id[1])' => IsWaiting(id[1])
    <2>1. CASE NextFailedJob(j)
      <3>1. newFailedJobs # <<>> /\ j = Head(newFailedJobs) /\ newFailedJobs' = Tail(newFailedJobs)
        BY <2>1 DEF NextFailedJob
      <3>2. newFailedJobs \in Seq(Job)
        BY DEF Inv, TypeInv, TypeOK, QueueTypeOK
      <3>3. \A a, b \in DOMAIN newFailedJobs : newFailedJobs[a] = newFailedJobs[b] => a = b
        BY DEF Inv, JobIsInOnePlace
      <3>4. Elements(newFailedJobs') \cup {j} \subseteq Elements(newFailedJobs)
        BY <3>1, <3>2, <3>3, ElementsOfTail
      <3>5. Elements(newFailedJobs)' \cup {j} \subseteq Elements(newFailedJobs)
        BY <3>4 DEF Elements
      <3>6. QED
        BY <1>1, <3>5 DEF IsWaiting
    <2>2. CASE NextNewJob(j)
      <3>1. j \in toGive /\ UNCHANGED newFailedJobs
        BY <2>2 DEF NextNewJob, GeneratorGives
      <3>2. QED
        BY <1>1, <1>3, <3>1 DEF IsWaiting, Elements
    <2>3. CASE j = NoJob /\ NoNextJob
      BY <1>1, <1>2, <2>3 DEF IsWaiting, Elements, NoNextJob
    <2>4. QED
      BY <1>1, <2>1, <2>2, <2>3 DEF NextJob
  <1>5. QED
    BY <1>2, <1>4 DEF WasSent

\* A job that is rescheduled waits under a new ID.
LEMMA RescheduleSent ==
  ASSUME Inv, NEW id, WasSent(id), NEW t, NEW x, RescheduleExtracted(t, x) PROVE WasSent(id)'
  <1>1. CASE x \notin DOMAIN invokerByJobID
    BY <1>1, SameSent DEF RescheduleExtracted, queueVars
  <1>2. CASE x \in DOMAIN invokerByJobID
    <2>. DEFINE j == x[1]
    <2>1. /\ idNumber' = [idNumber EXCEPT ![j] = @ + 1]
          /\ newFailedJobs' = Append(newFailedJobs, j)
          /\ UNCHANGED <<submitted, toGive, nextJob>>
      BY <1>2 DEF RescheduleExtracted, RescheduleJob
    <2>2. j \in Job
      BY <1>2, IDIsCurrent
    <2>3. /\ idNumber'[j] = idNumber[j] + 1 /\ idNumber[j] \in Nat
          /\ \A k \in Job \ {j} : idNumber'[k] = idNumber[k]
      BY <2>1, <2>2 DEF Inv, TypeInv, TypeOK, QueueTypeOK
    <2>4. Elements(newFailedJobs') = Elements(newFailedJobs) \cup {j}
      BY <2>1, <2>2, ElementsOfAppend DEF Inv, TypeInv, TypeOK, QueueTypeOK
    <2>5. Elements(newFailedJobs)' = Elements(newFailedJobs) \cup {j}
      BY <2>4 DEF Elements
    <2>6. id[1] \in Job /\ id[2] \in Nat
      BY DEF WasSent, JobID
    <2>. HIDE DEF j
    <2>7. CASE id[1] = j
      <3>1. id[2] <= idNumber[j]
        BY <2>7 DEF WasSent
      <3>2. id[2] <= idNumber'[j] /\ id[2] # idNumber'[j]
        BY <2>3, <2>6, <3>1
      <3>3. QED
        BY <2>1, <2>7, <3>2 DEF WasSent
    <2>8. CASE id[1] # j
      <3>1. IsWaiting(id[1])' => IsWaiting(id[1])
        BY <2>1, <2>5, <2>8 DEF IsWaiting
      <3>2. QED
        BY <2>1, <2>3, <2>6, <2>8, <3>1 DEF WasSent
    <2>9. QED
      BY <2>7, <2>8
  <1>3. QED
    BY <1>1, <1>2

----------------------------------------------------------------------------
(* Steps that move no job between holders.                                  *)

LEMMA SameHolders ==
  ASSUME HInv, UNCHANGED <<queueVars, sending, extracted, invokerByJobID, nextJob>>,
         TypeInv, calls' \subseteq calls,
         \A t \in Tracker : testing'[t] \cup noReply'[t] = testing[t] \cup noReply[t],
         \A t \in Tracker : phase'[t] \in Early <=> phase[t] \in Early
  PROVE  HInv'
  <1>1. \A t \in Tracker : Holders(t)' = Holders(t)
    BY DEF Holders
  <1>2. HolderInv'
    BY <1>1 DEF HInv, HolderInv, HoldersMatchAssignments
  <1>3. ExtractedInv'
    BY DEF HInv, ExtractedInv, WasSent, IsWaiting, queueVars
  <1>4. SendsInv'
    <2>1. \A c \in calls : c[1] \in Tracker
      BY DEF TypeInv, TypeOK, RegistryTypeOK
    <2>2. QED
      BY <2>1 DEF HInv, SendsInv, SendPanicsOn, CurrentID, queueVars
  <1>5. QED
    BY <1>2, <1>3, <1>4 DEF HInv

LEMMA QueueStep ==
  ASSUME HInv,
         UNCHANGED <<idNumber, phase, holderVars, extracted, invokerByJobID, calls>>,
         \A t \in Tracker : \A id \in extracted[t] : WasSent(id) => WasSent(id)'
  PROVE  HInv'
  <1>1. \A t \in Tracker : Holders(t)' = Holders(t)
    BY DEF Holders, holderVars
  <1>2. HolderInv'
    BY <1>1 DEF HInv, HolderInv, HoldersMatchAssignments
  <1>3. ExtractedInv'
    BY DEF HInv, ExtractedInv
  <1>4. SendsInv'
    BY DEF HInv, SendsInv, SendPanicsOn, CurrentID, holderVars
  <1>5. QED
    BY <1>2, <1>3, <1>4 DEF HInv

LEMMA MarkNoReplyHolders ==
  ASSUME RegistryTypeOK, NEW t \in Tracker, NEW st, NEW test \in SUBSET JobID,
         MarkNoReply(t, st, test)
  PROVE  /\ \A u \in Tracker \ {t} : testing'[u] = testing[u] /\ noReply'[u] = noReply[u]
         /\ testing'[t] \cup noReply'[t] = test \cup noReply[t]
  <1>1. PICK marked \in SUBSET test :
          /\ testing' = [testing EXCEPT ![t] = test \ marked]
          /\ noReply' = [noReply EXCEPT ![t] = @ \cup marked]
    BY DEF MarkNoReply
  <1>2. QED
    BY <1>1 DEF RegistryTypeOK

LEMMA MarkFailedPhase ==
  ASSUME RegistryTypeOK, NEW t \in Tracker, MarkFailed(t)
  PROVE  \A u \in Tracker : phase'[u] \in Early <=> phase[u] \in Early
  BY DEF MarkFailed, RegistryTypeOK, Early

LEMMA InitHInv == Init => HInv
  BY DEF Init, RegistryInit, HInv, HolderInv, HoldersMatchAssignments, Holders, ExtractedInv,
     SendsInv, Early

LEMMA UpsertHInv ==
  ASSUME Inv, HInv, NEW st \in AnyStatus, Upsert(st)
  PROVE  HInv'
  <1>. RegistryTypeOK /\ TypeInv
    BY DEF Inv, TypeInv, TypeOK
  <1>1. \A t \in Tracker : testing'[t] \cup noReply'[t] = testing[t] \cup noReply[t]
    <2>1. (\E t \in CurrentTrackers(st) : MarkNoReply(t, st, testing[t]))
            \/ UNCHANGED <<testing, noReply>>
      BY DEF Upsert
    <2>2. ASSUME NEW t \in CurrentTrackers(st), MarkNoReply(t, st, testing[t])
          PROVE  \A u \in Tracker : testing'[u] \cup noReply'[u] = testing[u] \cup noReply[u]
      <3>1. t \in Tracker /\ testing[t] \in SUBSET JobID
        BY DEF CurrentTrackers, Elements, RegistryTypeOK
      <3>2. QED
        BY <2>2, <3>1, MarkNoReplyHolders
    <2>3. QED
      BY <2>1, <2>2
  <1>2. \A t \in Tracker : phase'[t] \in Early <=> phase[t] \in Early
    <2>1. \A t \in Tracker : \/ phase'[t] = phase[t]
                             \/ phase[t] = "live" /\ phase'[t] = "failed"
                             \/ phase[t] = "unborn" /\ phase'[t] = "live"
      BY DEF Upsert, CurrentTrackers, NewTracker
    <2>2. QED
      BY <2>1 DEF Early
  <1>3. UNCHANGED <<queueVars, sending, calls, extracted, invokerByJobID, nextJob>>
    BY DEF Upsert
  <1>4. QED
    BY <1>1, <1>2, <1>3, SameHolders

----------------------------------------------------------------------------
(* Steps that do.                                                           *)

LEMMA SendAnsweredHInv ==
  ASSUME Inv, HInv, NEW t \in Tracker, NEW j \in Job, NEW st \in AnyStatus, SendAnswered(t, j, st)
  PROVE  HInv'
  <1>. DEFINE id == CurrentID(j)
              test == testing[t] \cup (sending[t] \cap {id})
  <1>. RegistryTypeOK /\ TypeInv
    BY DEF Inv, TypeInv, TypeOK
  <1>1. test \in SUBSET JobID
    BY DEF RegistryTypeOK
  <1>2. /\ sending' = [sending EXCEPT ![t] = @ \ {id}] /\ calls' \subseteq calls \ {<<t, j>>}
        /\ MarkNoReply(t, st, test)
        /\ UNCHANGED <<queueVars, extracted, invokerByJobID, nextJob>>
    BY DEF SendAnswered, UpdateStatus, mapVars
  <1>3. \A u \in Tracker : phase'[u] \in Early <=> phase[u] \in Early
    BY MarkFailedPhase DEF SendAnswered, UpdateStatus
  <1>. HIDE DEF id
  <1>4. /\ \A u \in Tracker \ {t} : /\ testing'[u] = testing[u] /\ noReply'[u] = noReply[u]
                                    /\ sending'[u] = sending[u]
        /\ testing'[t] \cup noReply'[t] = test \cup noReply[t]
        /\ sending'[t] = sending[t] \ {id}
    BY <1>1, <1>2, MarkNoReplyHolders DEF RegistryTypeOK
  <1>5. \A u \in Tracker : Holders(u)' = Holders(u)
    <2>1. Holders(t)' = Holders(t)
      BY <1>4 DEF Holders
    <2>2. QED
      BY <1>4, <2>1 DEF Holders
  <1>6. HolderInv'
    BY <1>2, <1>3, <1>5 DEF HInv, HolderInv, HoldersMatchAssignments
  <1>7. ExtractedInv'
    BY <1>2 DEF HInv, ExtractedInv, WasSent, IsWaiting, queueVars
  <1>8. SendsInv'
    <2>1. SUFFICES ASSUME NEW c \in calls'
                   PROVE  CurrentID(c[2]) \notin testing'[c[1]] \cup noReply'[c[1]]
      BY <1>2 DEF SendsInv, SendPanicsOn, CurrentID, queueVars
    <2>2. c \in calls /\ c # <<t, j>> /\ c \in Tracker \X Job
      BY <1>2 DEF RegistryTypeOK
    <2>3. CurrentID(c[2]) \notin testing[c[1]] \cup noReply[c[1]]
      BY <2>2 DEF HInv, SendsInv, SendPanicsOn
    <2>4. c[1] = t => CurrentID(c[2]) # id
      BY <2>2 DEF CurrentID, id
    <2>5. QED
      BY <1>4, <2>2, <2>3, <2>4
  <1>9. QED
    BY <1>6, <1>7, <1>8 DEF HInv

LEMMA ExtractJobsHInv ==
  ASSUME Inv, HInv, NEW t \in Tracker, ExtractJobs(t)
  PROVE  HInv'
  <1>. RegistryTypeOK
    BY DEF Inv, TypeInv, TypeOK
  <1>1. /\ phase[t] = "failed" /\ phase' = [phase EXCEPT ![t] = "extracted"]
        /\ extracted' = [extracted EXCEPT ![t] = Holders(t)]
        /\ sending' = [sending EXCEPT ![t] = {}]
        /\ testing' = [testing EXCEPT ![t] = {}]
        /\ noReply' = [noReply EXCEPT ![t] = {}]
        /\ UNCHANGED <<queueVars, calls, invokerByJobID, nextJob>>
    BY DEF ExtractJobs, mapVars
  <1>2. /\ Holders(t)' = {} /\ extracted'[t] = Holders(t) /\ extracted[t] = {}
        /\ \A u \in Tracker \ {t} : Holders(u)' = Holders(u) /\ extracted'[u] = extracted[u]
    <2>1. extracted[t] = {}
      BY <1>1 DEF HInv, HolderInv, Early
    <2>2. QED
      BY <1>1, <2>1 DEF Holders, RegistryTypeOK
  <1>3. HolderInv'
    <2>1. HoldersMatchAssignments'
      BY <1>1, <1>2 DEF HInv, HolderInv, HoldersMatchAssignments
    <2>2. \A u \in Tracker : \A id \in extracted'[u] :
            id \in DOMAIN invokerByJobID => invokerByJobID[id] = u
      BY <1>2 DEF HInv, HolderInv, HoldersMatchAssignments
    <2>3. \A u \in Tracker : /\ phase'[u] \in Early => extracted'[u] = {}
                             /\ phase'[u] \notin Early => Holders(u)' = {}
      BY <1>1, <1>2 DEF HInv, HolderInv, Early, RegistryTypeOK
    <2>4. QED
      BY <1>1, <2>1, <2>2, <2>3 DEF HolderInv
  <1>4. ExtractedInv'
    <2>1. ASSUME NEW id \in Holders(t) PROVE WasSent(id)
      <3>1. id \in DOMAIN invokerByJobID
        BY DEF HInv, HolderInv, HoldersMatchAssignments
      <3>2. id[1] \in Job /\ id[1] \in givenJobs /\ id = CurrentID(id[1]) /\ id \in JobID
        BY <3>1, IDIsCurrent
      <3>3. id[2] = idNumber[id[1]] /\ idNumber[id[1]] \in Nat
        BY <3>2 DEF CurrentID, Inv, TypeInv, TypeOK, QueueTypeOK
      <3>4. ~ IsWaiting(id[1])
        BY <3>1, <3>2 DEF IsAssigned, Inv, JobIsInOnePlace
      <3>5. id[1] \notin toGive /\ id[1][1] \in submitted
        BY <3>2 DEF Inv, QueueInv
      <3>6. QED
        BY <3>2, <3>3, <3>4, <3>5 DEF WasSent
    <2>2. \A u \in Tracker : \A id \in extracted'[u] : WasSent(id)
      BY <1>2, <2>1 DEF HInv, ExtractedInv
    <2>3. QED
      BY <1>1, <2>2 DEF ExtractedInv, WasSent, IsWaiting, queueVars
  <1>5. SendsInv'
    <2>1. \A c \in calls : c[1] \in Tracker
      BY DEF RegistryTypeOK
    <2>2. QED
      BY <1>1, <2>1 DEF HInv, SendsInv, SendPanicsOn, CurrentID, queueVars, RegistryTypeOK
  <1>6. QED
    BY <1>3, <1>4, <1>5 DEF HInv

LEMMA RescheduleExtractedHInv ==
  ASSUME Inv, HInv, NEW t \in Tracker, NEW id \in extracted[t], RescheduleExtracted(t, id)
  PROVE  HInv'
  <1>. DEFINE j == id[1]
  <1>. RegistryTypeOK /\ QueueTypeOK
    BY DEF Inv, TypeInv, TypeOK
  <1>1. /\ phase[t] = "rescheduling" /\ extracted' = [extracted EXCEPT ![t] = @ \ {id}]
        /\ UNCHANGED <<phase, sending, testing, noReply, calls, nextJob>>
    BY DEF RescheduleExtracted, holderVars
  <1>2. /\ Holders(t) = {}
        /\ \A u \in Tracker : Holders(u)' = Holders(u) /\ extracted'[u] \subseteq extracted[u]
        /\ \A u \in Tracker : \A x \in extracted[u] : x \in extracted'[u] \/ (u = t /\ x = id)
    BY <1>1 DEF HInv, HolderInv, Holders, Early, RegistryTypeOK
  <1>3. CASE id \notin DOMAIN invokerByJobID
    <2>1. UNCHANGED <<queueVars, invokerByJobID>>
      BY <1>3 DEF RescheduleExtracted
    <2>2. HolderInv'
      BY <1>1, <1>2, <1>3, <2>1 DEF HInv, HolderInv, HoldersMatchAssignments
    <2>3. ExtractedInv'
      BY <1>1, <1>2, <2>1 DEF HInv, ExtractedInv, WasSent, IsWaiting, queueVars
    <2>4. SendsInv'
      BY <1>1, <2>1 DEF HInv, SendsInv, SendPanicsOn, CurrentID, queueVars
    <2>5. QED
      BY <2>2, <2>3, <2>4 DEF HInv
  <1>4. CASE id \in DOMAIN invokerByJobID
    <2>1. /\ idNumber' = [idNumber EXCEPT ![j] = @ + 1]
          /\ newFailedJobs' = Append(newFailedJobs, j)
          /\ DOMAIN invokerByJobID' = DOMAIN invokerByJobID \ {id}
          /\ \A x \in DOMAIN invokerByJobID' : invokerByJobID'[x] = invokerByJobID[x]
          /\ UNCHANGED <<submitted, toGive>>
      BY <1>4 DEF RescheduleExtracted, RescheduleJob, WithoutKey
    <2>2. j \in Job /\ id = CurrentID(j) /\ invokerByJobID[id] = t
      BY <1>4, IDIsCurrent DEF HInv, HolderInv
    <2>3. /\ idNumber'[j] = idNumber[j] + 1 /\ idNumber[j] \in Nat
          /\ \A k \in Job \ {j} : idNumber'[k] = idNumber[k]
      BY <2>1, <2>2 DEF QueueTypeOK
    <2>4. \A u \in Tracker : id \notin Holders(u)
      BY <1>2, <2>2 DEF HInv, HolderInv, HoldersMatchAssignments
    <2>5. Elements(newFailedJobs') = Elements(newFailedJobs) \cup {j}
      BY <2>1, <2>2, ElementsOfAppend DEF QueueTypeOK
    <2>6. Elements(newFailedJobs)' = Elements(newFailedJobs) \cup {j}
      BY <2>5 DEF Elements
    <2>. HIDE DEF j
    <2>7. HolderInv'
      <3>1. HoldersMatchAssignments'
        BY <1>2, <2>1, <2>4 DEF HInv, HolderInv, HoldersMatchAssignments
      <3>2. \A u \in Tracker : \A x \in extracted'[u] :
              x \in DOMAIN invokerByJobID' => invokerByJobID'[x] = u
        BY <1>2, <2>1 DEF HInv, HolderInv
      <3>3. \A u \in Tracker : /\ phase'[u] \in Early => extracted'[u] = {}
                               /\ phase'[u] \notin Early => Holders(u)' = {}
        BY <1>1, <1>2 DEF HInv, HolderInv
      <3>4. QED
        BY <3>1, <3>2, <3>3 DEF HolderInv
    <2>8. ExtractedInv'
      <3>1. \A u \in Tracker : \A x \in extracted[u] : WasSent(x)'
        BY RescheduleSent DEF HInv, ExtractedInv
      <3>2. QED
        BY <1>2, <3>1 DEF ExtractedInv
    <2>9. SendsInv'
      <3>1. SUFFICES ASSUME NEW c \in calls
                     PROVE  <<c[2], idNumber'[c[2]]>> \notin testing[c[1]] \cup noReply[c[1]]
        BY <1>1 DEF SendsInv, SendPanicsOn, CurrentID
      <3>2. c[1] \in Tracker /\ c[2] \in Job
        BY DEF RegistryTypeOK
      <3>3. CASE c[2] # j
        BY <2>3, <3>2, <3>3 DEF HInv, SendsInv, SendPanicsOn, CurrentID
      <3>4. CASE c[2] = j
        <4>1. <<j, idNumber'[j]>> \notin DOMAIN invokerByJobID
          <5>1. \A x \in DOMAIN invokerByJobID : x[2] = idNumber[x[1]]
            BY DEF Inv, PlaceInv
          <5>2. QED
            BY <2>3, <5>1
        <4>2. QED
          BY <3>2, <3>4, <4>1 DEF HInv, HolderInv, HoldersMatchAssignments, Holders
      <3>5. QED
        BY <3>3, <3>4
    <2>10. QED
      BY <2>7, <2>8, <2>9 DEF HInv
  <1>5. QED
    BY <1>3, <1>4

LEMMA InvokerJobResultHInv ==
  ASSUME Inv, HInv, NEW id, NEW good, InvokerJobResult(id, good)
  PROVE  HInv'
  <1>. RegistryTypeOK
    BY DEF Inv, TypeInv, TypeOK
  <1>1. PICK t \in Tracker : id \in DOMAIN invokerByJobID /\ t = invokerByJobID[id]
    BY DEF InvokerJobResult, RegistryTypeOK
  <1>2. /\ id \in DOMAIN invokerByJobID
        /\ DOMAIN invokerByJobID' = DOMAIN invokerByJobID \ {id}
        /\ \A x \in DOMAIN invokerByJobID' : invokerByJobID'[x] = invokerByJobID[x]
        /\ sending' = [sending EXCEPT ![t] = @ \ {id}]
        /\ testing' = [testing EXCEPT ![t] = @ \ {id}]
        /\ noReply' = [noReply EXCEPT ![t] = @ \ {id}]
        /\ UNCHANGED <<queueVars, phase, calls, extracted, nextJob>>
    BY <1>1 DEF InvokerJobResult, WithoutKey
  <1>3. \A u \in Tracker : Holders(u)' = Holders(u) \ {id}
    <2>1. ASSUME NEW u \in Tracker, u # t PROVE id \notin Holders(u)
      BY <1>1, <2>1 DEF HInv, HolderInv, HoldersMatchAssignments
    <2>2. /\ sending'[t] = sending[t] \ {id} /\ testing'[t] = testing[t] \ {id}
          /\ noReply'[t] = noReply[t] \ {id}
      BY <1>2 DEF RegistryTypeOK
    <2>3. \A u \in Tracker \ {t} : /\ sending'[u] = sending[u] /\ testing'[u] = testing[u]
                                  /\ noReply'[u] = noReply[u]
      BY <1>2 DEF RegistryTypeOK
    <2>4. Holders(t)' = Holders(t) \ {id}
      BY <2>2 DEF Holders
    <2>5. ASSUME NEW u \in Tracker, u # t PROVE Holders(u)' = Holders(u) \ {id}
      BY <2>1, <2>3, <2>5 DEF Holders
    <2>6. QED
      BY <2>4, <2>5
  <1>4. HolderInv'
    BY <1>2, <1>3 DEF HInv, HolderInv, HoldersMatchAssignments
  <1>5. ExtractedInv'
    BY <1>2 DEF HInv, ExtractedInv, WasSent, IsWaiting, queueVars
  <1>6. SendsInv'
    <2>1. \A u \in Tracker : testing'[u] \subseteq testing[u] /\ noReply'[u] \subseteq noReply[u]
      BY <1>2 DEF RegistryTypeOK
    <2>2. \A c \in calls : c[1] \in Tracker
      BY DEF RegistryTypeOK
    <2>3. QED
      BY <1>2, <2>1, <2>2 DEF HInv, SendsInv, SendPanicsOn, CurrentID, queueVars
  <1>7. QED
    BY <1>4, <1>5, <1>6 DEF HInv

LEMMA SendNextJobHInv ==
  ASSUME Inv, HInv, SendNextJob
  PROVE  HInv'
  <1>. DEFINE id == CurrentID(nextJob)
  <1>. RegistryTypeOK
    BY DEF Inv, TypeInv, TypeOK
  <1>1. PICK t \in Tracker : t = invokers[sendAt]
    BY DEF SendNextJob, RegistryTypeOK
  <1>2. /\ phase[t] = "live" /\ nextJob' = NoJob /\ nextJob \in Job
        /\ sending' = [sending EXCEPT ![t] = @ \cup {id}]
        /\ calls' = calls \cup {<<t, nextJob>>}
        /\ DOMAIN invokerByJobID' = DOMAIN invokerByJobID \cup {id}
        /\ invokerByJobID'[id] = t
        /\ \A x \in DOMAIN invokerByJobID \ {id} : invokerByJobID'[x] = invokerByJobID[x]
        /\ UNCHANGED <<queueVars, phase, testing, noReply, extracted>>
    BY <1>1 DEF SendNextJob, CanSend, RegistryTypeOK
  <1>3. IsWaiting(nextJob) /\ id \notin DOMAIN invokerByJobID
    BY <1>2 DEF IsWaiting, IsAssigned, Inv, JobIsInOnePlace
  <1>4. \A u \in Tracker : id \notin Holders(u) /\ id \notin extracted[u]
    <2>1. ASSUME NEW u \in Tracker, id \in extracted[u] PROVE FALSE
      <3>1. WasSent(id) /\ id[1] = nextJob /\ id[2] = idNumber[nextJob]
        BY <2>1 DEF HInv, ExtractedInv, CurrentID
      <3>2. QED
        BY <1>3, <3>1 DEF WasSent
    <2>2. QED
      BY <1>3, <2>1 DEF HInv, HolderInv, HoldersMatchAssignments
  <1>. HIDE DEF id
  <1>5. /\ Holders(t)' = Holders(t) \cup {id}
        /\ \A u \in Tracker \ {t} : Holders(u)' = Holders(u)
    <2>1. /\ sending'[t] = sending[t] \cup {id}
          /\ \A u \in Tracker \ {t} : sending'[u] = sending[u]
      BY <1>1, <1>2 DEF RegistryTypeOK
    <2>2. Holders(t)' = Holders(t) \cup {id}
      BY <1>2, <2>1 DEF Holders
    <2>3. ASSUME NEW u \in Tracker \ {t} PROVE Holders(u)' = Holders(u)
      BY <1>2, <2>1 DEF Holders
    <2>4. QED
      BY <2>2, <2>3
  <1>6. HolderInv'
    <2>1. HoldersMatchAssignments'
      <3>1. SUFFICES ASSUME NEW u \in Tracker
                     PROVE  /\ \A x \in Holders(u)' : /\ x \in DOMAIN invokerByJobID'
                                                     /\ invokerByJobID'[x] = u
                            /\ \A x \in DOMAIN invokerByJobID' : invokerByJobID'[x] = u =>
                                 x \in Holders(u)' \cup extracted'[u]
        BY DEF HoldersMatchAssignments
      <3>2. Holders(u)' = IF u = t THEN Holders(u) \cup {id} ELSE Holders(u)
        BY <1>1, <1>5
      <3>3. ASSUME NEW x \in Holders(u)'
            PROVE  x \in DOMAIN invokerByJobID' /\ invokerByJobID'[x] = u
        BY <1>2, <1>4, <3>2 DEF HInv, HolderInv, HoldersMatchAssignments
      <3>4. ASSUME NEW x \in DOMAIN invokerByJobID', invokerByJobID'[x] = u
            PROVE  x \in Holders(u)' \cup extracted'[u]
        BY <1>2, <3>2, <3>4 DEF HInv, HolderInv, HoldersMatchAssignments
      <3>5. QED
        BY <3>3, <3>4
    <2>2. \A u \in Tracker : \A x \in extracted'[u] :
            x \in DOMAIN invokerByJobID' => invokerByJobID'[x] = u
      BY <1>2, <1>4 DEF HInv, HolderInv
    <2>3. \A u \in Tracker : /\ phase'[u] \in Early => extracted'[u] = {}
                             /\ phase'[u] \notin Early => Holders(u)' = {}
      BY <1>2, <1>5 DEF HInv, HolderInv, Early
    <2>4. QED
      BY <2>1, <2>2, <2>3 DEF HolderInv
  <1>7. ExtractedInv'
    BY <1>2, SendNextJobSent DEF HInv, ExtractedInv
  <1>8. SendsInv'
    <2>1. id \notin testing[t] \cup noReply[t]
      BY <1>1, <1>4 DEF Holders
    <2>2. ~ SendPanicsOn(t, nextJob)
      BY <2>1 DEF SendPanicsOn, id
    <2>3. \A c \in calls' : ~ SendPanicsOn(c[1], c[2])
      BY <1>2, <2>2 DEF HInv, SendsInv
    <2>4. QED
      BY <1>2, <2>3 DEF SendsInv, SendPanicsOn, CurrentID, queueVars
  <1>9. QED
    BY <1>6, <1>7, <1>8 DEF HInv

LEMMA FetchNextJobHInv ==
  ASSUME Inv, HInv, FetchNextJob
  PROVE  HInv'
  <1>1. PICK j \in Job \cup {NoJob} : NextJob(j) /\ nextJob' = j
    BY DEF FetchNextJob
  <1>2. /\ nextJob = NoJob
        /\ UNCHANGED <<phase, holderVars, extracted, invokerByJobID, calls>>
    BY DEF FetchNextJob
  <1>3. UNCHANGED <<submitted, idNumber>> /\ toGive' \subseteq toGive
    BY <1>1 DEF NextJob, NextFailedJob, NextNewJob, GeneratorGives, NoNextJob
  <1>4. \A t \in Tracker : \A id \in extracted[t] : WasSent(id) => WasSent(id)'
    BY FetchNextJobSent
  <1>5. QED
    BY <1>2, <1>3, <1>4, QueueStep

LEMMA NewSubmissionHInv ==
  ASSUME Inv, HInv, NEW s \in Submission, NewSubmission(s)
  PROVE  HInv'
  <1>1. UNCHANGED <<idNumber, phase, holderVars, extracted, invokerByJobID, calls>>
    BY DEF NewSubmission, Submit, registryVars, mapVars
  <1>2. \A t \in Tracker : \A id \in extracted[t] : WasSent(id) => WasSent(id)'
    BY NewSubmissionSent
  <1>3. QED
    BY <1>1, <1>2, QueueStep

LEMMA CompleteJobHInv ==
  ASSUME Inv, HInv, NEW id, CompleteJob(id)
  PROVE  HInv'
  <1>1. UNCHANGED <<idNumber, phase, holderVars, extracted, invokerByJobID, calls>>
    BY DEF CompleteJob, JobCompleted, GeneratorJobCompleted, mapVars
  <1>2. \A t \in Tracker : \A x \in extracted[t] : WasSent(x) => WasSent(x)'
    BY CompleteJobSent
  <1>3. QED
    BY <1>1, <1>2, QueueStep

----------------------------------------------------------------------------
LEMMA TrackerHInv ==
  ASSUME Inv, HInv, NEW t \in Tracker, TrackerNext(t) PROVE HInv'
  <1>. RegistryTypeOK /\ TypeInv
    BY DEF Inv, TypeInv, TypeOK
  <1>1. CASE PingFailed(t)
    BY <1>1, MarkFailedPhase, SameHolders DEF PingFailed, holderVars, mapVars
  <1>2. CASE ExtractJobs(t)
    BY <1>2, ExtractJobsHInv
  <1>3. CASE LockForRescheduling(t)
    <2>1. \A u \in Tracker : phase'[u] \in Early <=> phase[u] \in Early
      BY <1>3 DEF LockForRescheduling, RegistryTypeOK, Early
    <2>2. QED
      BY <1>3, <2>1, SameHolders DEF LockForRescheduling, holderVars, mapVars
  <1>4. CASE RemoveInvoker(t)
    <2>1. \A u \in Tracker : phase'[u] \in Early <=> phase[u] \in Early
      BY <1>4 DEF RemoveInvoker, RegistryTypeOK, Early
    <2>2. QED
      BY <1>4, <2>1, SameHolders DEF RemoveInvoker, holderVars
  <1>5. ASSUME NEW id \in extracted[t], RescheduleExtracted(t, id) PROVE HInv'
    BY <1>5, RescheduleExtractedHInv
  <1>6. ASSUME NEW id \in noReply[t], EnsureJobIsNotLost(t, id) PROVE HInv'
    BY <1>6, MarkFailedPhase, SameHolders DEF EnsureJobIsNotLost, holderVars, mapVars
  <1>7. ASSUME NEW st \in AnyStatus, PingAnswered(t, st) PROVE HInv'
    <2>1. \A u \in Tracker : phase'[u] \in Early <=> phase[u] \in Early
      BY <1>7, MarkFailedPhase DEF PingAnswered, UpdateStatus
    <2>2. testing[t] \in SUBSET JobID /\ MarkNoReply(t, st, testing[t])
      BY <1>7 DEF PingAnswered, UpdateStatus, RegistryTypeOK
    <2>3. \A u \in Tracker : testing'[u] \cup noReply'[u] = testing[u] \cup noReply[u]
      BY <2>2, MarkNoReplyHolders
    <2>4. QED
      BY <1>7, <2>1, <2>3, SameHolders DEF PingAnswered, mapVars
  <1>8. QED
    BY <1>1, <1>2, <1>3, <1>4, <1>5, <1>6, <1>7 DEF TrackerNext

LEMMA CallHInv ==
  ASSUME Inv, HInv, CallNext PROVE HInv'
  <1>. RegistryTypeOK /\ TypeInv
    BY DEF Inv, TypeInv, TypeOK
  <1>1. ASSUME NEW c \in calls, SendFailed(c[1], c[2]) PROVE HInv'
    <2>1. c[1] \in Tracker
      BY DEF RegistryTypeOK
    <2>2. \A u \in Tracker : phase'[u] \in Early <=> phase[u] \in Early
      BY <1>1, <2>1, MarkFailedPhase DEF SendFailed
    <2>3. QED
      BY <1>1, <2>2, SameHolders DEF SendFailed, holderVars, mapVars
  <1>2. ASSUME NEW c \in calls, NEW st \in AnyStatus, SendAnswered(c[1], c[2], st)
        PROVE  HInv'
    <2>1. c[1] \in Tracker /\ c[2] \in Job
      BY DEF RegistryTypeOK
    <2>2. QED
      BY <1>2, <2>1, SendAnsweredHInv
  <1>3. ASSUME NEW c \in stops, StopAnswered(c[1], c[2]) PROVE HInv'
    BY <1>3, SameHolders DEF StopAnswered, holderVars, mapVars
  <1>4. ASSUME NEW c \in stops, StopFailed(c[1], c[2]) PROVE HInv'
    <2>1. c[1] \in Tracker
      BY DEF RegistryTypeOK
    <2>2. \A u \in Tracker : phase'[u] \in Early <=> phase[u] \in Early
      BY <1>4, <2>1, MarkFailedPhase DEF StopFailed
    <2>3. QED
      BY <1>4, <2>2, SameHolders DEF StopFailed, holderVars, mapVars
  <1>5. QED
    BY <1>1, <1>2, <1>3, <1>4 DEF CallNext

LEMMA HandlerHInv ==
  ASSUME Inv, HInv, HandlerNext PROVE HInv'
  <1>1. ASSUME NEW st \in AnyStatus, InvokerStatus(st) PROVE HInv'
    BY <1>1, UpsertHInv DEF InvokerStatus
  <1>2. ASSUME NEW id \in upserting, NEW st \in AnyStatus, UpsertAfterResult(id, st) PROVE HInv'
    BY <1>2, UpsertHInv DEF UpsertAfterResult
  <1>3. QED
    BY <1>1, <1>2, NewSubmissionHInv, InvokerJobResultHInv, CompleteJobHInv DEF HandlerNext

LEMMA SendHInv ==
  ASSUME Inv, HInv, SendNext PROVE HInv'
  <1>. TypeInv
    BY DEF Inv
  <1>1. CASE SendJobs
    BY <1>1, SameHolders DEF SendJobs, holderVars
  <1>2. CASE TryNextInvoker
    BY <1>2, SameHolders DEF TryNextInvoker, holderVars
  <1>3. QED
    BY <1>1, <1>2, FetchNextJobHInv, SendNextJobHInv DEF SendNext

LEMMA HInvIsInvariant == Spec => []HInv
  <1>1. Inv /\ HInv /\ [Next]_vars => HInv'
    <2>1. ASSUME Inv, HInv, UNCHANGED vars PROVE HInv'
      BY <2>1, SameHolders DEF Inv, vars, registryVars, holderVars, mapVars
    <2>2. QED
      BY <2>1, TrackerHInv, CallHInv, HandlerHInv, SendHInv DEF Next
  <1>2. QED
    BY <1>1, InitHInv, InvIsInvariant, PTL DEF Spec

\* In every behaviour a job held by a tracker is assigned to it, and a job
\* assigned to a tracker is held by it or about to be rescheduled by its
\* OnInvokerFailure; so a failed tracker leaves no job behind in the maps.
THEOREM HoldersAgree == Spec => []HoldersMatchAssignments
  BY HInvIsInvariant, PTL DEF HInv, HolderInv

\* In every behaviour the consistency panics stay out of reach: completeSendJob
\* finds the job it sent in no other type, StopJob finds the invoker of each
\* running job, the queue finds the job of each ID in use.
THEOREM NeverPanics == Spec => []NoPanic
  <1>1. Inv /\ HInv => NoPanic
    <2>1. ASSUME Inv, HInv PROVE NoPanic
      <3>1. \A c \in calls : ~ SendPanicsOn(c[1], c[2])
        BY <2>1 DEF HInv, SendsInv
      <3>2. testingJobs = DOMAIN invokerByJobID
        BY <2>1 DEF Inv, TypeInv, RegistryInv
      <3>3. \A id \in DOMAIN invokerByJobID \cup upserting \cup completing :
              IsKnownID(id) /\ ~ QueuePanicsOn(id)
        BY <2>1, IDIsKnown
      <3>4. QED
        BY <3>1, <3>2, <3>3 DEF NoPanic
    <2>2. QED
      BY <2>1
  <1>2. QED
    BY <1>1, InvIsInvariant, HInvIsInvariant, PTL

----------------------------------------------------------------------------
(* One live tracker per invoker process.                                    *)

LEMMA NoneBorn ==
  ASSUME OneTrackerPerAddress, UNCHANGED invokers,
         \A t \in Tracker : phase'[t] = "live" => phase[t] = "live"
  PROVE  OneTrackerPerAddress'
  BY DEF OneTrackerPerAddress, Elements

LEMMA ElementsOfRest ==
  ASSUME NEW S, NEW seq \in Seq(S), NEW i \in DOMAIN seq
  PROVE  Elements(seq) \ {seq[i]}
           \subseteq Elements(SubSeq(seq, 1, i-1) \o SubSeq(seq, i+1, Len(seq)))
  <1>. DEFINE before == SubSeq(seq, 1, i-1)
              after == SubSeq(seq, i+1, Len(seq))
              rest == before \o after
  <1>1. i \in 1..Len(seq) /\ Len(seq) \in Nat /\ DOMAIN seq = 1..Len(seq)
    OBVIOUS
  <1>2. /\ before \in Seq(S) /\ Len(before) = i - 1
        /\ \A k \in 1..(i-1) : before[k] = seq[k]
    BY <1>1, SubSeqProperties
  <1>3. /\ after \in Seq(S) /\ Len(after) = Len(seq) - i
        /\ \A k \in (i+1)..Len(seq) : after[k - i] = seq[k]
    <2>1. after \in Seq(S) /\ Len(after) = Len(seq) - i
      BY <1>1, SubSeqProperties
    <2>2. ASSUME NEW k \in (i+1)..Len(seq) PROVE after[k - i] = seq[k]
      BY <1>1, SubSeqProperties
    <2>3. QED
      BY <2>1, <2>2
  <1>. HIDE DEF before, after
  <1>4. /\ DOMAIN rest = 1..(Len(seq) - 1)
        /\ \A k \in 1..(i-1) : rest[k] = seq[k]
        /\ \A k \in (i+1)..Len(seq) : rest[k - 1] = seq[k]
    <2>1. DOMAIN rest = 1..(Len(seq) - 1)
      <3>1. Len(rest) = Len(before) + Len(after) /\ rest \in Seq(S)
        BY <1>2, <1>3
      <3>2. Len(rest) = Len(seq) - 1
        BY <1>1, <1>2, <1>3, <3>1
      <3>3. QED
        BY <3>1, <3>2
    <2>2. \A k \in 1..(i-1) : rest[k] = seq[k]
      BY <1>1, <1>2, <1>3
    <2>3. ASSUME NEW k \in (i+1)..Len(seq) PROVE rest[k - 1] = seq[k]
      <3>1. rest[k - 1] = after[k - i]
        BY <1>1, <1>2, <1>3
      <3>2. QED
        BY <1>3, <3>1
    <2>4. QED
      BY <2>1, <2>2, <2>3
  <1>. HIDE DEF rest
  <1>5. ASSUME NEW k \in DOMAIN seq, k # i PROVE seq[k] \in Elements(rest)
    <2>1. CASE k < i
      BY <1>1, <1>4, <2>1 DEF Elements
    <2>2. CASE k > i
      <3>1. k - 1 \in DOMAIN rest /\ rest[k - 1] = seq[k]
        BY <1>1, <1>4, <2>2
      <3>2. QED
        BY <3>1 DEF Elements
    <2>3. QED
      BY <1>1, <1>5, <2>1, <2>2
  <1>6. Elements(seq) \ {seq[i]} \subseteq Elements(rest)
    BY <1>5 DEF Elements
  <1>7. QED
    BY <1>6 DEF rest, before, after

LEMMA RemoveInvokerOneTracker ==
  ASSUME TypeInv, OneTrackerPerAddress, NEW t \in Tracker, RemoveInvoker(t)
  PROVE  OneTrackerPerAddress'
  <1>1. /\ phase[t] = "rescheduling" /\ phase' = [phase EXCEPT ![t] = "removed"]
        /\ phase \in [Tracker -> Phase] /\ invokers \in Seq(Tracker)
    BY DEF RemoveInvoker, TypeInv, TypeOK, RegistryTypeOK
  <1>2. PICK i \in DOMAIN invokers :
          /\ invokers[i] = t
          /\ invokers' = SubSeq(invokers, 1, i-1) \o SubSeq(invokers, i+1, Len(invokers))
    BY DEF RemoveInvoker
  <1>3. Elements(invokers) \ {t} \subseteq Elements(invokers')
    BY <1>1, <1>2, ElementsOfRest
  <1>4. Elements(invokers) \ {t} \subseteq Elements(invokers)'
    BY <1>3 DEF Elements
  <1>5. \A u \in Tracker : phase'[u] = "live" => phase[u] = "live" /\ u # t
    BY <1>1
  <1>6. QED
    BY <1>4, <1>5 DEF OneTrackerPerAddress

LEMMA NewTrackerIsOne ==
  ASSUME NEW a \in Address
  PROVE  /\ \A t \in NewTracker(a) : t \in Tracker /\ t[1] = a
         /\ \A t, u \in NewTracker(a) : t = u
  <1>. DEFINE numbers == {m \in 1..Registrations :
                           /\ phase[<<a, m>>] = "unborn"
                           /\ \A k \in 1..(m-1) : phase[<<a, k>>] # "unborn"}
  <1>1. numbers \subseteq 1..Registrations
    OBVIOUS
  <1>2. \A m, n \in numbers : m = n
    <2>1. ASSUME NEW m \in numbers, NEW n \in numbers, m < n PROVE FALSE
      <3>1. m \in 1..(n-1)
        BY <1>1, <2>1, RegistryAssumption
      <3>2. QED
        BY <3>1
    <2>2. QED
      BY <1>1, <2>1, RegistryAssumption
  <1>3. NewTracker(a) = {<<a, n>> : n \in numbers}
    BY DEF NewTracker
  <1>. HIDE DEF numbers
  <1>4. \A t \in NewTracker(a) : \E n \in numbers : t = <<a, n>>
    BY <1>3
  <1>5. QED
    BY <1>1, <1>2, <1>4 DEF Tracker

LEMMA UpsertOneTracker ==
  ASSUME TypeInv, OneTrackerPerAddress, NEW st \in AnyStatus, Upsert(st)
  PROVE  OneTrackerPerAddress'
  <1>. DEFINE current == CurrentTrackers(st)
              distrusting == {t \in current : Distrusts(t, st)}
              new == IF current = distrusting THEN NewTracker(st.address) ELSE {}
  <1>1. PICK born : born = new
    OBVIOUS
  <1>2. /\ born # {} => current = distrusting
        /\ \A t \in born : t[1] = st.address
        /\ \A t, u \in born : t = u
    <2>1. st.address \in Address
      BY DEF AnyStatus
    <2>. HIDE DEF current, distrusting
    <2>2. QED
      BY <1>1, <2>1, NewTrackerIsOne
  <1>3. PICK failed : failed = distrusting
    OBVIOUS
  <1>4. /\ \A t \in Tracker : phase'[t] = IF t \in failed THEN "failed"
                                          ELSE IF t \in born THEN "live" ELSE phase[t]
        /\ (\E t \in born : invokers' = Append(invokers, t))
             \/ (born = {} /\ invokers' = invokers)
    BY <1>1, <1>3 DEF Upsert
  <1>5. \A u \in Tracker : phase[u] = "live" /\ u[1] = st.address => u \in current
    BY DEF OneTrackerPerAddress, CurrentTrackers
  <1>6. born # {} => \A u \in Tracker : phase[u] = "live" /\ u[1] = st.address => u \in failed
    <2>. HIDE DEF current
    <2>1. born # {} => current = failed
      BY <1>2, <1>3
    <2>2. QED
      BY <1>5, <2>1
  <1>7. \A t, u \in Tracker :
          phase'[t] = "live" /\ phase'[u] = "live" /\ t[1] = u[1] => t = u
    BY <1>2, <1>4, <1>6 DEF OneTrackerPerAddress
  <1>8. Elements(invokers)' = Elements(invokers) \cup born
    <2>1. CASE born = {}
      BY <1>4, <2>1 DEF Elements
    <2>2. CASE born # {}
      <3>1. PICK t \in born : invokers' = Append(invokers, t)
        BY <1>4, <2>2
      <3>2. born = {t} /\ t \in Tracker
        <4>1. born = NewTracker(st.address)
          BY <1>1, <2>2
        <4>2. st.address \in Address
          BY DEF AnyStatus
        <4>3. QED
          BY <3>1, <4>1, <4>2, NewTrackerIsOne
      <3>3. Elements(invokers') = Elements(invokers) \cup {t}
        BY <3>1, <3>2, ElementsOfAppend DEF TypeInv, TypeOK, RegistryTypeOK
      <3>4. QED
        BY <3>2, <3>3 DEF Elements
    <2>3. QED
      BY <2>1, <2>2
  <1>9. \A t \in Tracker : phase'[t] = "live" => t \in Elements(invokers)'
    BY <1>4, <1>8 DEF OneTrackerPerAddress
  <1>10. QED
    BY <1>7, <1>9 DEF OneTrackerPerAddress

LEMMA NextOneTracker ==
  ASSUME TypeInv, OneTrackerPerAddress, [Next]_vars
  PROVE  OneTrackerPerAddress'
  <1>. phase \in [Tracker -> Phase] /\ calls \subseteq Tracker \X Job
         /\ stops \subseteq Tracker \X JobID
    BY DEF TypeInv, TypeOK, RegistryTypeOK
  <1>1. ASSUME NEW t \in Tracker, TrackerNext(t) PROVE OneTrackerPerAddress'
    <2>1. CASE RemoveInvoker(t)
      BY <2>1, RemoveInvokerOneTracker
    <2>2. CASE ~ RemoveInvoker(t)
      <3>1. /\ \A u \in Tracker : phase'[u] = "live" => phase[u] = "live"
            /\ UNCHANGED invokers
        BY <1>1, <2>2 DEF TrackerNext, PingFailed, ExtractJobs, LockForRescheduling,
           RescheduleExtracted, EnsureJobIsNotLost, PingAnswered, UpdateStatus, MarkFailed, mapVars
      <3>2. QED
        BY <3>1, NoneBorn
    <2>3. QED
      BY <2>1, <2>2
  <1>2. CASE CallNext
    <2>1. /\ \A u \in Tracker : phase'[u] = "live" => phase[u] = "live"
          /\ UNCHANGED invokers
      BY <1>2 DEF CallNext, SendFailed, SendAnswered, StopFailed, StopAnswered, UpdateStatus,
         MarkFailed, mapVars
    <2>2. QED
      BY <2>1, NoneBorn
  <1>3. CASE HandlerNext
    <2>1. ASSUME NEW st \in AnyStatus, Upsert(st) PROVE OneTrackerPerAddress'
      BY <2>1, UpsertOneTracker
    <2>2. CASE UNCHANGED <<phase, invokers>>
      BY <2>2, NoneBorn
    <2>3. QED
      BY <1>3, <2>1, <2>2 DEF HandlerNext, NewSubmission, InvokerStatus, InvokerJobResult,
         UpsertAfterResult, CompleteJob, registryVars, mapVars
  <1>4. CASE SendNext
    BY <1>4, NoneBorn DEF SendNext, SendJobs, FetchNextJob, SendNextJob, TryNextInvoker
  <1>5. CASE UNCHANGED vars
    BY <1>5, NoneBorn DEF vars, registryVars, mapVars
  <1>6. QED
    BY <1>1, <1>2, <1>3, <1>4, <1>5 DEF Next

\* In every behaviour an invoker process has at most one tracker that is not
\* failed, and SendJobs and UpsertInvoker find that one in r.invokers, however
\* failures, re-registrations and removals from the list are interleaved.
THEOREM OneTracker == Spec => []OneTrackerPerAddress
  <1>1. Init => OneTrackerPerAddress
    BY DEF Init, RegistryInit, OneTrackerPerAddress
  <1>2. TypeInv /\ OneTrackerPerAddress /\ [Next]_vars => OneTrackerPerAddress'
    BY NextOneTracker
  <1>3. QED
    BY <1>1, <1>2, TypeInvIsInvariant, PTL DEF Spec

----------------------------------------------------------------------------
(* Registry and queue implement JobLedger: no job is handed out again unless
   its invoker failed, and no result is counted twice.                      *)

IsNew(j) == j \in toGive \/ j[1] \notin submitted
IsDone(j) == j \notin originalJobIDToJob

StateOf(j) ==
  IF IsNew(j) THEN "new"
  ELSE IF IsDone(j) THEN "done"
  ELSE IF IsWaiting(j) THEN "waiting"
  ELSE IF IsAccepted(j) THEN "accepted"
  ELSE "running"

LEMMA LedgerOf == ledgerOf = [j \in Job |-> StateOf(j)]
  BY DEF ledgerOf, StateOf, IsNew, IsDone

LEMMA LedgerOfNext == (ledgerOf = [j \in Job |-> StateOf(j)])'
  BY LedgerOf, PTL

LEMMA Stays ==
  ASSUME \A j \in Job : StateOf(j)' = StateOf(j)
  PROVE  ledgerOf' = ledgerOf
  BY LedgerOf, LedgerOfNext

LEMMA Moves ==
  ASSUME NEW j \in Job, NEW from, NEW to, StateOf(j) = from, StateOf(j)' = to,
         \A k \in Job \ {j} : StateOf(k)' = StateOf(k)
  PROVE  Ledger!Move(j, from, to)
  <1>1. ledgerOf[j] = from
    BY LedgerOf
  <1>2. ledgerOf' = [ledgerOf EXCEPT ![j] = to]
    BY LedgerOf, LedgerOfNext
  <1>3. QED
    BY <1>1, <1>2 DEF Ledger!Move

\* A job of an ID in use is neither new nor done.
LEMMA IsOpen ==
  ASSUME Inv, NEW j \in givenJobs
  PROVE  ~ IsNew(j) /\ ~ IsDone(j)
  <1>1. j \in Job
    BY DEF Inv, TypeInv, TypeOK, QueueTypeOK
  <1>2. QED
    BY <1>1 DEF Inv, QueueInv, IsNew, IsDone

LEMMA UnchangedLedger ==
  ASSUME UNCHANGED <<submitted, toGive, originalJobIDToJob, idNumber, newFailedJobs, nextJob>>,
         upserting' \cup completing' = upserting \cup completing
  PROVE  ledgerOf' = ledgerOf
  <1>1. \A j \in Job : StateOf(j)' = StateOf(j)
    BY DEF StateOf, IsNew, IsDone, IsWaiting, IsAccepted, CurrentID, Elements
  <1>2. QED
    BY <1>1, Stays

----------------------------------------------------------------------------
LEMMA NewSubmissionLedger ==
  ASSUME NEW s \in Submission, NewSubmission(s) PROVE ledgerOf' = ledgerOf
  <1>1. /\ s \notin submitted /\ submitted' = submitted \cup {s}
        /\ toGive' = toGive \cup JobsOf(s)
        /\ UNCHANGED <<originalJobIDToJob, idNumber, newFailedJobs, nextJob, upserting, completing>>
    BY DEF NewSubmission, Submit, registryVars, mapVars, handlerVars
  <1>2. \A j \in Job : j \in JobsOf(s) <=> j[1] = s
    BY DEF JobsOf, Job
  <1>3. \A j \in Job : IsNew(j)' <=> IsNew(j)
    BY <1>1, <1>2 DEF IsNew
  <1>4. \A j \in Job : StateOf(j)' = StateOf(j)
    BY <1>1, <1>3 DEF StateOf, IsDone, IsWaiting, IsAccepted, CurrentID, Elements
  <1>5. QED
    BY <1>4, Stays

LEMMA FetchNextJobLedger ==
  ASSUME Inv, FetchNextJob
  PROVE  (\E j \in Job : Ledger!HandOut(j)) \/ ledgerOf' = ledgerOf
  <1>1. PICK j \in Job \cup {NoJob} : NextJob(j) /\ nextJob' = j
    BY DEF FetchNextJob
  <1>2. nextJob = NoJob /\ UNCHANGED <<upserting, completing>>
    BY DEF FetchNextJob, handlerVars
  <1>3. CASE NextFailedJob(j)
    <2>1. /\ newFailedJobs # <<>> /\ j = Head(newFailedJobs)
          /\ newFailedJobs' = Tail(newFailedJobs)
          /\ UNCHANGED <<submitted, toGive, idNumber, originalJobIDToJob>>
      BY <1>3 DEF NextFailedJob
    <2>2. /\ newFailedJobs \in Seq(Job)
          /\ \A i, k \in DOMAIN newFailedJobs : newFailedJobs[i] = newFailedJobs[k] => i = k
      BY DEF Inv, TypeInv, TypeOK, QueueTypeOK, JobIsInOnePlace
    <2>3. /\ Elements(newFailedJobs') = Elements(newFailedJobs) \ {j}
          /\ j \in Elements(newFailedJobs)
      BY <2>1, <2>2, ElementsOfTail
    <2>4. /\ Elements(newFailedJobs)' = Elements(newFailedJobs) \ {j}
          /\ j \in Elements(newFailedJobs)
      BY <2>3 DEF Elements
    <2>5. \A k \in Job : IsWaiting(k)' <=> IsWaiting(k)
      BY <1>1, <1>2, <2>4, QueueAssumption DEF IsWaiting
    <2>6. \A k \in Job : StateOf(k)' = StateOf(k)
      BY <1>2, <2>1, <2>5 DEF StateOf, IsNew, IsDone, IsAccepted, CurrentID
    <2>7. QED
      BY <2>6, Stays
  <1>4. CASE NextNewJob(j)
    <2>1. /\ j \in toGive /\ toGive' = toGive \ {j}
          /\ originalJobIDToJob' = originalJobIDToJob \cup {j}
          /\ UNCHANGED <<submitted, idNumber, newFailedJobs>>
      BY <1>4 DEF NextNewJob, GeneratorGives
    <2>2. j \in Job /\ j[1] \in submitted
      BY <2>1 DEF Inv, QueueInv, TypeInv, TypeOK, QueueTypeOK
    <2>3. StateOf(j) = "new"
      BY <2>1 DEF StateOf, IsNew
    <2>4. StateOf(j)' = "waiting"
      BY <1>1, <2>1, <2>2 DEF StateOf, IsNew, IsDone, IsWaiting
    <2>5. ASSUME NEW k \in Job \ {j} PROVE StateOf(k)' = StateOf(k)
      <3>1. IsWaiting(k)' <=> IsWaiting(k)
        BY <1>1, <1>2, <2>1, QueueAssumption DEF IsWaiting, Elements
      <3>2. QED
        BY <1>2, <2>1, <3>1 DEF StateOf, IsNew, IsDone, IsAccepted, CurrentID
    <2>6. Ledger!HandOut(j)
      BY <2>2, <2>3, <2>4, <2>5, Moves DEF Ledger!HandOut
    <2>7. QED
      BY <2>2, <2>6
  <1>5. CASE j = NoJob /\ NoNextJob
    <2>1. UNCHANGED <<submitted, toGive, originalJobIDToJob, idNumber, newFailedJobs, nextJob>>
      BY <1>1, <1>2, <1>5 DEF NoNextJob
    <2>2. QED
      BY <1>2, <2>1, UnchangedLedger
  <1>6. QED
    BY <1>1, <1>3, <1>4, <1>5 DEF NextJob

LEMMA SendNextJobLedger ==
  ASSUME Inv, SendNextJob
  PROVE  \E j \in Job : Ledger!Send(j)
  <1>1. PICK j \in Job : j = nextJob
    BY DEF SendNextJob, Inv, TypeInv, TypeOK, RegistryTypeOK
  <1>2. nextJob' = NoJob /\ UNCHANGED <<queueVars, upserting, completing>>
    BY DEF SendNextJob, handlerVars
  <1>3. IsWaiting(j) /\ ~ IsAccepted(j) /\ j \notin Elements(newFailedJobs)
    BY <1>1 DEF IsWaiting, Inv, JobIsInOnePlace
  <1>4. ~ IsNew(j) /\ ~ IsDone(j)
    BY <1>3, IsOpen DEF Inv, PlaceInv
  <1>5. StateOf(j) = "waiting"
    BY <1>3, <1>4 DEF StateOf
  <1>6. ~ IsWaiting(j)'
    BY <1>2, <1>3, QueueAssumption DEF IsWaiting, Elements, queueVars
  <1>7. StateOf(j)' = "running"
    BY <1>2, <1>3, <1>4, <1>6 DEF StateOf, IsNew, IsDone, IsAccepted, CurrentID, queueVars
  <1>8. ASSUME NEW k \in Job \ {j} PROVE StateOf(k)' = StateOf(k)
    <2>1. IsWaiting(k)' <=> IsWaiting(k)
      BY <1>1, <1>2, QueueAssumption DEF IsWaiting, Elements, queueVars
    <2>2. QED
      BY <1>2, <2>1 DEF StateOf, IsNew, IsDone, IsAccepted, CurrentID, queueVars
  <1>9. Ledger!Send(j)
    BY <1>5, <1>7, <1>8, Moves DEF Ledger!Send
  <1>10. QED
    BY <1>9

LEMMA InvokerJobResultLedger ==
  ASSUME Inv, NEW id, NEW good, InvokerJobResult(id, good)
  PROVE  (\E j \in Job : Ledger!Accept(j)) \/ ledgerOf' = ledgerOf
  <1>1. /\ id \in DOMAIN invokerByJobID
        /\ upserting' = upserting \/ upserting' = upserting \cup {id}
        /\ UNCHANGED <<queueVars, nextJob, completing>>
    BY DEF InvokerJobResult
  <1>2. CASE upserting' = upserting
    BY <1>1, <1>2, UnchangedLedger DEF queueVars
  <1>3. CASE upserting' = upserting \cup {id}
    <2>1. PICK j \in Job : j = id[1]
      BY <1>1, IDIsCurrent
    <2>2. j \in givenJobs /\ id = CurrentID(j)
      BY <1>1, <2>1, IDIsCurrent
    <2>3. ~ IsNew(j) /\ ~ IsDone(j) /\ ~ IsWaiting(j) /\ ~ IsAccepted(j)
      BY <1>1, <2>2, IsOpen DEF IsAssigned, Inv, JobIsInOnePlace
    <2>4. StateOf(j) = "running"
      BY <2>3 DEF StateOf
    <2>5. StateOf(j)' = "accepted"
      BY <1>1, <1>3, <2>2, <2>3 DEF StateOf, IsNew, IsDone, IsWaiting, IsAccepted, CurrentID,
         Elements, queueVars
    <2>6. ASSUME NEW k \in Job \ {j} PROVE StateOf(k)' = StateOf(k)
      <3>1. CurrentID(k) # id
        BY <2>2 DEF CurrentID
      <3>2. QED
        BY <1>1, <1>3, <3>1 DEF StateOf, IsNew, IsDone, IsWaiting, IsAccepted, CurrentID,
           Elements, queueVars
    <2>7. Ledger!Accept(j)
      BY <2>4, <2>5, <2>6, Moves DEF Ledger!Accept
    <2>8. QED
      BY <2>7
  <1>4. QED
    BY <1>1, <1>2, <1>3

LEMMA CompleteJobLedger ==
  ASSUME Inv, NEW id, CompleteJob(id)
  PROVE  \E j \in Job : Ledger!Finish(j)
  <1>1. PICK j \in Job : j = id[1]
    BY IDIsCurrent DEF CompleteJob
  <1>2. /\ id \in completing /\ completing' = completing \ {id}
        /\ originalJobIDToJob' = originalJobIDToJob \ {j}
        /\ UNCHANGED <<submitted, idNumber, newFailedJobs, nextJob, upserting>>
    BY <1>1 DEF CompleteJob, JobCompleted, GeneratorJobCompleted, mapVars
  <1>3. PICK cancelled \in SUBSET toGive : toGive' = toGive \ cancelled
    BY DEF CompleteJob, JobCompleted, GeneratorJobCompleted
  <1>4. j \in givenJobs /\ id = CurrentID(j) /\ IsAccepted(j)
    BY <1>1, <1>2, IDIsCurrent DEF IsAccepted
  <1>5. ~ IsNew(j) /\ ~ IsDone(j) /\ ~ IsWaiting(j)
    BY <1>4, IsOpen DEF Inv, JobIsInOnePlace
  <1>6. StateOf(j) = "accepted"
    BY <1>4, <1>5 DEF StateOf
  <1>7. StateOf(j)' = "done"
    BY <1>2, <1>3, <1>5 DEF StateOf, IsNew, IsDone
  <1>8. cancelled \subseteq Job /\ \A c \in cancelled : StateOf(c) = "new"
    BY DEF Inv, TypeInv, TypeOK, QueueTypeOK, StateOf, IsNew
  <1>9. \A c \in cancelled : StateOf(c)' = "done"
    <2>1. ASSUME NEW c \in cancelled PROVE StateOf(c)' = "done"
      <3>1. c \in Job /\ c \in toGive /\ c[1] \in submitted /\ c \notin givenJobs
        BY <1>8 DEF Inv, QueueInv
      <3>2. QED
        BY <1>2, <1>3, <3>1 DEF Inv, QueueInv, StateOf, IsNew, IsDone
    <2>2. QED
      BY <2>1
  <1>10. ASSUME NEW k \in Job \ (cancelled \cup {j}) PROVE StateOf(k)' = StateOf(k)
    <2>1. CurrentID(k) # id
      BY <1>4 DEF CurrentID
    <2>2. QED
      BY <1>2, <1>3, <2>1 DEF StateOf, IsNew, IsDone, IsWaiting, IsAccepted, CurrentID, Elements
  <1>11. Ledger!Finish(j)
    <2>1. ledgerOf[j] = "accepted" /\ cancelled \in SUBSET {c \in Job : ledgerOf[c] = "new"}
      BY <1>6, <1>8, LedgerOf
    <2>2. ledgerOf' = [c \in Job |-> IF c \in cancelled \cup {j} THEN "done" ELSE ledgerOf[c]]
      BY <1>7, <1>9, <1>10, LedgerOf, LedgerOfNext
    <2>3. QED
      BY <2>1, <2>2 DEF Ledger!Finish
  <1>12. QED
    BY <1>11

LEMMA RescheduleExtractedLedger ==
  ASSUME Inv, NEW t, NEW id, RescheduleExtracted(t, id)
  PROVE  (\E j \in Job : Ledger!Reschedule(j)) \/ ledgerOf' = ledgerOf
  <1>1. CASE id \notin DOMAIN invokerByJobID
    BY <1>1, UnchangedLedger DEF RescheduleExtracted, queueVars, handlerVars
  <1>2. CASE id \in DOMAIN invokerByJobID
    <2>1. PICK j \in Job : j = id[1]
      BY <1>2, IDIsCurrent
    <2>2. /\ idNumber' = [idNumber EXCEPT ![j] = @ + 1]
          /\ newFailedJobs' = Append(newFailedJobs, j)
          /\ UNCHANGED <<submitted, toGive, originalJobIDToJob, nextJob, upserting, completing>>
      BY <1>2, <2>1 DEF RescheduleExtracted, RescheduleJob, handlerVars
    <2>3. j \in givenJobs /\ id = CurrentID(j)
      BY <1>2, <2>1, IDIsCurrent
    <2>4. ~ IsNew(j) /\ ~ IsDone(j) /\ ~ IsWaiting(j) /\ ~ IsAccepted(j)
      BY <1>2, <2>3, IsOpen DEF IsAssigned, Inv, JobIsInOnePlace
    <2>5. idNumber \in [Job -> Nat] /\ newFailedJobs \in Seq(Job)
      BY DEF Inv, TypeInv, TypeOK, QueueTypeOK
    <2>6. Elements(newFailedJobs') = Elements(newFailedJobs) \cup {j}
      BY <2>2, <2>5, ElementsOfAppend
    <2>7. Elements(newFailedJobs)' = Elements(newFailedJobs) \cup {j}
      BY <2>6 DEF Elements
    <2>8. StateOf(j) = "running"
      BY <2>4 DEF StateOf
    <2>9. StateOf(j)' = "waiting"
      BY <2>2, <2>4, <2>7 DEF StateOf, IsNew, IsDone, IsWaiting
    <2>10. ASSUME NEW k \in Job \ {j} PROVE StateOf(k)' = StateOf(k)
      <3>1. CurrentID(k)' = CurrentID(k)
        BY <2>2, <2>5 DEF CurrentID
      <3>2. IsWaiting(k)' <=> IsWaiting(k)
        BY <2>2, <2>7 DEF IsWaiting
      <3>3. IsAccepted(k)' <=> IsAccepted(k)
        BY <2>2, <3>1 DEF IsAccepted
      <3>4. QED
        BY <2>2, <3>2, <3>3 DEF StateOf, IsNew, IsDone
    <2>11. Ledger!Reschedule(j)
      BY <2>8, <2>9, <2>10, Moves DEF Ledger!Reschedule
    <2>12. QED
      BY <2>11
  <1>3. QED
    BY <1>1, <1>2

LEMMA UpsertAfterResultLedger ==
  ASSUME NEW id \in upserting, NEW st, UpsertAfterResult(id, st) PROVE ledgerOf' = ledgerOf
  BY UnchangedLedger DEF UpsertAfterResult, Upsert, queueVars

----------------------------------------------------------------------------
LEMMA TrackerLedger ==
  ASSUME Inv, NEW t \in Tracker, TrackerNext(t) PROVE [Ledger!Next]_ledgerOf
  <1>1. ASSUME NEW id \in extracted[t], RescheduleExtracted(t, id) PROVE [Ledger!Next]_ledgerOf
    BY <1>1, RescheduleExtractedLedger DEF Ledger!Next
  <1>2. CASE ~ \E id \in extracted[t] : RescheduleExtracted(t, id)
    <2>1. UNCHANGED placeVars \/ UNCHANGED <<queueVars, nextJob, handlerVars>>
      BY <1>2 DEF TrackerNext, PingFailed, ExtractJobs, LockForRescheduling, RemoveInvoker,
         EnsureJobIsNotLost, PingAnswered, mapVars
    <2>2. QED
      BY <2>1, UnchangedLedger DEF placeVars, queueVars, handlerVars
  <1>3. QED
    BY <1>1, <1>2

LEMMA CallLedger ==
  ASSUME CallNext PROVE ledgerOf' = ledgerOf
  <1>1. UNCHANGED <<queueVars, nextJob, handlerVars>>
    BY DEF CallNext, SendFailed, SendAnswered, StopAnswered, StopFailed, mapVars
  <1>2. QED
    BY <1>1, UnchangedLedger DEF queueVars, handlerVars

LEMMA HandlerLedger ==
  ASSUME Inv, HandlerNext PROVE [Ledger!Next]_ledgerOf
  <1>1. ASSUME NEW s \in Submission, NewSubmission(s) PROVE [Ledger!Next]_ledgerOf
    BY <1>1, NewSubmissionLedger
  <1>2. ASSUME NEW st, InvokerStatus(st) PROVE [Ledger!Next]_ledgerOf
    BY <1>2, UnchangedLedger DEF InvokerStatus, Upsert, queueVars, handlerVars
  <1>3. ASSUME NEW id, NEW good, InvokerJobResult(id, good) PROVE [Ledger!Next]_ledgerOf
    BY <1>3, InvokerJobResultLedger DEF Ledger!Next
  <1>4. ASSUME NEW id \in upserting, NEW st, UpsertAfterResult(id, st)
        PROVE  [Ledger!Next]_ledgerOf
    BY <1>4, UpsertAfterResultLedger
  <1>5. ASSUME NEW id, CompleteJob(id) PROVE [Ledger!Next]_ledgerOf
    BY <1>5, CompleteJobLedger DEF Ledger!Next
  <1>6. QED
    BY <1>1, <1>2, <1>3, <1>4, <1>5 DEF HandlerNext

LEMMA SendLedger ==
  ASSUME Inv, SendNext PROVE [Ledger!Next]_ledgerOf
  <1>1. CASE SendJobs
    BY <1>1, UnchangedLedger DEF SendJobs, queueVars, handlerVars
  <1>2. CASE FetchNextJob
    BY <1>2, FetchNextJobLedger DEF Ledger!Next
  <1>3. CASE SendNextJob
    BY <1>3, SendNextJobLedger DEF Ledger!Next
  <1>4. CASE TryNextInvoker
    BY <1>4, UnchangedLedger DEF TryNextInvoker, queueVars, handlerVars
  <1>5. QED
    BY <1>1, <1>2, <1>3, <1>4 DEF SendNext

\* The registry and the queue implement the ledger: whatever the invokers answer
\* and however failures, late results and sends are interleaved, a job runs once
\* at a time, is handed out again only from running, and its result is counted
\* once.
THEOREM LedgerKept == Spec => KeepsLedger
  <1>1. Init => Ledger!Init
    <2>1. Init => \A j \in Job : StateOf(j) = "new"
      BY DEF Init, QueueInit, StateOf, IsNew
    <2>2. QED
      BY <2>1, LedgerOf DEF Ledger!Init
  <1>2. Inv /\ [Next]_vars => [Ledger!Next]_ledgerOf
    <2>1. ASSUME UNCHANGED vars PROVE ledgerOf' = ledgerOf
      BY <2>1, UnchangedLedger DEF vars, registryVars, mapVars, handlerVars, queueVars
    <2>2. QED
      BY <2>1, TrackerLedger, CallLedger, HandlerLedger, SendLedger DEF Next
  <1>3. QED
    BY <1>1, <1>2, InvIsInvariant, PTL DEF Spec, KeepsLedger, Ledger!Spec
=============================================================================
