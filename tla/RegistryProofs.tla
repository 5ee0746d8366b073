--------------------------- MODULE RegistryProofs ---------------------------
(***************************************************************************)
(* Proofs about module Registry: its types are right, a job that was       *)
(* handed out is in at most one place, and the queue waits for every       *)
(* result that is accepted, for any number of submissions, tests, invokers *)
(* and registrations, whatever the invokers answer.                        *)
(***************************************************************************)
EXTENDS Registry, SequenceTheorems, TLAPS

\* r.mutex has one holder: SendJobs, or one OnInvokerFailure; and every job of
\* r.testingJobs has an invoker.
RegistryInv ==
  /\ \A t \in Tracker : phase[t] = "rescheduling" => sendAt = 0
  /\ \A t, u \in Tracker : phase[t] = "rescheduling" /\ phase[u] = "rescheduling" => t = u
  /\ testingJobs = DOMAIN invokerByJobID

TypeInv == TypeOK /\ RegistryInv

----------------------------------------------------------------------------
(* The operations of the queue keep its types.                              *)

LEMMA QueueUnchangedType ==
  ASSUME QueueTypeOK, UNCHANGED queueVars
  PROVE  QueueTypeOK'
  BY DEF QueueTypeOK, queueVars

LEMMA SubmitType ==
  ASSUME QueueTypeOK, NEW s \in Submission, Submit(s)
  PROVE  QueueTypeOK'
  BY DEF QueueTypeOK, Submit, JobsOf, Job

LEMMA JobCompletedType ==
  ASSUME QueueTypeOK, NEW id \in JobID, JobCompleted(id)
  PROVE  QueueTypeOK'
  <1>1. id[1] \in Job /\ id[1][1] \in Submission
    BY DEF JobID, Job
  <1>2. /\ toGive' \subseteq toGive /\ givenJobs' \subseteq givenJobs
        /\ finished' \subseteq finished \cup {id[1][1]}
        /\ UNCHANGED requiredJobIDs
    <2>1. GeneratorJobCompleted(id[1])
      BY DEF JobCompleted
    <2>2. toGive' \subseteq toGive
      BY <2>1 DEF GeneratorJobCompleted
    <2>3. givenJobs' \subseteq givenJobs /\ UNCHANGED requiredJobIDs
      BY <2>1 DEF GeneratorJobCompleted
    <2>4. finished' \in {finished, finished \cup {id[1][1]}}
      BY <2>1 DEF GeneratorJobCompleted
    <2>5. QED
      BY <2>2, <2>3, <2>4
  <1>3. activeGenerators' \in Seq(Submission) /\ activeGeneratorIDs' \subseteq Submission
    <2>1. CASE id[1][1] \in activeGeneratorIDs
      BY <2>1 DEF JobCompleted, QueueTypeOK
    <2>2. CASE id[1][1] \notin activeGeneratorIDs
      <3>1. /\ activeGenerators' = Append(activeGenerators, id[1][1])
            /\ activeGeneratorIDs' = activeGeneratorIDs \cup {id[1][1]}
        BY <2>2 DEF JobCompleted
      <3>2. QED
        BY <1>1, <3>1, AppendProperties DEF QueueTypeOK
    <2>3. QED
      BY <2>1, <2>2
  <1>4. QED
    BY <1>2, <1>3 DEF JobCompleted, QueueTypeOK

LEMMA RescheduleJobType ==
  ASSUME QueueTypeOK, NEW id \in JobID, RescheduleJob(id)
  PROVE  QueueTypeOK'
  <1>1. id[1] \in Job
    BY DEF JobID
  <1>2. idNumber' \in [Job -> Nat] /\ jobIDToOriginalJobID' \subseteq JobID
    BY <1>1 DEF RescheduleJob, QueueTypeOK, JobID
  <1>3. newFailedJobs' \in Seq(Job)
    BY <1>1 DEF RescheduleJob, QueueTypeOK
  <1>4. QED
    BY <1>2, <1>3 DEF RescheduleJob, QueueTypeOK

LEMMA NextJobType ==
  ASSUME QueueTypeOK, NEW j \in Job \cup {NoJob}, NextJob(j)
  PROVE  QueueTypeOK'
  <1>1. CASE NextFailedJob(j)
    BY <1>1 DEF NextFailedJob, QueueTypeOK
  <1>2. CASE NextNewJob(j)
    <2>1. PICK k \in DOMAIN activeGenerators :
            /\ GeneratorGives(activeGenerators[k], j)
            /\ activeGenerators' =
                 Append(SubSeq(activeGenerators, k+1, Len(activeGenerators)), activeGenerators[k])
            /\ activeGeneratorIDs' = activeGeneratorIDs \ {activeGenerators[i] : i \in 1..(k-1)}
      BY <1>2 DEF NextNewJob
    <2>2. k \in 1..Len(activeGenerators) /\ activeGenerators[k] \in Submission
      BY DEF QueueTypeOK
    <2>3. SubSeq(activeGenerators, k+1, Len(activeGenerators)) \in Seq(Submission)
      BY <2>2, SubSeqProperties DEF QueueTypeOK
    <2>4. activeGenerators' \in Seq(Submission)
      BY <2>1, <2>2, <2>3
    <2>5. toGive' \subseteq Job /\ givenJobs' \subseteq Job /\ j \in Job
      BY <2>1 DEF GeneratorGives, QueueTypeOK
    <2>6. requiredJobIDs' \in [Job -> SUBSET JobID]
      BY <2>1, <2>5 DEF GeneratorGives, QueueTypeOK, JobID
    <2>7. QED
      BY <1>2, <2>1, <2>4, <2>5, <2>6 DEF NextNewJob, QueueTypeOK
  <1>3. CASE NoNextJob
    BY <1>3 DEF NoNextJob, QueueTypeOK
  <1>4. QED
    BY <1>1, <1>2, <1>3 DEF NextJob

----------------------------------------------------------------------------
(* The steps of the registry keep its types, and r.mutex its one holder.    *)

LEMMA InitTypeInv == Init => TypeInv
  <1>1. ASSUME Init PROVE QueueTypeOK
    BY <1>1, QueueAssumption DEF Init, QueueInit, QueueTypeOK
  <1>2. ASSUME Init PROVE RegistryTypeOK /\ RegistryInv
    BY <1>2 DEF Init, RegistryInit, RegistryTypeOK, RegistryInv, Phase
  <1>3. QED
    BY <1>1, <1>2 DEF TypeInv, TypeOK

LEMMA UpdateStatusType ==
  ASSUME RegistryTypeOK, RegistryInv, NEW t \in Tracker, NEW st \in AnyStatus,
         NEW test \in SUBSET JobID, UpdateStatus(t, st, test)
  PROVE  /\ epoch' \in [Tracker -> Nat] /\ maxNewJobs' \in [Tracker -> Nat]
         /\ testing' \in [Tracker -> SUBSET JobID]
         /\ noReply' \in [Tracker -> SUBSET JobID]
         /\ phase' \in [Tracker -> Phase]
         /\ \A u \in Tracker : phase'[u] = "rescheduling" <=> phase[u] = "rescheduling"
  <1>1. st.epoch \in Nat /\ st.maxNewJobs \in Nat
    BY RegistryAssumption DEF AnyStatus
  <1>2. epoch' \in [Tracker -> Nat] /\ maxNewJobs' \in [Tracker -> Nat]
    BY <1>1 DEF UpdateStatus, KeepStatus, RegistryTypeOK
  <1>3. /\ testing' \in [Tracker -> SUBSET JobID]
        /\ noReply' \in [Tracker -> SUBSET JobID]
    <2>1. PICK marked \in SUBSET test :
            /\ testing' = [testing EXCEPT ![t] = test \ marked]
            /\ noReply' = [noReply EXCEPT ![t] = @ \cup marked]
      BY DEF UpdateStatus, MarkNoReply
    <2>2. QED
      BY <2>1 DEF RegistryTypeOK
  <1>4. phase' = phase \/ phase' = [phase EXCEPT ![t] = IF @ = "live" THEN "failed" ELSE @]
    BY DEF UpdateStatus, MarkFailed
  <1>5. QED
    BY <1>2, <1>3, <1>4 DEF RegistryTypeOK, Phase

LEMMA TrackerTypeInv ==
  ASSUME TypeInv, NEW t \in Tracker, TrackerNext(t)
  PROVE  TypeInv'
  <1>. QueueTypeOK /\ RegistryTypeOK /\ RegistryInv
    BY DEF TypeInv, TypeOK
  <1>1. CASE PingFailed(t)
    BY <1>1, QueueUnchangedType DEF PingFailed, MarkFailed, TypeInv, TypeOK, RegistryTypeOK,
       RegistryInv, Phase, statusVars, holderVars, mapVars, handlerVars
  <1>2. CASE ExtractJobs(t)
    BY <1>2, QueueUnchangedType DEF ExtractJobs, Holders, TypeInv, TypeOK, RegistryTypeOK,
       RegistryInv, Phase, statusVars, mapVars, handlerVars
  <1>3. CASE LockForRescheduling(t)
    BY <1>3, QueueUnchangedType DEF LockForRescheduling, MutexIsFree, TypeInv, TypeOK,
       RegistryTypeOK, RegistryInv, Phase, statusVars, holderVars, mapVars, handlerVars
  <1>4. CASE RemoveInvoker(t)
    <2>1. PICK i \in 1..Len(invokers) :
            invokers' = SubSeq(invokers, 1, i-1) \o SubSeq(invokers, i+1, Len(invokers))
      <3>1. DOMAIN invokers = 1..Len(invokers)
        BY DEF RegistryTypeOK
      <3>2. PICK i \in DOMAIN invokers :
              invokers' = SubSeq(invokers, 1, i-1) \o SubSeq(invokers, i+1, Len(invokers))
        BY <1>4 DEF RemoveInvoker
      <3>3. QED
        BY <3>1, <3>2
    <2>2. invokers' \in Seq(Tracker)
      <3>1. SubSeq(invokers, 1, i-1) \in Seq(Tracker)
        BY SubSeqProperties DEF RegistryTypeOK
      <3>2. SubSeq(invokers, i+1, Len(invokers)) \in Seq(Tracker)
        BY SubSeqProperties DEF RegistryTypeOK
      <3>3. QED
        BY <2>1, <3>1, <3>2
    <2>3. sendAt = 0
      BY <1>4 DEF RemoveInvoker, RegistryInv
    <2>4. sendAt' \in 0..Len(invokers')
      BY <1>4, <2>2, <2>3 DEF RemoveInvoker
    <2>5. phase' \in [Tracker -> Phase] /\ RegistryInv'
      BY <1>4 DEF RemoveInvoker, RegistryTypeOK, RegistryInv, Phase
    <2>6. QED
      BY <1>4, <2>2, <2>4, <2>5, QueueUnchangedType DEF RemoveInvoker, TypeInv, TypeOK,
         RegistryTypeOK, statusVars, holderVars, handlerVars
  <1>5. ASSUME NEW id \in extracted[t], RescheduleExtracted(t, id) PROVE TypeInv'
    <2>1. id \in JobID
      BY DEF RegistryTypeOK
    <2>2. QueueTypeOK'
      BY <1>5, <2>1, RescheduleJobType, QueueUnchangedType DEF RescheduleExtracted
    <2>3. /\ DOMAIN invokerByJobID' \subseteq JobID
          /\ invokerByJobID' \in [DOMAIN invokerByJobID' -> Tracker]
          /\ testingJobs' \subseteq JobID
          /\ testingJobs' = DOMAIN invokerByJobID'
      <3>1. CASE id \in DOMAIN invokerByJobID
        BY <1>5, <3>1 DEF RescheduleExtracted, WithoutKey, RegistryTypeOK, RegistryInv
      <3>2. CASE id \notin DOMAIN invokerByJobID
        BY <1>5, <3>2 DEF RescheduleExtracted, RegistryTypeOK, RegistryInv
      <3>3. QED
        BY <3>1, <3>2
    <2>4. extracted' \in [Tracker -> SUBSET JobID]
      BY <1>5 DEF RescheduleExtracted, RegistryTypeOK
    <2>5. QED
      BY <1>5, <2>2, <2>3, <2>4 DEF RescheduleExtracted, TypeInv, TypeOK, RegistryTypeOK,
         RegistryInv, statusVars, holderVars, handlerVars
  <1>6. ASSUME NEW id \in noReply[t], EnsureJobIsNotLost(t, id) PROVE TypeInv'
    BY <1>6, QueueUnchangedType DEF EnsureJobIsNotLost, MarkFailed, TypeInv, TypeOK,
       RegistryTypeOK, RegistryInv, Phase, statusVars, holderVars, mapVars, handlerVars
  <1>7. ASSUME NEW st \in AnyStatus, PingAnswered(t, st) PROVE TypeInv'
    <2>1. testing[t] \in SUBSET JobID /\ UpdateStatus(t, st, testing[t])
      BY <1>7 DEF PingAnswered, RegistryTypeOK
    <2>2. QED
      BY <1>7, <2>1, UpdateStatusType, QueueUnchangedType DEF PingAnswered, TypeInv, TypeOK,
         RegistryTypeOK, RegistryInv, mapVars, handlerVars
  <1>8. QED
    BY <1>1, <1>2, <1>3, <1>4, <1>5, <1>6, <1>7 DEF TrackerNext

LEMMA CallTypeInv ==
  ASSUME TypeInv, CallNext
  PROVE  TypeInv'
  <1>. QueueTypeOK /\ RegistryTypeOK /\ RegistryInv
    BY DEF TypeInv, TypeOK
  <1>1. ASSUME NEW c \in calls, SendFailed(c[1], c[2]) PROVE TypeInv'
    <2>1. c[1] \in Tracker
      BY DEF RegistryTypeOK
    <2>2. QED
      BY <1>1, <2>1, QueueUnchangedType DEF SendFailed, MarkFailed, TypeInv, TypeOK,
         RegistryTypeOK, RegistryInv, Phase, statusVars, holderVars, mapVars, handlerVars
  <1>2. ASSUME NEW c \in calls, NEW st \in AnyStatus, SendAnswered(c[1], c[2], st)
        PROVE  TypeInv'
    <2>. DEFINE test == testing[c[1]] \cup (sending[c[1]] \cap {CurrentID(c[2])})
    <2>1. c[1] \in Tracker
      BY DEF RegistryTypeOK
    <2>2. test \in SUBSET JobID /\ UpdateStatus(c[1], st, test)
      BY <1>2, <2>1 DEF SendAnswered, RegistryTypeOK
    <2>3. sending' \in [Tracker -> SUBSET JobID] /\ calls' \subseteq Tracker \X Job
      BY <1>2, <2>1 DEF SendAnswered, RegistryTypeOK
    <2>4. /\ epoch' \in [Tracker -> Nat] /\ maxNewJobs' \in [Tracker -> Nat]
          /\ testing' \in [Tracker -> SUBSET JobID]
          /\ noReply' \in [Tracker -> SUBSET JobID]
          /\ phase' \in [Tracker -> Phase]
          /\ \A u \in Tracker : phase'[u] = "rescheduling" <=> phase[u] = "rescheduling"
      BY <2>1, <2>2, UpdateStatusType
    <2>5. QED
      BY <1>2, <2>3, <2>4, QueueUnchangedType DEF SendAnswered, TypeInv, TypeOK,
         RegistryTypeOK, RegistryInv, mapVars, handlerVars
  <1>3. ASSUME NEW c \in stops, StopAnswered(c[1], c[2]) PROVE TypeInv'
    BY <1>3, QueueUnchangedType DEF StopAnswered, TypeInv, TypeOK, RegistryTypeOK, RegistryInv,
       statusVars, holderVars, mapVars, handlerVars
  <1>4. ASSUME NEW c \in stops, StopFailed(c[1], c[2]) PROVE TypeInv'
    <2>1. c[1] \in Tracker
      BY DEF RegistryTypeOK
    <2>2. QED
      BY <1>4, <2>1, QueueUnchangedType DEF StopFailed, MarkFailed, TypeInv, TypeOK,
         RegistryTypeOK, RegistryInv, Phase, statusVars, holderVars, mapVars, handlerVars
  <1>5. QED
    BY <1>1, <1>2, <1>3, <1>4 DEF CallNext

LEMMA UpsertType ==
  ASSUME QueueTypeOK, RegistryTypeOK, RegistryInv, MutexIsFree, NEW st \in AnyStatus, Upsert(st)
  PROVE  /\ QueueTypeOK'
         /\ epoch' \in [Tracker -> Nat] /\ maxNewJobs' \in [Tracker -> Nat]
         /\ testing' \in [Tracker -> SUBSET JobID]
         /\ noReply' \in [Tracker -> SUBSET JobID]
         /\ phase' \in [Tracker -> Phase]
         /\ invokers' \in Seq(Tracker)
         /\ sendAt' \in 0..Len(invokers')
         /\ RegistryInv'
  <1>. DEFINE current == CurrentTrackers(st)
              distrusting == {t \in current : Distrusts(t, st)}
              born == IF current = distrusting THEN NewTracker(st.address) ELSE {}
  <1>1. st.epoch \in Nat /\ st.maxNewJobs \in Nat /\ st.address \in Address
    BY RegistryAssumption DEF AnyStatus
  <1>2. Elements(invokers) \subseteq Tracker
    BY DEF Elements, RegistryTypeOK
  <1>3. NewTracker(st.address) \subseteq Tracker
    <2>1. \A n \in 1..Registrations : <<st.address, n>> \in Tracker
      BY <1>1 DEF Tracker
    <2>2. QED
      BY <2>1 DEF NewTracker
  <1>4. epoch' \in [Tracker -> Nat] /\ maxNewJobs' \in [Tracker -> Nat]
    BY <1>1 DEF Upsert, KeepStatus, RegistryTypeOK
  <1>5. phase' \in [Tracker -> Phase]
    BY DEF Upsert, RegistryTypeOK, Phase
  <1>6. invokers' \in Seq(Tracker)
    <2>1. (\E t \in born : invokers' = Append(invokers, t)) \/ invokers' = invokers
      BY DEF Upsert
    <2>2. born \subseteq Tracker
      BY <1>3
    <2>3. invokers \in Seq(Tracker)
      BY DEF RegistryTypeOK
    <2>. HIDE DEF born
    <2>4. QED
      BY <2>1, <2>2, <2>3
  <1>7. testing' \in [Tracker -> SUBSET JobID] /\ noReply' \in [Tracker -> SUBSET JobID]
    <2>1. (\E t \in current : MarkNoReply(t, st, testing[t])) \/ UNCHANGED <<testing, noReply>>
      BY DEF Upsert
    <2>2. ASSUME NEW t \in current, MarkNoReply(t, st, testing[t])
          PROVE  /\ testing' \in [Tracker -> SUBSET JobID]
                 /\ noReply' \in [Tracker -> SUBSET JobID]
      <3>1. t \in Tracker
        BY <1>2 DEF CurrentTrackers
      <3>2. PICK marked \in SUBSET testing[t] :
              /\ testing' = [testing EXCEPT ![t] = testing[t] \ marked]
              /\ noReply' = [noReply EXCEPT ![t] = @ \cup marked]
        BY <2>2 DEF MarkNoReply
      <3>3. QED
        BY <3>1, <3>2 DEF RegistryTypeOK
    <2>3. QED
      BY <2>1, <2>2 DEF RegistryTypeOK
  <1>8. sendAt' = 0 /\ QueueTypeOK'
    BY QueueUnchangedType DEF Upsert, MutexIsFree
  <1>9. \A t \in Tracker : phase'[t] # "rescheduling"
    BY DEF Upsert, MutexIsFree
  <1>10. testingJobs' = DOMAIN invokerByJobID'
    BY DEF Upsert, RegistryInv
  <1>11. QED
    BY <1>4, <1>5, <1>6, <1>7, <1>8, <1>9, <1>10 DEF RegistryInv

LEMMA HandlerTypeInv ==
  ASSUME TypeInv, HandlerNext
  PROVE  TypeInv'
  <1>. QueueTypeOK /\ RegistryTypeOK /\ RegistryInv
    BY DEF TypeInv, TypeOK
  <1>1. ASSUME NEW s \in Submission, NewSubmission(s) PROVE TypeInv'
    BY <1>1, SubmitType DEF NewSubmission, TypeInv, TypeOK, RegistryTypeOK, RegistryInv,
       registryVars, statusVars, holderVars, mapVars, handlerVars
  <1>2. ASSUME NEW st \in AnyStatus, InvokerStatus(st) PROVE TypeInv'
    BY <1>2, UpsertType DEF InvokerStatus, Upsert, TypeInv, TypeOK, RegistryTypeOK, handlerVars
  <1>3. ASSUME NEW id \in Minted, NEW good \in BOOLEAN, InvokerJobResult(id, good)
        PROVE  TypeInv'
    <2>1. invokerByJobID[id] \in Tracker /\ id \in JobID
      BY <1>3 DEF InvokerJobResult, RegistryTypeOK
    <2>2. stops' \subseteq Tracker \X JobID
      <3>. DEFINE dependent == {other \in testingJobs : id \in requiredJobIDs[other[1]]}
      <3>1. stops' = IF good THEN stops
                     ELSE stops \cup {<<invokerByJobID[other], other>> : other \in dependent}
        BY <1>3 DEF InvokerJobResult
      <3>2. \A other \in dependent : <<invokerByJobID[other], other>> \in Tracker \X JobID
        BY DEF RegistryInv, RegistryTypeOK
      <3>3. stops \subseteq Tracker \X JobID
        BY DEF RegistryTypeOK
      <3>. HIDE DEF dependent
      <3>4. {<<invokerByJobID[other], other>> : other \in dependent} \subseteq Tracker \X JobID
        BY <3>2
      <3>5. QED
        BY <3>1, <3>3, <3>4
    <2>3. /\ DOMAIN invokerByJobID' \subseteq JobID
          /\ invokerByJobID' \in [DOMAIN invokerByJobID' -> Tracker]
          /\ testingJobs' \subseteq JobID
          /\ testingJobs' = DOMAIN invokerByJobID'
      BY <1>3 DEF InvokerJobResult, WithoutKey, RegistryTypeOK, RegistryInv
    <2>4. /\ sending' \in [Tracker -> SUBSET JobID]
          /\ testing' \in [Tracker -> SUBSET JobID]
          /\ noReply' \in [Tracker -> SUBSET JobID]
      BY <1>3 DEF InvokerJobResult, RegistryTypeOK
    <2>5. upserting' \subseteq JobID
      BY <1>3, <2>1 DEF InvokerJobResult, RegistryTypeOK
    <2>6. QED
      BY <1>3, <2>2, <2>3, <2>4, <2>5, QueueUnchangedType DEF InvokerJobResult, TypeInv, TypeOK,
         RegistryTypeOK, RegistryInv, statusVars
  <1>4. ASSUME NEW id \in upserting, NEW st \in AnyStatus, UpsertAfterResult(id, st)
        PROVE  TypeInv'
    BY <1>4, UpsertType DEF UpsertAfterResult, Upsert, TypeInv, TypeOK, RegistryTypeOK
  <1>5. ASSUME NEW id \in completing, CompleteJob(id) PROVE TypeInv'
    <2>1. id \in JobID
      BY DEF RegistryTypeOK
    <2>2. QED
      BY <1>5, <2>1, JobCompletedType DEF CompleteJob, TypeInv, TypeOK, RegistryTypeOK,
         RegistryInv, statusVars, holderVars, mapVars
  <1>6. QED
    BY <1>1, <1>2, <1>3, <1>4, <1>5 DEF HandlerNext

LEMMA SendTypeInv ==
  ASSUME TypeInv, SendNext
  PROVE  TypeInv'
  <1>. QueueTypeOK /\ RegistryTypeOK /\ RegistryInv
    BY DEF TypeInv, TypeOK
  <1>1. CASE SendJobs
    <2>1. sendAt' \in 0..Len(invokers') /\ RegistryInv'
      BY <1>1, EmptySeq DEF SendJobs, MutexIsFree, RegistryInv, RegistryTypeOK
    <2>2. QED
      BY <1>1, <2>1, QueueUnchangedType DEF SendJobs, TypeInv, TypeOK, RegistryTypeOK,
         statusVars, holderVars, handlerVars
  <1>2. CASE FetchNextJob
    <2>1. PICK j \in Job \cup {NoJob} : /\ NextJob(j)
                                        /\ nextJob' = j
                                        /\ sendAt' = IF j = NoJob THEN 0 ELSE sendAt
      BY <1>2 DEF FetchNextJob
    <2>2. sendAt' \in 0..Len(invokers') /\ RegistryInv'
      BY <1>2, <2>1 DEF FetchNextJob, RegistryInv, RegistryTypeOK
    <2>3. QueueTypeOK'
      BY <2>1, NextJobType
    <2>4. QED
      BY <1>2, <2>1, <2>2, <2>3 DEF FetchNextJob, TypeInv, TypeOK, RegistryTypeOK,
         statusVars, holderVars, handlerVars
  <1>3. CASE SendNextJob
    <2>1. invokers[sendAt] \in Tracker
      BY <1>3 DEF SendNextJob, RegistryTypeOK
    <2>2. nextJob \in Job /\ CurrentID(nextJob) \in JobID
      BY <1>3 DEF SendNextJob, RegistryTypeOK, QueueTypeOK, CurrentID, JobID
    <2>3. /\ DOMAIN invokerByJobID' \subseteq JobID
          /\ invokerByJobID' \in [DOMAIN invokerByJobID' -> Tracker]
          /\ testingJobs' \subseteq JobID
          /\ testingJobs' = DOMAIN invokerByJobID'
      BY <1>3, <2>1, <2>2 DEF SendNextJob, RegistryTypeOK, RegistryInv
    <2>4. sending' \in [Tracker -> SUBSET JobID] /\ calls' \subseteq Tracker \X Job
      BY <1>3, <2>1, <2>2 DEF SendNextJob, RegistryTypeOK
    <2>5. QED
      BY <1>3, <2>3, <2>4, QueueUnchangedType DEF SendNextJob, TypeInv, TypeOK,
         RegistryTypeOK, RegistryInv, statusVars, handlerVars
  <1>4. CASE TryNextInvoker
    <2>1. sendAt' \in 0..Len(invokers') /\ RegistryInv'
      BY <1>4 DEF TryNextInvoker, RegistryInv, RegistryTypeOK
    <2>2. QED
      BY <1>4, <2>1, QueueUnchangedType DEF TryNextInvoker, TypeInv, TypeOK, RegistryTypeOK,
         statusVars, holderVars, handlerVars
  <1>5. QED
    BY <1>1, <1>2, <1>3, <1>4 DEF SendNext

LEMMA UnchangedTypeInv == TypeInv /\ UNCHANGED vars => TypeInv'
  BY QueueUnchangedType DEF TypeInv, TypeOK, RegistryTypeOK, RegistryInv, vars, registryVars,
     statusVars, holderVars, mapVars, handlerVars

LEMMA TypeInvIsInvariant == Spec => []TypeInv
  <1>1. TypeInv /\ [Next]_vars => TypeInv'
    BY TrackerTypeInv, CallTypeInv, HandlerTypeInv, SendTypeInv, UnchangedTypeInv DEF Next
  <1>2. QED
    BY <1>1, InitTypeInv, PTL DEF Spec

\* In every behaviour the variables of the queue and of the registry keep their
\* types and SendJobs indexes r.invokers within its bounds although
\* OnInvokerFailure shortens it.
THEOREM TypeCorrect == Spec => []TypeOK
  BY TypeInvIsInvariant, PTL DEF TypeInv
----------------------------------------------------------------------------
(* The places of a job.                                                     *)

\* The maps of the queue know exactly the jobs handed out, each under the ID its
\* object has now; a job not handed out yet was never renamed.
QueueInv ==
  /\ originalJobIDToJob = givenJobs
  /\ \A id \in jobIDToOriginalJobID : id[1] \in givenJobs /\ id[2] = idNumber[id[1]]
  /\ \A j \in givenJobs : idNumber[j] = 0 \/ CurrentID(j) \in jobIDToOriginalJobID
  /\ \A j \in Job : j \in toGive \/ j[1] \notin submitted => j \notin givenJobs /\ idNumber[j] = 0
  /\ \A j \in toGive : j[1] \in submitted

\* A job is somewhere only after it was handed out, and under its current ID.
PlaceInv ==
  /\ \A j \in Job : IsWaiting(j) => j \in givenJobs
  /\ \A id \in DOMAIN invokerByJobID \cup upserting \cup completing :
       id[1] \in givenJobs /\ id[2] = idNumber[id[1]]

Inv == TypeInv /\ QueueInv /\ PlaceInv /\ JobIsInOnePlace

placeVars == <<queueVars, invokerByJobID, nextJob, upserting, completing>>

----------------------------------------------------------------------------
LEMMA ElementsOfAppend ==
  ASSUME NEW S, NEW seq \in Seq(S), NEW x \in S
  PROVE  Elements(Append(seq, x)) = Elements(seq) \cup {x}
  <1>. DEFINE new == Append(seq, x)
  <1>1. /\ DOMAIN new = DOMAIN seq \cup {Len(seq) + 1} /\ new[Len(seq) + 1] = x
        /\ \A i \in DOMAIN seq : new[i] = seq[i]
    OBVIOUS
  <1>. HIDE DEF new
  <1>2. Elements(new) = Elements(seq) \cup {x}
    BY <1>1 DEF Elements
  <1>3. QED
    BY <1>2 DEF new

LEMMA ElementsOfTail ==
  ASSUME NEW S, NEW seq \in Seq(S), seq # <<>>,
         \A i, k \in DOMAIN seq : seq[i] = seq[k] => i = k
  PROVE  /\ Elements(Tail(seq)) = Elements(seq) \ {Head(seq)} /\ Head(seq) \in Elements(seq)
         /\ \A i, k \in DOMAIN Tail(seq) : Tail(seq)[i] = Tail(seq)[k] => i = k
  <1>. DEFINE rest == Tail(seq)
  <1>1. /\ DOMAIN seq = 1..Len(seq) /\ Len(seq) \in Nat \ {0} /\ Head(seq) = seq[1]
        /\ DOMAIN rest = 1..(Len(seq) - 1)
        /\ \A i \in DOMAIN rest : rest[i] = seq[i+1]
    BY EmptySeq
  <1>. HIDE DEF rest
  <1>2. Head(seq) \in Elements(seq)
    BY <1>1 DEF Elements
  <1>3. Elements(rest) \subseteq Elements(seq) \ {Head(seq)}
    BY <1>1 DEF Elements
  <1>4. ASSUME NEW x \in Elements(seq), x # Head(seq) PROVE x \in Elements(rest)
    <2>1. PICK i \in DOMAIN seq : x = seq[i]
      BY DEF Elements
    <2>2. i - 1 \in DOMAIN rest /\ rest[i - 1] = x
      BY <1>1, <1>4, <2>1
    <2>3. QED
      BY <2>2 DEF Elements
  <1>5. \A i, k \in DOMAIN rest : rest[i] = rest[k] => i = k
    BY <1>1
  <1>6. QED
    BY <1>2, <1>3, <1>4, <1>5 DEF rest

LEMMA IDIsCurrent ==
  ASSUME Inv, NEW id \in DOMAIN invokerByJobID \cup upserting \cup completing
  PROVE  id[1] \in Job /\ id[1] \in givenJobs /\ id = CurrentID(id[1]) /\ id \in JobID
  <1>1. id \in JobID
    BY DEF Inv, TypeInv, TypeOK, RegistryTypeOK
  <1>2. id = <<id[1], id[2]>> /\ id[1] \in Job
    BY <1>1 DEF JobID
  <1>3. id[1] \in givenJobs /\ id[2] = idNumber[id[1]]
    BY DEF Inv, PlaceInv
  <1>4. QED
    BY <1>1, <1>2, <1>3 DEF CurrentID

\* The queue finds the job of every ID in use.
LEMMA IDIsKnown ==
  ASSUME Inv, NEW id \in DOMAIN invokerByJobID \cup upserting \cup completing
  PROVE  IsKnownID(id) /\ ~ QueuePanicsOn(id)
  <1>1. id[1] \in givenJobs /\ id = CurrentID(id[1])
    BY IDIsCurrent
  <1>2. id[2] = idNumber[id[1]]
    BY <1>1 DEF CurrentID
  <1>3. QED
    BY <1>1, <1>2 DEF Inv, QueueInv, IsKnownID, QueuePanicsOn

LEMMA UnchangedPlaces == 
  ASSUME Inv, TypeInv', UNCHANGED placeVars PROVE Inv'
  <1>1. QueueInv'
    BY DEF Inv, QueueInv, placeVars, queueVars, CurrentID
  <1>2. PlaceInv' /\ JobIsInOnePlace'
    BY DEF Inv, PlaceInv, JobIsInOnePlace, placeVars, queueVars, CurrentID, IsWaiting, IsAssigned,
       IsAccepted
  <1>3. QED
    BY <1>1, <1>2 DEF Inv

LEMMA InitInv == Init => Inv
  <1>. SUFFICES ASSUME Init PROVE Inv
    OBVIOUS
  <1>1. QueueInv
    BY QueueAssumption DEF Init, QueueInit, QueueInv
  <1>2. PlaceInv /\ JobIsInOnePlace
    BY QueueAssumption DEF Init, QueueInit, RegistryInit, PlaceInv, JobIsInOnePlace, IsWaiting,
       IsAssigned, IsAccepted, Elements
  <1>3. QED
    BY <1>1, <1>2, InitTypeInv DEF Inv

LEMMA NewSubmissionInv ==
  ASSUME Inv, TypeInv', NEW s \in Submission, NewSubmission(s) PROVE Inv'
  <1>1. /\ s \notin submitted /\ submitted' = submitted \cup {s}
        /\ toGive' = toGive \cup JobsOf(s)
        /\ UNCHANGED <<givenJobs, idNumber, jobIDToOriginalJobID, originalJobIDToJob,
                       newFailedJobs, invokerByJobID, nextJob, upserting, completing>>
    BY DEF NewSubmission, Submit, registryVars, mapVars, handlerVars
  <1>2. \A j \in JobsOf(s) : j[1] = s /\ j[1] \notin submitted
    BY <1>1 DEF JobsOf
  <1>3. QueueInv'
    BY <1>1, <1>2 DEF Inv, QueueInv, CurrentID
  <1>4. PlaceInv' /\ JobIsInOnePlace'
    BY <1>1 DEF Inv, PlaceInv, JobIsInOnePlace, CurrentID, IsWaiting, IsAssigned, IsAccepted
  <1>5. QED
    BY <1>3, <1>4 DEF Inv

LEMMA InvokerJobResultInv ==
  ASSUME Inv, TypeInv', NEW id, NEW good, InvokerJobResult(id, good) PROVE Inv'
  <1>1. /\ id \in DOMAIN invokerByJobID
        /\ DOMAIN invokerByJobID' = DOMAIN invokerByJobID \ {id}
        /\ upserting' \subseteq upserting \cup {id} /\ completing' = completing
        /\ UNCHANGED <<queueVars, nextJob>>
    BY DEF InvokerJobResult, WithoutKey
  <1>2. id[1] \in Job /\ id[1] \in givenJobs /\ id = CurrentID(id[1])
    BY <1>1, IDIsCurrent
  <1>3. IsAssigned(id[1])
    BY <1>1, <1>2 DEF IsAssigned
  <1>4. ~ IsWaiting(id[1]) /\ id \notin completing
    BY <1>2, <1>3 DEF Inv, JobIsInOnePlace, IsAccepted
  <1>5. \A j \in Job : CurrentID(j) = id => j = id[1]
    BY DEF CurrentID
  <1>6. QueueInv'
    BY <1>1 DEF Inv, QueueInv, queueVars, CurrentID
  <1>7. PlaceInv'
    BY <1>1 DEF Inv, PlaceInv, IsWaiting, queueVars
  <1>8. JobIsInOnePlace'
    <2>1. \A j \in Job : /\ IsWaiting(j)' <=> IsWaiting(j)
                         /\ IsAssigned(j)' => IsAssigned(j) /\ CurrentID(j) # id
                         /\ IsAccepted(j)' => IsAccepted(j) \/ CurrentID(j) = id
      BY <1>1 DEF IsWaiting, IsAssigned, IsAccepted, CurrentID, queueVars
    <2>2. \A j \in Job : /\ ~ (IsWaiting(j)' /\ IsAssigned(j)')
                         /\ ~ (IsWaiting(j)' /\ IsAccepted(j)')
                         /\ ~ (IsAssigned(j)' /\ IsAccepted(j)')
      BY <1>4, <1>5, <2>1 DEF Inv, JobIsInOnePlace
    <2>3. upserting' \cap completing' = {}
      BY <1>1, <1>4 DEF Inv, JobIsInOnePlace
    <2>4. QED
      BY <1>1, <2>2, <2>3 DEF Inv, JobIsInOnePlace, queueVars
  <1>9. QED
    BY <1>6, <1>7, <1>8 DEF Inv

LEMMA UpsertAfterResultInv ==
  ASSUME Inv, TypeInv', NEW id \in upserting, NEW st, UpsertAfterResult(id, st) PROVE Inv'
  <1>1. /\ upserting' = upserting \ {id} /\ completing' = completing \cup {id}
        /\ UNCHANGED <<queueVars, invokerByJobID, nextJob>>
    BY DEF UpsertAfterResult, Upsert
  <1>2. QueueInv'
    BY <1>1 DEF Inv, QueueInv, queueVars, CurrentID
  <1>3. PlaceInv' /\ JobIsInOnePlace'
    BY <1>1 DEF Inv, PlaceInv, JobIsInOnePlace, IsWaiting, IsAssigned, IsAccepted, CurrentID,
       queueVars
  <1>4. QED
    BY <1>2, <1>3 DEF Inv

LEMMA SendNextJobInv ==
  ASSUME Inv, TypeInv', SendNextJob PROVE Inv'
  <1>1. /\ nextJob \in Job /\ nextJob' = NoJob
        /\ DOMAIN invokerByJobID' = DOMAIN invokerByJobID \cup {CurrentID(nextJob)}
        /\ UNCHANGED <<queueVars, upserting, completing>>
    BY DEF SendNextJob, Inv, TypeInv, TypeOK, RegistryTypeOK, handlerVars
  <1>2. IsWaiting(nextJob) /\ nextJob \in givenJobs
    BY <1>1 DEF Inv, PlaceInv, IsWaiting
  <1>3. QueueInv'
    BY <1>1 DEF Inv, QueueInv, queueVars, CurrentID
  <1>4. PlaceInv'
    BY <1>1, <1>2, QueueAssumption DEF Inv, PlaceInv, IsWaiting, queueVars, CurrentID
  <1>5. JobIsInOnePlace'
    <2>1. \A j \in Job : /\ IsWaiting(j)' => IsWaiting(j) /\ j # nextJob
                         /\ IsAssigned(j)' => IsAssigned(j) \/ j = nextJob
                         /\ IsAccepted(j)' <=> IsAccepted(j)
      BY <1>1, QueueAssumption DEF Inv, JobIsInOnePlace, IsWaiting, IsAssigned, IsAccepted,
         CurrentID, queueVars
    <2>2. \A j \in Job : /\ ~ (IsWaiting(j)' /\ IsAssigned(j)')
                         /\ ~ (IsWaiting(j)' /\ IsAccepted(j)')
                         /\ ~ (IsAssigned(j)' /\ IsAccepted(j)')
      BY <1>1, <1>2, <2>1 DEF Inv, JobIsInOnePlace
    <2>3. QED
      BY <1>1, <2>2, QueueAssumption DEF Inv, JobIsInOnePlace, queueVars
  <1>6. QED
    BY <1>3, <1>4, <1>5 DEF Inv

LEMMA RescheduleExtractedInv ==
  ASSUME Inv, TypeInv', NEW t, NEW id, RescheduleExtracted(t, id) PROVE Inv'
  <1>. DEFINE j == id[1]
              newID == <<j, idNumber[j] + 1>>
  <1>1. CASE id \notin DOMAIN invokerByJobID
    <2>1. UNCHANGED placeVars
      BY <1>1 DEF RescheduleExtracted, placeVars, handlerVars
    <2>2. QED
      BY <2>1, UnchangedPlaces
  <1>2. CASE id \in DOMAIN invokerByJobID
    <2>1. /\ idNumber' = [idNumber EXCEPT ![j] = @ + 1]
          /\ jobIDToOriginalJobID' = (jobIDToOriginalJobID \ {id}) \cup {newID}
          /\ newFailedJobs' = Append(newFailedJobs, j)
          /\ DOMAIN invokerByJobID' = DOMAIN invokerByJobID \ {id}
          /\ UNCHANGED <<submitted, toGive, givenJobs, originalJobIDToJob, nextJob, upserting,
                         completing>>
      BY <1>2 DEF RescheduleExtracted, RescheduleJob, WithoutKey, handlerVars
    <2>2. /\ j \in Job /\ j \in givenJobs /\ id = CurrentID(j) /\ id = <<j, idNumber[j]>>
          /\ IsAssigned(j)
      BY <1>2, IDIsCurrent DEF IsAssigned, CurrentID
    <2>3. ~ IsWaiting(j) /\ id \notin upserting \cup completing
      BY <2>2 DEF Inv, JobIsInOnePlace, IsAccepted
    <2>4. /\ idNumber \in [Job -> Nat] /\ newFailedJobs \in Seq(Job) /\ givenJobs \subseteq Job
          /\ jobIDToOriginalJobID \subseteq JobID
          /\ DOMAIN invokerByJobID \cup upserting \cup completing \subseteq JobID
      BY DEF Inv, TypeInv, TypeOK, QueueTypeOK, RegistryTypeOK
    <2>5. idNumber'[j] = idNumber[j] + 1 /\ \A k \in Job \ {j} : idNumber'[k] = idNumber[k]
      BY <2>1, <2>2, <2>4
    <2>6. \A x \in JobID : x[1] = j /\ x[2] = idNumber[j] => x = id
      BY <2>2 DEF JobID
    <2>. HIDE DEF j
    <2>7. \A x \in (jobIDToOriginalJobID \ {id})
                    \cup (DOMAIN invokerByJobID' \cup upserting \cup completing) : x[1] # j
      BY <2>1, <2>3, <2>4, <2>6 DEF Inv, QueueInv, PlaceInv
    <2>8. QueueInv'
      <3>1. \A x \in jobIDToOriginalJobID' : x[1] \in givenJobs' /\ x[2] = idNumber'[x[1]]
        <4>1. ASSUME NEW x \in jobIDToOriginalJobID \ {id}
              PROVE  x[1] \in givenJobs' /\ x[2] = idNumber'[x[1]]
          <5>1. x[1] # j /\ x[1] \in Job
            BY <2>4, <2>7 DEF JobID
          <5>2. QED
            BY <2>1, <2>5, <5>1 DEF Inv, QueueInv
        <4>2. newID[1] \in givenJobs' /\ newID[2] = idNumber'[newID[1]]
          BY <2>1, <2>2, <2>5
        <4>3. QED
          BY <2>1, <4>1, <4>2
      <3>2. \A k \in givenJobs' : idNumber'[k] = 0 \/ CurrentID(k)' \in jobIDToOriginalJobID'
        <4>1. CurrentID(j)' = newID
          BY <2>5 DEF CurrentID
        <4>2. ASSUME NEW k \in givenJobs, k # j
              PROVE  idNumber'[k] = 0 \/ CurrentID(k)' \in jobIDToOriginalJobID'
          <5>1. CurrentID(k)' = CurrentID(k) /\ idNumber'[k] = idNumber[k] /\ CurrentID(k) # id
            BY <2>2, <2>4, <2>5, <4>2 DEF CurrentID
          <5>2. QED
            BY <2>1, <5>1 DEF Inv, QueueInv
        <4>3. QED
          BY <2>1, <4>1, <4>2
      <3>3. \A k \in Job : k \in toGive \/ k[1] \notin submitted =>
                             k \notin givenJobs /\ idNumber'[k] = 0
        BY <2>2, <2>5 DEF Inv, QueueInv
      <3>4. QED
        BY <2>1, <3>1, <3>2, <3>3 DEF Inv, QueueInv
    <2>9. Elements(newFailedJobs)' = Elements(newFailedJobs) \cup {j}
      <3>1. Elements(newFailedJobs') = Elements(newFailedJobs) \cup {j}
        BY <2>1, <2>2, <2>4, ElementsOfAppend
      <3>2. QED
        BY <3>1 DEF Elements
    <2>10. PlaceInv'
      <3>1. \A k \in Job : IsWaiting(k)' => k \in givenJobs'
        BY <2>1, <2>2, <2>9 DEF Inv, PlaceInv, IsWaiting
      <3>2. ASSUME NEW x \in DOMAIN invokerByJobID' \cup upserting \cup completing
            PROVE  x[1] \in givenJobs' /\ x[2] = idNumber'[x[1]]
        <4>1. x[1] # j /\ x[1] \in Job
          BY <2>1, <2>4, <2>7 DEF JobID
        <4>2. QED
          BY <2>1, <2>5, <4>1 DEF Inv, PlaceInv
      <3>3. QED
        BY <2>1, <3>1, <3>2 DEF PlaceInv
    <2>11. JobIsInOnePlace'
      <3>1. ~ IsAssigned(j)' /\ ~ IsAccepted(j)'
        BY <2>1, <2>7 DEF IsAssigned, IsAccepted, CurrentID
      <3>2. \A k \in Job \ {j} : /\ IsWaiting(k)' => IsWaiting(k)
                                 /\ IsAssigned(k)' => IsAssigned(k)
                                 /\ IsAccepted(k)' => IsAccepted(k)
        BY <2>1, <2>5, <2>9 DEF IsWaiting, IsAssigned, IsAccepted, CurrentID
      <3>3. \A k \in Job : ~ (nextJob' = k /\ k \in Elements(newFailedJobs)')
        BY <2>1, <2>3, <2>9 DEF Inv, JobIsInOnePlace, IsWaiting
      <3>4. \A i, k \in DOMAIN newFailedJobs' : newFailedJobs'[i] = newFailedJobs'[k] => i = k
        BY <2>1, <2>2, <2>3, <2>4 DEF Inv, JobIsInOnePlace, IsWaiting, Elements
      <3>5. \A k \in Job : /\ ~ (IsWaiting(k)' /\ IsAssigned(k)')
                           /\ ~ (IsWaiting(k)' /\ IsAccepted(k)')
                           /\ ~ (IsAssigned(k)' /\ IsAccepted(k)')
        BY <3>1, <3>2 DEF Inv, JobIsInOnePlace
      <3>6. QED
        BY <2>1, <3>3, <3>4, <3>5 DEF Inv, JobIsInOnePlace
    <2>12. QED
      BY <2>8, <2>10, <2>11 DEF Inv
  <1>3. QED
    BY <1>1, <1>2

LEMMA CompleteJobInv ==
  ASSUME Inv, TypeInv', NEW id, CompleteJob(id) PROVE Inv'
  <1>. DEFINE j == id[1]
  <1>1. /\ id \in completing /\ completing' = completing \ {id}
        /\ jobIDToOriginalJobID' = jobIDToOriginalJobID \ {id}
        /\ originalJobIDToJob' = originalJobIDToJob \ {j}
        /\ givenJobs' = givenJobs \ {j} /\ toGive' \subseteq toGive
        /\ UNCHANGED <<submitted, idNumber, newFailedJobs, invokerByJobID, nextJob, upserting>>
    BY DEF CompleteJob, JobCompleted, GeneratorJobCompleted, mapVars
  <1>2. j \in Job /\ id = CurrentID(j) /\ IsAccepted(j)
    BY <1>1, IDIsCurrent DEF IsAccepted
  <1>3. ~ IsWaiting(j) /\ id \notin DOMAIN invokerByJobID \cup upserting
    BY <1>1, <1>2 DEF Inv, JobIsInOnePlace, IsAssigned
  <1>4. DOMAIN invokerByJobID \cup upserting \cup completing \cup jobIDToOriginalJobID
          \subseteq JobID
    BY DEF Inv, TypeInv, TypeOK, QueueTypeOK, RegistryTypeOK
  <1>5. \A x \in JobID : x[1] = j /\ x[2] = idNumber[j] => x = id
    BY <1>2 DEF JobID, CurrentID
  <1>. HIDE DEF j
  <1>6. QueueInv'
    <2>1. \A x \in jobIDToOriginalJobID' : x[1] \in givenJobs' /\ x[2] = idNumber'[x[1]]
      BY <1>1, <1>4, <1>5 DEF Inv, QueueInv
    <2>2. \A k \in givenJobs' : idNumber'[k] = 0 \/ CurrentID(k)' \in jobIDToOriginalJobID'
      BY <1>1, <1>2 DEF Inv, QueueInv, CurrentID
    <2>3. \A k \in Job : k \in toGive' \/ k[1] \notin submitted' =>
                           k \notin givenJobs' /\ idNumber'[k] = 0
      BY <1>1 DEF Inv, QueueInv
    <2>4. QED
      BY <1>1, <2>1, <2>2, <2>3 DEF Inv, QueueInv
  <1>7. PlaceInv'
    <2>1. \A k \in Job : IsWaiting(k)' => k \in givenJobs'
      BY <1>1, <1>3 DEF Inv, PlaceInv, IsWaiting
    <2>2. \A x \in DOMAIN invokerByJobID \cup upserting \cup completing' :
            x[1] \in givenJobs' /\ x[2] = idNumber[x[1]]
      BY <1>1, <1>3, <1>4, <1>5 DEF Inv, PlaceInv
    <2>3. QED
      BY <1>1, <2>1, <2>2 DEF PlaceInv
  <1>8. JobIsInOnePlace'
    BY <1>1 DEF Inv, JobIsInOnePlace, IsWaiting, IsAssigned, IsAccepted, CurrentID
  <1>9. QED
    BY <1>6, <1>7, <1>8 DEF Inv

LEMMA FetchNextJobInv ==
  ASSUME Inv, TypeInv', FetchNextJob PROVE Inv'
  <1>1. PICK j \in Job \cup {NoJob} : NextJob(j) /\ nextJob' = j
    BY DEF FetchNextJob
  <1>2. nextJob = NoJob /\ UNCHANGED <<invokerByJobID, upserting, completing>>
    BY DEF FetchNextJob, handlerVars
  <1>3. CASE NextFailedJob(j)
    <2>1. /\ newFailedJobs # <<>> /\ j = Head(newFailedJobs)
          /\ newFailedJobs' = Tail(newFailedJobs)
          /\ UNCHANGED <<submitted, toGive, givenJobs, idNumber, jobIDToOriginalJobID,
                         originalJobIDToJob>>
      BY <1>3 DEF NextFailedJob
    <2>2. newFailedJobs \in Seq(Job)
      BY DEF Inv, TypeInv, TypeOK, QueueTypeOK
    <2>3. /\ Elements(newFailedJobs)' = Elements(newFailedJobs) \ {j}
          /\ j \in Elements(newFailedJobs)
          /\ \A i, k \in DOMAIN newFailedJobs' : newFailedJobs'[i] = newFailedJobs'[k] => i = k
      <3>1. \A i, k \in DOMAIN newFailedJobs : newFailedJobs[i] = newFailedJobs[k] => i = k
        BY DEF Inv, JobIsInOnePlace
      <3>2. /\ Elements(newFailedJobs') = Elements(newFailedJobs) \ {j}
            /\ j \in Elements(newFailedJobs)
            /\ \A i, k \in DOMAIN newFailedJobs' :
                 newFailedJobs'[i] = newFailedJobs'[k] => i = k
        BY <2>1, <2>2, <3>1, ElementsOfTail
      <3>3. QED
        BY <3>2 DEF Elements
    <2>4. \A k \in Job : IsWaiting(k)' => IsWaiting(k)
      BY <1>1, <2>3 DEF IsWaiting
    <2>5. QueueInv'
      BY <2>1 DEF Inv, QueueInv, CurrentID
    <2>6. PlaceInv'
      BY <1>2, <2>1, <2>4 DEF Inv, PlaceInv
    <2>7. JobIsInOnePlace'
      BY <1>1, <1>2, <2>1, <2>3, <2>4 DEF Inv, JobIsInOnePlace, IsAssigned, IsAccepted, CurrentID
    <2>8. QED
      BY <2>5, <2>6, <2>7 DEF Inv
  <1>4. CASE NextNewJob(j)
    <2>1. /\ j \in toGive /\ toGive' = toGive \ {j} /\ givenJobs' = givenJobs \cup {j}
          /\ originalJobIDToJob' = originalJobIDToJob \cup {j}
          /\ UNCHANGED <<submitted, idNumber, jobIDToOriginalJobID, newFailedJobs>>
      BY <1>4 DEF NextNewJob, GeneratorGives
    <2>2. j \in Job /\ j \notin givenJobs /\ idNumber[j] = 0
      BY <2>1 DEF Inv, QueueInv, TypeInv, TypeOK, QueueTypeOK
    <2>3. j[1] \in submitted /\ j[1] \in submitted'
      BY <2>1 DEF Inv, QueueInv
    <2>4. ~ IsWaiting(j) /\ ~ IsAssigned(j) /\ ~ IsAccepted(j)
      BY <2>2 DEF Inv, PlaceInv, IsAssigned, IsAccepted, CurrentID
    <2>5. QueueInv'
      BY <2>1, <2>2, <2>3 DEF Inv, QueueInv, CurrentID
    <2>6. \A k \in Job : /\ IsWaiting(k)' => IsWaiting(k) \/ k = j
                         /\ IsAssigned(k)' <=> IsAssigned(k)
                         /\ IsAccepted(k)' <=> IsAccepted(k)
      BY <1>1, <1>2, <2>1 DEF IsWaiting, IsAssigned, IsAccepted, CurrentID
    <2>7. PlaceInv'
      BY <1>2, <2>1, <2>6 DEF Inv, PlaceInv
    <2>8. JobIsInOnePlace'
      <3>1. j \notin Elements(newFailedJobs)
        BY <2>4 DEF IsWaiting
      <3>2. \A k \in Job : ~ (nextJob' = k /\ k \in Elements(newFailedJobs)')
        BY <1>1, <2>1, <3>1 DEF Elements
      <3>3. QED
        BY <1>2, <2>1, <2>4, <2>6, <3>2 DEF Inv, JobIsInOnePlace
    <2>9. QED
      BY <2>5, <2>7, <2>8 DEF Inv
  <1>5. CASE j = NoJob /\ NoNextJob
    <2>1. UNCHANGED <<submitted, toGive, givenJobs, idNumber, jobIDToOriginalJobID,
                      originalJobIDToJob, newFailedJobs, nextJob>>
      BY <1>1, <1>2, <1>5 DEF NoNextJob
    <2>2. QueueInv'
      BY <2>1 DEF Inv, QueueInv, CurrentID
    <2>3. PlaceInv' /\ JobIsInOnePlace'
      BY <1>2, <2>1 DEF Inv, PlaceInv, JobIsInOnePlace, IsWaiting, IsAssigned, IsAccepted,
         CurrentID
    <2>4. QED
      BY <2>2, <2>3 DEF Inv
  <1>6. QED
    BY <1>1, <1>3, <1>4, <1>5 DEF NextJob

----------------------------------------------------------------------------
LEMMA TrackerInv ==
  ASSUME Inv, TypeInv', NEW t \in Tracker, TrackerNext(t) PROVE Inv'
  <1>1. ASSUME NEW id \in extracted[t], RescheduleExtracted(t, id) PROVE Inv'
    BY <1>1, RescheduleExtractedInv
  <1>2. CASE PingFailed(t)
    BY <1>2, UnchangedPlaces DEF PingFailed, placeVars, mapVars, handlerVars
  <1>3. CASE ExtractJobs(t)
    BY <1>3, UnchangedPlaces DEF ExtractJobs, placeVars, mapVars, handlerVars
  <1>4. CASE LockForRescheduling(t)
    BY <1>4, UnchangedPlaces DEF LockForRescheduling, placeVars, mapVars, handlerVars
  <1>5. CASE RemoveInvoker(t)
    BY <1>5, UnchangedPlaces DEF RemoveInvoker, placeVars, handlerVars
  <1>6. ASSUME NEW id \in noReply[t], EnsureJobIsNotLost(t, id) PROVE Inv'
    BY <1>6, UnchangedPlaces DEF EnsureJobIsNotLost, placeVars, mapVars, handlerVars
  <1>7. ASSUME NEW st \in AnyStatus, PingAnswered(t, st) PROVE Inv'
    BY <1>7, UnchangedPlaces DEF PingAnswered, placeVars, mapVars, handlerVars
  <1>8. QED
    BY <1>1, <1>2, <1>3, <1>4, <1>5, <1>6, <1>7 DEF TrackerNext

LEMMA CallInv ==
  ASSUME Inv, TypeInv', CallNext PROVE Inv'
  <1>1. UNCHANGED placeVars
    BY DEF CallNext, SendFailed, SendAnswered, StopAnswered, StopFailed, placeVars, mapVars,
       handlerVars
  <1>2. QED
    BY <1>1, UnchangedPlaces

LEMMA HandlerInv ==
  ASSUME Inv, TypeInv', HandlerNext PROVE Inv'
  <1>1. ASSUME NEW st \in AnyStatus, InvokerStatus(st) PROVE Inv'
    BY <1>1, UnchangedPlaces DEF InvokerStatus, Upsert, placeVars, handlerVars
  <1>2. QED
    BY <1>1, NewSubmissionInv, InvokerJobResultInv, UpsertAfterResultInv, CompleteJobInv
       DEF HandlerNext

LEMMA SendInv ==
  ASSUME Inv, TypeInv', SendNext PROVE Inv'
  <1>1. CASE SendJobs
    BY <1>1, UnchangedPlaces DEF SendJobs, placeVars, handlerVars
  <1>2. CASE TryNextInvoker
    BY <1>2, UnchangedPlaces DEF TryNextInvoker, placeVars, handlerVars
  <1>3. QED
    BY <1>1, <1>2, FetchNextJobInv, SendNextJobInv DEF SendNext

LEMMA InvIsInvariant == Spec => []Inv
  <1>1. Inv /\ TypeInv' /\ [Next]_vars => Inv'
    <2>1. ASSUME Inv, TypeInv', UNCHANGED vars PROVE Inv'
      BY <2>1, UnchangedPlaces DEF vars, registryVars, placeVars, mapVars, handlerVars
    <2>2. QED
      BY <2>1, TrackerInv, CallInv, HandlerInv, SendInv DEF Next
  <1>2. QED
    BY <1>1, InitInv, TypeInvIsInvariant, PTL DEF Spec

\* In every behaviour a job is in at most one place: waiting (once), assigned, or
\* accepted; so the master never runs a job twice at the same time nor counts two
\* results of it, however failures and late answers are interleaved.
THEOREM OnePlace == Spec => []JobIsInOnePlace
  BY InvIsInvariant, PTL DEF Inv

\* In every behaviour the queue and the generator still wait for each result the
\* registry accepts, so queue.JobCompleted neither refuses it nor panics.
THEOREM ResultAwaited == Spec => []AcceptedResultIsAwaited
  <1>1. Inv => AcceptedResultIsAwaited
    BY IDIsKnown, IDIsCurrent DEF AcceptedResultIsAwaited
  <1>2. QED
    BY <1>1, InvIsInvariant, PTL
=============================================================================
