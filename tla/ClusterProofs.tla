--------------------------- MODULE ClusterProofs ---------------------------
(***************************************************************************)
(* Proofs about module Cluster: the registry among real invoker processes  *)
(* is a Registry, whatever faults happen, so that everything proved of     *)
(* that module holds here; and no delayed or reordered status makes the    *)
(* master believe that a job disappeared while it runs.                    *)
(***************************************************************************)
EXTENDS Cluster, HolderProofs, FiniteSetTheorems

Stage == {"sent", "queued", "registered", "answered"}

Made(a) == 1..Len(snapshots[a])

\* The statuses that travel were made; only finitely many jobs are in one.
SnapshotsTyped ==
  /\ snapshots \in [Address -> Seq(SUBSET JobID)]
  /\ \A a \in Address : /\ Len(snapshots[a]) <= MaxEpoch
                        /\ \A e \in Made(a) : IsFiniteSet(snapshots[a][e])

ActiveTyped ==
  /\ activeJobs \in [Address -> SUBSET JobID]
  /\ \A a \in Address : IsFiniteSet(activeJobs[a])

RequestsTyped ==
  /\ requests \subseteq [call : Tracker \X Job, stage : Stage, id : JobID, epoch : Nat]
  /\ \A r \in requests : r.stage = "answered" => r.epoch \in Made(AddressOf(r.call))

PipelinesTyped == pipelines \subseteq [call : Tracker \X Job, id : JobID]

ResultsTyped ==
  /\ results \subseteq [id : JobID, address : Address, epoch : Nat]
  /\ \A r \in results : r.epoch > 0 => r.epoch \in Made(r.address)

CarriedTyped ==
  /\ carried \subseteq [id : JobID, address : Address, epoch : Nat]
  /\ \A c \in carried : c.epoch \in Made(c.address)

ProcessTypes == /\ SnapshotsTyped /\ ActiveTyped /\ RequestsTyped /\ PipelinesTyped
                /\ ResultsTyped /\ CarriedTyped /\ faults \in Nat

----------------------------------------------------------------------------
(* The registry looks only for the jobs it holds in a status.               *)

\* A status as a Registry's invoker could have made it.
Known(st) == [address |-> st.address, epoch |-> st.epoch,
              activeJobIDs |-> st.activeJobIDs \cap Held, maxNewJobs |-> st.maxNewJobs]

LEMMA StatusFields ==
  ASSUME NEW a, NEW e
  PROVE  /\ StatusOf(a, e).address = a /\ StatusOf(a, e).epoch = e
         /\ StatusOf(a, e).activeJobIDs = snapshots[a][e]
         /\ StatusOf(a, e).maxNewJobs =
              IF Cardinality(snapshots[a][e]) > MaxJobs THEN 0
              ELSE MaxJobs - Cardinality(snapshots[a][e])
         /\ Known(StatusOf(a, e)).address = a /\ Known(StatusOf(a, e)).epoch = e
         /\ Known(StatusOf(a, e)).activeJobIDs = snapshots[a][e] \cap Held
         /\ Known(StatusOf(a, e)).maxNewJobs = StatusOf(a, e).maxNewJobs
  BY DEF StatusOf, Known

LEMMA StatusIsAny ==
  ASSUME SnapshotsTyped, NEW a \in Address, NEW e \in Made(a)
  PROVE  Known(StatusOf(a, e)) \in AnyStatus
  <1>1. Len(snapshots[a]) \in Nat /\ Len(snapshots[a]) <= MaxEpoch /\ IsFiniteSet(snapshots[a][e])
    BY DEF SnapshotsTyped
  <1>2. Cardinality(snapshots[a][e]) \in Nat
    BY <1>1, FS_CardinalityType
  <1>3. e \in Epoch
    BY <1>1, ClusterAssumption, StatusAssumption DEF Made
  <1>4. StatusOf(a, e).maxNewJobs \in Capacity
    BY <1>2, ClusterAssumption, StatusAssumption, StatusFields
  <1>5. Known(StatusOf(a, e)) = [address |-> a, epoch |-> e,
                                 activeJobIDs |-> snapshots[a][e] \cap Held,
                                 maxNewJobs |-> StatusOf(a, e).maxNewJobs]
    BY DEF Known, StatusOf
  <1>6. QED
    BY <1>3, <1>4, <1>5 DEF AnyStatus

\* The registry can not tell these two statuses from each other.
Alike(st, su) ==
  /\ su.address = st.address /\ su.epoch = st.epoch /\ su.maxNewJobs = st.maxNewJobs
  /\ su.activeJobIDs = st.activeJobIDs \cap Held

LEMMA KnownIsAlike ==
  ASSUME NEW a, NEW e PROVE Alike(StatusOf(a, e), Known(StatusOf(a, e)))
  BY StatusFields DEF Alike

LEMMA AlikeTracker ==
  ASSUME NEW st, NEW su, Alike(st, su), NEW t \in Tracker
  PROVE  /\ Accepts(t, su) <=> Accepts(t, st)
         /\ Distrusts(t, su) <=> Distrusts(t, st)
         /\ \A test \in SUBSET Holders(t) : MarkNoReply(t, st, test) => MarkNoReply(t, su, test)
  <1>1. Accepts(t, su) <=> Accepts(t, st)
    BY DEF Alike, Accepts
  <1>2. Holders(t) \subseteq Held
    BY DEF Held
  <1>3. noReply[t] \cap su.activeJobIDs = noReply[t] \cap st.activeJobIDs
    BY <1>2 DEF Alike, Holders
  <1>4. Distrusts(t, su) <=> Distrusts(t, st)
    BY <1>1, <1>3 DEF Distrusts
  <1>5. ASSUME NEW test \in SUBSET Holders(t), MarkNoReply(t, st, test)
        PROVE  MarkNoReply(t, su, test)
    <2>1. test \ su.activeJobIDs = test \ st.activeJobIDs
      BY <1>2 DEF Alike
    <2>2. QED
      BY <1>1, <1>4, <1>5, <2>1 DEF MarkNoReply
  <1>6. QED
    BY <1>1, <1>4, <1>5

LEMMA AlikeUpdate ==
  ASSUME NEW st, NEW su, Alike(st, su), NEW t \in Tracker, NEW test \in SUBSET Holders(t),
         UpdateStatus(t, st, test)
  PROVE  UpdateStatus(t, su, test)
  <1>1. KeepStatus({x \in {t} : Accepts(x, su)}, su)
    BY AlikeTracker DEF UpdateStatus, KeepStatus, Alike
  <1>2. QED
    BY <1>1, AlikeTracker DEF UpdateStatus

LEMMA AlikeUpsert ==
  ASSUME RegistryTypeOK, NEW st, NEW su, Alike(st, su), Upsert(st)
  PROVE  Upsert(su)
  <1>. DEFINE current == CurrentTrackers(st)
              distrusting == {t \in current : Distrusts(t, st)}
              born == IF current = distrusting THEN NewTracker(st.address) ELSE {}
  <1>1. CurrentTrackers(su) = current /\ current \subseteq Tracker
    BY DEF CurrentTrackers, Alike, RegistryTypeOK, Elements
  <1>2. {t \in CurrentTrackers(su) : Distrusts(t, su)} = distrusting
    BY <1>1, AlikeTracker
  <1>3. {t \in CurrentTrackers(su) : Accepts(t, su)} = {t \in current : Accepts(t, st)}
    BY <1>1, AlikeTracker
  <1>4. (IF CurrentTrackers(su) = {t \in CurrentTrackers(su) : Distrusts(t, su)}
         THEN NewTracker(su.address) ELSE {}) = born
    BY <1>1, <1>2 DEF Alike
  <1>5. ASSUME NEW t \in current, MarkNoReply(t, st, testing[t])
        PROVE  MarkNoReply(t, su, testing[t])
    BY <1>1, <1>5, AlikeTracker DEF Holders
  <1>6. KeepStatus({t \in current : Accepts(t, st)} \cup born, su)
    BY DEF Upsert, KeepStatus, Alike
  <1>7. /\ current = distrusting => born # {}
        /\ phase' = [t \in Tracker |-> IF t \in distrusting THEN "failed"
                                       ELSE IF t \in born THEN "live" ELSE phase[t]]
        /\ \/ \E t \in current : MarkNoReply(t, su, testing[t])
           \/ current = {} /\ UNCHANGED <<testing, noReply>>
        /\ \/ \E t \in born : invokers' = Append(invokers, t)
           \/ born = {} /\ UNCHANGED invokers
        /\ UNCHANGED <<queueVars, sending, calls, stops, extracted, invokerByJobID,
                       testingJobs, nextJob, sendAt>>
    BY <1>5 DEF Upsert
  <1>. HIDE DEF current, distrusting, born
  <1>8. QED
    BY <1>1, <1>2, <1>3, <1>4, <1>6, <1>7 DEF Upsert

----------------------------------------------------------------------------
(* Every step of the system is a step of the registry, or none.             *)

LEMMA StatusesAreMade ==
  ASSUME SnapshotsTyped, NEW a \in Address, NEW st \in StatusesOf(a)
  PROVE  \E e \in Made(a) : st = StatusOf(a, e)
  BY DEF SnapshotsTyped, StatusesOf, Made

LEMMA TrackerParts ==
  ASSUME NEW t \in Tracker PROVE t[1] \in Address /\ t[2] \in Nat /\ t = <<t[1], t[2]>>
  BY RegistryAssumption DEF Tracker

LEMMA PingIsAny ==
  ASSUME Inv, SnapshotsTyped, NEW t \in Tracker, NEW st \in StatusesOf(t[1]), PingAnswered(t, st)
  PROVE  TrackerNext(t)
  <1>1. t[1] \in Address
    BY TrackerParts
  <1>2. PICK e \in Made(t[1]) : st = StatusOf(t[1], e)
    BY <1>1, StatusesAreMade
  <1>3. Known(st) \in AnyStatus /\ Known(st).address = t[1] /\ Alike(st, Known(st))
    BY <1>1, <1>2, StatusIsAny, StatusFields, KnownIsAlike
  <1>4. UpdateStatus(t, Known(st), testing[t])
    BY <1>3, AlikeUpdate DEF PingAnswered, Holders
  <1>5. PingAnswered(t, Known(st))
    BY <1>4 DEF PingAnswered
  <1>6. QED
    BY <1>3, <1>5 DEF TrackerNext

LEMMA AnswerIsAny ==
  ASSUME Inv, SnapshotsTyped, NEW c \in calls, NEW e \in Made(AddressOf(c)),
         SendAnswered(c[1], c[2], StatusOf(AddressOf(c), e))
  PROVE  CallNext
  <1>. DEFINE st == StatusOf(AddressOf(c), e)
  <1>1. c[1] \in Tracker /\ AddressOf(c) = c[1][1] /\ c[1][1] \in Address
    BY TrackerParts DEF Inv, TypeInv, TypeOK, RegistryTypeOK, AddressOf
  <1>2. Known(st) \in AnyStatus /\ Known(st).address = c[1][1] /\ Alike(st, Known(st))
    BY <1>1, StatusIsAny, StatusFields, KnownIsAlike
  <1>3. testing[c[1]] \cup (sending[c[1]] \cap {CurrentID(c[2])}) \in SUBSET Holders(c[1])
    BY DEF Holders
  <1>. HIDE DEF st
  <1>4. UpdateStatus(c[1], Known(st), testing[c[1]] \cup (sending[c[1]] \cap {CurrentID(c[2])}))
    BY <1>1, <1>2, <1>3, AlikeUpdate DEF SendAnswered, st
  <1>5. SendAnswered(c[1], c[2], Known(st))
    BY <1>4 DEF SendAnswered, st
  <1>6. QED
    BY <1>2, <1>5 DEF CallNext

LEMMA UpsertIsAny ==
  ASSUME Inv, SnapshotsTyped, NEW a \in Address, NEW e \in Made(a), Upsert(StatusOf(a, e))
  PROVE  \E st \in AnyStatus : Upsert(st)
  BY StatusIsAny, KnownIsAlike, AlikeUpsert DEF Inv, TypeInv, TypeOK

LEMMA MasterStep == ASSUME Inv, MasterNext PROVE Next
  <1>1. ASSUME NEW t \in Tracker, FailureHandling(t) PROVE Next
    BY <1>1 DEF FailureHandling, TrackerNext, Next
  <1>2. QED
    BY <1>1 DEF MasterNext, Next, HandlerNext, SendNext

LEMMA ProcessStep == ASSUME ProcessNext PROVE UNCHANGED vars
  BY DEF ProcessNext, MakeOwnStatus, Restart, AcceptNewJob, RegisterActiveJob, AnswerNewJob,
     FinishJob, UploadResult

LEMMA ResultStep ==
  ASSUME Inv, NEW r \in results, DeliverResult(r) PROVE [Next]_vars
  <1>1. CASE r.id \notin DOMAIN invokerByJobID
    BY <1>1 DEF DeliverResult
  <1>2. CASE r.id \in DOMAIN invokerByJobID
    <2>1. PICK good \in BOOLEAN : InvokerJobResult(r.id, good)
      BY <1>2 DEF DeliverResult
    <2>2. r.id[1] \in Job /\ r.id = <<r.id[1], idNumber[r.id[1]]>>
      BY <1>2, IDIsCurrent DEF CurrentID
    <2>3. idNumber[r.id[1]] \in Nat
      BY <2>2 DEF Inv, TypeInv, TypeOK, QueueTypeOK
    <2>4. r.id \in {r.id[1]} \X (0..idNumber[r.id[1]])
      BY <2>2, <2>3
    <2>5. r.id \in Minted
      BY <2>2, <2>4 DEF Minted
    <2>6. QED
      BY <2>1, <2>5 DEF Next, HandlerNext
  <1>3. QED
    BY <1>1, <1>2

LEMMA NetworkStep ==
  ASSUME Inv, ProcessTypes, NetworkNext PROVE [Next]_vars
  <1>1. ASSUME NEW t \in Tracker, DeliverPing(t) PROVE Next
    BY <1>1, PingIsAny DEF DeliverPing, ProcessTypes, Next
  <1>2. ASSUME NEW t \in Tracker, LosePing(t) PROVE Next
    BY <1>2 DEF LosePing, Next, TrackerNext
  <1>3. ASSUME NEW t \in Tracker, NEW id \in noReply[t], LostJobTimer(t, id) PROVE Next
    BY <1>3 DEF LostJobTimer, Next, TrackerNext
  <1>4. ASSUME NEW a \in Address, DeliverPush(a) PROVE Next
    <2>1. PICK st \in StatusesOf(a) : InvokerStatus(st)
      BY <1>4 DEF DeliverPush
    <2>2. PICK e \in Made(a) : st = StatusOf(a, e)
      BY StatusesAreMade DEF ProcessTypes
    <2>3. \E su \in AnyStatus : InvokerStatus(su)
      BY <2>1, <2>2, UpsertIsAny DEF InvokerStatus, ProcessTypes
    <2>4. QED
      BY <2>3 DEF Next, HandlerNext
  <1>5. CASE SendRequest
    BY <1>5 DEF SendRequest, Next, SendNext
  <1>6. ASSUME NEW r \in requests, DeliverAnswer(r) PROVE Next
    <2>1. r.epoch \in Made(AddressOf(r.call))
      BY <1>6 DEF DeliverAnswer, ProcessTypes, RequestsTyped
    <2>2. r.call \in Tracker \X Job
      BY DEF ProcessTypes, RequestsTyped
    <2>3. r.call = <<r.call[1], r.call[2]>>
      BY <2>2
    <2>4. r.call \in calls
      BY <1>6, <2>3 DEF DeliverAnswer, SendAnswered
    <2>5. CallNext
      BY <1>6, <2>1, <2>4, AnswerIsAny DEF DeliverAnswer, ProcessTypes
    <2>6. QED
      BY <2>5 DEF Next
  <1>7. ASSUME NEW r \in requests, CallLost(r) PROVE Next
    <2>1. r.call \in Tracker \X Job
      BY DEF ProcessTypes, RequestsTyped
    <2>2. r.call = <<r.call[1], r.call[2]>>
      BY <2>1
    <2>3. SendFailed(r.call[1], r.call[2])
      BY <1>7 DEF CallLost
    <2>4. r.call \in calls
      BY <2>2, <2>3 DEF SendFailed
    <2>5. QED
      BY <2>3, <2>4 DEF Next, CallNext
  <1>8. ASSUME NEW r \in requests, DropAnswer(r) PROVE UNCHANGED vars
    BY <1>8 DEF DropAnswer
  <1>9. ASSUME NEW c \in calls, CallRefused(c) PROVE Next
    BY <1>9 DEF CallRefused, Next, CallNext
  <1>10. ASSUME NEW c \in stops, StopJobCall(c) PROVE Next
    BY <1>10 DEF StopJobCall, Next, CallNext
  <1>11. ASSUME NEW r \in results, LoseResult(r) PROVE UNCHANGED vars
    BY <1>11 DEF LoseResult
  <1>12. ASSUME NEW c \in carried, UpsertCarried(c) PROVE Next
    <2>1. c.address \in Address /\ c.epoch \in Made(c.address)
      BY DEF ProcessTypes, CarriedTyped
    <2>2. MutexIsFree /\ c.id \in upserting /\ Upsert(StatusOf(c.address, c.epoch))
      BY <1>12 DEF UpsertCarried, UpsertAfterResult
    <2>3. PICK st \in AnyStatus : Upsert(st)
      BY <2>1, <2>2, UpsertIsAny DEF ProcessTypes
    <2>4. UpsertAfterResult(c.id, st)
      BY <1>12, <2>3 DEF UpsertCarried, UpsertAfterResult
    <2>5. QED
      BY <2>2, <2>4 DEF Next, HandlerNext
  <1>13. QED
    BY <1>1, <1>2, <1>3, <1>4, <1>5, <1>6, <1>7, <1>8, <1>9, <1>10, <1>11, <1>12, ResultStep
       DEF NetworkNext

LEMMA StepIsRegistryStep ==
  ASSUME Inv, ProcessTypes, [ClusterNext]_clusterVars PROVE [Next]_vars
  BY MasterStep, ProcessStep, NetworkStep DEF ClusterNext, clusterVars

----------------------------------------------------------------------------
(* The processes and the calls keep their types.                            *)

LEMMA MakeStatusTypes ==
  ASSUME SnapshotsTyped, ActiveTyped, NEW a \in Address, MakeStatus(a, activeJobs[a])
  PROVE  /\ SnapshotsTyped'
         /\ Len(snapshots'[a]) \in Made(a)' \ {0}
         /\ \A b \in Address : Made(b) \subseteq Made(b)'
         /\ \A b \in Address : \A e \in Made(b) : snapshots'[b][e] = snapshots[b][e]
         /\ Made(a)' = Made(a) \cup {Len(snapshots'[a])} /\ Len(snapshots'[a]) \notin Made(a)
         /\ snapshots'[a][Len(snapshots'[a])] = activeJobs[a]
         /\ \A b \in Address \ {a} : snapshots'[b] = snapshots[b]
  <1>. DEFINE new == Append(snapshots[a], activeJobs[a])
  <1>1. /\ Len(snapshots[a]) < MaxEpoch
        /\ snapshots' = [snapshots EXCEPT ![a] = new]
    BY DEF MakeStatus
  <1>2. snapshots[a] \in Seq(SUBSET JobID) /\ activeJobs[a] \in SUBSET JobID
    BY DEF SnapshotsTyped, ActiveTyped
  <1>3. /\ new \in Seq(SUBSET JobID) /\ Len(new) = Len(snapshots[a]) + 1
        /\ Len(snapshots[a]) \in Nat
        /\ \A e \in 1..Len(snapshots[a]) : new[e] = snapshots[a][e]
        /\ new[Len(new)] = activeJobs[a]
    BY <1>2
  <1>. HIDE DEF new
  <1>4. snapshots' \in [Address -> Seq(SUBSET JobID)]
    BY <1>1, <1>3 DEF SnapshotsTyped
  <1>5. snapshots'[a] = new /\ \A b \in Address \ {a} : snapshots'[b] = snapshots[b]
    BY <1>1 DEF SnapshotsTyped
  <1>6. \A b \in Address : Len(snapshots'[b]) <= MaxEpoch
    BY <1>1, <1>3, <1>5, ClusterAssumption DEF SnapshotsTyped
  <1>7. \A b \in Address : \A e \in Made(b) : snapshots'[b][e] = snapshots[b][e]
    BY <1>3, <1>5 DEF Made
  <1>8. Made(a)' = Made(a) \cup {Len(new)} /\ Len(new) \notin Made(a) /\ Len(new) # 0
    BY <1>3, <1>5 DEF Made
  <1>9. \A b \in Address \ {a} : Made(b)' = Made(b)
    BY <1>5 DEF Made
  <1>10. \A b \in Address : \A e \in Made(b)' : IsFiniteSet(snapshots'[b][e])
    <2>1. \A e \in Made(a) \cup {Len(new)} : IsFiniteSet(snapshots'[a][e])
      BY <1>3, <1>5, <1>7 DEF SnapshotsTyped, ActiveTyped
    <2>2. QED
      BY <1>7, <1>8, <1>9, <2>1 DEF SnapshotsTyped
  <1>11. QED
    BY <1>3, <1>4, <1>5, <1>6, <1>7, <1>8, <1>9, <1>10 DEF SnapshotsTyped

\* What was sent with a status stays typed when statuses are added.
LEMMA SameTypes ==
  ASSUME ProcessTypes, \A b \in Address : Made(b) \subseteq Made(b)'
  PROVE  /\ requests' \subseteq requests => RequestsTyped'
         /\ pipelines' \subseteq pipelines => PipelinesTyped'
         /\ results' \subseteq results => ResultsTyped'
         /\ carried' \subseteq carried => CarriedTyped'
         /\ UNCHANGED activeJobs => ActiveTyped'
  <1>1. ASSUME requests' \subseteq requests PROVE RequestsTyped'
    <2>1. \A r \in requests : r.call[1] \in Tracker
      BY DEF ProcessTypes, RequestsTyped
    <2>2. \A r \in requests : AddressOf(r.call) \in Address
      BY <2>1, TrackerParts DEF AddressOf
    <2>3. QED
      BY <1>1, <2>2 DEF ProcessTypes, RequestsTyped
  <1>2. QED
    BY <1>1 DEF ProcessTypes, PipelinesTyped, ResultsTyped, CarriedTyped, ActiveTyped

LEMMA SameSnapshots ==
  ASSUME SnapshotsTyped, UNCHANGED snapshots
  PROVE  SnapshotsTyped' /\ \A b \in Address : Made(b) \subseteq Made(b)'
  BY DEF SnapshotsTyped, Made

LEMMA RequestFields ==
  ASSUME RequestsTyped, NEW r \in requests
  PROVE  /\ r.call \in Tracker \X Job /\ r.call[1] \in Tracker /\ r.call[2] \in Job
         /\ r.call = <<r.call[1], r.call[2]>>
         /\ AddressOf(r.call) \in Address /\ AddressOf(r.call) = r.call[1][1]
         /\ r.stage \in Stage /\ r.id \in JobID /\ r.id[1] \in Job /\ r.id[2] \in Nat
         /\ r.id = <<r.id[1], r.id[2]>> /\ r.epoch \in Nat
         /\ r = [call |-> r.call, stage |-> r.stage, id |-> r.id, epoch |-> r.epoch]
  <1>1. r \in [call : Tracker \X Job, stage : Stage, id : JobID, epoch : Nat]
    BY DEF RequestsTyped
  <1>2. r.call[1] \in Tracker
    BY <1>1
  <1>3. QED
    BY <1>1, <1>2, TrackerParts DEF AddressOf, JobID

LEMMA PipelineFields ==
  ASSUME PipelinesTyped, NEW p \in pipelines
  PROVE  /\ p.call \in Tracker \X Job /\ p.call[1] \in Tracker /\ p.call[2] \in Job
         /\ AddressOf(p.call) \in Address /\ AddressOf(p.call) = p.call[1][1]
         /\ p.id \in JobID /\ p.id[1] \in Job /\ p.id[2] \in Nat
         /\ p = [call |-> p.call, id |-> p.id]
  <1>1. p \in [call : Tracker \X Job, id : JobID]
    BY DEF PipelinesTyped
  <1>2. p.call[1] \in Tracker
    BY <1>1
  <1>3. QED
    BY <1>1, <1>2, TrackerParts DEF AddressOf, JobID

\* A request that goes on is still one.
LEMMA RequestGoesOn ==
  ASSUME ProcessTypes, \A b \in Address : Made(b) \subseteq Made(b)', NEW r \in requests,
         NEW new, requests' = (requests \ {r}) \cup {new},
         new \in [call : {r.call}, stage : Stage, id : JobID, epoch : Nat],
         new.stage = "answered" => new.epoch \in Made(AddressOf(r.call))'
  PROVE  RequestsTyped'
  <1>1. r.call \in Tracker \X Job
    BY DEF ProcessTypes, RequestsTyped
  <1>2. \A x \in requests : AddressOf(x.call) \in Address
    BY RequestFields DEF ProcessTypes
  <1>3. new.call = r.call /\ new \in [call : Tracker \X Job, stage : Stage, id : JobID, epoch : Nat]
    BY <1>1
  <1>4. QED
    BY <1>2, <1>3 DEF ProcessTypes, RequestsTyped, AddressOf

LEMMA RequestChanged ==
  ASSUME RequestsTyped, NEW r \in requests, NEW stage \in Stage, NEW id \in JobID, NEW e \in Nat
  PROVE  /\ [r EXCEPT !.stage = stage, !.id = id] =
              [call |-> r.call, stage |-> stage, id |-> id, epoch |-> r.epoch]
         /\ [r EXCEPT !.stage = stage] =
              [call |-> r.call, stage |-> stage, id |-> r.id, epoch |-> r.epoch]
         /\ [r EXCEPT !.stage = stage, !.epoch = e] =
              [call |-> r.call, stage |-> stage, id |-> r.id, epoch |-> e]
  <1>. DEFINE staged == [r EXCEPT !.stage = stage]
  <1>1. r \in [call : Tracker \X Job, stage : Stage, id : JobID, epoch : Nat]
    BY DEF RequestsTyped
  <1>2. staged = [call |-> r.call, stage |-> stage, id |-> r.id, epoch |-> r.epoch]
    BY <1>1
  <1>. HIDE DEF staged
  <1>3. staged \in [call : Tracker \X Job, stage : Stage, id : JobID, epoch : Nat]
    BY <1>1, <1>2
  <1>4. [staged EXCEPT !.id = id] =
          [call |-> r.call, stage |-> stage, id |-> id, epoch |-> r.epoch]
    BY <1>2, <1>3
  <1>5. [staged EXCEPT !.epoch = e] =
          [call |-> r.call, stage |-> stage, id |-> r.id, epoch |-> e]
    BY <1>2, <1>3
  <1>6. QED
    BY <1>2, <1>4, <1>5, Zenon DEF staged

LEMMA AcceptTypes ==
  ASSUME Inv, ProcessTypes, NEW r \in requests, AcceptNewJob(r) PROVE ProcessTypes'
  <1>. RequestsTyped /\ SnapshotsTyped
    BY DEF ProcessTypes
  <1>1. PICK n \in r.id[2]..idNumber[r.id[1]] :
          /\ requests' = (requests \ {r}) \cup
                           {[r EXCEPT !.stage = "queued", !.id = <<r.id[1], n>>]}
          /\ pipelines' = pipelines \cup {[call |-> r.call, id |-> <<r.id[1], n>>]}
    BY DEF AcceptNewJob
  <1>2. n \in Nat
    <2>1. r.id[2] \in Nat /\ idNumber[r.id[1]] \in Nat
      BY RequestFields DEF Inv, TypeInv, TypeOK, QueueTypeOK
    <2>2. QED
      BY <2>1
  <1>3. <<r.id[1], n>> \in JobID
    BY <1>2, RequestFields DEF JobID
  <1>4. UNCHANGED <<snapshots, activeJobs, results, carried, faults>>
    BY DEF AcceptNewJob
  <1>5. \A b \in Address : Made(b) \subseteq Made(b)'
    BY <1>4, SameSnapshots
  <1>6. RequestsTyped'
    <2>1. [r EXCEPT !.stage = "queued", !.id = <<r.id[1], n>>] =
            [call |-> r.call, stage |-> "queued", id |-> <<r.id[1], n>>, epoch |-> r.epoch]
      BY <1>3, RequestFields, RequestChanged DEF Stage
    <2>2. QED
      BY <1>1, <1>3, <1>5, <2>1, RequestGoesOn, RequestFields DEF Stage
  <1>7. PipelinesTyped'
    BY <1>1, <1>3, RequestFields DEF ProcessTypes, PipelinesTyped
  <1>8. QED
    BY <1>4, <1>5, <1>6, <1>7, SameTypes, SameSnapshots DEF ProcessTypes

LEMMA RegisterTypes ==
  ASSUME ProcessTypes, NEW r \in requests, RegisterActiveJob(r) PROVE ProcessTypes'
  <1>. RequestsTyped /\ SnapshotsTyped /\ ActiveTyped
    BY DEF ProcessTypes
  <1>1. /\ activeJobs' = [activeJobs EXCEPT ![AddressOf(r.call)] = @ \cup {r.id}]
        /\ requests' = (requests \ {r}) \cup {[r EXCEPT !.stage = "registered"]}
        /\ UNCHANGED <<snapshots, pipelines, results, carried, faults>>
    BY DEF RegisterActiveJob
  <1>2. \A b \in Address : Made(b) \subseteq Made(b)'
    BY <1>1, SameSnapshots
  <1>3. RequestsTyped'
    <2>1. [r EXCEPT !.stage = "registered"] =
            [call |-> r.call, stage |-> "registered", id |-> r.id, epoch |-> r.epoch]
      BY RequestFields, RequestChanged DEF Stage
    <2>2. QED
      BY <1>1, <1>2, <2>1, RequestGoesOn, RequestFields DEF Stage
  <1>4. ActiveTyped'
    <2>1. AddressOf(r.call) \in Address /\ r.id \in JobID
      BY RequestFields
    <2>2. IsFiniteSet(activeJobs[AddressOf(r.call)] \cup {r.id})
      BY <2>1, FS_AddElement DEF ActiveTyped
    <2>3. QED
      BY <1>1, <2>1, <2>2 DEF ActiveTyped
  <1>5. QED
    BY <1>1, <1>2, <1>3, <1>4, SameTypes, SameSnapshots DEF ProcessTypes

LEMMA AnswerTypes ==
  ASSUME ProcessTypes, NEW r \in requests, AnswerNewJob(r) PROVE ProcessTypes'
  <1>. RequestsTyped /\ SnapshotsTyped /\ ActiveTyped
    BY DEF ProcessTypes
  <1>. DEFINE a == AddressOf(r.call)
              e == Len(snapshots'[a])
  <1>1. /\ MakeStatus(a, activeJobs[a])
        /\ requests' = (requests \ {r}) \cup {[r EXCEPT !.stage = "answered", !.epoch = e]}
        /\ UNCHANGED <<activeJobs, pipelines, results, carried, faults>>
    BY DEF AnswerNewJob
  <1>2. a \in Address
    BY RequestFields
  <1>3. /\ SnapshotsTyped' /\ e \in Made(a)'
        /\ \A b \in Address : Made(b) \subseteq Made(b)'
    BY <1>1, <1>2, MakeStatusTypes
  <1>4. e \in Nat
    BY <1>2, <1>3 DEF SnapshotsTyped
  <1>5. RequestsTyped'
    <2>. HIDE DEF e
    <2>1. [r EXCEPT !.stage = "answered", !.epoch = e] =
            [call |-> r.call, stage |-> "answered", id |-> r.id, epoch |-> e]
      BY <1>4, RequestFields, RequestChanged DEF Stage
    <2>2. QED
      BY <1>1, <1>3, <1>4, <2>1, RequestGoesOn, RequestFields DEF Stage
  <1>6. QED
    BY <1>1, <1>3, <1>5, SameTypes DEF ProcessTypes

LEMMA FinishTypes ==
  ASSUME ProcessTypes, NEW p \in pipelines, FinishJob(p) PROVE ProcessTypes'
  <1>. PipelinesTyped /\ SnapshotsTyped /\ ActiveTyped
    BY DEF ProcessTypes
  <1>. DEFINE a == AddressOf(p.call)
  <1>1. /\ pipelines' = pipelines \ {p}
        /\ activeJobs' = [activeJobs EXCEPT ![a] = @ \ {p.id}]
        /\ results' = results \cup {[id |-> p.id, address |-> a, epoch |-> 0]}
        /\ UNCHANGED <<snapshots, requests, carried, faults>>
    BY DEF FinishJob
  <1>2. \A b \in Address : Made(b) \subseteq Made(b)'
    BY <1>1, SameSnapshots
  <1>3. p.id \in JobID /\ a \in Address
    BY PipelineFields
  <1>4. ActiveTyped'
    BY <1>1, <1>3, FS_RemoveElement DEF ActiveTyped
  <1>5. ResultsTyped'
    BY <1>1, <1>2, <1>3 DEF ProcessTypes, ResultsTyped
  <1>6. QED
    BY <1>1, <1>2, <1>4, <1>5, SameTypes, SameSnapshots DEF ProcessTypes

LEMMA UploadTypes ==
  ASSUME ProcessTypes, NEW r \in results, UploadResult(r) PROVE ProcessTypes'
  <1>. ResultsTyped /\ SnapshotsTyped /\ ActiveTyped
    BY DEF ProcessTypes
  <1>. DEFINE a == r.address
              e == Len(snapshots'[a])
  <1>1. /\ MakeStatus(a, activeJobs[a])
        /\ results' = (results \ {r}) \cup {[r EXCEPT !.epoch = e]}
        /\ UNCHANGED <<activeJobs, requests, pipelines, carried, faults>>
    BY DEF UploadResult
  <1>2. a \in Address /\ r = [id |-> r.id, address |-> a, epoch |-> r.epoch] /\ r.id \in JobID
    BY DEF ResultsTyped
  <1>3. /\ SnapshotsTyped' /\ e \in Made(a)'
        /\ \A b \in Address : Made(b) \subseteq Made(b)'
    BY <1>1, <1>2, MakeStatusTypes
  <1>4. e \in Nat
    BY <1>2, <1>3 DEF SnapshotsTyped
  <1>5. ResultsTyped'
    <2>. HIDE DEF e
    <2>1. [r EXCEPT !.epoch = e] = [id |-> r.id, address |-> a, epoch |-> e]
      BY <1>2
    <2>2. QED
      BY <1>1, <1>2, <1>3, <1>4, <2>1 DEF ResultsTyped
  <1>6. QED
    BY <1>1, <1>3, <1>5, SameTypes DEF ProcessTypes

LEMMA RestartTypes ==
  ASSUME ProcessTypes, NEW a \in Address, Restart(a) PROVE ProcessTypes'
  <1>. SnapshotsTyped
    BY DEF ProcessTypes
  <1>1. /\ activeJobs' = [activeJobs EXCEPT ![a] = {}]
        /\ pipelines' \subseteq pipelines /\ requests' \subseteq requests
        /\ faults' \in {faults, faults + 1}
        /\ UNCHANGED <<snapshots, carried>>
    BY DEF Restart, Fault
  <1>2. results' \subseteq results
    BY DEF Restart
  <1>3. ActiveTyped'
    BY <1>1, FS_EmptySet DEF ProcessTypes, ActiveTyped
  <1>4. QED
    BY <1>1, <1>2, <1>3, SameTypes, SameSnapshots DEF ProcessTypes

LEMMA ProcessNextTypes ==
  ASSUME Inv, ProcessTypes, ProcessNext PROVE ProcessTypes'
  <1>1. ASSUME NEW a \in Address, MakeOwnStatus(a) PROVE ProcessTypes'
    <2>1. SnapshotsTyped' /\ \A b \in Address : Made(b) \subseteq Made(b)'
      BY <1>1, MakeStatusTypes DEF MakeOwnStatus, ProcessTypes
    <2>2. QED
      BY <1>1, <2>1, SameTypes DEF MakeOwnStatus, ProcessTypes
  <1>2. QED
    BY <1>1, AcceptTypes, RegisterTypes, AnswerTypes, FinishTypes, UploadTypes, RestartTypes
       DEF ProcessNext

LEMMA LessTypes ==
  ASSUME ProcessTypes, UNCHANGED <<snapshots, activeJobs, pipelines>>,
         requests' \subseteq requests, results' \subseteq results, carried' \subseteq carried,
         faults' \in {faults, faults + 1}
  PROVE  ProcessTypes'
  <1>1. SnapshotsTyped' /\ \A b \in Address : Made(b) \subseteq Made(b)'
    BY SameSnapshots DEF ProcessTypes
  <1>2. QED
    BY <1>1, SameTypes DEF ProcessTypes

LEMMA SendRequestTypes ==
  ASSUME Inv, ProcessTypes, SendRequest PROVE ProcessTypes'
  <1>. DEFINE new == [call |-> <<invokers[sendAt], nextJob>>, stage |-> "sent",
                      id |-> CurrentID(nextJob), epoch |-> 0]
  <1>1. /\ SendNextJob
        /\ requests' = requests \cup {new}
        /\ UNCHANGED <<snapshots, activeJobs, pipelines, results, carried, faults>>
    BY DEF SendRequest
  <1>2. invokers[sendAt] \in Tracker /\ nextJob \in Job
    BY <1>1 DEF SendNextJob, Inv, TypeInv, TypeOK, RegistryTypeOK
  <1>3. CurrentID(nextJob) \in JobID
    BY <1>2 DEF CurrentID, JobID, Inv, TypeInv, TypeOK, QueueTypeOK
  <1>4. new \in [call : Tracker \X Job, stage : Stage, id : JobID, epoch : Nat]
        /\ new.stage = "sent"
    BY <1>2, <1>3 DEF Stage
  <1>. HIDE DEF new
  <1>5. SnapshotsTyped' /\ \A b \in Address : Made(b) \subseteq Made(b)'
    BY <1>1, SameSnapshots DEF ProcessTypes
  <1>6. RequestsTyped'
    <2>1. \A r \in requests : AddressOf(r.call) \in Address
      BY RequestFields DEF ProcessTypes
    <2>2. QED
      BY <1>1, <1>4, <1>5, <2>1 DEF ProcessTypes, RequestsTyped
  <1>7. QED
    BY <1>1, <1>5, <1>6, SameTypes DEF ProcessTypes

LEMMA DeliverResultTypes ==
  ASSUME Inv', ProcessTypes, NEW r \in results, DeliverResult(r) PROVE ProcessTypes'
  <1>1. /\ r.epoch > 0 /\ results' = results \ {r}
        /\ UNCHANGED <<snapshots, activeJobs, requests, pipelines, faults>>
    BY DEF DeliverResult
  <1>2. SnapshotsTyped' /\ \A b \in Address : Made(b) \subseteq Made(b)'
    BY <1>1, SameSnapshots DEF ProcessTypes
  <1>3. CarriedTyped'
    <2>1. CASE carried' = carried
      BY <1>2, <2>1, SameTypes
    <2>2. CASE carried' = carried \cup
                 {[id |-> id, address |-> r.address, epoch |-> r.epoch] : id \in upserting' \ upserting}
      <3>1. upserting' \subseteq JobID
        BY DEF Inv, TypeInv, TypeOK, RegistryTypeOK
      <3>2. r.address \in Address /\ r.epoch \in Nat /\ r.epoch \in Made(r.address)'
        BY <1>1, <1>2 DEF ProcessTypes, ResultsTyped
      <3>3. \A c \in carried' \ carried :
              /\ c \in [id : JobID, address : Address, epoch : Nat]
              /\ c.epoch \in Made(c.address)'
        BY <2>2, <3>1, <3>2
      <3>4. \A c \in carried : c \in [id : JobID, address : Address, epoch : Nat]
                               /\ c.epoch \in Made(c.address)'
        BY <1>2 DEF ProcessTypes, CarriedTyped
      <3>5. QED
        BY <3>3, <3>4 DEF CarriedTyped
    <2>3. QED
      BY <2>1, <2>2 DEF DeliverResult
  <1>4. QED
    BY <1>1, <1>2, <1>3, SameTypes DEF ProcessTypes

LEMMA NetworkNextTypes ==
  ASSUME Inv, Inv', ProcessTypes, NetworkNext PROVE ProcessTypes'
  <1>1. ASSUME NEW t \in Tracker, DeliverPing(t) \/ LosePing(t) PROVE ProcessTypes'
    BY <1>1, LessTypes DEF DeliverPing, LosePing, Fault, processVars
  <1>2. ASSUME NEW t \in Tracker, NEW id \in noReply[t], LostJobTimer(t, id) PROVE ProcessTypes'
    BY <1>2, LessTypes DEF LostJobTimer, Fault
  <1>3. ASSUME NEW a \in Address, DeliverPush(a) PROVE ProcessTypes'
    BY <1>3, LessTypes DEF DeliverPush, processVars
  <1>4. ASSUME NEW r \in requests, DeliverAnswer(r) \/ DropAnswer(r) PROVE ProcessTypes'
    BY <1>4, LessTypes DEF DeliverAnswer, DropAnswer
  <1>5. ASSUME NEW r \in requests, CallLost(r) PROVE ProcessTypes'
    BY <1>5, LessTypes DEF CallLost, Fault
  <1>6. ASSUME NEW c \in calls, CallRefused(c) PROVE ProcessTypes'
    BY <1>6, LessTypes DEF CallRefused, processVars
  <1>7. ASSUME NEW c \in stops, StopJobCall(c) PROVE ProcessTypes'
    BY <1>7, LessTypes DEF StopJobCall, Fault, processVars
  <1>8. ASSUME NEW r \in results, LoseResult(r) PROVE ProcessTypes'
    BY <1>8, LessTypes DEF LoseResult, Fault
  <1>9. ASSUME NEW c \in carried, UpsertCarried(c) PROVE ProcessTypes'
    BY <1>9, LessTypes DEF UpsertCarried
  <1>10. QED
    BY <1>1, <1>2, <1>3, <1>4, <1>5, <1>6, <1>7, <1>8, <1>9, SendRequestTypes, DeliverResultTypes
       DEF NetworkNext

LEMMA NextTypes ==
  ASSUME Inv, Inv', ProcessTypes, [ClusterNext]_clusterVars PROVE ProcessTypes'
  <1>1. CASE MasterNext
    BY <1>1, LessTypes DEF MasterNext, processVars
  <1>2. CASE UNCHANGED clusterVars
    BY <1>2, LessTypes DEF clusterVars, processVars
  <1>3. QED
    BY <1>1, <1>2, ProcessNextTypes, NetworkNextTypes DEF ClusterNext

LEMMA InitTypes == ClusterInit => ProcessTypes
  <1>. SUFFICES ASSUME ClusterInit PROVE ProcessTypes
    OBVIOUS
  <1>1. /\ snapshots = [a \in Address |-> <<>>] /\ activeJobs = [a \in Address |-> {}]
        /\ requests = {} /\ pipelines = {} /\ results = {} /\ carried = {} /\ faults = 0
    BY DEF ClusterInit
  <1>2. SnapshotsTyped
    <2>1. \A a \in Address : snapshots[a] = <<>> /\ Len(snapshots[a]) = 0
      BY <1>1
    <2>2. QED
      BY <1>1, <2>1, ClusterAssumption DEF SnapshotsTyped, Made
  <1>3. ActiveTyped
    BY <1>1, FS_EmptySet DEF ActiveTyped
  <1>4. QED
    BY <1>1, <1>2, <1>3 DEF ProcessTypes, RequestsTyped, PipelinesTyped, ResultsTyped, CarriedTyped

LEMMA RegistryStepInv == ASSUME Inv, [Next]_vars PROVE Inv'
  <1>1. TypeInv'
    BY TrackerTypeInv, CallTypeInv, HandlerTypeInv, SendTypeInv, UnchangedTypeInv DEF Next, Inv
  <1>2. ASSUME UNCHANGED vars PROVE Inv'
    BY <1>1, <1>2, UnchangedPlaces DEF vars, registryVars, placeVars, mapVars, handlerVars
  <1>3. QED
    BY <1>1, <1>2, TrackerInv, CallInv, HandlerInv, SendInv DEF Next

LEMMA ClusterTypes == ClusterSpec => [](Inv /\ ProcessTypes)
  <1>1. ClusterInit => Inv /\ ProcessTypes
    BY InitInv, InitTypes DEF ClusterInit
  <1>2. Inv /\ ProcessTypes /\ [ClusterNext]_clusterVars => (Inv /\ ProcessTypes)'
    BY StepIsRegistryStep, RegistryStepInv, NextTypes
  <1>3. QED
    BY <1>1, <1>2, PTL DEF ClusterSpec

\* The registry among real invoker processes, with restarts, lost calls and statuses
\* in any order, does only what a registry among invokers that may say anything
\* does: everything proved about module Registry holds in the whole system.
THEOREM ClusterIsRegistry == ClusterSpec => ImplementsRegistry
  <1>1. ClusterInit => Init
    BY DEF ClusterInit
  <1>2. Inv /\ ProcessTypes /\ [ClusterNext]_clusterVars => [Next]_vars
    BY StepIsRegistryStep
  <1>3. QED
    BY <1>1, <1>2, ClusterTypes, PTL DEF ClusterSpec, ImplementsRegistry, Spec

----------------------------------------------------------------------------
(* The work of a tracker that is not failed is its own.                     *)

IsLive(t) == phase[t] = "live"

RequestsOf(t) == {r \in requests : r.call[1] = t}
PipelinesOf(t) == {p \in pipelines : p.call[1] = t}

\* The job of this ID was handed to t, and to nobody else since.
Owned(t, id) ==
  /\ WasSent(id) /\ id = CurrentID(id[1])
  /\ id \in DOMAIN invokerByJobID => invokerByJobID[id] = t

WorkIsOwned ==
  \A t \in Tracker : IsLive(t) =>
    /\ \A r \in RequestsOf(t) : r.id[1] = r.call[2] /\ Owned(t, r.id) /\ r.call \in calls
    /\ \A p \in PipelinesOf(t) : p.id[1] = p.call[2] /\ Owned(t, p.id)

\* A call is one request and then one pipeline.
WorkIsOnce ==
  \A t \in Tracker : IsLive(t) =>
    /\ \A r, s \in RequestsOf(t) : r.call = s.call => r = s
    /\ \A p, q \in PipelinesOf(t) : p.call = q.call => p = q
    /\ \A r \in RequestsOf(t), p \in PipelinesOf(t) : r.call = p.call => r.stage # "sent"

UnbornHasNoWork ==
  \A t \in Tracker : phase[t] = "unborn" => RequestsOf(t) = {} /\ PipelinesOf(t) = {}

\* As long as the first tracker of an address did not fail there is no other.
FirstIsAlone ==
  \A t, u \in Tracker :
    t[2] = 1 /\ phase[t] \in {"unborn", "live"} /\ u[1] = t[1] /\ u # t => phase[u] = "unborn"

\* The status a tracker keeps was made by its process.
StatusIsKept ==
  \A t \in Tracker : phase[t] # "unborn" =>
    /\ epoch[t] \in Made(t[1])
    /\ maxNewJobs[t] = StatusOf(t[1], epoch[t]).maxNewJobs

\* The process at a lists the job of this ID in every status from e on.
ListedFrom(a, id, e) ==
  /\ id \in activeJobs[a]
  /\ \A n \in Made(a) : n >= e => id \in snapshots[a][n]

\* A running job whose answer is on its way, or came, is listed from then on.
RunningIsListed ==
  \A t \in Tracker : IsLive(t) /\ t[2] = 1 => \A p \in PipelinesOf(t) :
    /\ \A r \in RequestsOf(t) : r.call = p.call =>
         /\ r.stage = "registered" => p.id \in activeJobs[t[1]]
         /\ r.stage = "answered" => ListedFrom(t[1], p.id, r.epoch)
    /\ p.id \in testing[t] => ListedFrom(t[1], p.id, epoch[t])
    /\ p.id \notin noReply[t]

WorkInv == /\ WorkIsOwned /\ WorkIsOnce /\ UnbornHasNoWork /\ FirstIsAlone
           /\ StatusIsKept /\ RunningIsListed

----------------------------------------------------------------------------
(* What the steps of the registry do to the work of a live tracker.         *)

LEMMA NextSent ==
  ASSUME Inv, [Next]_vars, NEW id, WasSent(id) PROVE WasSent(id)'
  <1>1. ASSUME NEW t \in Tracker, TrackerNext(t) PROVE WasSent(id)'
    <2>1. ASSUME NEW x \in extracted[t], RescheduleExtracted(t, x) PROVE WasSent(id)'
      BY <2>1, RescheduleSent
    <2>2. ASSUME UNCHANGED <<queueVars, nextJob>> PROVE WasSent(id)'
      BY <2>2, SameSent DEF queueVars
    <2>3. QED
      BY <1>1, <2>1, <2>2 DEF TrackerNext, PingFailed, ExtractJobs, LockForRescheduling,
         RemoveInvoker, EnsureJobIsNotLost, PingAnswered, mapVars
  <1>2. CASE CallNext
    <2>1. UNCHANGED <<queueVars, nextJob>>
      BY <1>2 DEF CallNext, SendFailed, SendAnswered, StopAnswered, StopFailed, mapVars
    <2>2. QED
      BY <2>1, SameSent DEF queueVars
  <1>3. CASE HandlerNext
    <2>1. ASSUME UNCHANGED <<queueVars, nextJob>> PROVE WasSent(id)'
      BY <2>1, SameSent DEF queueVars
    <2>2. QED
      BY <1>3, <2>1, NewSubmissionSent, CompleteJobSent DEF HandlerNext, InvokerStatus,
         InvokerJobResult, UpsertAfterResult, Upsert
  <1>4. CASE SendNext
    <2>1. ASSUME UNCHANGED <<queueVars, nextJob>> PROVE WasSent(id)'
      BY <2>1, SameSent DEF queueVars
    <2>2. QED
      BY <1>4, <2>1, FetchNextJobSent, SendNextJobSent DEF SendNext, SendJobs, TryNextInvoker
  <1>5. CASE UNCHANGED vars
    BY <1>5, SameSent DEF vars, queueVars, registryVars, mapVars
  <1>6. QED
    BY <1>1, <1>2, <1>3, <1>4, <1>5 DEF Next

\* No job is renamed or assigned.
NothingIsAssigned ==
  /\ UNCHANGED idNumber
  /\ \A id \in DOMAIN invokerByJobID' : /\ id \in DOMAIN invokerByJobID
                                        /\ invokerByJobID'[id] = invokerByJobID[id]

LEMMA AssignmentSteps ==
  ASSUME [Next]_vars
  PROVE  \/ SendNextJob
         \/ \E u \in Tracker : \E id \in extracted[u] : RescheduleExtracted(u, id)
         \/ NothingIsAssigned
  <1>1. ASSUME UNCHANGED <<idNumber, invokerByJobID>> PROVE NothingIsAssigned
    BY <1>1 DEF NothingIsAssigned
  <1>2. ASSUME NEW t \in Tracker, TrackerNext(t)
        PROVE  \/ \E id \in extracted[t] : RescheduleExtracted(t, id)
               \/ NothingIsAssigned
    BY <1>1, <1>2 DEF TrackerNext, PingFailed, ExtractJobs, LockForRescheduling, RemoveInvoker,
       EnsureJobIsNotLost, PingAnswered, mapVars, queueVars
  <1>3. CASE CallNext
    BY <1>1, <1>3 DEF CallNext, SendFailed, SendAnswered, StopAnswered, StopFailed, mapVars,
       queueVars
  <1>4. CASE HandlerNext
    <2>1. ASSUME NEW id, NEW good, InvokerJobResult(id, good) PROVE NothingIsAssigned
      BY <2>1 DEF InvokerJobResult, NothingIsAssigned, WithoutKey, queueVars
    <2>2. ASSUME NEW st, Upsert(st) PROVE NothingIsAssigned
      BY <1>1, <2>2 DEF Upsert, queueVars
    <2>3. ASSUME NEW id, CompleteJob(id) PROVE NothingIsAssigned
      BY <1>1, <2>3 DEF CompleteJob, JobCompleted, mapVars
    <2>4. ASSUME NEW s, NewSubmission(s) PROVE NothingIsAssigned
      BY <1>1, <2>4 DEF NewSubmission, Submit, registryVars, mapVars
    <2>5. QED
      BY <1>4, <2>1, <2>2, <2>3, <2>4 DEF HandlerNext, InvokerStatus, UpsertAfterResult
  <1>5. CASE SendNext
    <2>1. CASE FetchNextJob
      BY <1>1, <2>1 DEF FetchNextJob, NextJob, NextFailedJob, NextNewJob, NoNextJob
    <2>2. CASE SendJobs \/ TryNextInvoker
      BY <1>1, <2>2 DEF SendJobs, TryNextInvoker, queueVars
    <2>3. QED
      BY <1>5, <2>1, <2>2 DEF SendNext
  <1>6. CASE UNCHANGED vars
    BY <1>1, <1>6 DEF vars, queueVars, registryVars, mapVars
  <1>7. QED
    BY <1>2, <1>3, <1>4, <1>5, <1>6 DEF Next

LEMMA OwnedStays ==
  ASSUME Inv, HInv, [Next]_vars, NEW t \in Tracker, IsLive(t), NEW id, Owned(t, id)
  PROVE  Owned(t, id)'
  <1>1. WasSent(id)' /\ id[1] \in Job
    BY NextSent DEF Owned, WasSent, JobID
  <1>2. CASE NothingIsAssigned
    BY <1>1, <1>2 DEF NothingIsAssigned, Owned, CurrentID
  <1>3. CASE SendNextJob
    <2>1. id # CurrentID(nextJob)
      <3>1. IsWaiting(nextJob)
        BY <1>3 DEF SendNextJob, IsWaiting
      <3>2. ~ IsWaiting(id[1])
        BY DEF Owned, WasSent, CurrentID
      <3>3. QED
        BY <3>1, <3>2 DEF CurrentID
    <2>2. /\ invokerByJobID' = [x \in DOMAIN invokerByJobID \cup {CurrentID(nextJob)} |->
                                  IF x = CurrentID(nextJob) THEN invokers[sendAt]
                                  ELSE invokerByJobID[x]]
          /\ UNCHANGED idNumber
      BY <1>3 DEF SendNextJob, queueVars
    <2>3. QED
      BY <1>1, <2>1, <2>2 DEF Owned, CurrentID
  <1>4. ASSUME NEW u \in Tracker, NEW x \in extracted[u], RescheduleExtracted(u, x)
        PROVE  Owned(t, id)'
    <2>1. CASE x \notin DOMAIN invokerByJobID
      BY <1>1, <1>4, <2>1 DEF RescheduleExtracted, queueVars, Owned, CurrentID
    <2>2. CASE x \in DOMAIN invokerByJobID
      <3>1. x = CurrentID(x[1]) /\ x[1] \in Job
        BY <2>2, IDIsCurrent
      <3>2. u # t
        BY <1>4 DEF RescheduleExtracted, IsLive
      <3>3. invokerByJobID[x] = u
        BY <2>2 DEF HInv, HolderInv
      <3>4. x[1] # id[1]
        BY <2>2, <3>1, <3>2, <3>3 DEF Owned
      <3>5. /\ idNumber' = [idNumber EXCEPT ![x[1]] = @ + 1]
            /\ invokerByJobID' = WithoutKey(invokerByJobID, x)
        BY <1>4, <2>2 DEF RescheduleExtracted, RescheduleJob
      <3>6. idNumber'[id[1]] = idNumber[id[1]]
        BY <1>1, <3>1, <3>4, <3>5 DEF Inv, TypeInv, TypeOK, QueueTypeOK
      <3>7. QED
        BY <1>1, <3>5, <3>6 DEF Owned, CurrentID, WithoutKey
    <2>3. QED
      BY <2>1, <2>2
  <1>5. QED
    BY <1>2, <1>3, <1>4, AssignmentSteps

LEMMA SameOwned ==
  ASSUME UNCHANGED vars, NEW t, NEW id PROVE Owned(t, id)' <=> Owned(t, id)
  BY DEF Owned, WasSent, IsWaiting, Elements, CurrentID, vars, queueVars, registryVars, mapVars

LEMMA LessWork ==
  ASSUME Inv, HInv, WorkInv, [Next]_vars, requests' \subseteq requests, pipelines' \subseteq pipelines,
         \A t \in Tracker : phase'[t] \in {"unborn", "live"} => phase[t] \in {"unborn", phase'[t]},
         \A r \in requests' : r.call \in calls /\ IsLive(r.call[1])' => r.call \in calls'
  PROVE  WorkIsOwned' /\ WorkIsOnce' /\ UnbornHasNoWork'
  <1>1. \A t \in Tracker : /\ RequestsOf(t)' \subseteq RequestsOf(t)
                           /\ PipelinesOf(t)' \subseteq PipelinesOf(t)
    BY DEF RequestsOf, PipelinesOf
  <1>2. \A t \in Tracker : IsLive(t)' =>
          IsLive(t) \/ (RequestsOf(t)' = {} /\ PipelinesOf(t)' = {})
    BY <1>1 DEF WorkInv, UnbornHasNoWork, IsLive
  <1>3. UnbornHasNoWork'
    BY <1>1 DEF WorkInv, UnbornHasNoWork
  <1>4. WorkIsOnce'
    BY <1>1, <1>2 DEF WorkInv, WorkIsOnce
  <1>5. WorkIsOwned'
    <2>1. SUFFICES ASSUME NEW t \in Tracker, IsLive(t)', IsLive(t)
                   PROVE  /\ \A r \in RequestsOf(t)' : /\ r.id[1] = r.call[2] /\ Owned(t, r.id)'
                                                       /\ r.call \in calls'
                          /\ \A p \in PipelinesOf(t)' : p.id[1] = p.call[2] /\ Owned(t, p.id)'
      BY <1>2 DEF WorkIsOwned
    <2>2. ASSUME NEW r \in RequestsOf(t)'
          PROVE  r.id[1] = r.call[2] /\ Owned(t, r.id)' /\ r.call \in calls'
      <3>1. r.id[1] = r.call[2] /\ Owned(t, r.id) /\ r.call \in calls
        BY <1>1, <2>1 DEF WorkInv, WorkIsOwned
      <3>2. r.call \in calls'
        BY <2>1, <3>1 DEF RequestsOf
      <3>3. QED
        BY <2>1, <3>1, <3>2, OwnedStays
    <2>3. ASSUME NEW p \in PipelinesOf(t)' PROVE p.id[1] = p.call[2] /\ Owned(t, p.id)'
      <3>1. p.id[1] = p.call[2] /\ Owned(t, p.id)
        BY <1>1, <2>1 DEF WorkInv, WorkIsOwned
      <3>2. QED
        BY <2>1, <3>1, OwnedStays
    <2>4. QED
      BY <2>2, <2>3
  <1>6. QED
    BY <1>3, <1>4, <1>5

\* A step that keeps the statuses, and makes and registers no tracker.
QuietStep ==
  /\ UNCHANGED <<snapshots, activeJobs, pipelines, statusVars>>
  /\ requests' \subseteq requests
  /\ \A t \in Tracker : /\ testing'[t] \subseteq testing[t] /\ noReply'[t] \subseteq noReply[t]
                        /\ phase[t] = "unborn" <=> phase'[t] = "unborn"
                        /\ phase'[t] = "live" => phase[t] = "live"
  /\ \A c \in calls : phase'[c[1]] = "live" => c \in calls'

LEMMA QuietWork ==
  ASSUME Inv, HInv, WorkInv, [Next]_vars, QuietStep PROVE WorkInv'
  <1>1. WorkIsOwned' /\ WorkIsOnce' /\ UnbornHasNoWork'
    <2>1. requests' \subseteq requests /\ pipelines' \subseteq pipelines
      BY DEF QuietStep
    <2>2. \A t \in Tracker : phase'[t] \in {"unborn", "live"} => phase[t] \in {"unborn", phase'[t]}
      BY DEF QuietStep
    <2>3. \A r \in requests' : r.call \in calls /\ IsLive(r.call[1])' => r.call \in calls'
      BY DEF QuietStep, IsLive
    <2>4. QED
      BY <2>1, <2>2, <2>3, LessWork
  <1>2. FirstIsAlone'
    BY DEF WorkInv, FirstIsAlone, QuietStep
  <1>3. StatusIsKept'
    BY DEF WorkInv, StatusIsKept, QuietStep, Made, StatusOf, statusVars
  <1>4. RunningIsListed'
    <2>1. \A a, id, e : ListedFrom(a, id, e)' <=> ListedFrom(a, id, e)
      BY DEF QuietStep, ListedFrom, Made
    <2>2. SUFFICES ASSUME NEW t \in Tracker, IsLive(t)', t[2] = 1, NEW p \in PipelinesOf(t)'
                   PROVE  /\ \A r \in RequestsOf(t)' : r.call = p.call =>
                               /\ r.stage = "registered" => p.id \in activeJobs'[t[1]]
                               /\ r.stage = "answered" => ListedFrom(t[1], p.id, r.epoch)'
                          /\ p.id \in testing'[t] => ListedFrom(t[1], p.id, epoch[t])'
                          /\ p.id \notin noReply'[t]
                          /\ epoch'[t] = epoch[t]
      BY DEF RunningIsListed, ListedFrom, Made
    <2>3. /\ t[1] \in Address /\ IsLive(t) /\ p \in PipelinesOf(t)
          /\ RequestsOf(t)' \subseteq RequestsOf(t) /\ epoch'[t] = epoch[t]
          /\ testing'[t] \subseteq testing[t] /\ noReply'[t] \subseteq noReply[t]
          /\ activeJobs' = activeJobs
      BY <2>2, TrackerParts DEF QuietStep, IsLive, RequestsOf, PipelinesOf, statusVars
    <2>4. QED
      BY <2>1, <2>2, <2>3 DEF WorkInv, RunningIsListed
  <1>5. QED
    BY <1>1, <1>2, <1>3, <1>4 DEF WorkInv

LEMMA QuietMaster ==
  ASSUME Inv, MasterNext PROVE QuietStep
  <1>. phase \in [Tracker -> Phase] /\ testing \in [Tracker -> SUBSET JobID]
         /\ noReply \in [Tracker -> SUBSET JobID]
    BY DEF Inv, TypeInv, TypeOK, RegistryTypeOK
  <1>1. UNCHANGED <<snapshots, activeJobs, pipelines, requests>>
    BY DEF MasterNext, processVars
  <1>2. ASSUME NEW t \in Tracker, FailureHandling(t) PROVE QuietStep
    BY <1>1, <1>2 DEF FailureHandling, ExtractJobs, LockForRescheduling, RemoveInvoker,
       RescheduleExtracted, QuietStep, holderVars
  <1>3. CASE UNCHANGED <<phase, statusVars, holderVars, calls>>
    BY <1>1, <1>3 DEF QuietStep, holderVars
  <1>4. QED
    BY <1>2, <1>3 DEF MasterNext, NewSubmission, registryVars, CompleteJob, SendJobs, FetchNextJob,
       TryNextInvoker

LEMMA QuietMark ==
  ASSUME Inv, NEW t \in Tracker, MarkFailed(t), UNCHANGED <<statusVars, holderVars>>,
         UNCHANGED <<snapshots, activeJobs, pipelines>>, requests' \subseteq requests,
         \A c \in calls : c[1] # t => c \in calls'
  PROVE  QuietStep
  <1>1. phase' = [phase EXCEPT ![t] = IF @ = "live" THEN "failed" ELSE @] /\ phase \in [Tracker -> Phase]
    BY DEF MarkFailed, Inv, TypeInv, TypeOK, RegistryTypeOK
  <1>2. QED
    BY <1>1 DEF QuietStep, holderVars

\* What is neither a status nor the request of a job is quiet.
LEMMA QuietNetwork ==
  ASSUME Inv, ProcessTypes, NetworkNext
  PROVE  \/ QuietStep
         \/ SendRequest
         \/ \E t \in Tracker : DeliverPing(t)
         \/ \E a \in Address : DeliverPush(a)
         \/ \E r \in requests : DeliverAnswer(r)
         \/ \E c \in carried : UpsertCarried(c)
  <1>1. ASSUME NEW t \in Tracker, LosePing(t) PROVE QuietStep
    BY <1>1, QuietMark DEF LosePing, PingFailed
  <1>2. ASSUME NEW t \in Tracker, NEW id \in noReply[t], LostJobTimer(t, id) PROVE QuietStep
    BY <1>2, QuietMark DEF LostJobTimer, EnsureJobIsNotLost
  <1>3. ASSUME NEW r \in requests, CallLost(r) PROVE QuietStep
    <2>1. r.call[1] \in Tracker
      BY RequestFields DEF ProcessTypes
    <2>2. /\ MarkFailed(r.call[1]) /\ UNCHANGED <<statusVars, holderVars>>
          /\ calls' = calls \ {<<r.call[1], r.call[2]>>}
          /\ UNCHANGED <<snapshots, activeJobs, pipelines>> /\ requests' \subseteq requests
      BY <1>3 DEF CallLost, SendFailed
    <2>3. \A c \in calls : c[1] # r.call[1] => c \in calls'
      BY <2>2
    <2>4. QED
      BY <2>1, <2>2, <2>3, QuietMark
  <1>4. ASSUME NEW c \in calls, CallRefused(c) PROVE QuietStep
    <2>1. c[1] \in Tracker
      BY DEF Inv, TypeInv, TypeOK, RegistryTypeOK
    <2>2. /\ MarkFailed(c[1]) /\ UNCHANGED <<statusVars, holderVars>>
          /\ calls' = calls \ {<<c[1], c[2]>>}
          /\ UNCHANGED <<snapshots, activeJobs, pipelines, requests>>
      BY <1>4 DEF CallRefused, SendFailed, processVars
    <2>3. \A d \in calls : d[1] # c[1] => d \in calls'
      BY <2>2
    <2>4. QED
      BY <2>1, <2>2, <2>3, QuietMark
  <1>5. ASSUME NEW c \in stops, StopJobCall(c) PROVE QuietStep
    <2>1. c[1] \in Tracker
      BY DEF Inv, TypeInv, TypeOK, RegistryTypeOK
    <2>2. CASE StopAnswered(c[1], c[2]) /\ UNCHANGED processVars
      BY <2>2 DEF StopAnswered, QuietStep, processVars, holderVars
    <2>3. CASE StopFailed(c[1], c[2]) /\ UNCHANGED <<snapshots, activeJobs, requests, pipelines>>
      BY <2>1, <2>3, QuietMark DEF StopFailed
    <2>4. QED
      BY <1>5, <2>2, <2>3 DEF StopJobCall
  <1>6. ASSUME NEW r \in results, DeliverResult(r) PROVE QuietStep
    <2>1. CASE UNCHANGED vars
      BY <1>6, <2>1 DEF DeliverResult, QuietStep, vars, registryVars, holderVars
    <2>2. ASSUME NEW good \in BOOLEAN, InvokerJobResult(r.id, good) PROVE QuietStep
      <3>1. /\ UNCHANGED <<phase, statusVars, calls>>
            /\ testing' = [testing EXCEPT ![invokerByJobID[r.id]] = @ \ {r.id}]
            /\ noReply' = [noReply EXCEPT ![invokerByJobID[r.id]] = @ \ {r.id}]
        BY <2>2 DEF InvokerJobResult
      <3>2. \A t \in Tracker : testing'[t] \subseteq testing[t] /\ noReply'[t] \subseteq noReply[t]
        BY <3>1 DEF Inv, TypeInv, TypeOK, RegistryTypeOK
      <3>3. QED
        BY <1>6, <3>1, <3>2 DEF DeliverResult, QuietStep
    <2>3. QED
      BY <1>6, <2>1, <2>2 DEF DeliverResult
  <1>7. ASSUME NEW r \in requests, DropAnswer(r) PROVE QuietStep
    BY <1>7 DEF DropAnswer, QuietStep, vars, registryVars, holderVars
  <1>8. ASSUME NEW r \in results, LoseResult(r) PROVE QuietStep
    BY <1>8 DEF LoseResult, QuietStep, vars, registryVars, holderVars
  <1>9. QED
    BY <1>1, <1>2, <1>3, <1>4, <1>5, <1>6, <1>7, <1>8 DEF NetworkNext

----------------------------------------------------------------------------
(* What a status does to the work of a live tracker.                        *)

LEMMA SameListed ==
  ASSUME UNCHANGED <<snapshots, activeJobs>>, NEW a, NEW id, NEW e
  PROVE  ListedFrom(a, id, e)' <=> ListedFrom(a, id, e)
  BY DEF ListedFrom, Made

\* A job listed from a status on that the tracker keeps now, or kept already, is not
\* missed.
LEMMA StatusListed ==
  ASSUME RegistryTypeOK, NEW t \in Tracker, NEW e \in Made(t[1]), NEW test \in SUBSET JobID,
         MarkNoReply(t, StatusOf(t[1], e), test),
         epoch'[t] = IF Accepts(t, StatusOf(t[1], e)) THEN e ELSE epoch[t],
         NEW id, id \notin noReply[t], NEW m \in Nat, m <= epoch'[t],
         id \in test => ListedFrom(t[1], id, m)
  PROVE  /\ id \notin noReply'[t]
         /\ id \in testing'[t] => ListedFrom(t[1], id, epoch'[t])
  <1>. DEFINE missing == IF Accepts(t, StatusOf(t[1], e)) THEN test \ snapshots[t[1]][e] ELSE {}
  <1>1. PICK marked \in SUBSET missing :
          /\ testing' = [testing EXCEPT ![t] = test \ marked]
          /\ noReply' = [noReply EXCEPT ![t] = @ \cup marked]
    <2>1. snapshots[t[1]][e] = StatusOf(t[1], e).activeJobIDs
      BY StatusFields
    <2>2. QED
      BY <2>1 DEF MarkNoReply
  <1>2. testing'[t] = test \ marked /\ noReply'[t] = noReply[t] \cup marked
    BY <1>1 DEF RegistryTypeOK
  <1>3. id \notin missing
    BY DEF ListedFrom
  <1>4. epoch'[t] \in Nat
    BY DEF RegistryTypeOK, Made
  <1>5. id \in test => ListedFrom(t[1], id, epoch'[t])
    <2>1. \A n \in Made(t[1]) : n >= epoch'[t] => n >= m
      BY <1>4 DEF Made
    <2>2. QED
      BY <2>1 DEF ListedFrom
  <1>6. QED
    BY <1>2, <1>3, <1>5

LEMMA RunningKept ==
  ASSUME WorkInv, UNCHANGED <<snapshots, activeJobs, pipelines>>, requests' \subseteq requests,
         \A t \in Tracker : IsLive(t)' => phase[t] = "unborn" \/ IsLive(t),
         \A t \in Tracker : IsLive(t) /\ IsLive(t)' /\ t[2] = 1 => \A p \in PipelinesOf(t) :
           /\ p.id \notin noReply'[t]
           /\ p.id \in testing'[t] => ListedFrom(t[1], p.id, epoch'[t])
  PROVE  RunningIsListed'
  <1>1. SUFFICES ASSUME NEW t \in Tracker, IsLive(t)', t[2] = 1, NEW p \in PipelinesOf(t)'
                 PROVE  /\ \A r \in RequestsOf(t)' : r.call = p.call =>
                             /\ r.stage = "registered" => p.id \in activeJobs'[t[1]]
                             /\ r.stage = "answered" => ListedFrom(t[1], p.id, r.epoch)'
                        /\ p.id \in testing'[t] => ListedFrom(t[1], p.id, epoch[t])'
                        /\ p.id \notin noReply'[t]
    BY DEF RunningIsListed, ListedFrom, Made
  <1>2. p \in PipelinesOf(t) /\ RequestsOf(t)' \subseteq RequestsOf(t) /\ activeJobs' = activeJobs
    BY DEF PipelinesOf, RequestsOf
  <1>3. IsLive(t)
    BY <1>1, <1>2 DEF WorkInv, UnbornHasNoWork
  <1>4. ListedFrom(t[1], p.id, epoch[t])' <=> ListedFrom(t[1], p.id, epoch'[t])
    BY DEF ListedFrom, Made
  <1>5. QED
    BY <1>1, <1>2, <1>3, <1>4, SameListed DEF WorkInv, RunningIsListed

\* The status of t becomes that of its process: ping, or the answer to NewJob.
LEMMA UpdateStatusWork ==
  ASSUME Inv, WorkInv, NEW t \in Tracker, NEW e \in Made(t[1]), NEW test \in SUBSET JobID,
         UpdateStatus(t, StatusOf(t[1], e), test),
         UNCHANGED <<snapshots, activeJobs, pipelines>>, requests' \subseteq requests,
         IsLive(t) /\ t[2] = 1 => \A p \in PipelinesOf(t) : p.id \in test =>
           ListedFrom(t[1], p.id, epoch[t]) \/ ListedFrom(t[1], p.id, e)
  PROVE  /\ FirstIsAlone' /\ StatusIsKept' /\ RunningIsListed'
         /\ \A u \in Tracker : phase'[u] \in {"unborn", "live"} => phase[u] = phase'[u]
  <1>. DEFINE st == StatusOf(t[1], e)
  <1>. RegistryTypeOK
    BY DEF Inv, TypeInv, TypeOK
  <1>. phase \in [Tracker -> Phase] /\ testing \in [Tracker -> SUBSET JobID]
         /\ noReply \in [Tracker -> SUBSET JobID] /\ epoch \in [Tracker -> Nat]
    BY DEF RegistryTypeOK
  <1>1. /\ \A u \in Tracker \ {t} : epoch'[u] = epoch[u] /\ maxNewJobs'[u] = maxNewJobs[u]
        /\ epoch'[t] = IF Accepts(t, st) THEN e ELSE epoch[t]
        /\ maxNewJobs'[t] = IF Accepts(t, st) THEN st.maxNewJobs ELSE maxNewJobs[t]
    BY StatusFields DEF UpdateStatus, KeepStatus
  <1>2. /\ MarkNoReply(t, st, test)
        /\ phase' = phase \/ phase' = [phase EXCEPT ![t] = IF @ = "live" THEN "failed" ELSE @]
    BY DEF UpdateStatus, MarkFailed
  <1>3. \A u \in Tracker : /\ phase'[u] \in {"unborn", "live"} => phase[u] = phase'[u]
                           /\ phase[u] = "unborn" => phase'[u] = "unborn"
    BY <1>2
  <1>4. FirstIsAlone'
    BY <1>3 DEF WorkInv, FirstIsAlone
  <1>5. StatusIsKept'
    <2>1. \A a, n : StatusOf(a, n)' = StatusOf(a, n) /\ Made(a)' = Made(a)
      BY DEF StatusOf, Made
    <2>. HIDE DEF st
    <2>2. SUFFICES ASSUME NEW u \in Tracker, phase'[u] # "unborn"
                   PROVE  /\ epoch'[u] \in Made(u[1])
                          /\ maxNewJobs'[u] = StatusOf(u[1], epoch'[u]).maxNewJobs
      BY <2>1 DEF StatusIsKept, StatusOf, Made
    <2>3. phase[u] # "unborn"
      BY <1>3, <2>2
    <2>4. CASE u = t /\ Accepts(t, st)
      BY <1>1, <2>4 DEF st
    <2>5. CASE ~ (u = t /\ Accepts(t, st))
      <3>1. epoch'[u] = epoch[u] /\ maxNewJobs'[u] = maxNewJobs[u]
        BY <1>1, <2>5
      <3>2. QED
        BY <2>3, <3>1 DEF WorkInv, StatusIsKept
    <2>6. QED
      BY <2>4, <2>5
  <1>6. RunningIsListed'
    <2>1. ASSUME NEW u \in Tracker, IsLive(u), IsLive(u)', u[2] = 1, NEW p \in PipelinesOf(u)
          PROVE  /\ p.id \notin noReply'[u]
                 /\ p.id \in testing'[u] => ListedFrom(u[1], p.id, epoch'[u])
      <3>1. p.id \notin noReply[u] /\ (p.id \in testing[u] => ListedFrom(u[1], p.id, epoch[u]))
        BY <2>1 DEF WorkInv, RunningIsListed
      <3>2. CASE u # t
        <4>1. epoch'[u] = epoch[u] /\ testing'[u] = testing[u] /\ noReply'[u] = noReply[u]
          BY <1>1, <1>2, <3>2, MarkNoReplyHolders
        <4>2. QED
          BY <3>1, <4>1
      <3>3. CASE u = t
        <4>1. e \in Nat /\ epoch[t] \in Nat /\ epoch'[t] >= e /\ epoch'[t] >= epoch[t]
          BY <1>1, <2>1, <3>3, StatusFields DEF Accepts, IsLive, Made
        <4>2. PICK m \in {e, epoch[t]} : p.id \in test => ListedFrom(t[1], p.id, m)
          BY <2>1, <3>3
        <4>3. m \in Nat /\ m <= epoch'[t]
          BY <4>1
        <4>4. QED
          BY <1>1, <1>2, <3>1, <3>3, <4>2, <4>3, StatusListed
      <3>4. QED
        BY <3>2, <3>3
    <2>2. \A u \in Tracker : IsLive(u)' => phase[u] = "unborn" \/ IsLive(u)
      BY <1>3 DEF IsLive
    <2>3. QED
      BY <2>1, <2>2, RunningKept
  <1>7. QED
    BY <1>3, <1>4, <1>5, <1>6

\* What UpsertInvoker does to the trackers, born being the ones it makes.
UpsertEffects(a, e, born) ==
  LET st == StatusOf(a, e)
  IN  /\ \A t \in born : /\ t \in Tracker /\ t[1] = a /\ phase[t] = "unborn"
                         /\ \A m \in 1..(t[2] - 1) : phase[<<a, m>>] # "unborn"
                         /\ \A u \in born : u = t
                         /\ \A u \in Tracker : IsLive(u) /\ u[1] = a => phase'[u] = "failed"
                         /\ phase'[t] = "live" /\ epoch'[t] = e /\ maxNewJobs'[t] = st.maxNewJobs
      /\ \A t \in Tracker \ born :
           \/ phase'[t] = phase[t]
           \/ phase[t] = "live" /\ phase'[t] = "failed"
      /\ \A t \in Tracker \ born : IsLive(t) /\ t[1] = a =>
           /\ MarkNoReply(t, st, testing[t])
           /\ epoch'[t] = IF Accepts(t, st) THEN e ELSE epoch[t]
           /\ maxNewJobs'[t] = IF Accepts(t, st) THEN st.maxNewJobs ELSE maxNewJobs[t]
      /\ \A t \in Tracker \ born : ~ (IsLive(t) /\ t[1] = a) =>
           /\ testing'[t] = testing[t] /\ noReply'[t] = noReply[t]
           /\ epoch'[t] = epoch[t] /\ maxNewJobs'[t] = maxNewJobs[t]
      /\ calls' = calls

LEMMA NewTrackerIsUnborn ==
  ASSUME NEW a \in Address, NEW t \in NewTracker(a)
  PROVE  phase[t] = "unborn" /\ \A m \in 1..(t[2] - 1) : phase[<<a, m>>] # "unborn"
  <1>1. PICK n \in 1..Registrations :
          /\ t = <<a, n>> /\ phase[<<a, n>>] = "unborn"
          /\ \A m \in 1..(n - 1) : phase[<<a, m>>] # "unborn"
    BY DEF NewTracker
  <1>2. QED
    BY <1>1

LEMMA UpsertHasEffects ==
  ASSUME RegistryTypeOK, OneTrackerPerAddress, NEW a \in Address, NEW e, Upsert(StatusOf(a, e))
  PROVE  \E born : UpsertEffects(a, e, born)
  <1>. DEFINE st == StatusOf(a, e)
              current == CurrentTrackers(st)
              distrusting == {t \in current : Distrusts(t, st)}
              new == IF current = distrusting THEN NewTracker(a) ELSE {}
  <1>1. st.address = a /\ st.epoch = e
    BY StatusFields
  <1>2. PICK born, failed, accepting :
          born = new /\ failed = distrusting /\ accepting = {t \in current : Accepts(t, st)}
    OBVIOUS
  <1>3. /\ \A t \in Tracker : phase'[t] = IF t \in failed THEN "failed"
                                          ELSE IF t \in born THEN "live" ELSE phase[t]
        /\ KeepStatus(accepting \cup born, st)
        /\ \/ \E t \in current : MarkNoReply(t, st, testing[t])
           \/ current = {} /\ UNCHANGED <<testing, noReply>>
        /\ calls' = calls
    <2>1. /\ phase' = [t \in Tracker |-> IF t \in distrusting THEN "failed"
                                         ELSE IF t \in new THEN "live" ELSE phase[t]]
          /\ KeepStatus({t \in current : Accepts(t, st)} \cup new, st)
      BY <1>1 DEF Upsert
    <2>2. /\ \/ \E t \in current : MarkNoReply(t, st, testing[t])
             \/ current = {} /\ UNCHANGED <<testing, noReply>>
          /\ calls' = calls
      BY DEF Upsert
    <2>. HIDE DEF current, distrusting, new, st
    <2>3. QED
      BY <1>2, <2>1, <2>2
  <1>4. /\ \A t \in Tracker : t \in current <=> IsLive(t) /\ t[1] = a
        /\ current \subseteq Tracker
        /\ \A t, u \in current : t = u
    BY <1>1 DEF CurrentTrackers, OneTrackerPerAddress, IsLive, Elements, RegistryTypeOK
  <1>5. failed \subseteq current /\ accepting \subseteq current
        /\ \A t \in current : t \in accepting <=> Accepts(t, st)
    BY <1>2
  <1>6. \A t \in born : /\ t \in Tracker /\ t[1] = a /\ phase[t] = "unborn"
                        /\ \A m \in 1..(t[2] - 1) : phase[<<a, m>>] # "unborn"
                        /\ \A u \in born : u = t
                        /\ current = failed
    <2>. HIDE DEF current, distrusting
    <2>1. born \subseteq NewTracker(a) /\ (born # {} => current = failed)
      BY <1>2
    <2>2. QED
      BY <2>1, NewTrackerIsUnborn, NewTrackerIsOne
  <1>. HIDE DEF current, distrusting, new
  <1>7. \A t \in born : /\ t \notin failed /\ t \notin accepting
                        /\ \A u \in Tracker : IsLive(u) /\ u[1] = a => phase'[u] = "failed"
                        /\ phase'[t] = "live"
    BY <1>3, <1>4, <1>5, <1>6 DEF IsLive
  <1>8. /\ \A t \in Tracker : epoch'[t] = IF t \in accepting \cup born THEN e ELSE epoch[t]
        /\ \A t \in Tracker : maxNewJobs'[t] = IF t \in accepting \cup born THEN st.maxNewJobs
                                               ELSE maxNewJobs[t]
    BY <1>1, <1>3 DEF KeepStatus
  <1>. HIDE DEF st
  <1>9. \A t \in current : MarkNoReply(t, st, testing[t])
    BY <1>3, <1>4
  <1>10. \A t \in Tracker \ current : testing'[t] = testing[t] /\ noReply'[t] = noReply[t]
    <2>1. ASSUME NEW u \in current, MarkNoReply(u, st, testing[u]), NEW t \in Tracker \ current
          PROVE  testing'[t] = testing[t] /\ noReply'[t] = noReply[t]
      <3>1. u \in Tracker /\ u # t /\ testing[u] \in SUBSET JobID
        BY <1>4, <2>1 DEF RegistryTypeOK
      <3>2. QED
        BY <2>1, <3>1, MarkNoReplyHolders
    <2>2. QED
      BY <1>3, <2>1
  <1>11. \A t \in born : epoch'[t] = e /\ maxNewJobs'[t] = st.maxNewJobs
    BY <1>6, <1>8
  <1>12. \A t \in Tracker \ born : \/ phase'[t] = phase[t]
                                   \/ phase[t] = "live" /\ phase'[t] = "failed"
    BY <1>3, <1>4, <1>5 DEF IsLive
  <1>13. \A t \in Tracker \ born : t \in current =>
           /\ epoch'[t] = IF Accepts(t, st) THEN e ELSE epoch[t]
           /\ maxNewJobs'[t] = IF Accepts(t, st) THEN st.maxNewJobs ELSE maxNewJobs[t]
    BY <1>5, <1>8
  <1>14. \A t \in Tracker \ born : t \notin current =>
           epoch'[t] = epoch[t] /\ maxNewJobs'[t] = maxNewJobs[t]
    BY <1>5, <1>8
  <1>15. UpsertEffects(a, e, born)
    BY <1>3, <1>4, <1>6, <1>7, <1>9, <1>10, <1>11, <1>12, <1>13, <1>14 DEF UpsertEffects, st
  <1>16. QED
    BY <1>15

LEMMA UpsertWork ==
  ASSUME Inv, HInv, OneTrackerPerAddress, WorkInv, [Next]_vars,
         NEW a \in Address, NEW e \in Made(a), Upsert(StatusOf(a, e)),
         UNCHANGED <<snapshots, activeJobs, requests, pipelines>>
  PROVE  WorkInv'
  <1>. RegistryTypeOK
    BY DEF Inv, TypeInv, TypeOK
  <1>. DEFINE st == StatusOf(a, e)
  <1>1. PICK born : UpsertEffects(a, e, born)
    BY UpsertHasEffects
  <1>2. \A t \in born : /\ t \in Tracker /\ t[1] = a /\ phase[t] = "unborn"
                        /\ \A m \in 1..(t[2] - 1) : phase[<<a, m>>] # "unborn"
                        /\ \A u \in born : u = t
                        /\ \A u \in Tracker : IsLive(u) /\ u[1] = a => phase'[u] = "failed"
                        /\ phase'[t] = "live" /\ epoch'[t] = e /\ maxNewJobs'[t] = st.maxNewJobs
    BY <1>1 DEF UpsertEffects
  <1>3. \A t \in Tracker \ born : \/ phase'[t] = phase[t]
                                  \/ phase[t] = "live" /\ phase'[t] = "failed"
    BY <1>1 DEF UpsertEffects
  <1>4. \A t \in Tracker \ born : IsLive(t) /\ t[1] = a =>
          /\ MarkNoReply(t, st, testing[t])
          /\ epoch'[t] = IF Accepts(t, st) THEN e ELSE epoch[t]
          /\ maxNewJobs'[t] = IF Accepts(t, st) THEN st.maxNewJobs ELSE maxNewJobs[t]
    BY <1>1 DEF UpsertEffects
  <1>5. \A t \in Tracker \ born : ~ (IsLive(t) /\ t[1] = a) =>
          /\ testing'[t] = testing[t] /\ noReply'[t] = noReply[t]
          /\ epoch'[t] = epoch[t] /\ maxNewJobs'[t] = maxNewJobs[t]
    BY <1>1 DEF UpsertEffects
  <1>6. calls' = calls
    BY <1>1 DEF UpsertEffects
  <1>7. WorkIsOwned' /\ WorkIsOnce' /\ UnbornHasNoWork'
    BY <1>2, <1>3, <1>6, LessWork
  <1>8. FirstIsAlone'
    <2>1. SUFFICES ASSUME NEW t \in Tracker, NEW u \in Tracker, t[2] = 1, u[1] = t[1], u # t,
                          phase'[t] \in {"unborn", "live"}, phase'[u] # "unborn"
                   PROVE  FALSE
      BY DEF FirstIsAlone
    <2>2. CASE u \in born
      <3>1. t \notin born /\ phase[t] = phase'[t] /\ t[1] = a
        BY <1>2, <1>3, <2>1, <2>2
      <3>2. u[2] \in 1..Registrations /\ t[2] \in 1..Registrations
            /\ u = <<u[1], u[2]>> /\ t = <<t[1], t[2]>>
        BY DEF Tracker
      <3>3. 1 \in 1..(u[2] - 1) /\ t = <<a, 1>>
        BY <2>1, <3>1, <3>2, RegistryAssumption
      <3>4. phase[t] # "unborn"
        BY <1>2, <2>2, <3>3
      <3>5. QED
        BY <1>2, <2>1, <2>2, <3>1, <3>4 DEF IsLive
    <2>3. CASE u \notin born
      <3>1. phase[u] # "unborn"
        BY <1>3, <2>1, <2>3
      <3>2. phase[t] \in {"unborn", "live"}
        BY <1>2, <1>3, <2>1
      <3>3. QED
        BY <2>1, <3>1, <3>2 DEF WorkInv, FirstIsAlone
    <2>4. QED
      BY <2>2, <2>3
  <1>9. StatusIsKept'
    <2>1. \A b, n : StatusOf(b, n)' = StatusOf(b, n) /\ Made(b)' = Made(b)
      BY DEF StatusOf, Made
    <2>2. SUFFICES ASSUME NEW u \in Tracker, phase'[u] # "unborn"
                   PROVE  /\ epoch'[u] \in Made(u[1])
                          /\ maxNewJobs'[u] = StatusOf(u[1], epoch'[u]).maxNewJobs
      BY <2>1 DEF StatusIsKept, StatusOf, Made
    <2>3. CASE u \in born
      BY <1>2, <2>3
    <2>4. CASE u \notin born
      <3>1. /\ phase[u] # "unborn"
            /\ epoch[u] \in Made(u[1]) /\ maxNewJobs[u] = StatusOf(u[1], epoch[u]).maxNewJobs
        BY <1>3, <2>2, <2>4 DEF WorkInv, StatusIsKept
      <3>. HIDE DEF st
      <3>2. CASE IsLive(u) /\ u[1] = a /\ Accepts(u, st)
        BY <1>4, <2>4, <3>2 DEF st
      <3>3. CASE ~ (IsLive(u) /\ u[1] = a /\ Accepts(u, st))
        <4>1. epoch'[u] = epoch[u] /\ maxNewJobs'[u] = maxNewJobs[u]
          BY <1>4, <1>5, <2>4, <3>3
        <4>2. QED
          BY <3>1, <4>1
      <3>4. QED
        BY <3>2, <3>3
    <2>5. QED
      BY <2>3, <2>4
  <1>10. RunningIsListed'
    <2>1. ASSUME NEW t \in Tracker, IsLive(t), IsLive(t)', t[2] = 1, NEW p \in PipelinesOf(t)
          PROVE  /\ p.id \notin noReply'[t]
                 /\ p.id \in testing'[t] => ListedFrom(t[1], p.id, epoch'[t])
      <3>1. /\ p.id \notin noReply[t] /\ (p.id \in testing[t] => ListedFrom(t[1], p.id, epoch[t]))
            /\ t \notin born
        BY <1>2, <2>1 DEF WorkInv, RunningIsListed, IsLive
      <3>2. CASE t[1] # a
        BY <1>5, <3>1, <3>2
      <3>3. CASE t[1] = a
        <4>1. /\ MarkNoReply(t, st, testing[t])
              /\ epoch'[t] = IF Accepts(t, st) THEN e ELSE epoch[t]
          BY <1>4, <2>1, <3>1, <3>3
        <4>2. epoch[t] \in Nat /\ e \in Nat /\ epoch[t] <= epoch'[t] /\ testing[t] \in SUBSET JobID
          BY <4>1, StatusFields DEF Accepts, Made, RegistryTypeOK
        <4>3. QED
          BY <3>1, <3>3, <4>1, <4>2, StatusListed
      <3>4. QED
        BY <3>2, <3>3
    <2>2. \A t \in Tracker : IsLive(t)' => phase[t] = "unborn" \/ IsLive(t)
      BY <1>2, <1>3 DEF IsLive
    <2>3. QED
      BY <2>1, <2>2, RunningKept
  <1>11. QED
    BY <1>7, <1>8, <1>9, <1>10 DEF WorkInv

LEMMA PingWork ==
  ASSUME Inv, HInv, ProcessTypes, WorkInv, [Next]_vars, NEW t \in Tracker, DeliverPing(t)
  PROVE  WorkInv'
  <1>1. t[1] \in Address
    BY TrackerParts
  <1>2. PICK e \in Made(t[1]) : PingAnswered(t, StatusOf(t[1], e))
    BY <1>1, StatusesAreMade DEF DeliverPing, ProcessTypes
  <1>3. /\ UpdateStatus(t, StatusOf(t[1], e), testing[t]) /\ calls' = calls
        /\ UNCHANGED <<snapshots, activeJobs, pipelines, requests>>
        /\ testing[t] \in SUBSET JobID
    BY <1>2 DEF PingAnswered, DeliverPing, processVars, Inv, TypeInv, TypeOK, RegistryTypeOK
  <1>4. IsLive(t) /\ t[2] = 1 => \A p \in PipelinesOf(t) : p.id \in testing[t] =>
          ListedFrom(t[1], p.id, epoch[t]) \/ ListedFrom(t[1], p.id, e)
    BY DEF WorkInv, RunningIsListed
  <1>5. /\ FirstIsAlone' /\ StatusIsKept' /\ RunningIsListed'
        /\ \A u \in Tracker : phase'[u] \in {"unborn", "live"} => phase[u] = phase'[u]
    BY <1>3, <1>4, UpdateStatusWork
  <1>6. WorkIsOwned' /\ WorkIsOnce' /\ UnbornHasNoWork'
    BY <1>3, <1>5, LessWork
  <1>7. QED
    BY <1>5, <1>6 DEF WorkInv

\* The job of an answer is either over or listed from the status of the answer on.
LEMMA DeliverAnswerWork ==
  ASSUME Inv, HInv, ProcessTypes, WorkInv, [Next]_vars, NEW r \in requests, DeliverAnswer(r)
  PROVE  WorkInv'
  <1>. DEFINE t == r.call[1]
              j == r.call[2]
              moved == sending[t] \cap {CurrentID(j)}
  <1>1. /\ t \in Tracker /\ r.call = <<t, j>> /\ AddressOf(r.call) = t[1]
        /\ r.stage = "answered" /\ r.epoch \in Made(t[1])
    BY RequestFields DEF ProcessTypes, RequestsTyped, DeliverAnswer
  <1>2. /\ UpdateStatus(t, StatusOf(t[1], r.epoch), testing[t] \cup moved)
        /\ calls' = calls \ {r.call}
        /\ requests' = requests \ {r}
        /\ UNCHANGED <<snapshots, activeJobs, pipelines>>
    BY <1>1 DEF DeliverAnswer, SendAnswered
  <1>3. testing[t] \cup moved \in SUBSET JobID
    BY <1>1 DEF Inv, TypeInv, TypeOK, RegistryTypeOK
  <1>4. ASSUME IsLive(t), t[2] = 1, NEW p \in PipelinesOf(t), p.id \in testing[t] \cup moved
        PROVE  ListedFrom(t[1], p.id, epoch[t]) \/ ListedFrom(t[1], p.id, r.epoch)
    <2>1. CASE p.id \in testing[t]
      BY <1>1, <1>4, <2>1 DEF WorkInv, RunningIsListed
    <2>2. CASE p.id = CurrentID(j)
      <3>1. p.id[1] = p.call[2] /\ p.call[1] = t /\ p.call \in Tracker \X Job
        BY <1>1, <1>4, PipelineFields DEF WorkInv, WorkIsOwned, PipelinesOf, ProcessTypes
      <3>2. p.call[2] = j
        BY <2>2, <3>1 DEF CurrentID
      <3>3. p.call = r.call
        BY <1>1, <3>1, <3>2
      <3>4. r \in RequestsOf(t)
        BY DEF RequestsOf
      <3>5. QED
        BY <1>1, <1>4, <3>3, <3>4 DEF WorkInv, RunningIsListed
    <2>3. QED
      BY <1>4, <2>1, <2>2
  <1>5. /\ FirstIsAlone' /\ StatusIsKept' /\ RunningIsListed'
        /\ \A u \in Tracker : phase'[u] \in {"unborn", "live"} => phase[u] = phase'[u]
    <2>1. requests' \subseteq requests
      BY <1>2
    <2>. HIDE DEF t, moved
    <2>2. QED
      BY <1>1, <1>2, <1>3, <1>4, <2>1, UpdateStatusWork
  <1>6. \A s \in requests' : s.call \in calls /\ IsLive(s.call[1])' => s.call \in calls'
    <2>1. SUFFICES ASSUME NEW s \in requests', s.call \in calls, IsLive(s.call[1])', s.call = r.call
                   PROVE  FALSE
      BY <1>2
    <2>2. IsLive(t)
      BY <1>1, <1>5, <2>1 DEF IsLive
    <2>3. r \in RequestsOf(t) /\ s \in RequestsOf(t)
      BY <1>2, <2>1 DEF RequestsOf
    <2>4. s = r
      BY <1>1, <2>1, <2>2, <2>3 DEF WorkInv, WorkIsOnce
    <2>5. QED
      BY <1>2, <2>4
  <1>7. WorkIsOwned' /\ WorkIsOnce' /\ UnbornHasNoWork'
    BY <1>2, <1>5, <1>6, LessWork
  <1>8. QED
    BY <1>5, <1>7 DEF WorkInv

LEMMA SendRequestWork ==
  ASSUME Inv, HInv, OneTrackerPerAddress, ProcessTypes, WorkInv, [Next]_vars, SendRequest
  PROVE  WorkInv'
  <1>1. PICK t \in Tracker, j \in Job, id \in JobID :
          t = invokers[sendAt] /\ j = nextJob /\ id = CurrentID(nextJob)
    <2>1. invokers[sendAt] \in Tracker /\ nextJob \in Job
      BY DEF SendRequest, SendNextJob, Inv, TypeInv, TypeOK, RegistryTypeOK
    <2>2. CurrentID(nextJob) \in JobID
      BY <2>1 DEF CurrentID, JobID, Inv, TypeInv, TypeOK, QueueTypeOK
    <2>3. QED
      BY <2>1, <2>2
  <1>. DEFINE new == [call |-> <<t, j>>, stage |-> "sent", id |-> id, epoch |-> 0]
  <1>2. /\ phase[t] = "live"
        /\ calls' = calls \cup {<<t, j>>}
        /\ invokerByJobID' = [x \in DOMAIN invokerByJobID \cup {id} |->
                                IF x = id THEN t ELSE invokerByJobID[x]]
        /\ nextJob' = NoJob
        /\ UNCHANGED <<queueVars, phase, statusVars, testing, noReply>>
        /\ requests' = requests \cup {new}
        /\ UNCHANGED <<snapshots, activeJobs, pipelines>>
    BY <1>1 DEF SendRequest, SendNextJob, CanSend
  <1>3. IsWaiting(j) /\ j \in givenJobs
    <2>1. IsWaiting(j)
      BY <1>1 DEF IsWaiting
    <2>2. QED
      BY <1>1, <2>1 DEF Inv, PlaceInv
  <1>4. /\ new.call = <<t, j>> /\ new.call[1] = t /\ new.call[2] = j
        /\ new.stage = "sent" /\ new.id = id /\ id[1] = j /\ id[2] = idNumber[j]
    BY <1>1 DEF CurrentID
  <1>5. WasSent(id)'
    <2>2. j \notin toGive /\ j[1] \in submitted
      BY <1>1, <1>3 DEF Inv, QueueInv
    <2>3. j \notin Elements(newFailedJobs)
      BY <1>1 DEF Inv, JobIsInOnePlace
    <2>4. ~ IsWaiting(j)'
      BY <1>1, <1>2, <2>3, QueueAssumption DEF IsWaiting, Elements, queueVars
    <2>5. idNumber[j] \in Nat
      BY <1>1 DEF Inv, TypeInv, TypeOK, QueueTypeOK
    <2>6. QED
      BY <1>1, <1>2, <1>4, <2>2, <2>4, <2>5 DEF WasSent, queueVars
  <1>6. Owned(t, id)'
    BY <1>1, <1>2, <1>4, <1>5 DEF Owned, CurrentID, queueVars
  <1>7. ASSUME NEW u \in Tracker, IsLive(u), NEW x, Owned(u, x) PROVE x[1] # j
    BY <1>3, <1>7 DEF Owned, WasSent, CurrentID
  <1>. HIDE DEF new
  <1>8. \A u \in Tracker : /\ PipelinesOf(u)' = PipelinesOf(u)
                           /\ RequestsOf(u)' = IF u = t THEN RequestsOf(t) \cup {new} ELSE RequestsOf(u)
                           /\ IsLive(u)' <=> IsLive(u)
    BY <1>2, <1>4 DEF PipelinesOf, RequestsOf, IsLive
  <1>9. /\ \A r \in RequestsOf(t) : r.call # new.call
        /\ \A p \in PipelinesOf(t) : p.call # new.call
    BY <1>1, <1>2, <1>4, <1>7 DEF WorkInv, WorkIsOwned, IsLive
  <1>10. UnbornHasNoWork'
    BY <1>2, <1>8 DEF WorkInv, UnbornHasNoWork
  <1>11. WorkIsOnce'
    BY <1>4, <1>8, <1>9 DEF WorkInv, WorkIsOnce
  <1>12. WorkIsOwned'
    <2>1. SUFFICES ASSUME NEW u \in Tracker, IsLive(u)
                   PROVE  /\ \A r \in RequestsOf(u)' : /\ r.id[1] = r.call[2] /\ Owned(u, r.id)'
                                                       /\ r.call \in calls'
                          /\ \A p \in PipelinesOf(u)' : p.id[1] = p.call[2] /\ Owned(u, p.id)'
      BY <1>8 DEF WorkIsOwned
    <2>2. \A r \in RequestsOf(u) : r.id[1] = r.call[2] /\ Owned(u, r.id)' /\ r.call \in calls'
      BY <1>2, <2>1, OwnedStays DEF WorkInv, WorkIsOwned
    <2>3. \A p \in PipelinesOf(u) : p.id[1] = p.call[2] /\ Owned(u, p.id)'
      BY <2>1, OwnedStays DEF WorkInv, WorkIsOwned
    <2>4. u = t => new.id[1] = new.call[2] /\ Owned(u, new.id)' /\ new.call \in calls'
      BY <1>2, <1>4, <1>6
    <2>5. QED
      BY <1>8, <2>2, <2>3, <2>4
  <1>13. FirstIsAlone'
    BY <1>2 DEF WorkInv, FirstIsAlone
  <1>14. StatusIsKept'
    BY <1>2 DEF WorkInv, StatusIsKept, statusVars, StatusOf, Made
  <1>15. RunningIsListed'
    <2>1. SUFFICES ASSUME NEW u \in Tracker, IsLive(u), u[2] = 1, NEW p \in PipelinesOf(u)
                   PROVE  /\ \A r \in RequestsOf(u)' : r.call = p.call =>
                               /\ r.stage = "registered" => p.id \in activeJobs[u[1]]
                               /\ r.stage = "answered" => ListedFrom(u[1], p.id, r.epoch)
                          /\ p.id \in testing[u] => ListedFrom(u[1], p.id, epoch[u])
                          /\ p.id \notin noReply[u]
      BY <1>2, <1>8, SameListed DEF RunningIsListed, statusVars, ListedFrom, Made
    <2>2. QED
      BY <1>4, <1>8, <2>1 DEF WorkInv, RunningIsListed
  <1>16. QED
    BY <1>10, <1>11, <1>12, <1>13, <1>14, <1>15 DEF WorkInv

----------------------------------------------------------------------------
(* What the steps of a process do to the work of a live tracker.            *)

LEMMA SameRegistry ==
  ASSUME WorkInv, UNCHANGED vars PROVE FirstIsAlone'
  BY DEF WorkInv, FirstIsAlone, vars, registryVars

\* The statuses a process made stay.
LEMMA StatusesStay ==
  ASSUME ProcessTypes, WorkInv, UNCHANGED vars,
         \A a \in Address : /\ Made(a) \subseteq Made(a)'
                            /\ \A e \in Made(a) : snapshots'[a][e] = snapshots[a][e]
  PROVE  StatusIsKept'
  <1>1. SUFFICES ASSUME NEW t \in Tracker, phase[t] # "unborn"
                 PROVE  /\ epoch[t] \in Made(t[1])'
                        /\ maxNewJobs[t] = StatusOf(t[1], epoch[t])'.maxNewJobs
    BY DEF StatusIsKept, vars, registryVars, statusVars, StatusOf, Made
  <1>2. /\ t[1] \in Address /\ epoch[t] \in Made(t[1])
        /\ maxNewJobs[t] = StatusOf(t[1], epoch[t]).maxNewJobs
    BY <1>1, TrackerParts DEF WorkInv, StatusIsKept
  <1>3. epoch[t] \in Made(t[1])' /\ snapshots'[t[1]][epoch[t]] = snapshots[t[1]][epoch[t]]
    BY <1>2
  <1>4. StatusOf(t[1], epoch[t])' = StatusOf(t[1], epoch[t])
    BY <1>3 DEF StatusOf, vars, registryVars, statusVars
  <1>5. QED
    BY <1>2, <1>3, <1>4

\* No request becomes one with another call or another ID, none is sent again.
LEMMA ReplacedRequest ==
  ASSUME ProcessTypes, WorkInv, UNCHANGED <<vars, pipelines>>, NEW r \in requests, NEW new,
         requests' = (requests \ {r}) \cup {new},
         new.call = r.call, new.id = r.id, new.stage # "sent", r.stage # "sent"
  PROVE  WorkIsOwned' /\ WorkIsOnce' /\ UnbornHasNoWork'
  <1>1. UNCHANGED <<phase, calls>>
    BY DEF vars, registryVars
  <1>2. \A t \in Tracker :
          /\ PipelinesOf(t)' = PipelinesOf(t)
          /\ RequestsOf(t)' = IF r.call[1] = t THEN (RequestsOf(t) \ {r}) \cup {new} ELSE RequestsOf(t)
          /\ IsLive(t)' <=> IsLive(t)
          /\ r.call[1] = t <=> r \in RequestsOf(t)
    BY <1>1 DEF PipelinesOf, RequestsOf, IsLive
  <1>3. WorkIsOwned'
    BY <1>1, <1>2, SameOwned DEF WorkInv, WorkIsOwned
  <1>4. WorkIsOnce'
    BY <1>2 DEF WorkInv, WorkIsOnce
  <1>5. UnbornHasNoWork'
    BY <1>1, <1>2 DEF WorkInv, UnbornHasNoWork
  <1>6. QED
    BY <1>3, <1>4, <1>5

\* The process makes a status, which lists the jobs that are in ActiveJobs now.
LEMMA MakeStatusListed ==
  ASSUME ProcessTypes, NEW a \in Address, MakeStatus(a, activeJobs[a]), UNCHANGED activeJobs,
         NEW b \in Address, NEW id, NEW e
  PROVE  /\ ListedFrom(b, id, e) => ListedFrom(b, id, e)'
         /\ id \in activeJobs[a] /\ e = Len(snapshots'[a]) => ListedFrom(a, id, e)'
  <1>1. /\ Made(a)' = Made(a) \cup {Len(snapshots'[a])}
        /\ snapshots'[a][Len(snapshots'[a])] = activeJobs[a]
        /\ \A c \in Address : \A n \in Made(c) : snapshots'[c][n] = snapshots[c][n]
        /\ \A c \in Address \ {a} : snapshots'[c] = snapshots[c]
    BY MakeStatusTypes DEF ProcessTypes
  <1>2. \A n \in Made(a)' : n >= Len(snapshots'[a]) => n = Len(snapshots'[a])
    BY DEF Made
  <1>3. ASSUME ListedFrom(b, id, e) PROVE ListedFrom(b, id, e)'
    <2>1. CASE b = a
      BY <1>1, <1>3, <2>1 DEF ListedFrom
    <2>2. CASE b # a
      BY <1>1, <1>3, <2>2 DEF ListedFrom, Made
    <2>3. QED
      BY <2>1, <2>2
  <1>4. ASSUME id \in activeJobs[a], e = Len(snapshots'[a]) PROVE ListedFrom(a, id, e)'
    BY <1>1, <1>2, <1>4 DEF ListedFrom
  <1>5. QED
    BY <1>3, <1>4

\* The master, the requests and the pipelines take no part in this step of a process.
LEMMA OwnStatusWork ==
  ASSUME Inv, HInv, ProcessTypes, WorkInv, [Next]_vars, NEW a \in Address, MakeStatus(a, activeJobs[a]),
         UNCHANGED <<vars, activeJobs, requests, pipelines>>
  PROVE  WorkInv'
  <1>1. UNCHANGED <<phase, calls, epoch, testing, noReply>>
    BY DEF vars, registryVars, statusVars, holderVars
  <1>2. WorkIsOwned' /\ WorkIsOnce' /\ UnbornHasNoWork'
    BY <1>1, LessWork
  <1>3. StatusIsKept'
    BY MakeStatusTypes, StatusesStay DEF ProcessTypes
  <1>4. RunningIsListed'
    <2>1. SUFFICES ASSUME NEW t \in Tracker, IsLive(t), t[2] = 1, NEW p \in PipelinesOf(t)
                   PROVE  /\ \A r \in RequestsOf(t) : r.call = p.call =>
                               /\ r.stage = "registered" => p.id \in activeJobs[t[1]]
                               /\ r.stage = "answered" => ListedFrom(t[1], p.id, r.epoch)'
                          /\ p.id \in testing[t] => ListedFrom(t[1], p.id, epoch[t])'
                          /\ p.id \notin noReply[t]
      BY <1>1 DEF RunningIsListed, IsLive, PipelinesOf, RequestsOf, ListedFrom, Made
    <2>2. t[1] \in Address
      BY TrackerParts
    <2>3. /\ \A r \in RequestsOf(t) : r.call = p.call =>
               /\ r.stage = "registered" => p.id \in activeJobs[t[1]]
               /\ r.stage = "answered" => ListedFrom(t[1], p.id, r.epoch)
          /\ p.id \in testing[t] => ListedFrom(t[1], p.id, epoch[t])
          /\ p.id \notin noReply[t]
      BY <2>1 DEF WorkInv, RunningIsListed
    <2>4. \A e : ListedFrom(t[1], p.id, e) => ListedFrom(t[1], p.id, e)'
      BY <2>2, MakeStatusListed
    <2>5. ListedFrom(t[1], p.id, epoch[t]) => ListedFrom(t[1], p.id, epoch[t])'
      BY <1>1, <2>4
    <2>6. QED
      BY <2>3, <2>4, <2>5
  <1>5. QED
    BY <1>2, <1>3, <1>4, SameRegistry DEF WorkInv

LEMMA AnswerWork ==
  ASSUME ProcessTypes, WorkInv, NEW r \in requests, AnswerNewJob(r)
  PROVE  WorkInv'
  <1>1. PICK a \in Address, e \in Nat : a = AddressOf(r.call) /\ e = Len(snapshots'[a])
    <2>1. AddressOf(r.call) \in Address
      BY RequestFields DEF ProcessTypes
    <2>2. Len(snapshots'[AddressOf(r.call)]) \in Nat
      BY <2>1, MakeStatusTypes DEF AnswerNewJob, ProcessTypes, SnapshotsTyped
    <2>3. QED
      BY <2>1, <2>2
  <1>. DEFINE new == [call |-> r.call, stage |-> "answered", id |-> r.id, epoch |-> e]
  <1>2. /\ MakeStatus(a, activeJobs[a]) /\ r.stage = "registered"
        /\ requests' = (requests \ {r}) \cup {new}
        /\ UNCHANGED <<vars, activeJobs, pipelines>>
    <2>1. [r EXCEPT !.stage = "answered", !.epoch = e] = new
      BY RequestFields, RequestChanged DEF ProcessTypes, Stage
    <2>. HIDE DEF new
    <2>2. QED
      BY <1>1, <2>1 DEF AnswerNewJob
  <1>3. UNCHANGED <<phase, calls, epoch, testing, noReply>>
    BY <1>2 DEF vars, registryVars, statusVars, holderVars
  <1>4. /\ new.call = r.call /\ new.stage = "answered" /\ new.id = r.id /\ new.epoch = e
        /\ "answered" # "sent" /\ "answered" # "registered"
    OBVIOUS
  <1>. HIDE DEF new
  <1>5. WorkIsOwned' /\ WorkIsOnce' /\ UnbornHasNoWork'
    BY <1>2, <1>4, ReplacedRequest
  <1>6. StatusIsKept'
    BY <1>2, MakeStatusTypes, StatusesStay DEF ProcessTypes
  <1>7. RunningIsListed'
    <2>1. SUFFICES ASSUME NEW t \in Tracker, IsLive(t), t[2] = 1, NEW p \in PipelinesOf(t)
                   PROVE  /\ \A s \in RequestsOf(t)' : s.call = p.call =>
                               /\ s.stage = "registered" => p.id \in activeJobs[t[1]]
                               /\ s.stage = "answered" => ListedFrom(t[1], p.id, s.epoch)'
                          /\ p.id \in testing[t] => ListedFrom(t[1], p.id, epoch[t])'
                          /\ p.id \notin noReply[t]
      BY <1>2, <1>3 DEF RunningIsListed, IsLive, PipelinesOf, ListedFrom, Made
    <2>2. t[1] \in Address
      BY TrackerParts
    <2>3. /\ \A s \in RequestsOf(t) : s.call = p.call =>
               /\ s.stage = "registered" => p.id \in activeJobs[t[1]]
               /\ s.stage = "answered" => ListedFrom(t[1], p.id, s.epoch)
          /\ p.id \in testing[t] => ListedFrom(t[1], p.id, epoch[t])
          /\ p.id \notin noReply[t]
      BY <2>1 DEF WorkInv, RunningIsListed
    <2>4. \A n : ListedFrom(t[1], p.id, n) => ListedFrom(t[1], p.id, n)'
      BY <1>2, <2>2, MakeStatusListed
    <2>5. ListedFrom(t[1], p.id, epoch[t]) => ListedFrom(t[1], p.id, epoch[t])'
      BY <1>3, <2>4
    <2>6. RequestsOf(t)' \subseteq RequestsOf(t) \cup {new}
      BY <1>2 DEF RequestsOf
    <2>7. new \in RequestsOf(t)' /\ new.call = p.call => ListedFrom(t[1], p.id, e)'
      <3>1. SUFFICES ASSUME r.call[1] = t, r.call = p.call
                     PROVE  ListedFrom(t[1], p.id, e)'
        BY <1>4 DEF RequestsOf
      <3>2. r \in RequestsOf(t) /\ a = t[1]
        BY <1>1, <3>1 DEF RequestsOf, AddressOf
      <3>3. p.id \in activeJobs[a]
        BY <1>2, <2>3, <3>1, <3>2
      <3>4. QED
        BY <1>1, <1>2, <3>2, <3>3, MakeStatusListed
    <2>8. QED
      BY <1>4, <2>3, <2>4, <2>5, <2>6, <2>7
  <1>8. QED
    BY <1>2, <1>5, <1>6, <1>7, SameRegistry DEF WorkInv

\* The job of a live tracker goes into ActiveJobs under the ID its pipeline has.
LEMMA RegisterWork ==
  ASSUME ProcessTypes, WorkInv, NEW r \in requests, RegisterActiveJob(r)
  PROVE  WorkInv'
  <1>. DEFINE a == AddressOf(r.call)
              new == [call |-> r.call, stage |-> "registered", id |-> r.id, epoch |-> r.epoch]
  <1>1. a \in Address /\ a = r.call[1][1]
    BY RequestFields DEF ProcessTypes
  <1>2. /\ r.stage = "queued"
        /\ activeJobs' = [activeJobs EXCEPT ![a] = @ \cup {r.id}]
        /\ requests' = (requests \ {r}) \cup {new}
        /\ UNCHANGED <<vars, snapshots, pipelines>>
    <2>1. [r EXCEPT !.stage = "registered"] = new
      BY RequestFields, RequestChanged DEF ProcessTypes, Stage
    <2>. HIDE DEF new
    <2>2. QED
      BY <2>1 DEF RegisterActiveJob
  <1>3. UNCHANGED <<phase, calls, epoch, testing, noReply>>
    BY <1>2 DEF vars, registryVars, statusVars, holderVars
  <1>4. /\ new.call = r.call /\ new.stage = "registered" /\ new.id = r.id
        /\ "registered" # "sent" /\ "registered" # "answered" /\ "queued" # "sent"
    OBVIOUS
  <1>. HIDE DEF new
  <1>5. WorkIsOwned' /\ WorkIsOnce' /\ UnbornHasNoWork'
    BY <1>2, <1>4, ReplacedRequest
  <1>6. StatusIsKept'
    BY <1>2, StatusesStay DEF Made
  <1>7. activeJobs'[a] = activeJobs[a] \cup {r.id}
        /\ \A b \in Address : activeJobs[b] \subseteq activeJobs'[b]
    BY <1>1, <1>2 DEF ProcessTypes, ActiveTyped
  <1>8. RunningIsListed'
    <2>1. SUFFICES ASSUME NEW t \in Tracker, IsLive(t), t[2] = 1, NEW p \in PipelinesOf(t)
                   PROVE  /\ \A s \in RequestsOf(t)' : s.call = p.call =>
                               /\ s.stage = "registered" => p.id \in activeJobs'[t[1]]
                               /\ s.stage = "answered" => ListedFrom(t[1], p.id, s.epoch)'
                          /\ p.id \in testing[t] => ListedFrom(t[1], p.id, epoch[t])'
                          /\ p.id \notin noReply[t]
      BY <1>2, <1>3 DEF RunningIsListed, IsLive, PipelinesOf, ListedFrom, Made
    <2>2. /\ \A s \in RequestsOf(t) : s.call = p.call =>
               /\ s.stage = "registered" => p.id \in activeJobs[t[1]]
               /\ s.stage = "answered" => ListedFrom(t[1], p.id, s.epoch)
          /\ p.id \in testing[t] => ListedFrom(t[1], p.id, epoch[t])
          /\ p.id \notin noReply[t]
      BY <2>1 DEF WorkInv, RunningIsListed
    <2>3. \A n : ListedFrom(t[1], p.id, n) => ListedFrom(t[1], p.id, n)'
      BY <1>2, <1>7, TrackerParts DEF ListedFrom, Made
    <2>4. ListedFrom(t[1], p.id, epoch[t]) => ListedFrom(t[1], p.id, epoch[t])'
      BY <1>3, <2>3
    <2>5. RequestsOf(t)' \subseteq RequestsOf(t) \cup {new}
      BY <1>2 DEF RequestsOf
    <2>6. new \in RequestsOf(t)' /\ new.call = p.call => p.id \in activeJobs'[t[1]]
      <3>1. SUFFICES ASSUME r.call[1] = t, r.call = p.call
                     PROVE  p.id \in activeJobs'[t[1]]
        BY <1>4 DEF RequestsOf
      <3>2. r \in RequestsOf(t)
        BY <3>1 DEF RequestsOf
      <3>3. p.id = r.id
        BY <2>1, <3>1, <3>2 DEF WorkInv, WorkIsOwned, Owned, CurrentID
      <3>4. QED
        BY <1>1, <1>7, <3>1, <3>3
    <2>7. activeJobs[t[1]] \subseteq activeJobs'[t[1]]
      BY <1>7, TrackerParts
    <2>8. QED
      BY <1>4, <2>2, <2>3, <2>4, <2>5, <2>6, <2>7
  <1>9. QED
    BY <1>2, <1>5, <1>6, <1>8, SameRegistry DEF WorkInv

\* The request of a live tracker still has the ID it was sent under.
LEMMA AcceptWork ==
  ASSUME Inv, HInv, ProcessTypes, WorkInv, NEW r \in requests, AcceptNewJob(r)
  PROVE  WorkInv'
  <1>1. PICK n \in r.id[2]..idNumber[r.id[1]] :
          /\ requests' = (requests \ {r}) \cup
                           {[r EXCEPT !.stage = "queued", !.id = <<r.id[1], n>>]}
          /\ pipelines' = pipelines \cup {[call |-> r.call, id |-> <<r.id[1], n>>]}
    BY DEF AcceptNewJob
  <1>. DEFINE id == <<r.id[1], n>>
              new == [call |-> r.call, stage |-> "queued", id |-> id, epoch |-> r.epoch]
              job == [call |-> r.call, id |-> id]
  <1>2. /\ r.id[2] \in Nat /\ idNumber[r.id[1]] \in Nat /\ n \in Nat /\ id \in JobID
        /\ r.id = <<r.id[1], r.id[2]>>
    <2>1. /\ r.id[2] \in Nat /\ r.id[1] \in Job /\ r.id = <<r.id[1], r.id[2]>>
          /\ idNumber[r.id[1]] \in Nat
      BY RequestFields DEF ProcessTypes, Inv, TypeInv, TypeOK, QueueTypeOK
    <2>2. n \in Nat
      BY <2>1
    <2>3. QED
      BY <2>1, <2>2 DEF JobID
  <1>3. /\ r.stage = "sent"
        /\ requests' = (requests \ {r}) \cup {new}
        /\ pipelines' = pipelines \cup {job}
        /\ UNCHANGED <<vars, snapshots, activeJobs>>
    <2>1. [r EXCEPT !.stage = "queued", !.id = id] = new
      BY <1>2, RequestFields, RequestChanged DEF ProcessTypes, Stage
    <2>. HIDE DEF new
    <2>2. QED
      BY <1>1, <2>1 DEF AcceptNewJob
  <1>4. UNCHANGED <<phase, calls, epoch, testing, noReply>>
    BY <1>3 DEF vars, registryVars, statusVars, holderVars
  <1>5. /\ new.call = r.call /\ new.stage = "queued" /\ new.id = id
        /\ job.call = r.call /\ job.id = id
        /\ "queued" # "sent" /\ "queued" # "answered" /\ "queued" # "registered"
    OBVIOUS
  <1>6. IsLive(r.call[1]) =>
          /\ id = r.id /\ r.id[1] = r.call[2] /\ Owned(r.call[1], id) /\ r.call \in calls
          /\ id = CurrentID(r.call[2])
    <2>1. SUFFICES ASSUME IsLive(r.call[1])
                   PROVE  /\ id = r.id /\ r.id[1] = r.call[2] /\ Owned(r.call[1], id) /\ r.call \in calls
                          /\ id = CurrentID(r.call[2])
      OBVIOUS
    <2>2. r.call[1] \in Tracker /\ r \in RequestsOf(r.call[1])
      BY RequestFields DEF ProcessTypes, RequestsOf
    <2>3. r.id[1] = r.call[2] /\ Owned(r.call[1], r.id) /\ r.call \in calls
      BY <2>1, <2>2 DEF WorkInv, WorkIsOwned
    <2>4. r.id[2] = idNumber[r.id[1]] /\ r.id = CurrentID(r.id[1])
      BY <1>2, <2>3 DEF Owned, CurrentID
    <2>5. n = r.id[2]
      BY <1>2, <2>4
    <2>6. QED
      BY <1>2, <2>3, <2>4, <2>5
  <1>. HIDE DEF new, job, id
  <1>7. \A t \in Tracker :
          /\ PipelinesOf(t)' = IF r.call[1] = t THEN PipelinesOf(t) \cup {job} ELSE PipelinesOf(t)
          /\ RequestsOf(t)' = IF r.call[1] = t THEN (RequestsOf(t) \ {r}) \cup {new} ELSE RequestsOf(t)
          /\ IsLive(t)' <=> IsLive(t)
          /\ r.call[1] = t <=> r \in RequestsOf(t)
    BY <1>3, <1>4, <1>5 DEF PipelinesOf, RequestsOf, IsLive
  <1>8. WorkIsOwned'
    BY <1>3, <1>4, <1>5, <1>6, <1>7, SameOwned DEF WorkInv, WorkIsOwned
  <1>9. WorkIsOnce'
    BY <1>3, <1>5, <1>7 DEF WorkInv, WorkIsOnce
  <1>10. UnbornHasNoWork'
    BY <1>4, <1>7 DEF WorkInv, UnbornHasNoWork
  <1>11. StatusIsKept'
    BY <1>3, StatusesStay DEF Made
  <1>12. RunningIsListed'
    <2>1. SUFFICES ASSUME NEW t \in Tracker, IsLive(t), t[2] = 1, NEW p \in PipelinesOf(t)'
                   PROVE  /\ \A s \in RequestsOf(t)' : s.call = p.call =>
                               /\ s.stage = "registered" => p.id \in activeJobs[t[1]]
                               /\ s.stage = "answered" => ListedFrom(t[1], p.id, s.epoch)
                          /\ p.id \in testing[t] => ListedFrom(t[1], p.id, epoch[t])
                          /\ p.id \notin noReply[t]
      BY <1>3, <1>4, SameListed DEF RunningIsListed, IsLive, ListedFrom, Made
    <2>2. CASE p \in PipelinesOf(t)
      BY <1>5, <1>7, <2>1, <2>2 DEF WorkInv, RunningIsListed
    <2>3. CASE p \notin PipelinesOf(t)
      <3>1. p = job /\ r.call[1] = t
        BY <1>7, <2>1, <2>3
      <3>2. \A s \in RequestsOf(t)' : s.call = p.call => s.stage = "queued"
        BY <1>5, <1>7, <2>1, <3>1 DEF WorkInv, WorkIsOnce
      <3>3. p.id \notin testing[t] \cup noReply[t]
        BY <1>5, <1>6, <2>1, <3>1 DEF HInv, SendsInv, SendPanicsOn
      <3>4. QED
        BY <1>5, <3>2, <3>3
    <2>4. QED
      BY <2>2, <2>3
  <1>13. QED
    BY <1>3, <1>8, <1>9, <1>10, <1>11, <1>12, SameRegistry DEF WorkInv

\* The job that ends is not one that another pipeline of the same tracker runs, and
\* the first tracker of the process is the only one that has pipelines there.
LEMMA FinishWork ==
  ASSUME Inv, HInv, ProcessTypes, WorkInv, [Next]_vars, NEW q \in pipelines, FinishJob(q)
  PROVE  WorkInv'
  <1>. DEFINE a == AddressOf(q.call)
  <1>1. a \in Address /\ a = q.call[1][1] /\ q.call[1] \in Tracker
    BY PipelineFields DEF ProcessTypes
  <1>2. /\ pipelines' = pipelines \ {q}
        /\ activeJobs' = [activeJobs EXCEPT ![a] = @ \ {q.id}]
        /\ UNCHANGED <<vars, snapshots, requests>>
    BY DEF FinishJob
  <1>3. UNCHANGED <<phase, calls, epoch, testing, noReply>>
    BY <1>2 DEF vars, registryVars, statusVars, holderVars
  <1>4. WorkIsOwned' /\ WorkIsOnce' /\ UnbornHasNoWork'
    BY <1>2, <1>3, LessWork
  <1>5. StatusIsKept'
    BY <1>2, StatusesStay DEF Made
  <1>6. RunningIsListed'
    <2>1. SUFFICES ASSUME NEW t \in Tracker, IsLive(t), t[2] = 1, NEW p \in PipelinesOf(t), p # q
                   PROVE  /\ \A s \in RequestsOf(t) : s.call = p.call =>
                               /\ s.stage = "registered" => p.id \in activeJobs'[t[1]]
                               /\ s.stage = "answered" => ListedFrom(t[1], p.id, s.epoch)'
                          /\ p.id \in testing[t] => ListedFrom(t[1], p.id, epoch[t])'
                          /\ p.id \notin noReply[t]
      BY <1>2, <1>3 DEF RunningIsListed, IsLive, PipelinesOf, RequestsOf, ListedFrom, Made
    <2>2. /\ \A s \in RequestsOf(t) : s.call = p.call =>
               /\ s.stage = "registered" => p.id \in activeJobs[t[1]]
               /\ s.stage = "answered" => ListedFrom(t[1], p.id, s.epoch)
          /\ p.id \in testing[t] => ListedFrom(t[1], p.id, epoch[t])
          /\ p.id \notin noReply[t]
      BY <2>1 DEF WorkInv, RunningIsListed
    <2>3. t[1] = a => p.id # q.id
      <3>1. SUFFICES ASSUME t[1] = a PROVE p.id # q.id
        OBVIOUS
      <3>2. q.call[1] = t
        BY <1>1, <2>1, <3>1 DEF WorkInv, FirstIsAlone, UnbornHasNoWork, IsLive, PipelinesOf
      <3>3. q \in PipelinesOf(t) /\ q.call # p.call
        BY <2>1, <3>2 DEF WorkInv, WorkIsOnce, PipelinesOf
      <3>4. p.call = <<t, p.call[2]>> /\ q.call = <<t, q.call[2]>>
        BY <2>1, <3>2, PipelineFields DEF PipelinesOf, ProcessTypes, PipelinesTyped
      <3>5. p.id[1] # q.id[1]
        BY <2>1, <3>3, <3>4 DEF WorkInv, WorkIsOwned
      <3>6. QED
        BY <3>5
    <2>4. t[1] \in Address
      BY TrackerParts
    <2>5. p.id \in activeJobs[t[1]] => p.id \in activeJobs'[t[1]]
      BY <1>1, <1>2, <2>3, <2>4 DEF ProcessTypes, ActiveTyped
    <2>6. \A n : ListedFrom(t[1], p.id, n) => ListedFrom(t[1], p.id, n)'
      BY <1>2, <2>5 DEF ListedFrom, Made
    <2>7. ListedFrom(t[1], p.id, epoch[t]) => ListedFrom(t[1], p.id, epoch[t])'
      BY <1>3, <2>6
    <2>8. QED
      BY <2>2, <2>5, <2>6, <2>7
  <1>7. QED
    BY <1>2, <1>4, <1>5, <1>6, SameRegistry DEF WorkInv

LEMMA RestartWork ==
  ASSUME Inv, HInv, ProcessTypes, WorkInv, [Next]_vars, NEW a \in Address, Restart(a)
  PROVE  WorkInv'
  <1>1. /\ activeJobs' = [activeJobs EXCEPT ![a] = {}]
        /\ pipelines' = {p \in pipelines : AddressOf(p.call) # a}
        /\ requests' = {r \in requests : AddressOf(r.call) # a}
        /\ UNCHANGED <<vars, snapshots>>
    BY DEF Restart
  <1>2. UNCHANGED <<phase, calls, epoch, testing, noReply>>
    BY <1>1 DEF vars, registryVars, statusVars, holderVars
  <1>3. WorkIsOwned' /\ WorkIsOnce' /\ UnbornHasNoWork'
    BY <1>1, <1>2, LessWork
  <1>4. StatusIsKept'
    BY <1>1, StatusesStay DEF Made
  <1>5. RunningIsListed'
    <2>1. SUFFICES ASSUME NEW t \in Tracker, IsLive(t), t[2] = 1, NEW p \in PipelinesOf(t)'
                   PROVE  /\ \A s \in RequestsOf(t)' : s.call = p.call =>
                               /\ s.stage = "registered" => p.id \in activeJobs'[t[1]]
                               /\ s.stage = "answered" => ListedFrom(t[1], p.id, s.epoch)'
                          /\ p.id \in testing[t] => ListedFrom(t[1], p.id, epoch[t])'
                          /\ p.id \notin noReply[t]
      BY <1>2 DEF RunningIsListed, IsLive, ListedFrom, Made
    <2>2. p \in PipelinesOf(t) /\ RequestsOf(t)' \subseteq RequestsOf(t) /\ t[1] # a /\ t[1] \in Address
      BY <1>1, TrackerParts DEF PipelinesOf, RequestsOf, AddressOf
    <2>3. activeJobs'[t[1]] = activeJobs[t[1]]
      BY <1>1, <2>2 DEF ProcessTypes, ActiveTyped
    <2>4. \A n : ListedFrom(t[1], p.id, n)' <=> ListedFrom(t[1], p.id, n)
      BY <1>1, <2>3 DEF ListedFrom, Made
    <2>5. ListedFrom(t[1], p.id, epoch[t])' <=> ListedFrom(t[1], p.id, epoch[t])
      BY <1>2, <2>4
    <2>6. QED
      BY <2>1, <2>2, <2>3, <2>4, <2>5 DEF WorkInv, RunningIsListed
  <1>6. QED
    BY <1>1, <1>3, <1>4, <1>5, SameRegistry DEF WorkInv

LEMMA ProcessWork ==
  ASSUME Inv, HInv, ProcessTypes, WorkInv, [Next]_vars, ProcessNext PROVE WorkInv'
  <1>1. ASSUME NEW a \in Address, MakeOwnStatus(a) PROVE WorkInv'
    BY <1>1, OwnStatusWork DEF MakeOwnStatus
  <1>2. ASSUME NEW r \in results, UploadResult(r) PROVE WorkInv'
    <2>1. r.address \in Address
      BY DEF ProcessTypes, ResultsTyped
    <2>2. QED
      BY <1>2, <2>1, OwnStatusWork DEF UploadResult
  <1>3. QED
    BY <1>1, <1>2, AcceptWork, RegisterWork, AnswerWork, FinishWork, RestartWork DEF ProcessNext

----------------------------------------------------------------------------
(* The whole system.                                                        *)

LEMMA NetworkWork ==
  ASSUME Inv, HInv, OneTrackerPerAddress, ProcessTypes, WorkInv, [Next]_vars, NetworkNext
  PROVE  WorkInv'
  <1>1. ASSUME NEW a \in Address, DeliverPush(a) PROVE WorkInv'
    <2>1. PICK st \in StatusesOf(a) : InvokerStatus(st)
      BY <1>1 DEF DeliverPush
    <2>2. PICK e \in Made(a) : st = StatusOf(a, e)
      BY StatusesAreMade DEF ProcessTypes
    <2>3. QED
      BY <1>1, <2>1, <2>2, UpsertWork DEF DeliverPush, InvokerStatus, processVars
  <1>2. ASSUME NEW c \in carried, UpsertCarried(c) PROVE WorkInv'
    <2>1. c.address \in Address /\ c.epoch \in Made(c.address)
      BY DEF ProcessTypes, CarriedTyped
    <2>2. QED
      BY <1>2, <2>1, UpsertWork DEF UpsertCarried, UpsertAfterResult
  <1>3. QED
    BY <1>1, <1>2, QuietNetwork, QuietWork, SendRequestWork, PingWork, DeliverAnswerWork

LEMMA NextWork ==
  ASSUME Inv, HInv, OneTrackerPerAddress, ProcessTypes, WorkInv, [ClusterNext]_clusterVars
  PROVE  WorkInv'
  <1>1. [Next]_vars
    BY StepIsRegistryStep
  <1>2. CASE MasterNext
    BY <1>1, <1>2, QuietMaster, QuietWork
  <1>3. CASE ProcessNext
    BY <1>1, <1>3, ProcessWork
  <1>4. CASE NetworkNext
    BY <1>1, <1>4, NetworkWork
  <1>5. CASE UNCHANGED clusterVars
    <2>1. QuietStep
      BY <1>5 DEF QuietStep, clusterVars, processVars, vars, registryVars, holderVars
    <2>2. QED
      BY <1>1, <2>1, QuietWork
  <1>6. QED
    BY <1>2, <1>3, <1>4, <1>5 DEF ClusterNext

LEMMA InitWork == ClusterInit => WorkInv
  <1>. SUFFICES ASSUME ClusterInit PROVE WorkInv
    OBVIOUS
  <1>1. /\ \A t \in Tracker : phase[t] = "unborn"
        /\ requests = {} /\ pipelines = {}
    BY DEF ClusterInit, Init, RegistryInit
  <1>2. \A t \in Tracker : RequestsOf(t) = {} /\ PipelinesOf(t) = {} /\ ~ IsLive(t)
    BY <1>1 DEF RequestsOf, PipelinesOf, IsLive
  <1>3. QED
    BY <1>1, <1>2 DEF WorkInv, WorkIsOwned, WorkIsOnce, UnbornHasNoWork, FirstIsAlone, StatusIsKept,
       RunningIsListed

LEMMA WorkInvIsInvariant == ClusterSpec => []WorkInv
  <1>1. ClusterSpec => Spec
    BY ClusterIsRegistry DEF ImplementsRegistry
  <1>2. Inv /\ HInv /\ OneTrackerPerAddress /\ ProcessTypes /\ WorkInv /\ [ClusterNext]_clusterVars
          => WorkInv'
    BY NextWork
  <1>3. ClusterInit => WorkInv
    BY InitWork
  <1>4. ClusterSpec => []HInv /\ []OneTrackerPerAddress
    BY <1>1, HInvIsInvariant, OneTracker, PTL
  <1>5. QED
    BY <1>2, <1>3, <1>4, ClusterTypes, PTL DEF ClusterSpec

\* In every behaviour of the whole system, with any number of processes, restarts,
\* lost calls and statuses in any order, a job that runs for the first tracker of its
\* process is not marked as having disappeared.
THEOREM RunningJobsAreSeen == ClusterSpec => []NoFalseDisappearance
  <1>1. WorkInv => NoFalseDisappearance
    BY DEF WorkInv, RunningIsListed, NoFalseDisappearance, IsLive, PipelinesOf
  <1>2. QED
    BY <1>1, WorkInvIsInvariant, PTL

----------------------------------------------------------------------------
(* The jobs a process has to run never exceed its room.                     *)

RunningOf(t) == {p \in PipelinesOf(t) : p.id \in Holders(t)}
SentTo(t) == {r \in RequestsOf(t) : r.stage = "sent" /\ r.id \in Holders(t)}

\* The IDs under which the process of t has to run jobs that t holds.
LoadOf(t) == {p.id : p \in RunningOf(t)} \cup {r.id : r \in SentTo(t)}

\* CanSend compares what the process reported with what is being sent.
LoadInv ==
  /\ \A t \in Tracker : IsFiniteSet(sending[t])
  /\ \A t \in Tracker : IsLive(t) /\ t[2] = 1 =>
       IsFiniteSet(LoadOf(t)) /\ Cardinality(LoadOf(t)) <= MaxJobs

\* Every job of the load is counted: as being sent, or in the status that is kept.
LEMMA LoadIsCounted ==
  ASSUME HInv, WorkInv, NEW t \in Tracker, IsLive(t), t[2] = 1
  PROVE  LoadOf(t) \subseteq sending[t] \cup snapshots[t[1]][epoch[t]]
  <1>1. ASSUME NEW p \in RunningOf(t) PROVE p.id \in sending[t] \cup snapshots[t[1]][epoch[t]]
    <2>1. /\ p \in PipelinesOf(t) /\ p.id \in sending[t] \cup testing[t] \cup noReply[t]
          /\ p.id \notin noReply[t]
          /\ p.id \in testing[t] => ListedFrom(t[1], p.id, epoch[t])
      BY DEF RunningOf, Holders, WorkInv, RunningIsListed
    <2>2. epoch[t] \in Made(t[1]) /\ epoch[t] >= epoch[t]
      BY DEF WorkInv, StatusIsKept, IsLive, Made
    <2>3. QED
      BY <2>1, <2>2 DEF ListedFrom
  <1>2. ASSUME NEW r \in SentTo(t) PROVE r.id \in sending[t]
    <2>1. /\ r \in RequestsOf(t) /\ r.call[1] = t /\ r.id \in sending[t] \cup testing[t] \cup noReply[t]
          /\ r.id = CurrentID(r.call[2]) /\ r.call \in calls
      BY DEF SentTo, RequestsOf, Holders, WorkInv, WorkIsOwned, Owned
    <2>2. QED
      BY <2>1 DEF HInv, SendsInv, SendPanicsOn
  <1>3. QED
    BY <1>1, <1>2 DEF LoadOf

LEMMA CountByID ==
  ASSUME NEW S, NEW T, IsFiniteSet(T), \A x \in S : x.id \in T,
         \A x, y \in S : x.id = y.id => x = y
  PROVE  IsFiniteSet(S) /\ Cardinality(S) <= Cardinality(T)
  <1>. DEFINE f == [x \in S |-> x.id]
  <1>1. f \in Injection(S, T)
    BY DEF Injection, IsInjective
  <1>2. QED
    BY <1>1, FS_Injection

\* A job is counted once.
LEMMA LoadIsDistinct ==
  ASSUME ProcessTypes, WorkInv, NEW t \in Tracker, IsLive(t), IsFiniteSet(LoadOf(t))
  PROVE  /\ Cardinality(RunningOf(t)) + Cardinality(SentTo(t)) <= Cardinality(LoadOf(t))
         /\ Cardinality(RunningOf(t)) \in Nat /\ Cardinality(SentTo(t)) \in Nat
  <1>. DEFINE R == RunningOf(t)
              S == SentTo(t)
              RI == {p.id : p \in R}
              SI == {r.id : r \in S}
  <1>1. /\ \A p \in R : /\ p \in PipelinesOf(t) /\ p.id[1] = p.call[2] /\ p.call = <<t, p.call[2]>>
        /\ \A r \in S : /\ r \in RequestsOf(t) /\ r.id[1] = r.call[2] /\ r.call = <<t, r.call[2]>>
                        /\ r.stage = "sent"
    <2>1. \A p \in R : /\ p \in PipelinesOf(t) /\ p.id[1] = p.call[2] /\ p.call[1] = t
                       /\ p.call \in Tracker \X Job
      BY PipelineFields DEF RunningOf, PipelinesOf, WorkInv, WorkIsOwned, ProcessTypes
    <2>2. \A r \in S : /\ r \in RequestsOf(t) /\ r.id[1] = r.call[2] /\ r.call[1] = t
                       /\ r.call \in Tracker \X Job /\ r.stage = "sent"
      BY RequestFields DEF SentTo, RequestsOf, WorkInv, WorkIsOwned, ProcessTypes
    <2>3. QED
      BY <2>1, <2>2
  <1>2. /\ \A p, q \in R : p.id = q.id => p = q
        /\ \A r, s \in S : r.id = s.id => r = s
        /\ \A p \in R, r \in S : p.id # r.id
    BY <1>1 DEF WorkInv, WorkIsOnce
  <1>3. IsFiniteSet(RI) /\ IsFiniteSet(SI) /\ RI \cap SI = {} /\ LoadOf(t) = RI \cup SI
    <2>1. RI \in SUBSET LoadOf(t) /\ SI \in SUBSET LoadOf(t)
      BY DEF LoadOf
    <2>2. RI \cap SI = {}
      BY <1>2
    <2>3. QED
      BY <2>1, <2>2, FS_Subset DEF LoadOf
  <1>. HIDE DEF R, S
  <1>. (\A p \in R : p.id \in RI) /\ (\A r \in S : r.id \in SI)
    OBVIOUS
  <1>. HIDE DEF RI, SI
  <1>4. IsFiniteSet(R) /\ Cardinality(R) <= Cardinality(RI)
    BY <1>2, <1>3, CountByID
  <1>5. IsFiniteSet(S) /\ Cardinality(S) <= Cardinality(SI)
    BY <1>2, <1>3, CountByID
  <1>6. /\ Cardinality(RI) \in Nat /\ Cardinality(SI) \in Nat
        /\ Cardinality(R) \in Nat /\ Cardinality(S) \in Nat
    BY <1>3, <1>4, <1>5, FS_CardinalityType
  <1>7. Cardinality(LoadOf(t)) = Cardinality(RI) + Cardinality(SI)
    <2>1. Cardinality(RI \cup SI) = Cardinality(RI) + Cardinality(SI) - Cardinality(RI \cap SI)
      BY <1>3, FS_Union
    <2>2. Cardinality(RI \cap SI) = 0
      BY <1>3, FS_EmptySet
    <2>3. QED
      BY <1>3, <1>6, <2>1, <2>2
  <1>8. QED
    BY <1>4, <1>5, <1>6, <1>7 DEF R, S

\* Only SendRequest adds to what a tracker holds.
LEMMA OnlyRequestsAssign ==
  ASSUME Inv, ProcessTypes, [ClusterNext]_clusterVars, ~ SendRequest PROVE ~ SendNextJob
  <1>. SUFFICES nextJob = NoJob \/ nextJob' = nextJob
    <2>1. SendNextJob => nextJob # NoJob /\ nextJob' = NoJob
      BY DEF SendNextJob
    <2>2. QED
      BY <2>1
  <1>1. CASE MasterNext
    BY <1>1 DEF MasterNext, NewSubmission, CompleteJob, FailureHandling, ExtractJobs,
       LockForRescheduling, RemoveInvoker, RescheduleExtracted, SendJobs, FetchNextJob,
       TryNextInvoker, registryVars, mapVars
  <1>2. CASE ProcessNext
    BY <1>2, ProcessStep DEF vars, registryVars, mapVars
  <1>3. CASE NetworkNext
    <2>1. ASSUME NEW st, Upsert(st) PROVE nextJob' = nextJob
      BY <2>1 DEF Upsert
    <2>2. ASSUME NEW t, \/ DeliverPing(t) \/ LosePing(t)
                        \/ \E id \in noReply[t] : LostJobTimer(t, id)
          PROVE  nextJob' = nextJob
      BY <2>2 DEF DeliverPing, PingAnswered, LosePing, PingFailed, LostJobTimer, EnsureJobIsNotLost,
         mapVars
    <2>3. ASSUME NEW r, DeliverAnswer(r) \/ CallLost(r) \/ DropAnswer(r) PROVE nextJob' = nextJob
      BY <2>3 DEF DeliverAnswer, SendAnswered, CallLost, SendFailed, DropAnswer, vars, registryVars,
         mapVars
    <2>4. ASSUME NEW c, CallRefused(c) \/ StopJobCall(c) PROVE nextJob' = nextJob
      BY <2>4 DEF CallRefused, SendFailed, StopJobCall, StopAnswered, StopFailed, mapVars
    <2>5. ASSUME NEW r, DeliverResult(r) \/ LoseResult(r) PROVE nextJob' = nextJob
      BY <2>5 DEF DeliverResult, InvokerJobResult, LoseResult, vars, registryVars, mapVars
    <2>6. ASSUME NEW a, DeliverPush(a) PROVE nextJob' = nextJob
      BY <2>1, <2>6 DEF DeliverPush, InvokerStatus
    <2>7. ASSUME NEW c, UpsertCarried(c) PROVE nextJob' = nextJob
      BY <2>1, <2>7 DEF UpsertCarried, UpsertAfterResult
    <2>8. QED
      BY <1>3, <2>2, <2>3, <2>4, <2>5, <2>6, <2>7 DEF NetworkNext
  <1>4. CASE UNCHANGED clusterVars
    BY <1>4 DEF clusterVars, vars, registryVars, mapVars
  <1>5. QED
    BY <1>1, <1>2, <1>3, <1>4 DEF ClusterNext

\* Otherwise a live tracker holds no more jobs than before.
LEMMA HoldersShrink ==
  ASSUME Inv, HInv, HInv', [Next]_vars, ~ SendNextJob, NEW t \in Tracker, IsLive(t), IsLive(t)'
  PROVE  Holders(t)' \subseteq Holders(t)
  <1>1. SUFFICES ASSUME NEW id \in Holders(t)' PROVE id \in Holders(t)
    OBVIOUS
  <1>2. id \in DOMAIN invokerByJobID' /\ invokerByJobID'[id] = t
    BY DEF HInv, HolderInv, HoldersMatchAssignments
  <1>3. id \in DOMAIN invokerByJobID /\ invokerByJobID[id] = t
    <2>1. CASE NothingIsAssigned
      BY <1>2, <2>1 DEF NothingIsAssigned
    <2>2. ASSUME NEW u \in Tracker, NEW x \in extracted[u], RescheduleExtracted(u, x)
          PROVE  id \in DOMAIN invokerByJobID /\ invokerByJobID[id] = t
      BY <1>2, <2>2 DEF RescheduleExtracted, WithoutKey
    <2>3. QED
      BY <2>1, <2>2, AssignmentSteps
  <1>4. extracted[t] = {}
    BY DEF HInv, HolderInv, IsLive, Early
  <1>5. QED
    BY <1>3, <1>4 DEF HInv, HolderInv, HoldersMatchAssignments

\* What is sent to a process is one more job at most, and only by SendNextJob.
LEMMA SendingGrows ==
  ASSUME Inv, [Next]_vars, NEW t \in Tracker
  PROVE  sending'[t] \subseteq sending[t] \/ \E id : sending'[t] = sending[t] \cup {id}
  <1>. sending \in [Tracker -> SUBSET JobID]
    BY DEF Inv, TypeInv, TypeOK, RegistryTypeOK
  <1>1. ASSUME NEW u \in Tracker, TrackerNext(u) PROVE sending'[t] \subseteq sending[t]
    BY <1>1 DEF TrackerNext, PingFailed, ExtractJobs, LockForRescheduling, RemoveInvoker,
       RescheduleExtracted, EnsureJobIsNotLost, PingAnswered, holderVars
  <1>2. CASE CallNext
    <2>1. ASSUME NEW c \in calls, NEW st, SendAnswered(c[1], c[2], st)
          PROVE  sending'[t] \subseteq sending[t]
      BY <2>1 DEF SendAnswered
    <2>2. CASE UNCHANGED sending
      BY <2>2
    <2>3. QED
      BY <1>2, <2>1, <2>2 DEF CallNext, SendFailed, StopAnswered, StopFailed, holderVars
  <1>3. CASE HandlerNext
    <2>1. ASSUME NEW id, NEW good, InvokerJobResult(id, good) PROVE sending'[t] \subseteq sending[t]
      BY <2>1 DEF InvokerJobResult
    <2>2. CASE UNCHANGED sending
      BY <2>2
    <2>3. QED
      BY <1>3, <2>1, <2>2 DEF HandlerNext, NewSubmission, InvokerStatus, UpsertAfterResult, Upsert,
         CompleteJob, registryVars, holderVars
  <1>4. CASE SendNextJob
    <2>1. sending' = [sending EXCEPT ![invokers[sendAt]] = @ \cup {CurrentID(nextJob)}]
      BY <1>4 DEF SendNextJob
    <2>2. QED
      BY <2>1
  <1>5. CASE SendJobs \/ FetchNextJob \/ TryNextInvoker \/ UNCHANGED vars
    BY <1>5 DEF SendJobs, FetchNextJob, TryNextInvoker, vars, registryVars, holderVars
  <1>6. QED
    BY <1>1, <1>2, <1>3, <1>4, <1>5 DEF Next, SendNext

\* Otherwise a pipeline is new only when a request becomes it.
LEMMA NewWork ==
  ASSUME Inv, ProcessTypes, [ClusterNext]_clusterVars, ~ SendRequest
  PROVE  /\ \A r \in requests' : /\ r \in requests \/ r.stage # "sent"
                                /\ \E s \in requests : s.call = r.call
         /\ \A p \in pipelines' :
              \/ p \in pipelines
              \/ UNCHANGED vars /\ \E r \in requests : r.stage = "sent" /\ p.call = r.call
  <1>1. CASE requests' \subseteq requests /\ pipelines' \subseteq pipelines
    BY <1>1
  <1>2. ASSUME NEW r \in requests, AcceptNewJob(r)
        PROVE  /\ \A s \in requests' : s \in requests \/ (s.stage # "sent" /\ s.call = r.call)
               /\ \A p \in pipelines' :
                    \/ p \in pipelines
                    \/ UNCHANGED vars /\ \E s \in requests : s.stage = "sent" /\ p.call = s.call
    <2>1. r.stage = "sent" /\ UNCHANGED vars
      BY <1>2 DEF AcceptNewJob
    <2>2. PICK n \in r.id[2]..idNumber[r.id[1]] :
            /\ requests' = (requests \ {r}) \cup
                             {[r EXCEPT !.stage = "queued", !.id = <<r.id[1], n>>]}
            /\ pipelines' = pipelines \cup {[call |-> r.call, id |-> <<r.id[1], n>>]}
      BY <1>2 DEF AcceptNewJob
    <2>3. <<r.id[1], n>> \in JobID
      <3>1. /\ r.id[2] \in Nat /\ r.id[1] \in Job /\ idNumber[r.id[1]] \in Nat
        BY RequestFields DEF ProcessTypes, Inv, TypeInv, TypeOK, QueueTypeOK
      <3>2. QED
        BY <3>1 DEF JobID
    <2>4. [r EXCEPT !.stage = "queued", !.id = <<r.id[1], n>>] =
            [call |-> r.call, stage |-> "queued", id |-> <<r.id[1], n>>, epoch |-> r.epoch]
      BY <2>3, RequestFields, RequestChanged DEF ProcessTypes, Stage
    <2>5. QED
      BY <2>1, <2>2, <2>4
  <1>3. ASSUME NEW r \in requests, RegisterActiveJob(r) \/ AnswerNewJob(r)
        PROVE  /\ pipelines' = pipelines
               /\ \A s \in requests' : s \in requests \/ (s.stage # "sent" /\ s.call = r.call)
    <2>1. CASE RegisterActiveJob(r)
      <3>1. [r EXCEPT !.stage = "registered"] =
              [call |-> r.call, stage |-> "registered", id |-> r.id, epoch |-> r.epoch]
        BY RequestFields, RequestChanged DEF ProcessTypes, Stage
      <3>2. QED
        BY <2>1, <3>1 DEF RegisterActiveJob
    <2>2. CASE AnswerNewJob(r)
      <3>1. PICK e \in Nat : e = Len(snapshots'[AddressOf(r.call)])
        <4>1. AddressOf(r.call) \in Address
          BY RequestFields DEF ProcessTypes
        <4>2. QED
          BY <2>2, <4>1, MakeStatusTypes DEF AnswerNewJob, ProcessTypes, SnapshotsTyped
      <3>2. [r EXCEPT !.stage = "answered", !.epoch = e] =
              [call |-> r.call, stage |-> "answered", id |-> r.id, epoch |-> e]
        BY RequestFields, RequestChanged DEF ProcessTypes, Stage
      <3>3. QED
        BY <2>2, <3>1, <3>2 DEF AnswerNewJob
    <2>3. QED
      BY <1>3, <2>1, <2>2
  <1>4. CASE MasterNext \/ UNCHANGED clusterVars
    BY <1>1, <1>4 DEF MasterNext, clusterVars, processVars
  <1>5. CASE ProcessNext
    BY <1>1, <1>2, <1>3, <1>5 DEF ProcessNext, MakeOwnStatus, Restart, FinishJob, UploadResult
  <1>6. CASE NetworkNext
    <2>1. QuietStep => requests' \subseteq requests /\ pipelines' \subseteq pipelines
      BY DEF QuietStep
    <2>2. QED
      BY <1>1, <1>6, <2>1, QuietNetwork DEF DeliverPing, DeliverPush, DeliverAnswer, UpsertCarried,
         processVars
  <1>7. QED
    BY <1>4, <1>5, <1>6 DEF ClusterNext

LEMMA LoadShrinks ==
  ASSUME Inv, HInv, HInv', ProcessTypes, WorkInv, WorkInv', [ClusterNext]_clusterVars, ~ SendRequest,
         NEW t \in Tracker, IsLive(t), IsLive(t)'
  PROVE  LoadOf(t)' \subseteq LoadOf(t)
  <1>1. Holders(t)' \subseteq Holders(t)
    BY StepIsRegistryStep, OnlyRequestsAssign, HoldersShrink
  <1>2. ASSUME NEW r \in SentTo(t)' PROVE r.id \in LoadOf(t)
    <2>1. r \in requests /\ r.call[1] = t /\ r.stage = "sent" /\ r.id \in Holders(t)
      BY <1>1, NewWork DEF SentTo, RequestsOf
    <2>2. QED
      BY <2>1 DEF LoadOf, SentTo, RequestsOf
  <1>3. ASSUME NEW p \in RunningOf(t)' PROVE p.id \in LoadOf(t)
    <2>1. p \in PipelinesOf(t)' /\ p \in pipelines' /\ p.call[1] = t /\ p.id \in Holders(t)
      BY <1>1 DEF RunningOf, PipelinesOf
    <2>2. CASE p \in pipelines
      BY <2>1, <2>2 DEF LoadOf, RunningOf, PipelinesOf
    <2>3. CASE p \notin pipelines
      <3>1. PICK r \in requests : r.stage = "sent" /\ p.call = r.call /\ UNCHANGED vars
        BY <2>1, <2>3, NewWork
      <3>2. r \in RequestsOf(t)
        BY <2>1, <3>1 DEF RequestsOf
      <3>3. r.id = CurrentID(r.call[2])
        BY <3>2 DEF WorkInv, WorkIsOwned, Owned
      <3>4. p.id = CurrentID(p.call[2])'
        BY <2>1 DEF WorkInv, WorkIsOwned, Owned
      <3>5. idNumber' = idNumber
        BY <3>1 DEF vars, queueVars
      <3>6. p.id = r.id
        BY <3>1, <3>3, <3>4, <3>5 DEF CurrentID
      <3>7. QED
        BY <2>1, <3>1, <3>2, <3>6 DEF LoadOf, SentTo
    <2>4. QED
      BY <2>2, <2>3
  <1>4. QED
    BY <1>2, <1>3 DEF LoadOf

LEMMA OnlyTheUnbornAreBorn ==
  ASSUME Inv, [Next]_vars, NEW t \in Tracker, IsLive(t)', ~ IsLive(t) PROVE phase[t] = "unborn"
  <1>. phase \in [Tracker -> Phase]
    BY DEF Inv, TypeInv, TypeOK, RegistryTypeOK
  <1>1. ASSUME NEW u \in Tracker, TrackerNext(u) PROVE phase'[t] = "live" => phase[t] = "live"
    BY <1>1 DEF TrackerNext, PingFailed, ExtractJobs, LockForRescheduling, RemoveInvoker,
       RescheduleExtracted, EnsureJobIsNotLost, PingAnswered, UpdateStatus, MarkFailed
  <1>2. CASE CallNext
    BY <1>2 DEF CallNext, SendAnswered, SendFailed, StopAnswered, StopFailed, UpdateStatus, MarkFailed,
       IsLive
  <1>3. CASE HandlerNext
    <2>1. ASSUME NEW st, Upsert(st) PROVE phase'[t] = "live" => phase[t] \in {"live", "unborn"}
      <3>1. CASE t \in NewTracker(st.address)
        <4>1. PICK n \in 1..Registrations : t = <<st.address, n>> /\ phase[<<st.address, n>>] = "unborn"
          BY <3>1 DEF NewTracker
        <4>2. QED
          BY <4>1
      <3>2. CASE t \notin NewTracker(st.address)
        BY <2>1, <3>2 DEF Upsert
      <3>3. QED
        BY <3>1, <3>2
    <2>2. CASE UNCHANGED phase
      BY <2>2 DEF IsLive
    <2>3. QED
      BY <1>3, <2>1, <2>2 DEF HandlerNext, NewSubmission, InvokerStatus, UpsertAfterResult,
         InvokerJobResult, CompleteJob, registryVars, IsLive
  <1>4. CASE SendNext \/ UNCHANGED vars
    BY <1>4 DEF SendNext, SendJobs, FetchNextJob, SendNextJob, TryNextInvoker, vars, registryVars, IsLive
  <1>5. QED
    BY <1>1, <1>2, <1>3, <1>4 DEF Next, IsLive

LEMMA BornHaveNoWork ==
  ASSUME Inv, ProcessTypes, WorkInv, [ClusterNext]_clusterVars, ~ SendRequest,
         NEW t \in Tracker, IsLive(t)', ~ IsLive(t)
  PROVE  RequestsOf(t)' = {} /\ PipelinesOf(t)' = {}
  <1>1. RequestsOf(t) = {} /\ PipelinesOf(t) = {}
    BY StepIsRegistryStep, OnlyTheUnbornAreBorn DEF WorkInv, UnbornHasNoWork
  <1>2. QED
    BY <1>1, NewWork DEF RequestsOf, PipelinesOf

\* The room that CanSend found is for the job that is sent.
LEMMA SendRequestLoad ==
  ASSUME Inv, HInv, ProcessTypes, WorkInv, LoadInv, SendRequest,
         NEW t \in Tracker, IsLive(t), t[2] = 1
  PROVE  IsFiniteSet(LoadOf(t)') /\ Cardinality(LoadOf(t)') <= MaxJobs
  <1>1. PICK u \in Tracker, id \in JobID : u = invokers[sendAt] /\ id = CurrentID(nextJob)
    <2>1. nextJob \in Job /\ invokers[sendAt] \in Tracker
      BY DEF SendRequest, SendNextJob, Inv, TypeInv, TypeOK, RegistryTypeOK
    <2>2. CurrentID(nextJob) \in JobID
      BY <2>1 DEF CurrentID, JobID, Inv, TypeInv, TypeOK, QueueTypeOK
    <2>3. QED
      BY <2>1, <2>2
  <1>2. /\ Cardinality(sending[u]) + 1 <= maxNewJobs[u]
        /\ sending' = [sending EXCEPT ![u] = @ \cup {id}]
        /\ sending \in [Tracker -> SUBSET JobID]
        /\ UNCHANGED <<testing, noReply, pipelines>>
        /\ requests' = requests \cup {[call |-> <<u, nextJob>>, stage |-> "sent", id |-> id, epoch |-> 0]}
    BY <1>1 DEF SendRequest, SendNextJob, CanSend, Inv, TypeInv, TypeOK, RegistryTypeOK
  <1>3. IsFiniteSet(LoadOf(t)) /\ Cardinality(LoadOf(t)) <= MaxJobs
    BY DEF LoadInv
  <1>4. CASE u # t
    <2>1. Holders(t)' = Holders(t)
      BY <1>2, <1>4 DEF Holders
    <2>2. RequestsOf(t)' = RequestsOf(t) /\ PipelinesOf(t)' = PipelinesOf(t)
      BY <1>2, <1>4 DEF RequestsOf, PipelinesOf
    <2>3. LoadOf(t)' = LoadOf(t)
      BY <2>1, <2>2 DEF LoadOf, SentTo, RunningOf
    <2>4. QED
      BY <1>3, <2>3
  <1>5. CASE u = t
    <2>. DEFINE busy == snapshots[t[1]][epoch[t]]
    <2>1. Holders(t)' = Holders(t) \cup {id}
      BY <1>2, <1>5 DEF Holders
    <2>2. \A r \in RequestsOf(t)' : r \in RequestsOf(t) \/ r.id = id
      BY <1>2 DEF RequestsOf
    <2>3. LoadOf(t)' \subseteq LoadOf(t) \cup {id}
      BY <1>2, <2>1, <2>2 DEF LoadOf, SentTo, RunningOf, PipelinesOf
    <2>4. IsFiniteSet(sending[t]) /\ IsFiniteSet(busy) /\ Cardinality(busy) \in Nat
          /\ Cardinality(sending[t]) \in Nat
      BY TrackerParts, FS_CardinalityType DEF LoadInv, ProcessTypes, SnapshotsTyped, WorkInv,
         StatusIsKept, IsLive
    <2>5. Cardinality(sending[t]) + Cardinality(busy) + 1 <= MaxJobs
      <3>1. maxNewJobs[t] = IF Cardinality(busy) > MaxJobs THEN 0 ELSE MaxJobs - Cardinality(busy)
        BY StatusFields DEF WorkInv, StatusIsKept, IsLive
      <3>. HIDE DEF busy
      <3>2. QED
        BY <1>2, <1>5, <2>4, <3>1, ClusterAssumption
    <2>6. Cardinality(LoadOf(t)) <= Cardinality(sending[t]) + Cardinality(busy)
      <3>1. LoadOf(t) \in SUBSET (sending[t] \cup busy)
        BY LoadIsCounted
      <3>. HIDE DEF busy
      <3>2. /\ IsFiniteSet(sending[t] \cup busy)
            /\ Cardinality(sending[t] \cup busy) =
                 Cardinality(sending[t]) + Cardinality(busy) - Cardinality(sending[t] \cap busy)
        BY <2>4, FS_Union
      <3>3. Cardinality(LoadOf(t)) <= Cardinality(sending[t] \cup busy)
        BY <3>1, <3>2, FS_Subset
      <3>4. Cardinality(sending[t] \cap busy) \in Nat /\ Cardinality(LoadOf(t)) \in Nat
        BY <1>3, <2>4, FS_CardinalityType, FS_Subset
      <3>5. QED
        BY <2>4, <3>2, <3>3, <3>4
    <2>. HIDE DEF busy
    <2>7. /\ IsFiniteSet(LoadOf(t) \cup {id})
          /\ Cardinality(LoadOf(t) \cup {id}) <= Cardinality(LoadOf(t)) + 1
          /\ Cardinality(LoadOf(t)) \in Nat /\ Cardinality(LoadOf(t) \cup {id}) \in Nat
      <3>1. /\ IsFiniteSet(LoadOf(t) \cup {id})
            /\ \/ Cardinality(LoadOf(t) \cup {id}) = Cardinality(LoadOf(t))
               \/ Cardinality(LoadOf(t) \cup {id}) = Cardinality(LoadOf(t)) + 1
        BY <1>3, FS_AddElement
      <3>2. Cardinality(LoadOf(t)) \in Nat /\ Cardinality(LoadOf(t) \cup {id}) \in Nat
        BY <1>3, <3>1, FS_CardinalityType
      <3>3. QED
        BY <3>1, <3>2
    <2>8. LoadOf(t)' \in SUBSET (LoadOf(t) \cup {id})
      BY <2>3
    <2>9. IsFiniteSet(LoadOf(t)') /\ Cardinality(LoadOf(t)') <= Cardinality(LoadOf(t) \cup {id})
      BY <2>7, <2>8, FS_Subset
    <2>10. Cardinality(LoadOf(t)') \in Nat
      BY <2>9, FS_CardinalityType
    <2>11. QED
      BY <2>4, <2>5, <2>6, <2>7, <2>9, <2>10, ClusterAssumption
  <1>6. QED
    BY <1>4, <1>5

LEMMA NextLoad ==
  ASSUME Inv, HInv, HInv', ProcessTypes, WorkInv, WorkInv', LoadInv, [ClusterNext]_clusterVars
  PROVE  LoadInv'
  <1>1. [Next]_vars
    BY StepIsRegistryStep
  <1>2. ASSUME NEW t \in Tracker PROVE IsFiniteSet(sending'[t])
    <2>1. IsFiniteSet(sending[t])
      BY DEF LoadInv
    <2>2. CASE sending'[t] \subseteq sending[t]
      BY <2>1, <2>2, FS_Subset
    <2>3. ASSUME NEW id, sending'[t] = sending[t] \cup {id} PROVE IsFiniteSet(sending'[t])
      BY <2>1, <2>3, FS_AddElement
    <2>4. QED
      BY <1>1, <2>2, <2>3, SendingGrows
  <1>3. ASSUME NEW t \in Tracker, IsLive(t)', t[2] = 1
        PROVE  IsFiniteSet(LoadOf(t)') /\ Cardinality(LoadOf(t)') <= MaxJobs
    <2>1. CASE SendRequest
      <3>1. IsLive(t)
        BY <1>3, <2>1 DEF SendRequest, SendNextJob, IsLive
      <3>2. QED
        BY <1>3, <2>1, <3>1, SendRequestLoad
    <2>2. CASE ~ SendRequest /\ IsLive(t)
      <3>1. LoadOf(t)' \in SUBSET LoadOf(t)
        BY <1>3, <2>2, LoadShrinks
      <3>2. IsFiniteSet(LoadOf(t)) /\ Cardinality(LoadOf(t)) <= MaxJobs
        BY <1>3, <2>2 DEF LoadInv
      <3>3. IsFiniteSet(LoadOf(t)') /\ Cardinality(LoadOf(t)') <= Cardinality(LoadOf(t))
        BY <3>1, <3>2, FS_Subset
      <3>4. Cardinality(LoadOf(t)') \in Nat /\ Cardinality(LoadOf(t)) \in Nat
        BY <3>2, <3>3, FS_CardinalityType
      <3>5. QED
        BY <3>2, <3>3, <3>4, ClusterAssumption
    <2>3. CASE ~ SendRequest /\ ~ IsLive(t)
      <3>1. RequestsOf(t)' = {} /\ PipelinesOf(t)' = {}
        BY <1>3, <2>3, BornHaveNoWork
      <3>2. LoadOf(t)' = {}
        BY <3>1 DEF LoadOf, RunningOf, SentTo
      <3>3. QED
        BY <3>2, FS_EmptySet, ClusterAssumption
    <2>4. QED
      BY <2>1, <2>2, <2>3
  <1>4. QED
    BY <1>2, <1>3 DEF LoadInv

LEMMA LoadInvIsInvariant == ClusterSpec => []LoadInv
  <1>1. ClusterInit => LoadInv
    <2>1. ClusterInit => /\ \A t \in Tracker : phase[t] = "unborn" /\ sending[t] = {}
      BY DEF ClusterInit, Init, RegistryInit
    <2>2. QED
      BY <2>1, FS_EmptySet DEF LoadInv, IsLive
  <1>2. Inv /\ ProcessTypes /\ HInv /\ HInv' /\ WorkInv /\ WorkInv' /\ LoadInv
          /\ [ClusterNext]_clusterVars => LoadInv'
    BY NextLoad
  <1>3. ClusterSpec => []HInv
    BY ClusterIsRegistry, HInvIsInvariant, PTL DEF ImplementsRegistry
  <1>4. QED
    BY <1>1, <1>2, <1>3, ClusterTypes, WorkInvIsInvariant, PTL DEF ClusterSpec

\* In every behaviour of the whole system the jobs that the first tracker of a process
\* holds, those on their way to it and those it runs, are not more than MaxJobs: the room
\* that a late status or answer reports is never filled twice.
THEOREM ProcessesAreNotOverloaded == ClusterSpec => []NotOverloaded
  <1>1. ProcessTypes /\ WorkInv /\ LoadInv => NotOverloaded
    <2>. SUFFICES ASSUME ProcessTypes, WorkInv, LoadInv, NEW t \in Tracker, phase[t] = "live", t[2] = 1
                  PROVE  Cardinality({p \in pipelines : p.call[1] = t /\ p.id \in Holders(t)})
                           + Cardinality({r \in requests : /\ r.call[1] = t /\ r.stage = "sent"
                                                           /\ r.id \in Holders(t)}) <= MaxJobs
      BY DEF NotOverloaded
    <2>1. /\ RunningOf(t) = {p \in pipelines : p.call[1] = t /\ p.id \in Holders(t)}
          /\ SentTo(t) = {r \in requests : /\ r.call[1] = t /\ r.stage = "sent"
                                           /\ r.id \in Holders(t)}
      BY DEF RunningOf, SentTo, PipelinesOf, RequestsOf
    <2>2. IsFiniteSet(LoadOf(t)) /\ Cardinality(LoadOf(t)) <= MaxJobs
      BY DEF LoadInv, IsLive
    <2>3. /\ Cardinality(RunningOf(t)) + Cardinality(SentTo(t)) <= Cardinality(LoadOf(t))
          /\ Cardinality(RunningOf(t)) \in Nat /\ Cardinality(SentTo(t)) \in Nat
      BY <2>2, LoadIsDistinct DEF IsLive
    <2>4. Cardinality(LoadOf(t)) \in Nat
      BY <2>2, FS_CardinalityType
    <2>5. QED
      BY <2>1, <2>2, <2>3, <2>4, ClusterAssumption
  <1>2. QED
    BY <1>1, ClusterTypes, WorkInvIsInvariant, LoadInvIsInvariant, PTL
=============================================================================
