------------------------------- MODULE Queue -------------------------------
(***************************************************************************)
(* The master's job queue (master/queue/queue.go): one generator per       *)
(* submission hands out jobs, the queue hands them on to the registry, and *)
(* gets back either a result (JobCompleted) or the news that the invoker   *)
(* holding the job failed (RescheduleJob), after which the same job is     *)
(* handed out again under a new ID.                                        *)
(*                                                                         *)
(* A job is named <<submission, k>>: k = 0 is the compile job, k >= 1 the  *)
(* job of test k.  The UUID minted by the n-th renaming of job j is        *)
(* <<j, n>>, so the ID a job is born with is <<j, 0>>: IDs are fresh by    *)
(* construction, as UUIDs are, and only their identity matters.            *)
(*                                                                         *)
(* Generators are kept to what both kinds (ICPC, IOI) promise the queue:   *)
(* first the compile job, then nothing while it runs, then the tests that  *)
(* are still wanted in increasing order; a result may cancel tests that    *)
(* were not handed out; the submission is returned when nothing is left.   *)
(***************************************************************************)
EXTENDS Naturals, Sequences, FiniteSets

CONSTANTS
  Submission,    \* the submissions clients may send
  TestsNumber,   \* Problem.TestsNumber, the same for every problem
  NoJob          \* Go's nil where a *Job is expected

CompileOf(s) == <<s, 0>>
JobsOf(s) == {s} \X (0..TestsNumber)
Job == Submission \X (0..TestsNumber)
JobID == Job \X Nat

ASSUME QueueAssumption == /\ TestsNumber \in Nat
                          /\ NoJob \notin Job

VARIABLES
  submitted,              \* submissions for which a generator was made
  finished,               \* submissions JobCompleted has returned
  toGive,                 \* generators: jobs wanted and not handed out yet
  givenJobs,              \* generators: jobs handed out and not completed
  requiredJobIDs,         \* Job.RequiredJobIDs of each job object
  idNumber,               \* Job.ID of the object of job j is <<j, idNumber[j]>>
  activeGenerators,       \* list of generators, named by their submission
  activeGeneratorIDs,     \* the set beside that list
  jobIDToOriginalJobID,   \* its keys: <<j, n>> is mapped to <<j, 0>>
  originalJobIDToJob,     \* jobs whose original ID is a key (also the keys
                          \* of originalJobIDToGenerator)
  newFailedJobs           \* job objects waiting to be handed out again

queueVars == <<submitted, finished, toGive, givenJobs, requiredJobIDs, idNumber,
               activeGenerators, activeGeneratorIDs, jobIDToOriginalJobID,
               originalJobIDToJob, newFailedJobs>>

CurrentID(j) == <<j, idNumber[j]>>

Elements(seq) == {seq[i] : i \in DOMAIN seq}

QueueInit ==
  /\ submitted = {}
  /\ finished = {}
  /\ toGive = {}
  /\ givenJobs = {}
  /\ requiredJobIDs = [j \in Job |-> {}]
  /\ idNumber = [j \in Job |-> 0]
  /\ activeGenerators = <<>>
  /\ activeGeneratorIDs = {}
  /\ jobIDToOriginalJobID = {}
  /\ originalJobIDToJob = {}
  /\ newFailedJobs = <<>>

----------------------------------------------------------------------------
(* The generator of submission s, as the queue sees it.                    *)

\* Generator.NextJob returns nil: the compile job is running, or there is
\* nothing (left) to test.
GeneratorIsEmpty(s) ==
  \/ CompileOf(s) \in givenJobs
  \/ toGive \cap JobsOf(s) = {}

\* Generator.NextJob returns j: the first job still wanted.  A test requires
\* some of the tests running now (ICPC: all of them; IOI: those its group
\* depends on).
GeneratorGives(s, j) ==
  /\ ~ GeneratorIsEmpty(s)
  /\ j \in toGive \cap JobsOf(s)
  /\ \A other \in toGive \cap JobsOf(s) : j[2] <= other[2]
  /\ toGive' = toGive \ {j}
  /\ givenJobs' = givenJobs \cup {j}
  /\ \E required \in SUBSET (givenJobs \cap JobsOf(s)) :
       requiredJobIDs' = [requiredJobIDs EXCEPT ![j] = {<<r, 0>> : r \in required}]

\* Generator.JobCompleted: the result may cancel tests of the submission; it
\* returns the submission when no job of it is running or wanted.
GeneratorJobCompleted(j) ==
  /\ j \in givenJobs
  /\ givenJobs' = givenJobs \ {j}
  /\ \E cancelled \in SUBSET (toGive \cap JobsOf(j[1])) :
       toGive' = toGive \ cancelled
  /\ finished' = IF (toGive' \cup givenJobs') \cap JobsOf(j[1]) = {}
                 THEN finished \cup {j[1]} ELSE finished
  /\ UNCHANGED requiredJobIDs

----------------------------------------------------------------------------
(* The methods of Queue; each one runs under q.mutex.                      *)

Submit(s) ==
  /\ s \notin submitted
  /\ submitted' = submitted \cup {s}
  /\ toGive' = toGive \cup JobsOf(s)
  /\ activeGenerators' = Append(activeGenerators, s)
  /\ activeGeneratorIDs' = activeGeneratorIDs \cup {s}
  /\ UNCHANGED <<finished, givenJobs, requiredJobIDs, idNumber,
                 jobIDToOriginalJobID, originalJobIDToJob, newFailedJobs>>

\* JobCompleted and RescheduleJob find the job of an ID: through the renaming
\* map, or directly when the ID is the original one.
IsKnownID(id) ==
  \/ id \in jobIDToOriginalJobID
  \/ id[2] = 0 /\ id[1] \in originalJobIDToJob

\* The two "was not found in originalJobIDToGenerator" panics.
QueuePanicsOn(id) == id \in jobIDToOriginalJobID /\ id[1] \notin originalJobIDToJob

\* (Mistake: the generator does not come back to the list.)
JobCompletedForgetsGenerator(id) ==
  /\ IsKnownID(id)
  /\ jobIDToOriginalJobID' = jobIDToOriginalJobID \ {id}
  /\ originalJobIDToJob' = originalJobIDToJob \ {id[1]}
  /\ GeneratorJobCompleted(id[1])
  /\ UNCHANGED <<submitted, idNumber, newFailedJobs, activeGenerators, activeGeneratorIDs>>

JobCompleted(id) ==
  /\ IsKnownID(id)
  /\ jobIDToOriginalJobID' = jobIDToOriginalJobID \ {id}
  /\ originalJobIDToJob' = originalJobIDToJob \ {id[1]}
  /\ IF id[1][1] \in activeGeneratorIDs
     THEN UNCHANGED <<activeGenerators, activeGeneratorIDs>>
     ELSE /\ activeGenerators' = Append(activeGenerators, id[1][1])
          /\ activeGeneratorIDs' = activeGeneratorIDs \cup {id[1][1]}
  /\ GeneratorJobCompleted(id[1])
  /\ UNCHANGED <<submitted, idNumber, newFailedJobs>>

\* The object of the job is renamed in place and put at the end of
\* newFailedJobs.
RescheduleJob(id) ==
  LET j == id[1]
      newID == <<j, idNumber[j] + 1>>
  IN  /\ IsKnownID(id)
      /\ idNumber' = [idNumber EXCEPT ![j] = @ + 1]
      /\ jobIDToOriginalJobID' = (jobIDToOriginalJobID \ {id}) \cup {newID}
      /\ newFailedJobs' = Append(newFailedJobs, j)
      /\ UNCHANGED <<submitted, finished, toGive, givenJobs, requiredJobIDs,
                     activeGenerators, activeGeneratorIDs, originalJobIDToJob>>

\* (Mistake: the job stays in newFailedJobs.)
NextFailedJobStays(j) ==
  /\ newFailedJobs # <<>>
  /\ j = Head(newFailedJobs)
  /\ UNCHANGED queueVars

\* NextJob returns the object of job j that waits longest to be run again.
NextFailedJob(j) ==
  /\ newFailedJobs # <<>>
  /\ j = Head(newFailedJobs)
  /\ newFailedJobs' = Tail(newFailedJobs)
  /\ UNCHANGED <<submitted, finished, toGive, givenJobs, requiredJobIDs, idNumber,
                 activeGenerators, activeGeneratorIDs, jobIDToOriginalJobID,
                 originalJobIDToJob>>

\* (Mistake: NextJob does not record the job it gives.)
NextNewJobForgetsJob(j) ==
  /\ newFailedJobs = <<>>
  /\ \E k \in DOMAIN activeGenerators :
       /\ \A i \in 1..(k-1) : GeneratorIsEmpty(activeGenerators[i])
       /\ GeneratorGives(activeGenerators[k], j)
       /\ activeGenerators' =
            Append(SubSeq(activeGenerators, k+1, Len(activeGenerators)), activeGenerators[k])
       /\ activeGeneratorIDs' = activeGeneratorIDs \ {activeGenerators[i] : i \in 1..(k-1)}
  /\ UNCHANGED <<submitted, finished, idNumber, jobIDToOriginalJobID, originalJobIDToJob,
                 newFailedJobs>>

\* NextJob walks the list: generators that return nil leave it, the first one
\* that returns a job moves to the back.
NextNewJob(j) ==
  /\ newFailedJobs = <<>>
  /\ \E k \in DOMAIN activeGenerators :
       /\ \A i \in 1..(k-1) : GeneratorIsEmpty(activeGenerators[i])
       /\ GeneratorGives(activeGenerators[k], j)
       /\ activeGenerators' =
            Append(SubSeq(activeGenerators, k+1, Len(activeGenerators)), activeGenerators[k])
       /\ activeGeneratorIDs' = activeGeneratorIDs \ {activeGenerators[i] : i \in 1..(k-1)}
  /\ originalJobIDToJob' = originalJobIDToJob \cup {j}
  /\ UNCHANGED <<submitted, finished, idNumber, jobIDToOriginalJobID, newFailedJobs>>

\* NextJob returns nil: every generator of the list returned nil and left it.
NoNextJob ==
  /\ newFailedJobs = <<>>
  /\ \A i \in DOMAIN activeGenerators : GeneratorIsEmpty(activeGenerators[i])
  /\ activeGenerators' = <<>>
  /\ activeGeneratorIDs' = activeGeneratorIDs \ Elements(activeGenerators)
  /\ UNCHANGED <<submitted, finished, toGive, givenJobs, requiredJobIDs, idNumber,
                 jobIDToOriginalJobID, originalJobIDToJob, newFailedJobs>>

\* The call q.NextJob() returns j (a job object, or NoJob).
NextJob(j) ==
  \/ NextFailedJob(j)
  \/ NextNewJob(j)
  \/ j = NoJob /\ NoNextJob

----------------------------------------------------------------------------
QueueTypeOK ==
  /\ submitted \subseteq Submission
  /\ finished \subseteq Submission
  /\ toGive \subseteq Job
  /\ givenJobs \subseteq Job
  /\ requiredJobIDs \in [Job -> SUBSET JobID]
  /\ idNumber \in [Job -> Nat]
  /\ activeGenerators \in Seq(Submission)
  /\ activeGeneratorIDs \subseteq Submission
  /\ jobIDToOriginalJobID \subseteq JobID
  /\ originalJobIDToJob \subseteq Job
  /\ newFailedJobs \in Seq(Job)
=============================================================================
