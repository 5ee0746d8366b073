---------------------------- MODULE InvokerProofs ----------------------------
(* Proofs about an invoker, for any jobs, files, size of the cache and numbers of
   threads.

   Its threads: the runners outlive the pipelines (FailuresAreReal), and the process
   outlives the jobs it accepted and their results (ResultsAreSent).  The first is
   inductive with RunnersOutlive: once the runners are closed there is neither a
   pipeline nor a job that a sandbox thread could still take, because a closed executor
   refuses jobs.  The second needs besides that no accepted job gets lost on its way to
   a thread (AcceptedStay): it is queued for one, or beyond that.

   Its files: what a pipeline copies is on the disk (FilesAreThere) and of its epoch or a
   later one (FilesAreFresh), the locks are those of the jobs and of the calls that wait
   (LocksMatchJobs), and only locked files exceed the bound (OnlyLockedFilesExceed).
   They are inductive together, with the stages at which a job has its files locked
   (StageInv), and rest on what the loop of removeItemsIfNeeded leaves of any list of
   files (SweepIsSwept).  The loop and the sum of the sizes are recursive functions:
   what they compute is proved by a least counterexample.                        *)
EXTENDS InvokerJobs, FiniteSetTheorems, WellFoundedInduction, TLAPS

ThreadTypeOK ==
  /\ at \in [Job -> Stage]
  /\ handler \in [Job -> {"none", "locking", "done", "refused"}]
  /\ verdict \in [Job -> Verdict]
  /\ troubled \subseteq Job
  /\ stopped \subseteq TestJob
  /\ sent \subseteq Job
  /\ sandboxes \in Executor
  /\ runners \in Executor

RunnersOutlive ==
  runners.closed =>
    sandboxes.closed /\ sandboxes.values = <<>> /\ \A j \in Job : at[j] \notin InPipeline

IsQueued(executor, j) == \E i \in 1..Len(executor.values) : executor.values[i] = j

AcceptedStay ==
  \A j \in Job :
    /\ handler[j] = "done" => at[j] # "none"
    /\ at[j] = "queued" => IsQueued(sandboxes, j)

ThreadInv ==
  ThreadTypeOK /\ RunnersOutlive /\ AcceptedStay /\ FailuresAreReal /\ ResultsAreSent

----------------------------------------------------------------------------
(* Sequences of jobs.                                                       *)

LEMMA AppendIsTyped ==
  ASSUME NEW e \in Executor, NEW j \in Job
  PROVE  [e EXCEPT !.values = Append(@, j)] \in Executor
<1>1. e.values \in Seq(Job) BY DEF Executor
<1>2. Append(e.values, j) \in Seq(Job) BY <1>1
<1> QED BY <1>2 DEF Executor

LEMMA TailIsTyped ==
  ASSUME NEW e \in Executor, e.values # <<>>
  PROVE  [e EXCEPT !.values = Tail(@)] \in Executor
<1>1. e.values \in Seq(Job) BY DEF Executor
<1>2. Tail(e.values) \in Seq(Job) BY <1>1
<1> QED BY <1>2 DEF Executor

LEMMA AppendQueues ==
  ASSUME NEW e \in Executor, NEW j \in Job, NEW i \in Job, IsQueued(e, i) \/ i = j
  PROVE  IsQueued([e EXCEPT !.values = Append(@, j)], i)
<1> DEFINE values == Append(e.values, j)
<1>1. e.values \in Seq(Job) BY DEF Executor
<1>2. Len(values) = Len(e.values) + 1 /\ values[Len(e.values) + 1] = j BY <1>1
<1>3. ASSUME NEW n \in 1..Len(e.values) PROVE values[n] = e.values[n] BY <1>1
<1>4. Len(e.values) \in Nat BY <1>1
<1>5. \E n \in 1..Len(values) : values[n] = i BY <1>2, <1>3, <1>4 DEF IsQueued
<1> QED BY <1>5 DEF IsQueued, Executor

LEMMA TailKeepsQueued ==
  ASSUME NEW e \in Executor, e.values # <<>>, NEW i \in Job, i # Head(e.values), IsQueued(e, i)
  PROVE  IsQueued([e EXCEPT !.values = Tail(@)], i)
<1> DEFINE values == Tail(e.values)
<1>1. e.values \in Seq(Job) BY DEF Executor
<1>2. PICK n \in 1..Len(e.values) : e.values[n] = i BY DEF IsQueued
<1>3. n # 1 BY <1>1, <1>2
<1>4. n - 1 \in 1..Len(values) /\ values[n - 1] = i BY <1>1, <1>2, <1>3
<1>5. \E m \in 1..Len(values) : values[m] = i BY <1>4
<1> QED BY <1>5 DEF IsQueued, Executor

LEMMA CloseIsTyped ==
  ASSUME NEW e \in Executor
  PROVE  Close(e) \in Executor /\ Close(e).closed /\ Close(e).values = e.values
BY DEF Executor, Close

----------------------------------------------------------------------------
(* The initial state, and the steps by what they change.                    *)

LEMMA InitThreads == Init => ThreadInv
<1> SUFFICES ASSUME Init PROVE ThreadInv OBVIOUS
<1>1. NewExecutor \in Executor /\ ~NewExecutor.closed
  <2>1. <<>> \in Seq(Job) OBVIOUS
  <2> QED BY <2>1 DEF NewExecutor, Executor
<1>2. ThreadTypeOK BY <1>1 DEF Init, ThreadTypeOK, Stage, Verdict
<1>3. RunnersOutlive BY <1>1 DEF Init, RunnersOutlive
<1>4. FailuresAreReal BY DEF Init, FailuresAreReal
<1>5. ResultsAreSent BY DEF Init, ResultsAreSent
<1>6. AcceptedStay BY DEF Init, AcceptedStay
<1> QED BY <1>2, <1>3, <1>4, <1>5, <1>6 DEF ThreadInv

\* A pipeline on its way to another stage of a pipeline, or to its end, without
\* a failure.
LEMMA PipelineMoves ==
  ASSUME ThreadInv, up # "exited", NEW j \in Job,
         NEW from \in InPipeline, NEW to \in InPipeline \cup {"ended"}, NEW v \in Verdict,
         At(j, from, to), v # "CF" \/ v = verdict[j],
         verdict' = [verdict EXCEPT ![j] = v],
         sandboxes' = sandboxes, runners' \in Executor, runners'.closed = runners.closed,
         UNCHANGED <<up, handler, troubled, stopped, sent>>
  PROVE  ThreadInv'
<1>1. ThreadTypeOK' BY DEF ThreadInv, ThreadTypeOK, At, InPipeline, Stage
<1>2. ~runners.closed BY DEF ThreadInv, RunnersOutlive, At
<1>3. RunnersOutlive' BY <1>2 DEF RunnersOutlive
<1>4. FailuresAreReal' BY DEF ThreadInv, ThreadTypeOK, FailuresAreReal
<1>5. ResultsAreSent' BY DEF ResultsAreSent
<1>6. AcceptedStay' BY DEF ThreadInv, ThreadTypeOK, AcceptedStay, At, InPipeline, Stage
<1> QED BY <1>1, <1>3, <1>4, <1>5, <1>6 DEF ThreadInv

\* A pipeline that fails, and has a reason to.
LEMMA PipelineFails ==
  ASSUME ThreadInv, up # "exited", NEW j \in Job, NEW from \in Stage,
         Fails(j, from), ~runners'.closed,
         troubled \subseteq troubled', troubled' \subseteq Job,
         j \in troubled' \/ (~SimpleSandbox /\ j \in stopped),
         sandboxes' \in Executor, runners' \in Executor,
         \A i \in Job \ {j} : IsQueued(sandboxes, i) => IsQueued(sandboxes', i),
         UNCHANGED <<up, handler, stopped, sent>>
  PROVE  ThreadInv'
<1>1. ThreadTypeOK' BY DEF ThreadInv, ThreadTypeOK, Fails, At, Stage, Verdict
<1>2. RunnersOutlive' BY DEF RunnersOutlive
<1>3. FailuresAreReal' BY DEF ThreadInv, ThreadTypeOK, FailuresAreReal, Fails
<1>4. ResultsAreSent' BY DEF ResultsAreSent
<1>5. at' = [at EXCEPT ![j] = "finishing"] BY DEF Fails, At
<1>6. AcceptedStay' BY <1>5 DEF ThreadInv, ThreadTypeOK, AcceptedStay
<1> QED BY <1>1, <1>2, <1>3, <1>4, <1>6 DEF ThreadInv

\* A step that leaves the pipelines and the threads alone.
LEMMA ThreadsRest ==
  ASSUME ThreadInv, UNCHANGED <<at, handler, verdict, troubled, stopped, sent, sandboxes, runners, up>>
  PROVE  ThreadInv'
BY DEF ThreadInv, ThreadTypeOK, RunnersOutlive, AcceptedStay, IsQueued, FailuresAreReal, ResultsAreSent

----------------------------------------------------------------------------
(* The requests.                                                            *)

LEMMA ArriveKeeps ==
  ASSUME ThreadInv, up # "exited", NEW j \in Job, Arrive(j)
  PROVE  ThreadInv'
<1> USE DEF ThreadInv, Arrive, processVars, threadVars
<1>1. ThreadTypeOK' BY DEF ThreadTypeOK, Stage, Verdict
<1>2. RunnersOutlive' BY DEF ThreadTypeOK, RunnersOutlive, InPipeline
<1>3. FailuresAreReal' BY DEF ThreadTypeOK, FailuresAreReal
<1>4. ResultsAreSent' BY DEF ResultsAreSent
<1>5. AcceptedStay' BY DEF ThreadTypeOK, AcceptedStay, IsQueued
<1> QED BY <1>1, <1>2, <1>3, <1>4, <1>5

\* A closed executor refuses: nothing is added to the sandbox threads once the
\* runners are closed.
LEMMA AddJobKeeps ==
  ASSUME ThreadInv, up # "exited", NEW j \in Job, AddJob(j)
  PROVE  ThreadInv'
<1>0. UNCHANGED <<verdict, troubled, stopped, sent, runners, up>>
  BY DEF AddJob, processVars, endVars
<1>1. CASE sandboxes.closed
  <2>1. handler' = [handler EXCEPT ![j] = "refused"] /\ UNCHANGED <<at, sandboxes>>
    BY <1>1 DEF AddJob
  <2>2. ThreadTypeOK' BY <1>0, <2>1 DEF ThreadInv, ThreadTypeOK
  <2>3. RunnersOutlive' BY <1>0, <2>1 DEF ThreadInv, RunnersOutlive
  <2>4. FailuresAreReal' BY <1>0, <2>1 DEF ThreadInv, FailuresAreReal
  <2>5. ResultsAreSent' BY <1>0 DEF ResultsAreSent
  <2>6. AcceptedStay' BY <2>1 DEF ThreadInv, ThreadTypeOK, AcceptedStay, IsQueued
  <2> QED BY <2>2, <2>3, <2>4, <2>5, <2>6 DEF ThreadInv
<1>2. CASE ~sandboxes.closed
  <2>1. /\ At(j, "none", "queued") /\ sandboxes' = [sandboxes EXCEPT !.values = Append(@, j)]
        /\ handler' = [handler EXCEPT ![j] = "done"]
    BY <1>2 DEF AddJob
  <2>2. sandboxes' \in Executor BY <2>1, AppendIsTyped DEF ThreadInv, ThreadTypeOK
  <2>3. ThreadTypeOK' BY <1>0, <2>1, <2>2 DEF ThreadInv, ThreadTypeOK, At, Stage
  <2>4. RunnersOutlive' BY <1>0, <1>2 DEF ThreadInv, RunnersOutlive
  <2>5. FailuresAreReal' BY <1>0 DEF ThreadInv, FailuresAreReal
  <2>6. ResultsAreSent' BY <1>0 DEF ResultsAreSent
  <2>7. \A i \in Job : IsQueued(sandboxes, i) \/ i = j => IsQueued(sandboxes', i)
    BY <2>1, AppendQueues DEF ThreadInv, ThreadTypeOK
  <2>8. AcceptedStay' BY <2>1, <2>7 DEF ThreadInv, ThreadTypeOK, AcceptedStay, At
  <2> QED BY <2>3, <2>4, <2>5, <2>6, <2>8 DEF ThreadInv
<1> QED BY <1>1, <1>2

LEMMA StopJobKeeps ==
  ASSUME ThreadInv, up # "exited", NEW j \in Job, StopJob(j)
  PROVE  ThreadInv'
<1> USE DEF ThreadInv, StopJob, processVars, requestVars, pipelineVars, threadVars
<1>1. ThreadTypeOK' BY DEF ThreadTypeOK
<1>2. RunnersOutlive' BY DEF RunnersOutlive
<1>3. FailuresAreReal' BY DEF FailuresAreReal
<1>4. ResultsAreSent' BY DEF ResultsAreSent
<1>5. AcceptedStay' BY DEF AcceptedStay, IsQueued
<1> QED BY <1>1, <1>2, <1>3, <1>4, <1>5

----------------------------------------------------------------------------
(* The pipelines.                                                           *)

\* While there is a job to take or a pipeline, the runners are not closed.
LEMMA RunnersAreOpen ==
  ASSUME ThreadInv, NEW j \in Job, IsNext(sandboxes, j) \/ at[j] \in InPipeline
  PROVE  ~runners.closed
BY DEF ThreadInv, RunnersOutlive, IsNext

LEMMA TakeJobKeeps ==
  ASSUME ThreadInv, up # "exited", NEW j \in Job, TakeJob(j)
  PROVE  ThreadInv'
<1>1. UNCHANGED <<handler, stopped, sent, runners, up>> /\ IsNext(sandboxes, j)
  BY DEF TakeJob, processVars, requestVars, endVars
<1>2. ~runners.closed BY <1>1, RunnersAreOpen
<1>3. sandboxes' \in Executor
  <2>1. sandboxes.values # <<>> BY <1>1 DEF IsNext
  <2>2. sandboxes' = [sandboxes EXCEPT !.values = Tail(@)] BY DEF TakeJob
  <2> QED BY <2>1, <2>2, TailIsTyped DEF ThreadInv, ThreadTypeOK
<1>6. ASSUME NEW i \in Job \ {j}, IsQueued(sandboxes, i)
      PROVE  IsQueued(sandboxes', i)
  <2>1. sandboxes.values # <<>> /\ i # Head(sandboxes.values) BY <1>1 DEF IsNext
  <2>2. sandboxes' = [sandboxes EXCEPT !.values = Tail(@)] BY DEF TakeJob
  <2> QED BY <1>6, <2>1, <2>2, TailKeepsQueued DEF ThreadInv, ThreadTypeOK
<1>4. CASE At(j, "queued", "loading") /\ UNCHANGED <<verdict, troubled, faults>>
  <2>1. ThreadTypeOK' BY <1>1, <1>3, <1>4 DEF ThreadInv, ThreadTypeOK, At, Stage
  <2>2. RunnersOutlive' BY <1>1, <1>2 DEF RunnersOutlive
  <2>3. FailuresAreReal' BY <1>1, <1>4 DEF ThreadInv, FailuresAreReal
  <2>4. ResultsAreSent' BY <1>1 DEF ResultsAreSent
  <2>5. AcceptedStay' BY <1>1, <1>4, <1>6 DEF ThreadInv, ThreadTypeOK, AcceptedStay, At
  <2> QED BY <2>1, <2>2, <2>3, <2>4, <2>5 DEF ThreadInv
<1>5. CASE FailsInTrouble(j, "queued")
  <2>1. Fails(j, "queued") /\ troubled' = troubled \cup {j} BY <1>5 DEF FailsInTrouble
  <2>2. runners' \in Executor BY <1>1 DEF ThreadInv, ThreadTypeOK
  <2>3. troubled' \subseteq Job BY <2>1 DEF ThreadInv, ThreadTypeOK
  <2>4. "queued" \in Stage BY DEF Stage
  <2> QED BY <1>1, <1>2, <1>3, <1>6, <2>1, <2>2, <2>3, <2>4, PipelineFails
<1> QED BY <1>4, <1>5 DEF TakeJob

\* The failure of a pipeline that had trouble.
LEMMA TroubleKeeps ==
  ASSUME ThreadInv, up # "exited", NEW j \in Job, NEW from \in InPipeline,
         FailsInTrouble(j, from),
         UNCHANGED <<up, handler, stopped, sent, sandboxes, runners>>
  PROVE  ThreadInv'
<1>1. Fails(j, from) /\ troubled' = troubled \cup {j} BY DEF FailsInTrouble
<1>2. at[j] = from BY <1>1 DEF Fails, At
<1>3. ~runners.closed BY <1>2, RunnersAreOpen
<1>4. sandboxes' \in Executor /\ runners' \in Executor /\ troubled' \subseteq Job
  BY <1>1 DEF ThreadInv, ThreadTypeOK
<1>5. from \in Stage BY DEF InPipeline
<1> QED BY <1>1, <1>3, <1>4, <1>5, PipelineFails

\* A step within a pipeline that gives no verdict.
LEMMA StageKeeps ==
  ASSUME ThreadInv, up # "exited", NEW j \in Job,
         NEW from \in InPipeline, NEW to \in InPipeline \cup {"ended"}, At(j, from, to),
         runners' \in Executor, runners'.closed = runners.closed,
         UNCHANGED <<up, handler, verdict, troubled, stopped, sent, sandboxes>>
  PROVE  ThreadInv'
<1>1. verdict[j] \in Verdict /\ verdict' = [verdict EXCEPT ![j] = verdict[j]]
  BY DEF ThreadInv, ThreadTypeOK
<1> QED BY <1>1, PipelineMoves

LEMMA GotKeeps ==
  ASSUME ThreadInv, up # "exited", NEW j \in Job, NEW from \in InPipeline, Got(j, from),
         UNCHANGED <<up, handler, stopped, sent, sandboxes, runners>>
  PROVE  ThreadInv'
<1>1. CASE At(j, from, "copying") /\ UNCHANGED <<verdict, troubled>>
  <2>1. "copying" \in InPipeline BY DEF InPipeline, Stage
  <2>2. runners' \in Executor BY DEF ThreadInv, ThreadTypeOK
  <2> QED BY <1>1, <2>1, <2>2, StageKeeps
<1>2. CASE FailsInTrouble(j, from) BY <1>2, TroubleKeeps
<1> QED BY <1>1, <1>2 DEF Got

LEMMA GetFileKeeps ==
  ASSUME ThreadInv, up # "exited", NEW j \in Job, GetFile(j) \/ GetAwaitedFile(j)
  PROVE  ThreadInv'
<1>1. UNCHANGED <<up, handler, stopped, sent, sandboxes, runners>>
  BY DEF GetFile, GetAwaitedFile, processVars, requestVars, threadVars, endVars
<1>2. "loading" \in InPipeline /\ "waiting" \in InPipeline
  BY DEF InPipeline, Stage
<1>3. CASE Got(j, "loading") BY <1>1, <1>2, <1>3, GotKeeps
<1>4. CASE Got(j, "waiting") BY <1>1, <1>2, <1>4, GotKeeps
<1>5. CASE At(j, "loading", "waiting") /\ UNCHANGED <<verdict, troubled>>
  <2>1. runners' \in Executor BY <1>1 DEF ThreadInv, ThreadTypeOK
  <2> QED BY <1>1, <1>2, <1>5, <2>1, StageKeeps
<1> QED BY <1>3, <1>4, <1>5 DEF GetFile, GetAwaitedFile

LEMMA CopyFileKeeps ==
  ASSUME ThreadInv, up # "exited", NEW j \in Job, CopyFile(j)
  PROVE  ThreadInv'
<1>1. UNCHANGED <<up, handler, verdict, troubled, stopped, sent, sandboxes, runners>>
  BY DEF CopyFile, processVars, requestVars, threadVars, endVars
<1>2. PICK to \in {"ready", "loading"} : At(j, "copying", to) BY DEF CopyFile
<1>3. "copying" \in InPipeline /\ to \in InPipeline BY DEF InPipeline, Stage
<1>4. runners' \in Executor BY <1>1 DEF ThreadInv, ThreadTypeOK
<1> QED BY <1>1, <1>2, <1>3, <1>4, StageKeeps

\* The runners do not refuse a process.
LEMMA ExecuteCommandKeeps ==
  ASSUME ThreadInv, up # "exited", NEW j \in Job, ExecuteCommand(j)
  PROVE  ThreadInv'
<1>1. UNCHANGED <<up, handler, troubled, stopped, sent, sandboxes>>
  BY DEF ExecuteCommand, processVars, requestVars, endVars
<1>2. at[j] = "ready" BY DEF ExecuteCommand, Fails, At
<1>3. "ready" \in InPipeline /\ "execution" \in InPipeline BY DEF InPipeline, Stage
<1>4. ~runners.closed BY <1>2, <1>3, RunnersAreOpen
<1>5. /\ At(j, "ready", "execution")
      /\ runners' = [runners EXCEPT !.values = Append(@, j)]
      /\ UNCHANGED verdict
  BY <1>4 DEF ExecuteCommand
<1>6. runners' \in Executor BY <1>5, AppendIsTyped DEF ThreadInv, ThreadTypeOK
<1>7. runners'.closed = runners.closed BY <1>5 DEF ThreadInv, ThreadTypeOK, Executor
<1> QED BY <1>1, <1>3, <1>5, <1>6, <1>7, StageKeeps

\* With isolate a run of a stopped job fails.
LEMMA RunProcessKeeps ==
  ASSUME ThreadInv, up # "exited", NEW j \in Job, RunProcess(j)
  PROVE  ThreadInv'
<1>1. UNCHANGED <<up, handler, troubled, stopped, sent, sandboxes>>
  BY DEF RunProcess, processVars, requestVars, endVars
<1>2. at[j] = "execution" BY DEF RunProcess, Fails, At
<1>3. "execution" \in InPipeline /\ "execution" \in Stage /\ "running" \in InPipeline
  BY DEF InPipeline, Stage
<1>4. runners.values # <<>> /\ runners' = [runners EXCEPT !.values = Tail(@)]
  BY DEF RunProcess, IsNext
<1>5. runners' \in Executor BY <1>4, TailIsTyped DEF ThreadInv, ThreadTypeOK
<1>6. runners'.closed = runners.closed BY <1>4 DEF ThreadInv, ThreadTypeOK, Executor
<1>7. ~runners.closed BY <1>2, <1>3, RunnersAreOpen
<1>8. CASE ~SimpleSandbox /\ j \in stopped
  <2>1. Fails(j, "execution") BY <1>8 DEF RunProcess
  <2>2. sandboxes' \in Executor /\ troubled' \subseteq Job
    BY <1>1 DEF ThreadInv, ThreadTypeOK
  <2> QED BY <1>1, <1>3, <1>5, <1>6, <1>7, <1>8, <2>1, <2>2, PipelineFails
<1>9. CASE ~(~SimpleSandbox /\ j \in stopped)
  <2>1. At(j, "execution", "running") /\ UNCHANGED verdict BY <1>9 DEF RunProcess
  <2> QED BY <1>1, <1>3, <1>5, <1>6, <2>1, StageKeeps
<1> QED BY <1>8, <1>9

LEMMA ProcessEndsKeeps ==
  ASSUME ThreadInv, up # "exited", NEW j \in Job, ProcessEnds(j) \/ ProcessIsStopped(j)
  PROVE  ThreadInv'
<1>1. UNCHANGED <<up, handler, stopped, sent, sandboxes, runners>>
  BY DEF ProcessEnds, ProcessIsStopped, processVars, requestVars, threadVars, endVars
<1>2. PICK to \in {"loading", "finishing", "uploading"}, v \in {"none", "run", "SK"} :
        Ends(j, to, v)
  BY DEF ProcessEnds, ProcessIsStopped
<1>3. "running" \in InPipeline /\ to \in InPipeline /\ v \in Verdict /\ v # "CF"
  BY DEF InPipeline, Stage, Verdict
<1>4. At(j, "running", to) /\ verdict' = [verdict EXCEPT ![j] = v] /\ UNCHANGED troubled
  BY <1>2 DEF Ends
<1>5. runners' \in Executor BY <1>1 DEF ThreadInv, ThreadTypeOK
<1> QED BY <1>1, <1>3, <1>4, <1>5, PipelineMoves

LEMMA ProcessFailsKeeps ==
  ASSUME ThreadInv, up # "exited", NEW j \in Job, ProcessFails(j)
  PROVE  ThreadInv'
<1>1. UNCHANGED <<up, handler, stopped, sent, sandboxes, runners>> /\ FailsInTrouble(j, "running")
  BY DEF ProcessFails, processVars, requestVars, threadVars, endVars
<1>2. "running" \in InPipeline BY DEF InPipeline, Stage
<1> QED BY <1>1, <1>2, TroubleKeeps

LEMMA UploadKeeps ==
  ASSUME ThreadInv, up # "exited", NEW j \in Job, Upload(j)
  PROVE  ThreadInv'
<1>1. UNCHANGED <<up, handler, stopped, sent, sandboxes, runners>>
  BY DEF Upload, processVars, requestVars, threadVars, endVars
<1>2. "uploading" \in InPipeline /\ "finishing" \in InPipeline BY DEF InPipeline, Stage
<1>3. CASE FailsInTrouble(j, "uploading") BY <1>1, <1>2, <1>3, TroubleKeeps
<1>4. CASE At(j, "uploading", "finishing") /\ UNCHANGED <<verdict, troubled>>
  <2>1. runners' \in Executor BY <1>1 DEF ThreadInv, ThreadTypeOK
  <2> QED BY <1>1, <1>2, <1>4, <2>1, StageKeeps
<1> QED BY <1>3, <1>4 DEF Upload

LEMMA FinishKeeps ==
  ASSUME ThreadInv, up # "exited", NEW j \in Job, Finish(j)
  PROVE  ThreadInv'
<1>1. /\ UNCHANGED <<up, handler, verdict, troubled, stopped, sent, sandboxes, runners>>
      /\ At(j, "finishing", "ended")
  BY DEF Finish, processVars, requestVars, threadVars, endVars
<1>2. "finishing" \in InPipeline BY DEF InPipeline, Stage
<1>3. runners' \in Executor BY <1>1 DEF ThreadInv, ThreadTypeOK
<1> QED BY <1>1, <1>2, <1>3, StageKeeps

LEMMA SendResultKeeps ==
  ASSUME ThreadInv, up # "exited", NEW j \in Job, SendResult(j)
  PROVE  ThreadInv'
<1> USE DEF ThreadInv, SendResult, processVars, requestVars, pipelineVars, threadVars
<1>1. ThreadTypeOK' BY DEF ThreadTypeOK
<1>2. RunnersOutlive' BY DEF RunnersOutlive
<1>3. FailuresAreReal' BY DEF FailuresAreReal
<1>4. ResultsAreSent' BY DEF ResultsAreSent
<1>5. AcceptedStay' BY DEF AcceptedStay, IsQueued
<1> QED BY <1>1, <1>2, <1>3, <1>4, <1>5

----------------------------------------------------------------------------
(* The end of the process.                                                  *)

LEMMA StopKeeps ==
  ASSUME ThreadInv, Stop
  PROVE  ThreadInv'
<1> USE DEF ThreadInv, Stop, UpTo, requestVars, pipelineVars, threadVars, endVars
<1>1. ThreadTypeOK' BY DEF ThreadTypeOK
<1>2. RunnersOutlive' BY DEF RunnersOutlive
<1>3. FailuresAreReal' BY DEF FailuresAreReal
<1>4. ResultsAreSent' BY DEF ResultsAreSent
<1>5. AcceptedStay' BY DEF AcceptedStay, IsQueued
<1> QED BY <1>1, <1>2, <1>3, <1>4, <1>5

LEMMA StopSandboxThreadsKeeps ==
  ASSUME ThreadInv, StopSandboxThreads
  PROVE  ThreadInv'
<1>1. /\ up = "closing" /\ sandboxes' = Close(sandboxes)
      /\ UNCHANGED <<up, handler, at, verdict, troubled, stopped, sent, runners>>
  BY DEF StopSandboxThreads, processVars, requestVars, pipelineVars, endVars
<1>2. sandboxes' \in Executor /\ sandboxes'.closed /\ sandboxes'.values = sandboxes.values
  BY <1>1, CloseIsTyped DEF ThreadInv, ThreadTypeOK
<1>3. ThreadTypeOK' BY <1>1, <1>2 DEF ThreadInv, ThreadTypeOK
<1>4. RunnersOutlive' BY <1>1, <1>2 DEF ThreadInv, RunnersOutlive
<1>5. FailuresAreReal' BY <1>1 DEF ThreadInv, FailuresAreReal
<1>6. ResultsAreSent' BY <1>1 DEF ResultsAreSent
<1>7. AcceptedStay' BY <1>1, <1>2 DEF ThreadInv, AcceptedStay, IsQueued
<1> QED BY <1>3, <1>4, <1>5, <1>6, <1>7 DEF ThreadInv

\* The runners are closed after the last sandbox thread.
LEMMA StopRunnerThreadsKeeps ==
  ASSUME ThreadInv, up # "exited", StopRunnerThreads
  PROVE  ThreadInv'
<1>1. /\ AllEnded(sandboxes, AtWork(InPipeline)) /\ runners' = Close(runners)
      /\ UNCHANGED <<up, handler, at, verdict, troubled, stopped, sent, sandboxes>>
  BY DEF StopRunnerThreads, processVars, requestVars, pipelineVars, endVars
<1>2. runners' \in Executor BY <1>1, CloseIsTyped DEF ThreadInv, ThreadTypeOK
<1>3. ThreadTypeOK' BY <1>1, <1>2 DEF ThreadInv, ThreadTypeOK
<1>4. RunnersOutlive' BY <1>1 DEF RunnersOutlive, AllEnded, AtWork
<1>5. FailuresAreReal' BY <1>1 DEF ThreadInv, FailuresAreReal
<1>6. ResultsAreSent' BY <1>1 DEF ResultsAreSent
<1>7. AcceptedStay' BY <1>1 DEF ThreadInv, AcceptedStay, IsQueued
<1> QED BY <1>3, <1>4, <1>5, <1>6, <1>7 DEF ThreadInv

LEMMA ExitKeeps ==
  ASSUME ThreadInv, Exit
  PROVE  ThreadInv'
<1>1. /\ UNCHANGED <<handler, at, verdict, troubled, stopped, sent, sandboxes, runners>>
      /\ runners.closed /\ Awaited \subseteq sent
  BY DEF Exit, AllEnded, requestVars, pipelineVars, threadVars, endVars
<1>2. ThreadTypeOK' BY <1>1 DEF ThreadInv, ThreadTypeOK
<1>3. RunnersOutlive' BY <1>1 DEF ThreadInv, RunnersOutlive
<1>4. FailuresAreReal' BY <1>1 DEF ThreadInv, FailuresAreReal
<1>5. AcceptedStay' BY <1>1 DEF ThreadInv, AcceptedStay, IsQueued
<1>6. sandboxes.values = <<>> /\ \A j \in Job : at[j] \notin InPipeline
  BY <1>1 DEF ThreadInv, RunnersOutlive
<1>7. ASSUME NEW j \in Job, handler[j] = "done" PROVE at[j] = "ended"
  <2>1. ~IsQueued(sandboxes, j) BY <1>6 DEF IsQueued
  <2>2. at[j] \notin {"none", "queued"} BY <1>7, <2>1 DEF ThreadInv, AcceptedStay
  <2>3. at[j] \in Stage BY DEF ThreadInv, ThreadTypeOK
  <2> QED BY <1>6, <2>2, <2>3 DEF InPipeline
<1>8. ASSUME NEW j \in Job, at[j] = "ended" PROVE verdict[j] = "CF" \/ j \in sent
  BY <1>1, <1>8 DEF Awaited
<1>9. ResultsAreSent' BY <1>1, <1>7, <1>8 DEF ResultsAreSent
<1> QED BY <1>2, <1>3, <1>4, <1>5, <1>9 DEF ThreadInv

----------------------------------------------------------------------------
LEMMA PipelineKeeps ==
  ASSUME ThreadInv, up # "exited", NEW j \in Job, Pipeline(j)
  PROVE  ThreadInv'
<1>1. CASE TakeJob(j) BY <1>1, TakeJobKeeps
<1>2. CASE GetFile(j) \/ GetAwaitedFile(j) BY <1>2, GetFileKeeps
<1>3. CASE CopyFile(j) BY <1>3, CopyFileKeeps
<1>4. CASE ExecuteCommand(j) BY <1>4, ExecuteCommandKeeps
<1>5. CASE RunProcess(j) BY <1>5, RunProcessKeeps
<1>6. CASE ProcessEnds(j) \/ ProcessIsStopped(j) BY <1>6, ProcessEndsKeeps
<1>7. CASE ProcessFails(j) BY <1>7, ProcessFailsKeeps
<1>8. CASE Upload(j) BY <1>8, UploadKeeps
<1>9. CASE UnlockFile(j)
  BY <1>9, ThreadsRest DEF UnlockFile, processVars, requestVars, pipelineVars, threadVars, endVars
<1>10. CASE Finish(j) BY <1>10, FinishKeeps
<1> QED BY <1>1, <1>2, <1>3, <1>4, <1>5, <1>6, <1>7, <1>8, <1>9, <1>10 DEF Pipeline

LEMMA StepKeepsThreads == ThreadInv /\ [Next]_vars => ThreadInv'
<1> SUFFICES ASSUME ThreadInv, [Next]_vars PROVE ThreadInv' OBVIOUS
<1>1. CASE UNCHANGED vars
  BY <1>1, ThreadsRest DEF vars, processVars, requestVars, pipelineVars, threadVars, endVars
<1>2. CASE Next
  <2>0. up # "exited" BY <1>2 DEF Next
  <2>1. ASSUME NEW j \in Job,
               Arrive(j) \/ Handling(j) \/ StopJob(j) \/ Pipeline(j) \/ SendResult(j)
        PROVE  ThreadInv'
    <3>1. CASE Arrive(j) BY <2>0, <3>1, ArriveKeeps
    <3>2. CASE LockFile(j)
      BY <3>2, ThreadsRest DEF LockFile, processVars, requestVars, pipelineVars, threadVars, endVars
    <3>3. CASE AddJob(j) BY <2>0, <3>3, AddJobKeeps
    <3>4. CASE StopJob(j) BY <2>0, <3>4, StopJobKeeps
    <3>5. CASE Pipeline(j) BY <2>0, <3>5, PipelineKeeps
    <3>6. CASE SendResult(j) BY <2>0, <3>6, SendResultKeeps
    <3> QED BY <2>1, <3>1, <3>2, <3>3, <3>4, <3>5, <3>6 DEF Handling
  <2>2. ASSUME NEW k \in (0..MaxResets) \X File, FileIsLoaded(k)
        PROVE  ThreadInv'
    BY <2>2, ThreadsRest DEF FileIsLoaded, processVars, requestVars, pipelineVars, threadVars, endVars
  <2>3. CASE ResetCache
    BY <2>3, ThreadsRest DEF ResetCache, requestVars, pipelineVars, threadVars, endVars
  <2>4. CASE Stop BY <2>4, StopKeeps
  <2>5. CASE Closing
    BY <2>0, <2>5, StopSandboxThreadsKeeps, StopRunnerThreadsKeeps, ExitKeeps DEF Closing
  <2> QED BY <1>2, <2>1, <2>2, <2>3, <2>4, <2>5 DEF Next
<1> QED BY <1>1, <1>2

\* A verdict CF has a cause of its own: in no order in which the executors are stopped
\* do the runners refuse a process of a pipeline.
THEOREM FailuresHaveCauses == Spec => []FailuresAreReal
<1>1. ThreadInv => FailuresAreReal BY DEF ThreadInv
<1> QED BY InitThreads, StepKeepsThreads, <1>1, PTL DEF Spec

\* The process waits for the jobs that it accepted, and for the results of all that did
\* not fail.
THEOREM ResultsAreAwaited == Spec => []ResultsAreSent
<1>1. ThreadInv => ResultsAreSent BY DEF ThreadInv
<1> QED BY InitThreads, StepKeepsThreads, <1>1, PTL DEF Spec

----------------------------------------------------------------------------
(* Least elements, which stand for induction.                               *)

LEMMA LessIsWellFounded == IsWellFoundedOn({p \in Nat \X Nat : p[1] < p[2]}, Nat)
<1>1. {p \in Nat \X Nat : p[1] < p[2]} = OpToRel(<, Nat) BY Zenon DEF OpToRel
<1> QED BY <1>1, NatLessThanWellFounded, Zenon

LEMMA LeastNumber ==
  ASSUME NEW S, S \subseteq Nat, S # {}
  PROVE  \E x \in S : \A y \in S : x <= y
<1>1. PICK x \in S : \A y \in S : ~ (<<y, x>> \in {p \in Nat \X Nat : p[1] < p[2]})
  BY LessIsWellFounded, WFMin
<1>2. ASSUME NEW y \in S PROVE x <= y
  <2>1. x \in Nat /\ y \in Nat /\ <<y, x>> \in Nat \X Nat OBVIOUS
  <2>2. ~ (y < x) BY <1>1, <2>1
  <2> QED BY <2>1, <2>2
<1> QED BY <1>2

LEMMA LeastSet ==
  ASSUME NEW D, IsFiniteSet(D), NEW B, B \subseteq SUBSET D, B # {}
  PROVE  \E S \in B : IsFiniteSet(S) /\ \A x \in S : S \ {x} \notin B
<1> DEFINE sizes == {Cardinality(S) : S \in B}
<1>1. \A S \in B : IsFiniteSet(S) /\ Cardinality(S) \in Nat BY FS_Subset, FS_CardinalityType
<1>2. sizes \subseteq Nat /\ sizes # {} BY <1>1
<1>3. PICK S \in B : \A n \in sizes : Cardinality(S) <= n
  <2> HIDE DEF sizes
  <2>1. PICK s \in sizes : \A n \in sizes : s <= n BY <1>2, LeastNumber
  <2>2. PICK S \in B : s = Cardinality(S) BY <2>1 DEF sizes
  <2> QED BY <2>1, <2>2
<1>4. ASSUME NEW x \in S, S \ {x} \in B PROVE FALSE
  <2>1. Cardinality(S) <= Cardinality(S \ {x}) BY <1>3, <1>4
  <2>2. Cardinality(S \ {x}) = Cardinality(S) - 1 BY <1>1, FS_RemoveElement
  <2> QED BY <1>1, <2>1, <2>2
<1> QED BY <1>1, <1>4

----------------------------------------------------------------------------
(* The sum of the sizes of files.                                           *)

SizeSum(h, S) == MapThenSumSet(LAMBDA k : h[k].size, S)

Chosen(S) == CHOOSE x \in S : TRUE

\* What adds up the sizes of every set in D.
IsSummation(h, D, sum) ==
  sum = [S \in D |-> IF S = {} THEN 0 ELSE h[Chosen(S)].size + sum[S \ {Chosen(S)}]]

LEMMA SumIsChosen ==
  ASSUME NEW h, NEW S
  PROVE  SizeSum(h, S) = (CHOOSE sum : IsSummation(h, SUBSET S, sum))[S]
BY DEF SizeSum, MapThenSumSet, MapThenFoldSet, IsSummation, Chosen

LEMMA ChosenIsIn == ASSUME NEW S, S # {} PROVE Chosen(S) \in S
BY DEF Chosen

LEMMA SummationExists ==
  ASSUME NEW h, NEW D, IsFiniteSet(D)
  PROVE  \E sum : IsSummation(h, SUBSET D, sum)
<1> DEFINE Small(n) == {S \in SUBSET D : Cardinality(S) <= n}
           Bad == {n \in Nat : ~ \E sum : IsSummation(h, Small(n), sum)}
<1>0. \A S \in SUBSET D : IsFiniteSet(S) /\ Cardinality(S) \in Nat
  BY FS_Subset, FS_CardinalityType
<1>1. 0 \notin Bad
  <2> DEFINE sum == [S \in Small(0) |-> 0]
  <2>1. \A S \in Small(0) : S = {}
    <3> SUFFICES ASSUME NEW S \in SUBSET D, Cardinality(S) <= 0 PROVE S = {} OBVIOUS
    <3>1. Cardinality(S) = 0 BY <1>0
    <3> QED BY <1>0, <3>1, FS_EmptySet
  <2>2. sum = [S \in Small(0) |-> IF S = {} THEN 0 ELSE h[Chosen(S)].size + sum[S \ {Chosen(S)}]]
    BY <2>1
  <2> QED BY <2>2 DEF IsSummation
<1>2. ASSUME NEW n \in Nat, n \notin Bad PROVE n + 1 \notin Bad
  <2>1. PICK sum : IsSummation(h, Small(n), sum) BY <1>2
  <2> DEFINE f == [S \in Small(n + 1) |->
                     IF S = {} THEN 0 ELSE h[Chosen(S)].size + sum[S \ {Chosen(S)}]]
  <2>2. ASSUME NEW S \in Small(n + 1), S # {}
        PROVE  f[S] = h[Chosen(S)].size + f[S \ {Chosen(S)}]
    <3> DEFINE T == S \ {Chosen(S)}
    <3>1. Chosen(S) \in S BY <2>2, ChosenIsIn
    <3>2. Cardinality(T) = Cardinality(S) - 1 BY <1>0, <3>1, FS_RemoveElement
    <3>3. T \in Small(n) /\ T \in Small(n + 1) BY <1>0, <3>2
    <3>4. sum[T] = IF T = {} THEN 0 ELSE h[Chosen(T)].size + sum[T \ {Chosen(T)}]
      BY <2>1, <3>3 DEF IsSummation
    <3>5. f[T] = sum[T] BY <3>3, <3>4
    <3> QED BY <2>2, <3>5
  <2>3. f = [S \in Small(n + 1) |-> IF S = {} THEN 0 ELSE h[Chosen(S)].size + f[S \ {Chosen(S)}]]
    <3>1. \A S \in Small(n + 1) :
            f[S] = IF S = {} THEN 0 ELSE h[Chosen(S)].size + f[S \ {Chosen(S)}]
      BY <2>2
    <3> HIDE DEF Small
    <3>2. f = [S \in Small(n + 1) |-> f[S]] OBVIOUS
    <3> QED BY <3>1, <3>2
  <2> QED BY <2>3 DEF IsSummation
<1>3. Bad = {}
  <2> SUFFICES ASSUME Bad # {} PROVE FALSE OBVIOUS
  <2>1. PICK n \in Bad : \A m \in Bad : n <= m BY LeastNumber
  <2>2. n \in Nat BY <2>1
  <2> HIDE DEF Bad, Small
  <2>3. n # 0 BY <1>1
  <2>4. n - 1 \in Nat /\ n - 1 \notin Bad BY <2>1, <2>2, <2>3
  <2> QED BY <1>2, <2>2, <2>4
<1>4. Small(Cardinality(D)) = SUBSET D BY FS_Subset, <1>0
<1>5. \E sum : IsSummation(h, Small(Cardinality(D)), sum) BY <1>0, <1>3
<1> QED BY <1>4, <1>5

LEMMA SummationsAgree ==
  ASSUME NEW h, NEW D, IsFiniteSet(D), NEW E \in SUBSET D, NEW sum, NEW part,
         IsSummation(h, SUBSET D, sum), IsSummation(h, SUBSET E, part)
  PROVE  sum[E] = part[E]
<1> DEFINE Bad == {S \in SUBSET E : sum[S] # part[S]}
<1> SUFFICES ASSUME Bad # {} PROVE FALSE OBVIOUS
<1>1. PICK S \in Bad : \A x \in S : S \ {x} \notin Bad
  <2>1. IsFiniteSet(E) BY FS_Subset
  <2> QED BY <2>1, LeastSet
<1>2. /\ sum[S] = IF S = {} THEN 0 ELSE h[Chosen(S)].size + sum[S \ {Chosen(S)}]
      /\ part[S] = IF S = {} THEN 0 ELSE h[Chosen(S)].size + part[S \ {Chosen(S)}]
  BY DEF IsSummation
<1>3. S # {} BY <1>2
<1>4. sum[S \ {Chosen(S)}] = part[S \ {Chosen(S)}] BY <1>1, <1>3, ChosenIsIn
<1> QED BY <1>2, <1>4

LEMMA SumIsSummation ==
  ASSUME NEW h, NEW D, IsFiniteSet(D)
  PROVE  \E sum : IsSummation(h, SUBSET D, sum) /\ SizeSum(h, D) = sum[D]
<1> DEFINE sum == CHOOSE s : IsSummation(h, SUBSET D, s)
<1>1. IsSummation(h, SUBSET D, sum)
  <2>1. \E s : IsSummation(h, SUBSET D, s) BY SummationExists
  <2> QED BY <2>1
<1> QED BY <1>1, SumIsChosen

LEMMA SumOfNone == ASSUME NEW h PROVE SizeSum(h, {}) = 0
<1>1. PICK sum : IsSummation(h, SUBSET {}, sum) /\ SizeSum(h, {}) = sum[{}]
  BY SumIsSummation, FS_EmptySet
<1> QED BY <1>1 DEF IsSummation

LEMMA SumOfSome ==
  ASSUME NEW h, NEW D, IsFiniteSet(D), D # {}
  PROVE  SizeSum(h, D) = h[Chosen(D)].size + SizeSum(h, D \ {Chosen(D)})
<1>1. PICK sum : IsSummation(h, SUBSET D, sum) /\ SizeSum(h, D) = sum[D] BY SumIsSummation
<1>2. PICK E \in SUBSET D : E = D \ {Chosen(D)} OBVIOUS
<1>3. IsFiniteSet(E) BY FS_Subset
<1>4. PICK part : IsSummation(h, SUBSET E, part) /\ SizeSum(h, E) = part[E]
  BY <1>3, SumIsSummation
<1>5. sum[E] = part[E] BY <1>1, <1>4, SummationsAgree
<1>6. sum[D] = h[Chosen(D)].size + sum[E] BY <1>1, <1>2 DEF IsSummation
<1> QED BY <1>1, <1>2, <1>4, <1>5, <1>6

LEMMA SumIsNatural ==
  ASSUME NEW h, NEW D, IsFiniteSet(D), \A x \in D : h[x].size \in Nat
  PROVE  SizeSum(h, D) \in Nat
<1> DEFINE Bad == {S \in SUBSET D : SizeSum(h, S) \notin Nat}
<1> SUFFICES ASSUME Bad # {} PROVE FALSE OBVIOUS
<1>1. PICK S \in Bad : IsFiniteSet(S) /\ \A x \in S : S \ {x} \notin Bad BY LeastSet
<1>2. S # {}
  <2>1. SizeSum(h, {}) \in Nat BY SumOfNone
  <2> QED BY <2>1, Zenon
<1>3. SizeSum(h, S \ {Chosen(S)}) \in Nat BY <1>1, <1>2, ChosenIsIn
<1>4. SizeSum(h, S) = h[Chosen(S)].size + SizeSum(h, S \ {Chosen(S)})
  BY <1>1, <1>2, SumOfSome
<1>5. h[Chosen(S)].size \in Nat BY <1>2, ChosenIsIn
<1> QED BY <1>3, <1>4, <1>5

LEMMA SumAlike ==
  ASSUME NEW h, NEW g, NEW D, IsFiniteSet(D), \A x \in D : h[x].size = g[x].size
  PROVE  SizeSum(h, D) = SizeSum(g, D)
<1> DEFINE Bad == {S \in SUBSET D : SizeSum(h, S) # SizeSum(g, S)}
<1> SUFFICES ASSUME Bad # {} PROVE FALSE OBVIOUS
<1>1. PICK S \in Bad : IsFiniteSet(S) /\ \A x \in S : S \ {x} \notin Bad BY LeastSet
<1>2. S # {} BY <1>1, SumOfNone
<1>3. SizeSum(h, S \ {Chosen(S)}) = SizeSum(g, S \ {Chosen(S)}) BY <1>1, <1>2, ChosenIsIn
<1>4. /\ SizeSum(h, S) = h[Chosen(S)].size + SizeSum(h, S \ {Chosen(S)})
      /\ SizeSum(g, S) = g[Chosen(S)].size + SizeSum(g, S \ {Chosen(S)})
  BY <1>1, <1>2, SumOfSome
<1>5. h[Chosen(S)].size = g[Chosen(S)].size BY <1>2, ChosenIsIn
<1> QED BY <1>3, <1>4, <1>5

\* The order plays no part.
LEMMA SumWithout ==
  ASSUME NEW h, NEW D, IsFiniteSet(D), \A x \in D : h[x].size \in Nat, NEW y \in D
  PROVE  SizeSum(h, D) = h[y].size + SizeSum(h, D \ {y})
<1> DEFINE Bad == {S \in SUBSET D : \E x \in S : SizeSum(h, S) # h[x].size + SizeSum(h, S \ {x})}
<1> SUFFICES ASSUME Bad # {} PROVE FALSE OBVIOUS
<1>1. PICK S \in Bad : IsFiniteSet(S) /\ \A x \in S : S \ {x} \notin Bad BY LeastSet
<1>2. PICK x \in S : SizeSum(h, S) # h[x].size + SizeSum(h, S \ {x}) OBVIOUS
<1> DEFINE c == Chosen(S)
<1>3. c \in S BY <1>2, ChosenIsIn
<1>4. SizeSum(h, S) = h[c].size + SizeSum(h, S \ {c}) BY <1>1, <1>2, SumOfSome
<1>5. x # c BY <1>2, <1>4
<1> HIDE DEF c
<1> DEFINE rest == S \ {c, x}
<1>6. /\ SizeSum(h, S \ {c}) = h[x].size + SizeSum(h, rest)
      /\ SizeSum(h, S \ {x}) = h[c].size + SizeSum(h, rest)
  <2>1. S \ {c} \notin Bad /\ S \ {x} \notin Bad BY <1>1, <1>3
  <2>2. S \ {c} \in SUBSET D /\ S \ {x} \in SUBSET D /\ x \in S \ {c} /\ c \in S \ {x}
    BY <1>3, <1>5
  <2>3. (S \ {c}) \ {x} = rest /\ (S \ {x}) \ {c} = rest OBVIOUS
  <2> QED BY <2>1, <2>2, <2>3
<1>8. SizeSum(h, rest) \in Nat
  <2>1. IsFiniteSet(rest) /\ \A z \in rest : h[z].size \in Nat BY <1>1, FS_Subset
  <2> HIDE DEF rest
  <2> QED BY <2>1, SumIsNatural
<1>9. h[x].size \in Nat /\ h[c].size \in Nat BY <1>3
<1> HIDE DEF rest, Bad
<1> QED BY <1>2, <1>4, <1>6, <1>8, <1>9

----------------------------------------------------------------------------
(* What the loop of removeItemsIfNeeded leaves.                             *)

Listed(rank) == {rank[i] : i \in 1..Len(rank)}

Distinct(rank) == \A i, n \in 1..Len(rank) : rank[i] = rank[n] => i = n

LEMMA AppendListed ==
  ASSUME NEW K, NEW rank \in Seq(K), NEW k \in K
  PROVE  /\ Append(rank, k) \in Seq(K)
         /\ Listed(Append(rank, k)) = Listed(rank) \cup {k}
         /\ Distinct(rank) /\ k \notin Listed(rank) => Distinct(Append(rank, k))
<1> DEFINE new == Append(rank, k)
<1>1. /\ new \in Seq(K) /\ Len(new) = Len(rank) + 1 /\ Len(rank) \in Nat
      /\ new[Len(rank) + 1] = k /\ \A i \in 1..Len(rank) : new[i] = rank[i]
  OBVIOUS
<1> HIDE DEF new
<1>2. Listed(new) = Listed(rank) \cup {k}
  <2>1. ASSUME NEW x \in Listed(new) PROVE x \in Listed(rank) \cup {k}
    <3>1. PICK i \in 1..Len(new) : x = new[i] BY DEF Listed
    <3>2. CASE i = Len(rank) + 1 BY <1>1, <3>1, <3>2
    <3>3. CASE i \in 1..Len(rank) BY <1>1, <3>1, <3>3 DEF Listed
    <3> QED BY <1>1, <3>2, <3>3
  <2>2. ASSUME NEW x \in Listed(rank) PROVE x \in Listed(new)
    <3>1. PICK i \in 1..Len(rank) : x = rank[i] BY DEF Listed
    <3> QED BY <1>1, <3>1 DEF Listed
  <2>3. k \in Listed(new) BY <1>1 DEF Listed
  <2> QED BY <2>1, <2>2, <2>3
<1>3. Distinct(rank) /\ k \notin Listed(rank) => Distinct(new)
  BY <1>1 DEF Distinct, Listed
<1> QED BY <1>1, <1>2, <1>3 DEF new

SweepStep(hs, k, before) ==
  IF Removes(hs, k, before.size)
  THEN [size |-> before.size - hs[k].size, kept |-> before.kept,
        removed |-> before.removed \cup {k}]
  ELSE [size |-> before.size, kept |-> Append(before.kept, k), removed |-> before.removed]

SweepStart(total) == [size |-> total, kept |-> <<>>, removed |-> {}]

IsSweep(hs, rank, total, n, after) ==
  after = [i \in 0..n |-> IF i = 0 THEN SweepStart(total)
                          ELSE SweepStep(hs, rank[i], after[i - 1])]

LEMMA SweptIsChosen ==
  ASSUME NEW hs, NEW rank, NEW total
  PROVE  Swept(hs, rank, total) =
           (CHOOSE after : IsSweep(hs, rank, total, Len(rank), after))[Len(rank)]
BY DEF Swept, IsSweep, SweepStep, SweepStart

LEMMA SweepExists ==
  ASSUME NEW hs, NEW rank, NEW total, NEW last \in Nat
  PROVE  \E after : IsSweep(hs, rank, total, last, after)
<1> DEFINE Bad == {n \in Nat : ~ \E after : IsSweep(hs, rank, total, n, after)}
<1>1. 0 \notin Bad
  <2> DEFINE after == [i \in 0..0 |-> SweepStart(total)]
  <2>1. after = [i \in 0..0 |-> IF i = 0 THEN SweepStart(total)
                                ELSE SweepStep(hs, rank[i], after[i - 1])]
    OBVIOUS
  <2> QED BY <2>1 DEF IsSweep
<1>2. ASSUME NEW n \in Nat, n \notin Bad PROVE n + 1 \notin Bad
  <2>1. PICK f : IsSweep(hs, rank, total, n, f) BY <1>2
  <2> DEFINE after == [i \in 0..(n + 1) |-> IF i = n + 1 THEN SweepStep(hs, rank[i], f[n])
                                            ELSE f[i]]
  <2>2. ASSUME NEW i \in 0..(n + 1)
        PROVE  after[i] = IF i = 0 THEN SweepStart(total)
                          ELSE SweepStep(hs, rank[i], after[i - 1])
    <3>1. CASE i = n + 1 BY <3>1
    <3>2. CASE i \in 0..n
      <4>1. f[i] = IF i = 0 THEN SweepStart(total) ELSE SweepStep(hs, rank[i], f[i - 1])
        BY <2>1, <3>2 DEF IsSweep
      <4> QED BY <3>2, <4>1
    <3> QED BY <3>1, <3>2
  <2>3. after = [i \in 0..(n + 1) |-> after[i]] OBVIOUS
  <2> HIDE DEF after
  <2>4. IsSweep(hs, rank, total, n + 1, after) BY <2>2, <2>3 DEF IsSweep
  <2> QED BY <2>4
<1>3. Bad = {}
  <2> SUFFICES ASSUME Bad # {} PROVE FALSE OBVIOUS
  <2>1. PICK n \in Bad : \A m \in Bad : n <= m BY LeastNumber
  <2>2. n \in Nat BY <2>1
  <2> HIDE DEF Bad
  <2>3. n # 0 BY <1>1
  <2>4. n - 1 \in Nat /\ n - 1 \notin Bad BY <2>1, <2>2, <2>3
  <2> QED BY <1>2, <2>2, <2>4
<1> QED BY <1>3

\* What holds after the first i keys, D being the keys of all files.
IsSwept(hs, rank, D, i, s) ==
  /\ s.kept \in Seq(D) /\ Distinct(s.kept)
  /\ s.removed \subseteq D
  /\ Listed(s.kept) \cap s.removed = {}
  /\ Listed(s.kept) \cup s.removed = {rank[n] : n \in 1..i}
  /\ \A k \in s.removed : hs[k].locks = 0
  /\ s.size = SizeSum(hs, D \ s.removed)
  /\ s.size > SizeBound => \A k \in Listed(s.kept) : hs[k].locks # 0

LEMMA SweepStepKeeps ==
  ASSUME NEW hs, NEW D, IsFiniteSet(D), \A k \in D : hs[k].size \in Nat,
         NEW rank \in Seq(D), Distinct(rank),
         NEW i \in 1..Len(rank), NEW s, IsSwept(hs, rank, D, i - 1, s)
  PROVE  IsSwept(hs, rank, D, i, SweepStep(hs, rank[i], s))
<1> DEFINE t == SweepStep(hs, rank[i], s)
<1>1. PICK k \in D : k = rank[i] OBVIOUS
<1>2. /\ s.kept \in Seq(D) /\ Distinct(s.kept) /\ s.removed \subseteq D
      /\ Listed(s.kept) \cap s.removed = {}
      /\ Listed(s.kept) \cup s.removed = {rank[n] : n \in 1..(i - 1)}
      /\ \A x \in s.removed : hs[x].locks = 0
      /\ s.size = SizeSum(hs, D \ s.removed)
      /\ s.size > SizeBound => \A x \in Listed(s.kept) : hs[x].locks # 0
  BY DEF IsSwept
<1>3. {rank[n] : n \in 1..i} = {rank[n] : n \in 1..(i - 1)} \cup {k} BY <1>1
<1>4. k \notin Listed(s.kept) /\ k \notin s.removed
  <2>1. \A n \in 1..(i - 1) : n \in 1..Len(rank) /\ n # i OBVIOUS
  <2>2. \A n \in 1..(i - 1) : rank[n] # k BY <1>1, <2>1 DEF Distinct
  <2> QED BY <1>2, <2>2
<1>5. PICK rest \in Nat : /\ rest = SizeSum(hs, D \ (s.removed \cup {k}))
                         /\ s.size = hs[k].size + rest /\ hs[k].size \in Nat
  <2> DEFINE E == D \ s.removed
             F == D \ (s.removed \cup {k})
  <2>1. E \in SUBSET D /\ F \in SUBSET D /\ F = E \ {k} /\ k \in E BY <1>4
  <2>5. s.size = SizeSum(hs, E) BY <1>2
  <2> HIDE DEF E
  <2>2. IsFiniteSet(E) /\ IsFiniteSet(F) BY <2>1, FS_Subset
  <2>3. SizeSum(hs, E) = hs[k].size + SizeSum(hs, E \ {k}) BY <2>1, <2>2, SumWithout
  <2>4. SizeSum(hs, F) \in Nat BY <2>2, SumIsNatural
  <2>6. hs[k].size \in Nat OBVIOUS
  <2> QED BY <2>1, <2>3, <2>4, <2>5, <2>6
<1>6. CASE Removes(hs, k, s.size)
  <2>1. t.size = s.size - hs[k].size /\ t.kept = s.kept /\ t.removed = s.removed \cup {k}
    BY <1>1, <1>6 DEF SweepStep
  <2> HIDE DEF t
  <2>2. hs[k].locks = 0 /\ s.size > SizeBound BY <1>6 DEF Removes
  <2>3. SizeSum(hs, D \ t.removed) = rest BY <1>5, <2>1
  <2>4. t.size = SizeSum(hs, D \ t.removed) BY <1>5, <2>1, <2>3
  <2>5. Listed(t.kept) \cup t.removed = {rank[n] : n \in 1..i} BY <1>2, <1>3, <2>1
  <2>6. IsSwept(hs, rank, D, i, t) BY <1>2, <1>4, <2>1, <2>2, <2>4, <2>5 DEF IsSwept
  <2> QED BY <2>6 DEF t
<1>7. CASE ~ Removes(hs, k, s.size)
  <2>1. t.size = s.size /\ t.kept = Append(s.kept, k) /\ t.removed = s.removed
    BY <1>1, <1>7 DEF SweepStep
  <2> HIDE DEF t
  <2>2. s.size > SizeBound => hs[k].locks # 0 BY <1>7 DEF Removes
  <2>3. t.kept \in Seq(D) /\ Distinct(t.kept) /\ Listed(t.kept) = Listed(s.kept) \cup {k}
    BY <1>2, <1>4, <2>1, AppendListed
  <2>4. Listed(t.kept) \cup t.removed = {rank[n] : n \in 1..i} BY <1>2, <1>3, <2>1, <2>3
  <2>5. t.size > SizeBound => \A x \in Listed(t.kept) : hs[x].locks # 0
    BY <1>2, <2>1, <2>2, <2>3
  <2>6. IsSwept(hs, rank, D, i, t) BY <1>2, <1>4, <2>1, <2>3, <2>4, <2>5 DEF IsSwept
  <2> QED BY <2>6 DEF t
<1> QED BY <1>6, <1>7

LEMMA SweepIsSwept ==
  ASSUME NEW hs, NEW D, IsFiniteSet(D), \A k \in D : hs[k].size \in Nat,
         NEW rank \in Seq(D), Distinct(rank)
  PROVE  IsSwept(hs, rank, D, Len(rank), Swept(hs, rank, SizeSum(hs, D)))
<1> DEFINE total == SizeSum(hs, D)
           after == CHOOSE f : IsSweep(hs, rank, total, Len(rank), f)
           Bad == {n \in 0..Len(rank) : ~ IsSwept(hs, rank, D, n, after[n])}
<1>1. Len(rank) \in Nat OBVIOUS
<1>2. IsSweep(hs, rank, total, Len(rank), after)
  <2>1. \E f : IsSweep(hs, rank, total, Len(rank), f) BY <1>1, SweepExists
  <2> QED BY <2>1
<1>3. Swept(hs, rank, total) = after[Len(rank)] BY SweptIsChosen
<1> HIDE DEF after
<1>4. after[0] = SweepStart(total) BY <1>1, <1>2 DEF IsSweep
<1>5. ASSUME NEW n \in 1..Len(rank) PROVE after[n] = SweepStep(hs, rank[n], after[n - 1])
  BY <1>1, <1>2 DEF IsSweep
<1>6. 0 \notin Bad
  <2>1. /\ after[0].size = total /\ after[0].kept = <<>> /\ after[0].removed = {}
    BY <1>4 DEF SweepStart
  <2>2. /\ <<>> \in Seq(D) /\ Listed(<<>>) = {} /\ Distinct(<<>>) BY DEF Listed, Distinct
  <2>3. {rank[n] : n \in 1..0} = {} /\ D \ {} = D OBVIOUS
  <2>4. IsSwept(hs, rank, D, 0, after[0]) BY <2>1, <2>2, <2>3 DEF IsSwept
  <2> QED BY <2>4
<1>7. ASSUME NEW n \in 1..Len(rank), n - 1 \notin Bad PROVE n \notin Bad
  <2>1. IsSwept(hs, rank, D, n - 1, after[n - 1]) BY <1>1, <1>7
  <2> QED BY <1>5, <2>1, SweepStepKeeps
<1>8. Bad = {}
  <2> SUFFICES ASSUME Bad # {} PROVE FALSE OBVIOUS
  <2>0. Bad \subseteq Nat BY <1>1
  <2>2. \A n \in Bad : n \in 0..Len(rank) OBVIOUS
  <2> HIDE DEF Bad
  <2>1. PICK n \in Bad : \A m \in Bad : n <= m BY <2>0, LeastNumber
  <2>3. n # 0 BY <1>6
  <2>4. n \in 1..Len(rank) /\ n - 1 \notin Bad BY <1>1, <2>1, <2>2, <2>3
  <2> QED BY <1>7, <2>4
<1> QED BY <1>1, <1>3, <1>8

LEMMA JoinProperties ==
  ASSUME NEW K, NEW s \in Seq(K), NEW t \in Seq(K)
  PROVE  /\ s \o t \in Seq(K) /\ Len(s \o t) = Len(s) + Len(t)
         /\ \A i \in 1..Len(s) : (s \o t)[i] = s[i]
         /\ \A i \in Len(s) + 1..Len(s) + Len(t) : (s \o t)[i] = t[i - Len(s)]
OBVIOUS

\* itemUsed moves a key, or adds it.
LEMMA UsedListed ==
  ASSUME NEW K, NEW rank \in Seq(K), Distinct(rank), NEW k \in K
  PROVE  /\ Used(rank, k) \in Seq(K)
         /\ Distinct(Used(rank, k))
         /\ Listed(Used(rank, k)) = Listed(rank) \cup {k}
<1>1. CASE k \notin Listed(rank)
  <2>1. ~ \E i \in DOMAIN rank : rank[i] = k BY <1>1 DEF Listed
  <2>2. Used(rank, k) = Append(rank, k) BY <2>1 DEF Used
  <2> QED BY <1>1, <2>2, AppendListed
<1>2. CASE k \in Listed(rank)
  <2>1. \E i \in DOMAIN rank : rank[i] = k BY <1>2 DEF Listed
  <2> DEFINE place == CHOOSE i \in DOMAIN rank : rank[i] = k
  <2>2. place \in DOMAIN rank /\ rank[place] = k BY <2>1
  <2> HIDE DEF place
  <2>3. PICK n \in 1..Len(rank) : n = place BY <2>2
  <2> DEFINE before == SubSeq(rank, 1, n - 1)
             after == SubSeq(rank, n + 1, Len(rank))
             new == before \o after \o <<k>>
             m == Len(rank)
  <2>4. m \in Nat /\ rank[n] = k BY <2>2, <2>3
  <2>5. before \in Seq(K) /\ Len(before) = n - 1 /\ \A i \in 1..(n - 1) : before[i] = rank[i]
    BY <2>4
  <2>6. after \in Seq(K) /\ Len(after) = m - n /\ \A i \in 1..(m - n) : after[i] = rank[n + i]
    BY <2>4
  <2> HIDE DEF before, after
  <2> DEFINE rest == before \o after
  <2>12. /\ rest \in Seq(K) /\ Len(rest) = m - 1
         /\ \A i \in 1..(n - 1) : rest[i] = rank[i]
         /\ \A i \in n..(m - 1) : rest[i] = rank[i + 1]
    <3>1. /\ rest \in Seq(K) /\ Len(rest) = Len(before) + Len(after)
          /\ \A i \in 1..Len(before) : rest[i] = before[i]
          /\ \A i \in Len(before) + 1..Len(before) + Len(after) : rest[i] = after[i - Len(before)]
      <4>1. before \in Seq(K) /\ after \in Seq(K) BY <2>5, <2>6
      <4> QED BY <4>1, JoinProperties
    <3> HIDE DEF rest
    <3>2. ASSUME NEW i \in n..(m - 1) PROVE rest[i] = rank[i + 1]
      <4>1. PICK d \in 1..(m - n) : d = i - Len(before) /\ n + d = i + 1 BY <2>4, <2>5
      <4>2. i \in Len(before) + 1..Len(before) + Len(after) BY <2>4, <2>5, <2>6
      <4> QED BY <2>6, <3>1, <4>1, <4>2
    <3> QED BY <2>4, <2>5, <2>6, <3>1, <3>2
  <2>13. new = rest \o <<k>> OBVIOUS
  <2> HIDE DEF rest, new
  <2>14. /\ new \in Seq(K) /\ Len(new) = Len(rest) + 1 /\ new[Len(rest) + 1] = k
         /\ \A i \in 1..Len(rest) : new[i] = rest[i]
    BY <2>12, <2>13
  <2>7. new \in Seq(K) /\ Len(new) = m BY <2>4, <2>12, <2>14
  <2>8. /\ \A i \in 1..(n - 1) : new[i] = rank[i]
        /\ \A i \in n..(m - 1) : new[i] = rank[i + 1]
        /\ new[m] = k
    BY <2>4, <2>12, <2>14
  <2>9. Used(rank, k) = new BY <2>1, <2>3 DEF Used, place, before, after, new
  <2> HIDE DEF new
  <2>10. Distinct(new)
    <3> DEFINE from(i) == IF i < n THEN i ELSE IF i = m THEN n ELSE i + 1
    <3>1. \A i \in 1..m : from(i) \in 1..m /\ new[i] = rank[from(i)] BY <2>4, <2>8
    <3>2. \A i, j \in 1..m : from(i) = from(j) => i = j BY <2>4
    <3> HIDE DEF from
    <3> QED BY <2>7, <3>1, <3>2 DEF Distinct
  <2>11. Listed(new) = Listed(rank)
    <3>1. ASSUME NEW x \in Listed(new) PROVE x \in Listed(rank)
      <4>1. PICK i \in 1..m : x = new[i] BY <2>7 DEF Listed
      <4>2. CASE i \in 1..(n - 1) BY <2>4, <2>8, <4>1, <4>2 DEF Listed
      <4>3. CASE i \in n..(m - 1) BY <2>4, <2>8, <4>1, <4>3 DEF Listed
      <4>4. CASE i = m BY <2>4, <2>8, <4>1, <4>4 DEF Listed
      <4> QED BY <2>4, <4>2, <4>3, <4>4
    <3>2. ASSUME NEW x \in Listed(rank) PROVE x \in Listed(new)
      <4>1. PICK i \in 1..m : x = rank[i] BY DEF Listed
      <4>2. CASE i < n BY <2>4, <2>7, <2>8, <4>1, <4>2 DEF Listed
      <4>3. CASE i = n BY <2>4, <2>7, <2>8, <4>1, <4>3 DEF Listed
      <4>4. CASE i > n
        <5>1. i - 1 \in n..(m - 1) /\ (i - 1) + 1 = i BY <2>4, <4>4
        <5>2. new[i - 1] = x /\ i - 1 \in 1..m BY <2>4, <2>8, <4>1, <5>1
        <5> QED BY <2>7, <5>2 DEF Listed
      <4> QED BY <2>4, <4>2, <4>3, <4>4
    <3> QED BY <3>1, <3>2
  <2> QED BY <1>2, <2>7, <2>9, <2>10, <2>11
<1> QED BY <1>1, <1>2

----------------------------------------------------------------------------
(* What every operation of the cache keeps, of the holders, the list and the
   total size that it starts from and leaves.                               *)

\* A file with the key k is of the epoch of k or a later one.
HolderOf(k) ==
  [file : {Loading, Failed} \cup {Loaded(n) : n \in {m \in Nat : m >= k[1]}},
   locks : Nat, size : Nat]

IsCache(hs, rank, total) ==
  /\ DOMAIN hs \subseteq Key /\ IsFiniteSet(DOMAIN hs)
  /\ hs = [k \in DOMAIN hs |-> hs[k]]
  /\ \A k \in DOMAIN hs : hs[k] \in HolderOf(k)
  /\ \A k \in DOMAIN hs : hs[k].file = Loading => hs[k].size = 0
  /\ rank \in Seq(DOMAIN hs) /\ Distinct(rank)
  /\ Listed(rank) = {k \in DOMAIN hs : hs[k].file # Loading}
  /\ total = SizeSum(hs, DOMAIN hs)

Fits(hs, total) ==
  total > SizeBound => \A k \in DOMAIN hs : hs[k].file # Loading => hs[k].locks # 0

LEMMA FilesDiffer ==
  /\ Loading # Failed
  /\ \A n : Loading # Loaded(n) /\ Failed # Loaded(n) /\ Loaded(n).content = n
BY DEF Loading, Failed, Loaded

\* removeItemsIfNeeded removes loaded files that nobody has locked, and leaves no such
\* file when it leaves too many.
LEMMA SweptCache ==
  ASSUME NEW hs, NEW rank, NEW total, IsCache(hs, rank, total),
         NEW swept, swept = Swept(hs, rank, total)
  PROVE  /\ IsCache(Without(hs, swept.removed), swept.kept, swept.size)
         /\ Fits(Without(hs, swept.removed), swept.size)
         /\ swept.removed \subseteq DOMAIN hs
         /\ \A k \in swept.removed : hs[k].locks = 0
<1> DEFINE D == DOMAIN hs
<1>1. PICK E \in SUBSET D : E = D \ swept.removed OBVIOUS
<1> DEFINE new == [k \in E |-> hs[k]]
<1>2. Without(hs, swept.removed) = new BY <1>1 DEF Without
<1>3. /\ DOMAIN new = E /\ new = [k \in DOMAIN new |-> new[k]]
      /\ \A k \in E : new[k] = hs[k]
  OBVIOUS
<1> HIDE DEF new
<1>4. /\ D \subseteq Key /\ IsFiniteSet(D) /\ \A k \in D : hs[k] \in HolderOf(k)
      /\ \A k \in D : hs[k].file = Loading => hs[k].size = 0
      /\ rank \in Seq(D) /\ Distinct(rank)
      /\ Listed(rank) = {k \in D : hs[k].file # Loading}
      /\ total = SizeSum(hs, D)
  BY DEF IsCache
<1>5. \A k \in D : hs[k].size \in Nat /\ hs[k].locks \in Nat BY <1>4 DEF HolderOf
<1>6. IsSwept(hs, rank, D, Len(rank), swept) BY <1>4, <1>5, SweepIsSwept
<1>7. /\ swept.kept \in Seq(D) /\ Distinct(swept.kept) /\ swept.removed \subseteq D
      /\ Listed(swept.kept) \cap swept.removed = {}
      /\ Listed(swept.kept) \cup swept.removed = Listed(rank)
      /\ \A k \in swept.removed : hs[k].locks = 0
      /\ swept.size = SizeSum(hs, E)
      /\ swept.size > SizeBound => \A k \in Listed(swept.kept) : hs[k].locks # 0
  BY <1>1, <1>6 DEF IsSwept, Listed
<1>8. Listed(swept.kept) = {k \in E : hs[k].file # Loading} BY <1>1, <1>4, <1>7
<1>9. swept.kept \in Seq(E)
  <2>1. Listed(swept.kept) \subseteq E BY <1>8
  <2>2. \A i \in 1..Len(swept.kept) : swept.kept[i] \in E BY <2>1 DEF Listed
  <2> QED BY <1>7, <2>2
<1>10. IsFiniteSet(E) BY <1>1, <1>4, FS_Subset
<1>11. swept.size = SizeSum(new, E) BY <1>3, <1>7, <1>10, SumAlike
<1>12. IsCache(new, swept.kept, swept.size)
  BY <1>3, <1>4, <1>7, <1>8, <1>9, <1>10, <1>11 DEF IsCache
<1>13. Fits(new, swept.size) BY <1>3, <1>7, <1>8 DEF Fits
<1> QED BY <1>2, <1>7, <1>12, <1>13

\* A lock more or less.
LEMMA RelockedCache ==
  ASSUME NEW hs, NEW rank, NEW total, IsCache(hs, rank, total),
         NEW k \in DOMAIN hs, NEW n \in Nat
  PROVE  IsCache([hs EXCEPT ![k].locks = n], rank, total)
<1> DEFINE new == [hs EXCEPT ![k].locks = n]
<1>1. PICK D : D = DOMAIN hs OBVIOUS
<1>2. /\ D \subseteq Key /\ IsFiniteSet(D) /\ \A x \in D : hs[x] \in HolderOf(x)
      /\ \A x \in D : hs[x].file = Loading => hs[x].size = 0
      /\ rank \in Seq(D) /\ Distinct(rank)
      /\ Listed(rank) = {x \in D : hs[x].file # Loading}
      /\ total = SizeSum(hs, D)
  BY <1>1 DEF IsCache
<1>3. /\ DOMAIN new = D /\ new = [x \in DOMAIN new |-> new[x]]
      /\ \A x \in D : new[x] \in HolderOf(x) /\ new[x].file = hs[x].file /\ new[x].size = hs[x].size
  BY <1>1, <1>2 DEF HolderOf
<1> HIDE DEF new
<1>4. total = SizeSum(new, D) BY <1>2, <1>3, SumAlike
<1>5. Listed(rank) = {x \in D : new[x].file # Loading} BY <1>2, <1>3
<1> QED BY <1>2, <1>3, <1>4, <1>5 DEF IsCache, new

\* A file is used.
LEMMA UsedCache ==
  ASSUME NEW hs, NEW rank, NEW total, IsCache(hs, rank, total),
         NEW k \in DOMAIN hs, hs[k].file # Loading
  PROVE  IsCache(hs, Used(rank, k), total)
<1>1. /\ rank \in Seq(DOMAIN hs) /\ Distinct(rank)
      /\ Listed(rank) = {x \in DOMAIN hs : hs[x].file # Loading}
  BY DEF IsCache
<1>2. /\ Used(rank, k) \in Seq(DOMAIN hs) /\ Distinct(Used(rank, k))
      /\ Listed(Used(rank, k)) = Listed(rank)
  BY <1>1, UsedListed
<1> QED BY <1>1, <1>2 DEF IsCache

\* A file begins to load.
LEMMA NewCache ==
  ASSUME NEW hs, NEW rank, NEW total, IsCache(hs, rank, total), NEW k \in Key, k \notin DOMAIN hs
  PROVE  IsCache(With(hs, k, [file |-> Loading, locks |-> 1, size |-> 0]), rank, total)
<1> DEFINE D == DOMAIN hs
           fresh == [file |-> Loading, locks |-> 1, size |-> 0]
<1>1. PICK E : E = D \cup {k} OBVIOUS
<1> DEFINE new == [x \in E |-> IF x = k THEN fresh ELSE hs[x]]
<1>2. With(hs, k, fresh) = new BY <1>1 DEF With
<1>3. /\ D \subseteq Key /\ IsFiniteSet(D) /\ \A x \in D : hs[x] \in HolderOf(x)
      /\ \A x \in D : hs[x].file = Loading => hs[x].size = 0
      /\ rank \in Seq(D) /\ Distinct(rank)
      /\ Listed(rank) = {x \in D : hs[x].file # Loading}
      /\ total = SizeSum(hs, D)
  BY DEF IsCache
<1>4. /\ DOMAIN new = E /\ new = [x \in DOMAIN new |-> new[x]]
      /\ \A x \in D : new[x] = hs[x]
      /\ new[k] \in HolderOf(k) /\ new[k].size = 0 /\ new[k].file = Loading
  BY <1>1 DEF HolderOf
<1> HIDE DEF new
<1>5. IsFiniteSet(E) /\ E \subseteq Key /\ k \in E /\ E \ {k} = D BY <1>1, <1>3, FS_AddElement
<1>6. \A x \in E : new[x].size \in Nat BY <1>1, <1>3, <1>4 DEF HolderOf
<1>7. SizeSum(new, D) = total BY <1>3, <1>4, SumAlike
<1>8. SizeSum(new, E) = new[k].size + SizeSum(new, E \ {k}) BY <1>5, <1>6, SumWithout
<1>9. SizeSum(new, D) \in Nat
  <2>1. \A x \in D : new[x].size \in Nat BY <1>1, <1>6
  <2> QED BY <1>3, <2>1, SumIsNatural
<1>10. SizeSum(new, E) = total BY <1>4, <1>5, <1>7, <1>8, <1>9
<1>11. rank \in Seq(E) /\ Listed(rank) = {x \in E : new[x].file # Loading} BY <1>1, <1>3, <1>4
<1>12. IsCache(new, rank, total)
  BY <1>1, <1>3, <1>4, <1>5, <1>10, <1>11 DEF IsCache
<1> QED BY <1>2, <1>12

\* A file is loaded, or failed to.
LEMMA LoadedCache ==
  ASSUME NEW hs, NEW rank, NEW total, IsCache(hs, rank, total),
         NEW k \in DOMAIN hs, hs[k].file = Loading,
         NEW file, file \in {Failed} \cup {Loaded(n) : n \in {m \in Nat : m >= k[1]}},
         NEW size \in Nat
  PROVE  IsCache([hs EXCEPT ![k].file = file, ![k].size = size], Used(rank, k), total + size)
<1> DEFINE new == [hs EXCEPT ![k].file = file, ![k].size = size]
           D == DOMAIN hs
<1>1. /\ D \subseteq Key /\ IsFiniteSet(D) /\ \A x \in D : hs[x] \in HolderOf(x)
      /\ \A x \in D : hs[x].file = Loading => hs[x].size = 0
      /\ rank \in Seq(D) /\ Distinct(rank)
      /\ Listed(rank) = {x \in D : hs[x].file # Loading}
      /\ total = SizeSum(hs, D)
  BY DEF IsCache
<1>2. file # Loading BY FilesDiffer
<1>3. /\ DOMAIN new = D /\ new = [x \in DOMAIN new |-> new[x]]
      /\ \A x \in D \ {k} : new[x] = hs[x]
      /\ new[k] \in HolderOf(k) /\ new[k].file = file /\ new[k].size = size
  BY <1>1 DEF HolderOf
<1> HIDE DEF new
<1>4. /\ Used(rank, k) \in Seq(D) /\ Distinct(Used(rank, k))
      /\ Listed(Used(rank, k)) = Listed(rank) \cup {k}
  BY <1>1, UsedListed
<1>5. Listed(Used(rank, k)) = {x \in D : new[x].file # Loading} BY <1>1, <1>2, <1>3, <1>4
<1>6. \A x \in D : new[x].size \in Nat /\ hs[x].size \in Nat BY <1>1, <1>3 DEF HolderOf
<1>7. PICK E \in SUBSET D : E = D \ {k} OBVIOUS
<1>8. IsFiniteSet(E) BY <1>1, FS_Subset
<1>9. SizeSum(new, E) = SizeSum(hs, E) BY <1>3, <1>7, <1>8, SumAlike
<1>10. /\ SizeSum(new, D) = new[k].size + SizeSum(new, E)
       /\ SizeSum(hs, D) = hs[k].size + SizeSum(hs, E)
  <2> HIDE DEF D
  <2>1. k \in D BY DEF D
  <2> QED BY <1>1, <1>6, <1>7, <2>1, SumWithout
<1>11. PICK rest \in Nat : rest = SizeSum(hs, E)
  <2>1. \A x \in E : hs[x].size \in Nat BY <1>6
  <2> QED BY <1>8, <2>1, SumIsNatural
<1>12. hs[k].size = 0 BY <1>1
<1>13. total + size = SizeSum(new, D) BY <1>1, <1>3, <1>9, <1>10, <1>11, <1>12
<1>14. \A x \in D : new[x] \in HolderOf(x) BY <1>1, <1>3
<1>15. \A x \in D : new[x].file = Loading => new[x].size = 0 BY <1>1, <1>2, <1>3
<1> QED BY <1>1, <1>3, <1>4, <1>5, <1>13, <1>14, <1>15 DEF IsCache, new

----------------------------------------------------------------------------
(* The invariant of the files.                                              *)

LocksIn(hs, k) == IF k \in DOMAIN hs THEN hs[k].locks ELSE 0

\* Who has a file locked, of the number of files that the jobs have locked and of
\* their epochs, and who waits for it, of the keys that the jobs ask for.
Lockers(counts, epochs, k) ==
  {l \in Job \X (1..4) : l[2] <= counts[l[1]] /\ <<epochs[l[1]], Files[l[1]][l[2]]>> = k}

Waiters(stages, next, k) == {j \in Job : stages[j] = "waiting" /\ next[j] = k}

NextKeys == [j \in Job |-> NextKey(j)]

CacheInv == IsCache(holders, recentRank, totalSize) /\ Fits(holders, totalSize)

\* Every lock is accounted for, of files that are not there too.
LocksInv ==
  \A k \in Key :
    /\ IsFiniteSet(Lockers(locked, jobEpoch, k)) /\ IsFiniteSet(Waiters(at, NextKeys, k))
    /\ LocksIn(holders, k) = Cardinality(Lockers(locked, jobEpoch, k))
                             + Cardinality(Waiters(at, NextKeys, k))

\* How many files of a job are locked and copied by its stage.
StageIsKept(j) ==
  /\ jobEpoch[j] <= epoch
  /\ locked[j] <= Len(Files[j]) /\ loads[j] <= Len(Files[j])
  /\ handler[j] = "none" => at[j] = "none" /\ locked[j] = 0
  /\ handler[j] \in {"locking", "refused"} => at[j] = "none"
  /\ at[j] \notin {"none", "finishing", "ended"} => locked[j] = Len(Files[j])
  /\ at[j] = "ended" => locked[j] = 0
  /\ j \in sent => at[j] = "ended"
  /\ at[j] \in {"loading", "waiting", "copying"} => loads[j] < Len(Files[j])
  /\ at[j] \in {"none", "queued"} => loads[j] = 0
  /\ at[j] \in {"ready", "execution", "running"} => loads[j] \in RunsAfter(j)

StageInv ==
  /\ up \in Phase /\ epoch \in 0..MaxResets /\ faults \in 0..MaxFaults
  /\ jobEpoch \in [Job -> Nat] /\ locked \in [Job -> Nat] /\ loads \in [Job -> Nat]
  /\ \A j \in Job : StageIsKept(j)

KeysInv == \A k \in DOMAIN holders : k[1] <= epoch

FileInv == CacheInv /\ StageInv /\ KeysInv /\ LocksInv /\ FilesAreThere

----------------------------------------------------------------------------
(* The operations of the cache.                                             *)

\* What becomes of the files while k gets by more locks: none that is loaded and
\* still locked is removed or changed.
Moves(hs, new, k, by) ==
  /\ \A x \in Key : LocksIn(new, x) = LocksIn(hs, x) + (IF x = k THEN by ELSE 0)
  /\ DOMAIN new \subseteq DOMAIN hs \cup {k}
  /\ \A x \in DOMAIN hs : hs[x].file # Loading /\ LocksIn(new, x) # 0 =>
       x \in DOMAIN new /\ new[x].file = hs[x].file

LEMMA LocksAreNatural ==
  ASSUME NEW hs, NEW rank, NEW total, IsCache(hs, rank, total), NEW k
  PROVE  LocksIn(hs, k) \in Nat
BY DEF IsCache, HolderOf, LocksIn

LEMMA RelockMoves ==
  ASSUME NEW hs, NEW rank, NEW total, IsCache(hs, rank, total),
         NEW k \in DOMAIN hs, NEW by \in Int, hs[k].locks + by \in Nat
  PROVE  /\ IsCache([hs EXCEPT ![k].locks = @ + by], rank, total)
         /\ Moves(hs, [hs EXCEPT ![k].locks = @ + by], k, by)
<1> DEFINE n == hs[k].locks + by
           new == [hs EXCEPT ![k].locks = n]
<1>1. [hs EXCEPT ![k].locks = @ + by] = new OBVIOUS
<1>2. IsCache(new, rank, total) BY RelockedCache
<1>3. /\ hs = [x \in DOMAIN hs |-> hs[x]] /\ \A x \in DOMAIN hs : hs[x] \in HolderOf(x)
  BY DEF IsCache
<1>4. /\ DOMAIN new = DOMAIN hs
      /\ \A x \in DOMAIN hs : new[x].file = hs[x].file /\ (x # k => new[x] = hs[x])
      /\ new[k].locks = n
  BY <1>3 DEF HolderOf
<1>5. \A x \in DOMAIN hs : hs[x].locks \in Nat BY <1>3 DEF HolderOf
<1> HIDE DEF new
<1>6. Moves(hs, new, k, by) BY <1>4, <1>5 DEF Moves, LocksIn
<1> QED BY <1>1, <1>2, <1>6

\* lockAndGetHolder
LEMMA LockHolderMoves ==
  ASSUME CacheInv, NEW k \in Key, LockHolder(k)
  PROVE  /\ IsCache(holders', recentRank, totalSize) /\ Fits(holders', totalSize)
         /\ Moves(holders, holders', k, 1)
<1>0. IsCache(holders, recentRank, totalSize) /\ Fits(holders, totalSize) BY DEF CacheInv
<1>3. /\ holders = [x \in DOMAIN holders |-> holders[x]]
      /\ \A x \in DOMAIN holders : holders[x] \in HolderOf(x)
  BY <1>0 DEF IsCache
<1>4. \A x \in DOMAIN holders : holders[x].locks \in Nat BY <1>3 DEF HolderOf
<1>1. CASE k \in DOMAIN holders
  <2>1. holders' = [holders EXCEPT ![k].locks = @ + 1] BY <1>1 DEF LockHolder, Relocked
  <2>2. holders[k].locks + 1 \in Nat /\ 1 \in Int BY <1>1, <1>4
  <2>3. IsCache(holders', recentRank, totalSize) /\ Moves(holders, holders', k, 1)
    BY <1>0, <1>1, <2>1, <2>2, RelockMoves
  <2>4. /\ DOMAIN holders' = DOMAIN holders
        /\ \A x \in DOMAIN holders :
             holders'[x].file = holders[x].file /\ holders'[x].locks \in {holders[x].locks, holders[x].locks + 1}
    BY <1>3, <2>1 DEF HolderOf
  <2>5. Fits(holders', totalSize) BY <1>0, <1>4, <2>4 DEF Fits
  <2> QED BY <2>3, <2>5
<1>2. CASE k \notin DOMAIN holders
  <2> DEFINE fresh == [file |-> Loading, locks |-> 1, size |-> 0]
  <2>1. holders' = With(holders, k, fresh) BY <1>2 DEF LockHolder
  <2>2. IsCache(holders', recentRank, totalSize) BY <1>0, <1>2, <2>1, NewCache
  <2>3. /\ DOMAIN holders' = DOMAIN holders \cup {k}
        /\ \A x \in DOMAIN holders : holders'[x] = holders[x]
        /\ holders'[k].file = Loading /\ holders'[k].locks = 1
    BY <1>2, <2>1 DEF With
  <2>4. Fits(holders', totalSize) BY <1>0, <2>3 DEF Fits
  <2>5. Moves(holders, holders', k, 1) BY <1>2, <1>4, <2>3 DEF Moves, LocksIn
  <2> QED BY <2>2, <2>4, <2>5
<1> QED BY <1>1, <1>2

LEMMA LockMoves ==
  ASSUME CacheInv, NEW k \in Key, Lock(k)
  PROVE  CacheInv' /\ Moves(holders, holders', k, 1)
<1>1. LockHolder(k) /\ totalSize' = totalSize BY DEF Lock
<1>2. /\ IsCache(holders', recentRank, totalSize) /\ Fits(holders', totalSize)
      /\ Moves(holders, holders', k, 1)
  BY <1>1, LockHolderMoves
<1>3. CASE IsLoaded(k)
  <2>1. recentRank' = Used(recentRank, k) BY <1>3 DEF Lock
  <2>2. k \in DOMAIN holders /\ holders[k].file # Loading BY <1>3 DEF IsLoaded
  <2>3. LocksIn(holders', k) # 0
    <3>1. LocksIn(holders', k) = LocksIn(holders, k) + 1 BY <1>2 DEF Moves
    <3>2. LocksIn(holders, k) \in Nat BY LocksAreNatural DEF CacheInv
    <3> QED BY <3>1, <3>2
  <2>4. k \in DOMAIN holders' /\ holders'[k].file # Loading BY <1>2, <2>2, <2>3 DEF Moves
  <2>5. IsCache(holders', recentRank', totalSize) BY <1>2, <2>1, <2>4, UsedCache
  <2> QED BY <1>1, <1>2, <2>5 DEF CacheInv
<1>4. CASE ~IsLoaded(k)
  <2>1. recentRank' = recentRank BY <1>4 DEF Lock
  <2> QED BY <1>1, <1>2, <2>1 DEF CacheInv
<1> QED BY <1>3, <1>4

\* Get of a file that is not loaded yet
LEMMA GetAndWaitMoves ==
  ASSUME CacheInv, NEW k \in Key, GetAndWait(k)
  PROVE  CacheInv' /\ Moves(holders, holders', k, 1)
<1>1. LockHolder(k) /\ totalSize' = totalSize /\ recentRank' = recentRank BY DEF GetAndWait
<1> QED BY <1>1, LockHolderMoves DEF CacheInv

LEMMA RestMoves ==
  ASSUME NEW hs, NEW rank, NEW total, IsCache(hs, rank, total), NEW k
  PROVE  Moves(hs, hs, k, 0)
BY LocksAreNatural DEF Moves

LEMMA GetLoadedMoves ==
  ASSUME CacheInv, NEW k, GetLoaded(k)
  PROVE  CacheInv' /\ Moves(holders, holders', k, 0)
<1>1. /\ k \in DOMAIN holders /\ holders[k].file # Loading
      /\ recentRank' = Used(recentRank, k) /\ holders' = holders /\ totalSize' = totalSize
  BY DEF GetLoaded, IsLoaded
<1>2. IsCache(holders, recentRank', totalSize) BY <1>1, UsedCache DEF CacheInv
<1>3. Moves(holders, holders, k, 0) BY RestMoves DEF CacheInv
<1> QED BY <1>1, <1>2, <1>3 DEF CacheInv

\* The lock of the wait is given up without a look at the size of the cache, which is
\* right as long as there is another lock.
LEMMA GetAfterWaitMoves ==
  ASSUME CacheInv, NEW k, GetAfterWait(k), LocksIn(holders, k) > 1
  PROVE  CacheInv' /\ Moves(holders, holders', k, -1)
<1>1. /\ k \in DOMAIN holders /\ holders[k].file # Loading
      /\ recentRank' = Used(recentRank, k)
      /\ holders' = [holders EXCEPT ![k].locks = @ - 1] /\ totalSize' = totalSize
  BY DEF GetAfterWait, IsLoaded, Unlocked
<1>2. /\ holders = [x \in DOMAIN holders |-> holders[x]]
      /\ \A x \in DOMAIN holders : holders[x] \in HolderOf(x)
  BY DEF CacheInv, IsCache
<1>3. \A x \in DOMAIN holders : holders[x].locks \in Nat BY <1>2 DEF HolderOf
<1>4. holders[k].locks > 1 BY <1>1 DEF LocksIn
<1>5. PICK hs : hs = [holders EXCEPT ![k].locks = @ + (-1)] OBVIOUS
<1>6. holders[k].locks + (-1) \in Nat /\ -1 \in Int BY <1>1, <1>3, <1>4
<1>7. holders' = hs
  <2>1. holders[k].locks - 1 = holders[k].locks + (-1) BY <1>1, <1>3
  <2> QED BY <1>1, <1>5, <2>1
<1>8. IsCache(hs, recentRank, totalSize) /\ Moves(holders, hs, k, -1)
  BY <1>1, <1>5, <1>6, RelockMoves DEF CacheInv
<1>9. IsCache(holders', recentRank, totalSize) /\ Moves(holders, holders', k, -1)
  BY <1>7, <1>8
<1>10. /\ DOMAIN holders' = DOMAIN holders
       /\ \A x \in DOMAIN holders : holders'[x].file = holders[x].file
       /\ \A x \in DOMAIN holders \ {k} : holders'[x].locks = holders[x].locks
       /\ holders'[k].locks = holders[k].locks - 1
  BY <1>1, <1>2, <1>3 DEF HolderOf
<1>11. Fits(holders', totalSize) BY <1>1, <1>3, <1>4, <1>10 DEF CacheInv, Fits
<1>12. IsCache(holders', recentRank', totalSize) BY <1>1, <1>9, <1>10, UsedCache
<1> QED BY <1>1, <1>9, <1>11, <1>12 DEF CacheInv

\* removeItemsIfNeeded, after an operation that moved the locks.
LEMMA RemovalMoves ==
  ASSUME NEW hs, NEW rank, NEW total, IsCache(hs, rank, total),
         NEW k, NEW by, Moves(holders, hs, k, by), RemoveItemsIfNeeded(hs, rank, total)
  PROVE  CacheInv' /\ Moves(holders, holders', k, by)
<1> DEFINE swept == Swept(hs, rank, total)
<1>1. /\ holders' = Without(hs, swept.removed) /\ recentRank' = swept.kept
      /\ totalSize' = swept.size
  BY DEF RemoveItemsIfNeeded
<1> HIDE DEF swept
<1>2. /\ IsCache(holders', recentRank', totalSize') /\ Fits(holders', totalSize')
      /\ swept.removed \subseteq DOMAIN hs
      /\ \A x \in swept.removed : hs[x].locks = 0
  BY <1>1, SweptCache DEF swept
<1>3. /\ DOMAIN holders' = DOMAIN hs \ swept.removed
      /\ \A x \in DOMAIN holders' : holders'[x] = hs[x]
  BY <1>1 DEF Without
<1>4. \A x : LocksIn(holders', x) = LocksIn(hs, x) BY <1>2, <1>3 DEF LocksIn
<1>5. ASSUME NEW x \in DOMAIN holders, holders[x].file # Loading, LocksIn(holders', x) # 0
      PROVE  x \in DOMAIN holders' /\ holders'[x].file = holders[x].file
  <2>1. x \in DOMAIN hs /\ hs[x].file = holders[x].file /\ hs[x].locks # 0
    BY <1>4, <1>5 DEF Moves, LocksIn
  <2> QED BY <1>2, <1>3, <2>1
<1>6. Moves(holders, holders', k, by) BY <1>3, <1>4, <1>5 DEF Moves
<1> QED BY <1>2, <1>6 DEF CacheInv

LEMMA UnlockMoves ==
  ASSUME CacheInv, NEW k, Unlock(k), LocksIn(holders, k) # 0
  PROVE  CacheInv' /\ Moves(holders, holders', k, -1)
<1>1. /\ holders = [x \in DOMAIN holders |-> holders[x]]
      /\ \A x \in DOMAIN holders : holders[x] \in HolderOf(x)
  BY DEF CacheInv, IsCache
<1>2. k \in DOMAIN holders /\ holders[k].locks \in Nat /\ holders[k].locks > 0
  BY <1>1 DEF LocksIn, HolderOf
<1>3. PICK hs : hs = [holders EXCEPT ![k].locks = @ + (-1)] OBVIOUS
<1>4. Unlocked(k) = hs
  <2>1. holders[k].locks - 1 = holders[k].locks + (-1) BY <1>2
  <2> QED BY <1>3, <2>1 DEF Unlocked
<1>5. holders[k].locks + (-1) \in Nat /\ -1 \in Int BY <1>2
<1>6. IsCache(hs, recentRank, totalSize) /\ Moves(holders, hs, k, -1)
  BY <1>2, <1>3, <1>5, RelockMoves DEF CacheInv
<1>7. RemoveItemsIfNeeded(hs, recentRank, totalSize) BY <1>2, <1>4 DEF Unlock
<1> QED BY <1>6, <1>7, RemovalMoves

\* The end of a download
LEMMA LoadMoves ==
  ASSUME CacheInv, NEW k, NEW file, NEW size \in Nat, LoadAs(k, file, size),
         file \in {Failed} \cup {Loaded(n) : n \in {m \in Nat : m >= k[1]}}
  PROVE  CacheInv' /\ Moves(holders, holders', k, 0)
<1>1. /\ holders = [x \in DOMAIN holders |-> holders[x]]
      /\ \A x \in DOMAIN holders : holders[x] \in HolderOf(x)
  BY DEF CacheInv, IsCache
<1>2. k \in DOMAIN holders /\ holders[k].file = Loading BY DEF LoadAs, IsLoaded
<1>3. PICK hs : hs = [holders EXCEPT ![k].file = file, ![k].size = size] OBVIOUS
<1>4. IsCache(hs, Used(recentRank, k), totalSize + size)
  BY <1>2, <1>3, LoadedCache DEF CacheInv
<1>5. /\ DOMAIN hs = DOMAIN holders
      /\ \A x \in DOMAIN holders : hs[x].locks = holders[x].locks /\ holders[x].locks \in Nat
      /\ \A x \in DOMAIN holders \ {k} : hs[x] = holders[x]
  BY <1>1, <1>2, <1>3 DEF HolderOf
<1>6. Moves(holders, hs, k, 0) BY <1>2, <1>5 DEF Moves, LocksIn
<1>7. RemoveItemsIfNeeded(hs, Used(recentRank, k), totalSize + size) BY <1>3 DEF LoadAs
<1> QED BY <1>4, <1>6, <1>7, RemovalMoves

----------------------------------------------------------------------------
(* How many files are locked and copied by each stage.                      *)

LEMMA JobFacts ==
  ASSUME NEW j \in Job
  PROVE  /\ j \in TestJob => Len(Files[j]) = 4 /\ RunsAfter(j) = {2, 4}
         /\ j \notin TestJob => Len(Files[j]) = 1 /\ RunsAfter(j) = {1}
         /\ Files[j] \in Seq(File) /\ Len(Files[j]) \in {1, 4}
BY JobsAssumption DEF Job, RunsAfter

\* A step that concerns one job at most.
LEMMA StageOfOne ==
  ASSUME StageInv, NEW j \in Job,
         up' \in Phase, epoch' = epoch, faults' \in 0..MaxFaults,
         jobEpoch' \in [Job -> Nat], locked' \in [Job -> Nat], loads' \in [Job -> Nat],
         \A i \in Job \ {j} :
           /\ jobEpoch'[i] = jobEpoch[i] /\ locked'[i] = locked[i] /\ loads'[i] = loads[i]
           /\ at'[i] = at[i] /\ handler'[i] = handler[i]
           /\ i \in sent' => i \in sent,
         StageIsKept(j)'
  PROVE  StageInv'
BY DEF StageInv, StageIsKept, RunsAfter

LEMMA StageRests ==
  ASSUME StageInv, up' \in Phase, epoch' \in epoch..MaxResets, faults' \in 0..MaxFaults,
         UNCHANGED <<jobEpoch, locked, loads, at, handler, sent>>
  PROVE  StageInv'
BY DEF StageInv, StageIsKept, RunsAfter

\* A job in a pipeline, or queued for one.
LEMMA StageMoves ==
  ASSUME StageInv, ThreadTypeOK, NEW j \in Job, NEW from \in Stage \ {"none", "ended"}, NEW to,
         At(j, from, to), NEW n \in Nat, n <= Len(Files[j]), loads' = [loads EXCEPT ![j] = n],
         \/ to = "finishing"
         \/ to = "ended" /\ from = "finishing" /\ locked[j] = 0
         \/ from # "finishing" /\ to = "uploading"
         \/ from # "finishing" /\ to \in {"loading", "waiting", "copying"} /\ n < Len(Files[j])
         \/ from # "finishing" /\ to \in {"ready", "execution", "running"} /\ n \in RunsAfter(j),
         up' = up, epoch' = epoch, faults' \in 0..MaxFaults,
         jobEpoch' = jobEpoch, locked' = locked, handler' = handler, sent' = sent
  PROVE  StageInv'
<1>1. at[j] = from /\ at'[j] = to /\ \A i \in Job \ {j} : at'[i] = at[i]
  BY DEF At, ThreadTypeOK
<1>2. /\ StageIsKept(j) /\ loads \in [Job -> Nat] /\ up \in Phase
      /\ jobEpoch \in [Job -> Nat] /\ locked \in [Job -> Nat]
  BY DEF StageInv
<1>3. loads'[j] = n /\ loads' \in [Job -> Nat] /\ \A i \in Job \ {j} : loads'[i] = loads[i]
  BY <1>2
<1>4. handler[j] \in {"none", "locking", "done", "refused"} BY DEF ThreadTypeOK
<1>5. handler[j] = "done" /\ j \notin sent BY <1>1, <1>2, <1>4 DEF StageIsKept
<1>6. from \notin {"none", "ended"} OBVIOUS
<1>7. RunsAfter(j)' = RunsAfter(j) BY DEF RunsAfter
<1>8. from # "finishing" => locked[j] = Len(Files[j]) BY <1>1, <1>2, <1>6 DEF StageIsKept
<1>9. StageIsKept(j)'
  <2>1. locked[j] <= Len(Files[j]) /\ jobEpoch[j] <= epoch BY <1>2 DEF StageIsKept
  <2> QED BY <1>1, <1>3, <1>5, <1>7, <1>8, <2>1 DEF StageIsKept
<1> QED BY <1>1, <1>2, <1>3, <1>9, StageOfOne

LEMMA FaultIsTyped == StageInv /\ (Fault \/ UNCHANGED faults) => faults' \in 0..MaxFaults
BY JobsAssumption DEF StageInv, Fault

\* A failure.
LEMMA StageFails ==
  ASSUME StageInv, ThreadTypeOK, NEW j \in Job, NEW from \in Stage \ {"none", "ended"},
         Fails(j, from) \/ FailsInTrouble(j, from),
         UNCHANGED <<up, epoch, jobEpoch, locked, handler, sent, loads>>,
         Fault \/ UNCHANGED faults
  PROVE  StageInv'
<1>1. At(j, from, "finishing") BY DEF Fails, FailsInTrouble
<1>2. loads[j] \in Nat /\ loads[j] <= Len(Files[j]) /\ loads' = [loads EXCEPT ![j] = loads[j]]
  BY DEF StageInv, StageIsKept
<1>3. faults' \in 0..MaxFaults BY FaultIsTyped
<1> QED BY <1>1, <1>2, <1>3, StageMoves

\* A step of a pipeline that copies nothing.
LEMMA StageGoesOn ==
  ASSUME StageInv, ThreadTypeOK, NEW j \in Job, NEW from \in Stage \ {"none", "ended"}, NEW to,
         At(j, from, to),
         \/ to = "finishing"
         \/ to = "ended" /\ from = "finishing" /\ locked[j] = 0
         \/ from # "finishing" /\ to = "uploading"
         \/ from # "finishing" /\ to \in {"loading", "waiting", "copying"} /\ loads[j] < Len(Files[j])
         \/ from # "finishing" /\ to \in {"ready", "execution", "running"} /\ loads[j] \in RunsAfter(j),
         UNCHANGED <<up, epoch, jobEpoch, locked, handler, sent, loads>>,
         Fault \/ UNCHANGED faults
  PROVE  StageInv'
<1>1. PICK n \in Nat : n = loads[j] BY DEF StageInv
<1>2. n <= Len(Files[j]) BY <1>1 DEF StageInv, StageIsKept
<1>3. loads' = [loads EXCEPT ![j] = n] BY <1>1 DEF StageInv
<1>4. faults' \in 0..MaxFaults BY FaultIsTyped
<1> QED BY <1>1, <1>2, <1>3, <1>4, StageMoves

LEMMA ArriveStage ==
  ASSUME StageInv, ThreadTypeOK, NEW j \in Job, Arrive(j)
  PROVE  StageInv'
<1>1. /\ StageIsKept(j) /\ epoch \in 0..MaxResets /\ epoch \in Nat /\ jobEpoch \in [Job -> Nat]
      /\ locked \in [Job -> Nat] /\ loads \in [Job -> Nat] /\ up \in Phase /\ faults \in 0..MaxFaults
  BY JobsAssumption DEF StageInv
<1>2. /\ handler' = [handler EXCEPT ![j] = "locking"] /\ jobEpoch' = [jobEpoch EXCEPT ![j] = epoch]
      /\ at' = [at EXCEPT ![j] = "none"] /\ loads' = [loads EXCEPT ![j] = 0]
      /\ sent' = sent \ {j} /\ UNCHANGED <<up, epoch, locked, faults>>
      /\ handler[j] = "none" \/ j \in sent
  BY DEF Arrive, processVars
<1>3. locked[j] = 0 BY <1>1, <1>2 DEF StageIsKept
<1>4. StageIsKept(j)'
  <2>1. Len(Files[j]) \in Nat BY JobFacts
  <2>2. /\ handler'[j] = "locking" /\ at'[j] = "none" /\ loads'[j] = 0 /\ locked'[j] = 0
        /\ jobEpoch'[j] = epoch /\ j \notin sent'
    BY <1>1, <1>2, <1>3 DEF ThreadTypeOK
  <2> QED BY <1>1, <1>2, <2>1, <2>2 DEF StageIsKept
<1> QED BY <1>1, <1>2, <1>4, StageOfOne DEF ThreadTypeOK

LEMMA LockFileStage ==
  ASSUME StageInv, ThreadTypeOK, NEW j \in Job, LockFile(j)
  PROVE  StageInv'
<1>1. /\ StageIsKept(j) /\ jobEpoch \in [Job -> Nat] /\ locked \in [Job -> Nat]
      /\ loads \in [Job -> Nat] /\ up \in Phase /\ faults \in 0..MaxFaults
  BY DEF StageInv
<1>2. /\ locked' = [locked EXCEPT ![j] = @ + 1] /\ handler[j] = "locking"
      /\ locked[j] < Len(Files[j])
      /\ UNCHANGED <<up, epoch, handler, jobEpoch, at, loads, sent, faults>>
  BY DEF LockFile, processVars, requestVars, pipelineVars, endVars
<1>3. StageIsKept(j)'
  <2>1. Len(Files[j]) \in Nat BY JobFacts
  <2>2. locked'[j] = locked[j] + 1 /\ locked[j] \in Nat BY <1>1, <1>2
  <2>3. RunsAfter(j)' = RunsAfter(j) BY DEF RunsAfter
  <2> QED BY <1>1, <1>2, <2>1, <2>2, <2>3 DEF StageIsKept
<1>4. locked' \in [Job -> Nat] BY <1>1, <1>2
<1> QED BY <1>1, <1>2, <1>3, <1>4, StageOfOne

LEMMA AddJobStage ==
  ASSUME StageInv, ThreadTypeOK, NEW j \in Job, AddJob(j)
  PROVE  StageInv'
<1>1. /\ StageIsKept(j) /\ jobEpoch \in [Job -> Nat] /\ locked \in [Job -> Nat]
      /\ loads \in [Job -> Nat] /\ up \in Phase /\ faults \in 0..MaxFaults
  BY DEF StageInv
<1>2. /\ handler[j] = "locking" /\ locked[j] = Len(Files[j])
      /\ UNCHANGED <<up, epoch, jobEpoch, locked, loads, sent, faults>>
  BY DEF AddJob, processVars, endVars
<1>3. at[j] = "none" /\ j \notin sent BY <1>1, <1>2 DEF StageIsKept
<1>4. RunsAfter(j)' = RunsAfter(j) BY DEF RunsAfter
<1>5. CASE sandboxes.closed
  <2>1. handler' = [handler EXCEPT ![j] = "refused"] /\ UNCHANGED at BY <1>5 DEF AddJob
  <2>2. handler'[j] = "refused" /\ \A i \in Job \ {j} : handler'[i] = handler[i]
    BY <2>1 DEF ThreadTypeOK
  <2>3. StageIsKept(j)' BY <1>1, <1>2, <1>3, <1>4, <2>1, <2>2 DEF StageIsKept
  <2> QED BY <1>1, <1>2, <2>1, <2>2, <2>3, StageOfOne
<1>6. CASE ~sandboxes.closed
  <2>1. handler' = [handler EXCEPT ![j] = "done"] /\ at' = [at EXCEPT ![j] = "queued"]
    BY <1>6 DEF AddJob, At
  <2>2. /\ handler'[j] = "done" /\ at'[j] = "queued"
        /\ \A i \in Job \ {j} : handler'[i] = handler[i] /\ at'[i] = at[i]
    BY <2>1 DEF ThreadTypeOK
  <2>3. StageIsKept(j)' BY <1>1, <1>2, <1>3, <1>4, <2>1, <2>2 DEF StageIsKept
  <2> QED BY <1>1, <1>2, <2>2, <2>3, StageOfOne
<1> QED BY <1>5, <1>6

LEMMA TakeJobStage ==
  ASSUME StageInv, ThreadTypeOK, NEW j \in Job, TakeJob(j)
  PROVE  StageInv'
<1>1. UNCHANGED <<up, epoch, jobEpoch, locked, handler, sent, loads>>
  BY DEF TakeJob, processVars, requestVars, endVars
<1>2. "queued" \in Stage \ {"none", "ended"} BY DEF Stage
<1>3. CASE At(j, "queued", "loading") /\ UNCHANGED faults
  <2>1. loads[j] = 0 BY <1>3 DEF StageInv, StageIsKept, At
  <2>2. loads[j] < Len(Files[j]) BY <2>1, JobFacts
  <2> QED BY <1>1, <1>2, <1>3, <2>2, StageGoesOn
<1>4. CASE FailsInTrouble(j, "queued") /\ Fault BY <1>1, <1>2, <1>4, StageFails
<1> QED BY <1>3, <1>4 DEF TakeJob

LEMMA GetFileStage ==
  ASSUME StageInv, ThreadTypeOK, NEW j \in Job, GetFile(j) \/ GetAwaitedFile(j)
  PROVE  StageInv'
<1>1. UNCHANGED <<up, epoch, jobEpoch, locked, handler, sent, loads, faults>>
  BY DEF GetFile, GetAwaitedFile, processVars, requestVars, endVars
<1>2. /\ "loading" \in Stage \ {"none", "ended"} /\ "waiting" \in Stage \ {"none", "ended"}
  BY DEF Stage
<1>3. PICK from \in {"loading", "waiting"} :
        /\ at[j] = from
        /\ \/ FailsInTrouble(j, from)
           \/ At(j, from, "copying") \/ At(j, from, "waiting")
  BY DEF GetFile, GetAwaitedFile, Got
<1>4. from \in Stage \ {"none", "ended"} /\ from # "finishing" BY <1>2, <1>3
<1>5. loads[j] < Len(Files[j]) BY <1>3 DEF StageInv, StageIsKept
<1>6. CASE FailsInTrouble(j, from) BY <1>1, <1>4, <1>6, StageFails
<1>7. CASE At(j, from, "copying") BY <1>1, <1>4, <1>5, <1>7, StageGoesOn
<1>8. CASE At(j, from, "waiting") BY <1>1, <1>4, <1>5, <1>8, StageGoesOn
<1> QED BY <1>3, <1>6, <1>7, <1>8

LEMMA CopyFileStage ==
  ASSUME StageInv, ThreadTypeOK, NEW j \in Job, CopyFile(j)
  PROVE  StageInv'
<1>1. UNCHANGED <<up, epoch, jobEpoch, locked, handler, sent, faults>> /\ at[j] = "copying"
  BY DEF CopyFile, processVars, requestVars, endVars
<1>2. loads[j] \in Nat /\ loads[j] < Len(Files[j]) BY <1>1 DEF StageInv, StageIsKept
<1>3. PICK n \in Nat : n = loads[j] + 1 /\ n <= Len(Files[j]) BY <1>2, JobFacts
<1>4. loads' = [loads EXCEPT ![j] = n] BY <1>3 DEF CopyFile
<1>5. "copying" \in Stage \ {"none", "ended"} BY DEF Stage
<1>6. faults' \in 0..MaxFaults BY <1>1, FaultIsTyped
<1>7. CASE n \in RunsAfter(j)
  <2>1. At(j, "copying", "ready") BY <1>3, <1>7 DEF CopyFile
  <2> QED BY <1>1, <1>3, <1>4, <1>5, <1>6, <1>7, <2>1, StageMoves
<1>8. CASE n \notin RunsAfter(j)
  <2>1. At(j, "copying", "loading") BY <1>3, <1>8 DEF CopyFile
  <2>2. n < Len(Files[j])
    <3>1. CASE j \in TestJob
      <4>1. Len(Files[j]) = 4 /\ RunsAfter(j) = {2, 4} BY <3>1, JobFacts
      <4> QED BY <1>3, <1>8, <4>1
    <3>2. CASE j \notin TestJob
      <4>1. Len(Files[j]) = 1 /\ RunsAfter(j) = {1} BY <3>2, JobFacts
      <4> QED BY <1>3, <1>8, <4>1
    <3> QED BY <3>1, <3>2
  <2> QED BY <1>1, <1>3, <1>4, <1>5, <1>6, <2>1, <2>2, StageMoves
<1> QED BY <1>7, <1>8

LEMMA RunStage ==
  ASSUME StageInv, ThreadTypeOK, NEW j \in Job, ExecuteCommand(j) \/ RunProcess(j)
  PROVE  StageInv'
<1>1. UNCHANGED <<up, epoch, jobEpoch, locked, handler, sent, loads, faults>>
  BY DEF ExecuteCommand, RunProcess, processVars, requestVars, endVars
<1>2. PICK from \in {"ready", "execution"}, to \in {"execution", "running", "finishing"} :
        At(j, from, to)
  BY DEF ExecuteCommand, RunProcess, Fails
<1>3. from \in Stage \ {"none", "ended"} /\ from # "finishing" BY DEF Stage
<1>4. loads[j] \in RunsAfter(j) BY <1>2 DEF StageInv, StageIsKept, At
<1> QED BY <1>1, <1>2, <1>3, <1>4, StageGoesOn

LEMMA ProcessStage ==
  ASSUME StageInv, ThreadTypeOK, NEW j \in Job,
         ProcessEnds(j) \/ ProcessIsStopped(j) \/ ProcessFails(j) \/ Upload(j) \/ Finish(j)
  PROVE  StageInv'
<1>1. UNCHANGED <<up, epoch, jobEpoch, locked, handler, sent, loads>>
  BY DEF ProcessEnds, ProcessIsStopped, ProcessFails, Upload, Finish, processVars, requestVars, endVars
<1>2. Fault \/ UNCHANGED faults
  BY DEF ProcessEnds, ProcessIsStopped, ProcessFails, Upload, Finish, Ends
<1>3. /\ "running" \in Stage \ {"none", "ended"} /\ "uploading" \in Stage \ {"none", "ended"}
      /\ "finishing" \in Stage \ {"none", "ended"}
  BY DEF Stage
<1>4. CASE At(j, "running", "loading") /\ j \in TestJob /\ ~IsChecker(j)
  <2>1. loads[j] \in RunsAfter(j) BY <1>4 DEF StageInv, StageIsKept, At
  <2>2. Len(Files[j]) = 4 /\ RunsAfter(j) = {2, 4} BY <1>4, JobFacts
  <2>3. loads[j] < Len(Files[j]) BY <1>4, <2>1, <2>2 DEF IsChecker
  <2> QED BY <1>1, <1>2, <1>3, <1>4, <2>3, StageGoesOn
<1>5. CASE At(j, "running", "finishing") BY <1>1, <1>2, <1>3, <1>5, StageGoesOn
<1>6. CASE At(j, "running", "uploading") BY <1>1, <1>2, <1>3, <1>6, StageGoesOn
<1>7. CASE At(j, "uploading", "finishing") BY <1>1, <1>2, <1>3, <1>7, StageGoesOn
<1>8. CASE At(j, "finishing", "ended") /\ locked[j] = 0 BY <1>1, <1>2, <1>3, <1>8, StageGoesOn
<1> QED BY <1>4, <1>5, <1>6, <1>7, <1>8
        DEF ProcessEnds, ProcessIsStopped, ProcessFails, Upload, Finish, Ends, FailsInTrouble, Fails

LEMMA UnlockFileStage ==
  ASSUME StageInv, ThreadTypeOK, NEW j \in Job, UnlockFile(j)
  PROVE  StageInv'
<1>1. /\ StageIsKept(j) /\ jobEpoch \in [Job -> Nat] /\ locked \in [Job -> Nat]
      /\ loads \in [Job -> Nat] /\ up \in Phase /\ faults \in 0..MaxFaults
  BY DEF StageInv
<1>2. /\ locked' = [locked EXCEPT ![j] = @ - 1] /\ at[j] = "finishing" /\ locked[j] > 0
      /\ UNCHANGED <<up, epoch, handler, jobEpoch, at, loads, sent, faults>>
  BY DEF UnlockFile, processVars, requestVars, pipelineVars, endVars
<1>3. locked'[j] = locked[j] - 1 /\ locked[j] \in Nat BY <1>1, <1>2
<1>4. StageIsKept(j)'
  <2>1. Len(Files[j]) \in Nat BY JobFacts
  <2> QED BY <1>1, <1>2, <1>3, <2>1 DEF StageIsKept
<1>5. locked' \in [Job -> Nat] BY <1>1, <1>2
<1> QED BY <1>1, <1>2, <1>4, <1>5, StageOfOne

LEMMA SendResultStage ==
  ASSUME StageInv, NEW j \in Job, SendResult(j)
  PROVE  StageInv'
<1>1. /\ at[j] = "ended" /\ sent' = sent \cup {j}
      /\ UNCHANGED <<up, epoch, handler, jobEpoch, locked, at, loads, faults>>
  BY DEF SendResult, processVars, requestVars, pipelineVars
<1> QED BY <1>1 DEF StageInv, StageIsKept, RunsAfter

\* The steps of no job, and the step of a job that stops it.
LEMMA ProcessStepStage ==
  ASSUME StageInv,
         \/ \E j \in Job : StopJob(j)
         \/ \E k \in (0..MaxResets) \X File : FileIsLoaded(k)
         \/ ResetCache \/ Stop \/ Closing \/ UNCHANGED vars
  PROVE  StageInv'
<1>1. up \in Phase /\ faults \in 0..MaxFaults /\ epoch \in 0..MaxResets /\ MaxResets \in Nat
  BY JobsAssumption DEF StageInv
<1>2. UNCHANGED <<jobEpoch, locked, loads, at, handler, sent>>
  BY DEF StopJob, FileIsLoaded, ResetCache, Stop, Closing, StopSandboxThreads, StopRunnerThreads,
         Exit, vars, requestVars, pipelineVars, endVars
<1>3. up' \in Phase
  BY <1>1 DEF StopJob, FileIsLoaded, ResetCache, Stop, Closing, StopSandboxThreads, StopRunnerThreads,
              Exit, UpTo, Phase, vars, processVars
<1>4. epoch' \in epoch..MaxResets
  BY <1>1 DEF StopJob, FileIsLoaded, ResetCache, Stop, Closing, StopSandboxThreads, StopRunnerThreads,
              Exit, vars, processVars
<1>5. faults' \in 0..MaxFaults
  <2>1. Fault \/ UNCHANGED faults
    BY DEF StopJob, FileIsLoaded, ResetCache, Stop, Closing, StopSandboxThreads, StopRunnerThreads,
           Exit, vars
  <2> QED BY <2>1, FaultIsTyped
<1> QED BY <1>2, <1>3, <1>4, <1>5, StageRests

----------------------------------------------------------------------------
(* The locks of the jobs and of the calls that wait.                        *)

Grows(S, T) == \E x : x \notin S /\ T = S \cup {x}

LEMMA GrowsByOne ==
  ASSUME NEW S, NEW T, Grows(S, T), IsFiniteSet(S) \/ IsFiniteSet(T)
  PROVE  /\ IsFiniteSet(S) /\ IsFiniteSet(T)
         /\ Cardinality(S) \in Nat /\ Cardinality(T) = Cardinality(S) + 1
<1>1. PICK x : x \notin S /\ T = S \cup {x} BY DEF Grows
<1>2. IsFiniteSet(S)
  <2>1. S \subseteq T BY <1>1
  <2> QED BY <2>1, FS_Subset
<1>3. IsFiniteSet(T) /\ Cardinality(T) = Cardinality(S) + 1 BY <1>1, <1>2, FS_AddElement
<1> QED BY <1>2, <1>3, FS_CardinalityType

\* The locks of a file change by one with those who have it locked or wait for it, and
\* of the other files nothing changes.
LEMMA LocksChange ==
  ASSUME LocksInv, NEW k, NEW by \in {-1, 0, 1}, Moves(holders, holders', k, by),
         \A x \in Key : x # k \/ by = 0 =>
           /\ Lockers(locked', jobEpoch', x) = Lockers(locked, jobEpoch, x)
           /\ Waiters(at', NextKeys', x) = Waiters(at, NextKeys, x),
         by # 0 =>
           \E L, newL, W, newW :
             /\ L = Lockers(locked, jobEpoch, k) /\ newL = Lockers(locked', jobEpoch', k)
             /\ W = Waiters(at, NextKeys, k) /\ newW = Waiters(at', NextKeys', k)
             /\ \/ by = 1 /\ Grows(L, newL) /\ newW = W
                \/ by = 1 /\ newL = L /\ Grows(W, newW)
                \/ by = -1 /\ Grows(newL, L) /\ newW = W
                \/ by = -1 /\ newL = L /\ Grows(newW, W)
  PROVE  LocksInv'
<1> SUFFICES ASSUME NEW x \in Key
             PROVE  /\ IsFiniteSet(Lockers(locked', jobEpoch', x))
                    /\ IsFiniteSet(Waiters(at', NextKeys', x))
                    /\ LocksIn(holders', x) = Cardinality(Lockers(locked', jobEpoch', x))
                                              + Cardinality(Waiters(at', NextKeys', x))
  BY DEF LocksInv
<1>1. /\ IsFiniteSet(Lockers(locked, jobEpoch, x)) /\ IsFiniteSet(Waiters(at, NextKeys, x))
      /\ LocksIn(holders, x) = Cardinality(Lockers(locked, jobEpoch, x))
                               + Cardinality(Waiters(at, NextKeys, x))
  BY DEF LocksInv
<1>2. LocksIn(holders', x) = LocksIn(holders, x) + (IF x = k THEN by ELSE 0) BY DEF Moves
<1>3. /\ Cardinality(Lockers(locked, jobEpoch, x)) \in Nat
      /\ Cardinality(Waiters(at, NextKeys, x)) \in Nat
  BY <1>1, FS_CardinalityType
<1>4. CASE x # k \/ by = 0
  <2>1. /\ Lockers(locked', jobEpoch', x) = Lockers(locked, jobEpoch, x)
        /\ Waiters(at', NextKeys', x) = Waiters(at, NextKeys, x)
    BY <1>4
  <2>2. LocksIn(holders', x) = LocksIn(holders, x) BY <1>1, <1>2, <1>3, <1>4
  <2> QED BY <1>1, <2>1, <2>2
<1>5. CASE x = k /\ by # 0
  <2>1. PICK L, newL, W, newW :
          /\ L = Lockers(locked, jobEpoch, k) /\ newL = Lockers(locked', jobEpoch', k)
          /\ W = Waiters(at, NextKeys, k) /\ newW = Waiters(at', NextKeys', k)
          /\ \/ by = 1 /\ Grows(L, newL) /\ newW = W
             \/ by = 1 /\ newL = L /\ Grows(W, newW)
             \/ by = -1 /\ Grows(newL, L) /\ newW = W
             \/ by = -1 /\ newL = L /\ Grows(newW, W)
    BY <1>5
  <2>2. /\ IsFiniteSet(L) /\ IsFiniteSet(W) /\ Cardinality(L) \in Nat /\ Cardinality(W) \in Nat
        /\ LocksIn(holders', x) = Cardinality(L) + Cardinality(W) + by
    BY <1>1, <1>2, <1>3, <1>5, <2>1
  <2>3. /\ IsFiniteSet(newL) /\ IsFiniteSet(newW)
        /\ Cardinality(newL) + Cardinality(newW) = Cardinality(L) + Cardinality(W) + by
    <3>1. CASE by = 1 /\ Grows(L, newL) /\ newW = W BY <2>2, <3>1, GrowsByOne
    <3>2. CASE by = 1 /\ newL = L /\ Grows(W, newW) BY <2>2, <3>2, GrowsByOne
    <3>3. CASE by = -1 /\ Grows(newL, L) /\ newW = W BY <2>2, <3>3, GrowsByOne
    <3>4. CASE by = -1 /\ newL = L /\ Grows(newW, W) BY <2>2, <3>4, GrowsByOne
    <3> QED BY <2>1, <3>1, <3>2, <3>3, <3>4
  <2> QED BY <1>5, <2>2, <2>3, <2>1
<1> QED BY <1>4, <1>5

\* A step that locks and waits for nothing and gives up no lock.
LEMMA LocksRest ==
  ASSUME LocksInv, locked \in [Job -> Nat], NEW k, Moves(holders, holders', k, 0),
         \A i \in Job :
           /\ locked'[i] = locked[i]
           /\ locked[i] = 0 \/ jobEpoch'[i] = jobEpoch[i]
           /\ at'[i] = "waiting" <=> at[i] = "waiting"
           /\ at[i] = "waiting" => loads'[i] = loads[i] /\ jobEpoch'[i] = jobEpoch[i]
  PROVE  LocksInv'
<1>1. ASSUME NEW x \in Key
      PROVE  Lockers(locked', jobEpoch', x) = Lockers(locked, jobEpoch, x)
  <2>1. ASSUME NEW l \in Job \X (1..4)
        PROVE  /\ l[2] <= locked'[l[1]] <=> l[2] <= locked[l[1]]
               /\ l[2] <= locked[l[1]] => jobEpoch'[l[1]] = jobEpoch[l[1]]
    <3>1. l[1] \in Job /\ l[2] \in 1..4 OBVIOUS
    <3> QED BY <3>1
  <2> QED BY <2>1 DEF Lockers
<1>2. ASSUME NEW x \in Key
      PROVE  Waiters(at', NextKeys', x) = Waiters(at, NextKeys, x)
  BY DEF Waiters, NextKeys, NextKey, KeyOf
<1> QED BY <1>1, <1>2, LocksChange

\* The job j locks its next file.
LocksOneMore(counts, more, j) ==
  /\ counts[j] < Len(Files[j])
  /\ \A i \in Job : counts[i] \in Nat /\ more[i] = IF i = j THEN counts[i] + 1 ELSE counts[i]

LEMMA OneLocker ==
  ASSUME NEW counts, NEW more, NEW epochs, NEW j \in Job, LocksOneMore(counts, more, j),
         NEW k, k = <<epochs[j], Files[j][counts[j] + 1]>>, NEW x
  PROVE  IF x = k THEN Grows(Lockers(counts, epochs, x), Lockers(more, epochs, x))
                  ELSE Lockers(more, epochs, x) = Lockers(counts, epochs, x)
<1>1. /\ counts[j] \in Nat /\ more[j] = counts[j] + 1 /\ counts[j] < Len(Files[j])
      /\ \A i \in Job \ {j} : more[i] = counts[i]
      /\ \A i \in Job : counts[i] \in Nat
  BY DEF LocksOneMore
<1>2. Len(Files[j]) \in {1, 4} BY JobFacts
<1>3. counts[j] + 1 \in 1..4 BY <1>1, <1>2
<1> DEFINE l == <<j, counts[j] + 1>>
<1>4. l \in Job \X (1..4) /\ l[1] = j /\ l[2] = counts[j] + 1 BY <1>3
<1>5. ASSUME NEW m \in Job \X (1..4)
      PROVE  m[2] <= more[m[1]] <=> m[2] <= counts[m[1]] \/ m = l
  <2>1. /\ m[1] \in Job /\ m[2] \in 1..4 /\ counts[m[1]] \in Nat
        /\ m = l <=> m[1] = j /\ m[2] = counts[j] + 1
    BY <1>1
  <2>2. CASE m[1] = j BY <1>1, <2>1, <2>2
  <2>3. CASE m[1] # j BY <1>1, <2>1, <2>3
  <2> QED BY <2>2, <2>3
<1>6. ~ (l[2] <= counts[l[1]]) BY <1>1, <1>4
<1> HIDE DEF l
<1>7. l \notin Lockers(counts, epochs, k) BY <1>6 DEF Lockers
<1>8. Lockers(more, epochs, k) = Lockers(counts, epochs, k) \cup {l}
  BY <1>4, <1>5 DEF Lockers
<1>9. CASE x # k BY <1>4, <1>5, <1>9 DEF Lockers
<1> QED BY <1>7, <1>8, <1>9 DEF Grows

\* What a job loads is what it locks.
LEMMA LoadsWhatIsLocked ==
  ASSUME NEW counts, NEW epochs, NEW j \in Job, epochs[j] \in Nat, counts[j] = Len(Files[j]),
         NEW n \in Nat, n < Len(Files[j]), NEW k, k = <<epochs[j], LoadOrder(j)[n + 1]>>
  PROVE  k \in Key /\ Lockers(counts, epochs, k) # {}
<1>1. PICK len \in {1, 4} :
        /\ Len(Files[j]) = len /\ (j \in TestJob <=> len = 4)
        /\ Files[j] \in Seq(File)
  BY JobFacts
<1>2. n < len /\ counts[j] = len BY <1>1
<1>3. PICK m \in 1..len : LoadOrder(j)[n + 1] = Files[j][m]
  <2>1. CASE j \in TestJob
    <3>1. n + 1 \in 1..4 BY <1>1, <1>2, <2>1
    <3>2. LoadOrder(j) = <<Files[j][1], Files[j][2], Files[j][4], Files[j][3]>>
      BY <2>1 DEF LoadOrder
    <3>3. LoadOrder(j)[n + 1] \in {Files[j][1], Files[j][2], Files[j][4], Files[j][3]}
      BY <3>1, <3>2
    <3> QED BY <1>1, <2>1, <3>3
  <2>2. CASE j \notin TestJob
    <3>1. n + 1 = 1 /\ len = 1 BY <1>1, <1>2, <2>2
    <3> QED BY <2>2, <3>1 DEF LoadOrder
  <2> QED BY <2>1, <2>2
<1>4. Files[j][m] \in File BY <1>1
<1>5. <<j, m>> \in Job \X (1..4) /\ m <= counts[j] BY <1>1, <1>2
<1>6. <<j, m>> \in Lockers(counts, epochs, k) BY <1>3, <1>5 DEF Lockers
<1> QED BY <1>3, <1>4, <1>6 DEF Key

LEMMA CountedLocks ==
  ASSUME NEW n, NEW L, NEW W, IsFiniteSet(L), IsFiniteSet(W), n = Cardinality(L) + Cardinality(W),
         L # {}
  PROVE  n \in Nat /\ n # 0 /\ (W # {} => n > 1)
<1>1. Cardinality(L) \in Nat /\ Cardinality(W) \in Nat /\ Cardinality(L) # 0
  BY FS_CardinalityType, FS_EmptySet
<1>2. W # {} => Cardinality(W) # 0 BY FS_EmptySet
<1> QED BY <1>1, <1>2

----------------------------------------------------------------------------
(* The files stay where the jobs need them.                                 *)

LEMMA NeededIsLocked ==
  ASSUME LocksInv, StageInv, NEW j \in Job, at[j] \in {"loading", "waiting", "copying"}
  PROVE  /\ NextKey(j) \in Key /\ NextKey(j)[1] <= epoch
         /\ LocksIn(holders, NextKey(j)) # 0
         /\ at[j] = "waiting" => LocksIn(holders, NextKey(j)) > 1
<1>1. PICK n \in Nat : n = loads[j] BY DEF StageInv
<1>2. /\ jobEpoch[j] \in Nat /\ locked[j] = Len(Files[j]) /\ n < Len(Files[j]) /\ jobEpoch[j] <= epoch
  BY <1>1 DEF StageInv, StageIsKept
<1>3. PICK k : k = <<jobEpoch[j], LoadOrder(j)[n + 1]>> OBVIOUS
<1>4. NextKey(j) = k /\ k[1] = jobEpoch[j] BY <1>1, <1>3 DEF NextKey, KeyOf
<1>5. k \in Key /\ Lockers(locked, jobEpoch, k) # {} BY <1>2, <1>3, LoadsWhatIsLocked
<1>6. /\ IsFiniteSet(Lockers(locked, jobEpoch, k)) /\ IsFiniteSet(Waiters(at, NextKeys, k))
      /\ LocksIn(holders, k) = Cardinality(Lockers(locked, jobEpoch, k))
                               + Cardinality(Waiters(at, NextKeys, k))
  BY <1>5 DEF LocksInv
<1>7. at[j] = "waiting" => Waiters(at, NextKeys, k) # {} BY <1>4 DEF Waiters, NextKeys
<1>8. LocksIn(holders, k) # 0 /\ (at[j] = "waiting" => LocksIn(holders, k) > 1)
  BY <1>5, <1>6, <1>7, CountedLocks
<1> QED BY <1>2, <1>4, <1>5, <1>8

\* The same of the next state, as what a job copies must still be there.
LEMMA CopiedIsLocked ==
  ASSUME LocksInv', StageInv', NEW j \in Job, at'[j] = "copying"
  PROVE  NextKey(j)' \in Key /\ LocksIn(holders', NextKey(j)') # 0
<1>1. PICK n \in Nat : n = loads'[j] BY DEF StageInv
<1>2. /\ jobEpoch'[j] \in Nat /\ locked'[j] = Len(Files[j]) /\ n < Len(Files[j])
  BY <1>1 DEF StageInv, StageIsKept
<1>3. PICK k : k = <<jobEpoch'[j], LoadOrder(j)[n + 1]>> OBVIOUS
<1>4. NextKey(j)' = k BY <1>1, <1>3 DEF NextKey, KeyOf, LoadOrder
<1>5. k \in Key /\ Lockers(locked', jobEpoch', k) # {} BY <1>2, <1>3, LoadsWhatIsLocked
<1>6. /\ IsFiniteSet(Lockers(locked', jobEpoch', k)) /\ IsFiniteSet(Waiters(at', NextKeys', k))
      /\ LocksIn(holders', k) = Cardinality(Lockers(locked', jobEpoch', k))
                                + Cardinality(Waiters(at', NextKeys', k))
  BY <1>5 DEF LocksInv
<1>7. LocksIn(holders', k) # 0 BY <1>5, <1>6, CountedLocks
<1> QED BY <1>4, <1>5, <1>7

LEMMA FilesStay ==
  ASSUME FileInv, CacheInv', StageInv', LocksInv', epoch' = epoch \/ epoch' = epoch + 1,
         NEW k, NEW by, Moves(holders, holders', k, by),
         k[1] <= epoch \/ DOMAIN holders' \subseteq DOMAIN holders,
         \A i \in Job : at'[i] = "copying" =>
           /\ NextKey(i)' = NextKey(i)
           /\ at[i] = "copying" \/ (IsLoaded(NextKey(i)) /\ ~IsError(NextKey(i)))
  PROVE  FileInv'
<1>1. KeysInv'
  <2>1. \A x \in DOMAIN holders : x[1] <= epoch /\ x[1] \in Nat
    BY DEF FileInv, KeysInv, CacheInv, IsCache, Key
  <2>2. DOMAIN holders' \subseteq DOMAIN holders \cup {k} BY DEF Moves
  <2>3. epoch \in Nat BY JobsAssumption DEF FileInv, StageInv
  <2>4. \A x \in DOMAIN holders' : x[1] <= epoch /\ x[1] \in Nat
    <3>1. \A x \in DOMAIN holders' : x[1] \in Nat BY DEF CacheInv, IsCache, Key
    <3> QED BY <2>1, <2>2, <3>1
  <2> QED BY <2>3, <2>4 DEF KeysInv
<1>2. FilesAreThere'
  <2> SUFFICES ASSUME NEW i \in Job, at'[i] = "copying"
               PROVE  IsLoaded(NextKey(i))' /\ ~IsError(NextKey(i))'
    BY DEF FilesAreThere
  <2>1. PICK x : x = NextKey(i) /\ x = NextKey(i)' OBVIOUS
  <2>2. IsLoaded(x) /\ ~IsError(x) BY <2>1 DEF FileInv, FilesAreThere
  <2>3. LocksIn(holders', x) # 0 BY <2>1, CopiedIsLocked
  <2>4. x \in DOMAIN holders' /\ holders'[x].file = holders[x].file
    BY <2>2, <2>3 DEF Moves, IsLoaded
  <2>5. IsLoaded(x)' /\ ~IsError(x)' BY <2>2, <2>4 DEF IsLoaded, IsError
  <2> QED BY <2>1, <2>5 DEF IsLoaded, IsError
<1> QED BY <1>1, <1>2 DEF FileInv

\* The steps that leave the cache alone.
LEMMA FilesRest ==
  ASSUME FileInv, StageInv', UNCHANGED cacheVars, epoch' = epoch \/ epoch' = epoch + 1,
         \A i \in Job :
           /\ locked'[i] = locked[i]
           /\ locked[i] = 0 \/ jobEpoch'[i] = jobEpoch[i]
           /\ at'[i] = "waiting" <=> at[i] = "waiting"
           /\ at'[i] = "copying" => at[i] = "copying"
           /\ at'[i] \in {"waiting", "copying"} => loads'[i] = loads[i] /\ jobEpoch'[i] = jobEpoch[i]
  PROVE  FileInv'
<1>1. CacheInv' BY DEF FileInv, CacheInv, cacheVars
<1>2. Moves(holders, holders', 0, 0) /\ holders' = holders BY RestMoves DEF FileInv, CacheInv, cacheVars
<1>3. LocksInv' BY <1>2, LocksRest DEF FileInv, StageInv
<1>4. ASSUME NEW i \in Job, at'[i] = "copying" PROVE NextKey(i)' = NextKey(i) /\ at[i] = "copying"
  BY <1>4 DEF NextKey, KeyOf, LoadOrder
<1> QED BY <1>1, <1>2, <1>3, <1>4, FilesStay

\* A step of one job that leaves the cache alone.
LEMMA FilesRestOfOne ==
  ASSUME FileInv, StageInv', UNCHANGED <<cacheVars, epoch, locked, jobEpoch>>, NEW j \in Job,
         at[j] # "waiting", at'[j] \notin {"waiting", "copying"},
         \A i \in Job \ {j} : at'[i] = at[i] /\ loads'[i] = loads[i]
  PROVE  FileInv'
BY FilesRest

LEMMA ArriveFiles ==
  ASSUME FileInv, ThreadTypeOK, NEW j \in Job, Arrive(j)
  PROVE  FileInv'
<1>1. StageInv' BY ArriveStage DEF FileInv
<1>2. /\ handler[j] = "none" \/ j \in sent
      /\ jobEpoch' = [jobEpoch EXCEPT ![j] = epoch]
      /\ at' = [at EXCEPT ![j] = "none"] /\ loads' = [loads EXCEPT ![j] = 0]
      /\ UNCHANGED <<cacheVars, epoch, locked>>
  BY DEF Arrive, processVars
<1>3. StageIsKept(j) /\ jobEpoch \in [Job -> Nat] /\ loads \in [Job -> Nat] BY DEF FileInv, StageInv
<1>4. locked[j] = 0 /\ at[j] \in {"none", "ended"} BY <1>2, <1>3 DEF StageIsKept
<1>5. /\ at'[j] = "none"
      /\ \A i \in Job \ {j} : at'[i] = at[i] /\ loads'[i] = loads[i] /\ jobEpoch'[i] = jobEpoch[i]
  BY <1>2, <1>3 DEF ThreadTypeOK
<1>6. ASSUME NEW i \in Job
      PROVE  /\ locked'[i] = locked[i]
             /\ locked[i] = 0 \/ jobEpoch'[i] = jobEpoch[i]
             /\ at'[i] = "waiting" <=> at[i] = "waiting"
             /\ at'[i] = "copying" => at[i] = "copying"
             /\ at'[i] \in {"waiting", "copying"} => loads'[i] = loads[i] /\ jobEpoch'[i] = jobEpoch[i]
  <2>1. CASE i = j BY <1>2, <1>4, <1>5, <2>1
  <2>2. CASE i # j BY <1>2, <1>5, <2>2
  <2> QED BY <2>1, <2>2
<1> QED BY <1>1, <1>2, <1>6, FilesRest

\* The steps that go from one stage to another, without the cache.
LEMMA StageFiles ==
  ASSUME FileInv, ThreadTypeOK, NEW j \in Job,
         \/ AddJob(j) \/ TakeJob(j) \/ CopyFile(j) \/ ExecuteCommand(j) \/ RunProcess(j)
         \/ ProcessEnds(j) \/ ProcessIsStopped(j) \/ ProcessFails(j) \/ Upload(j) \/ Finish(j)
  PROVE  FileInv'
<1>1. StageInv'
  BY AddJobStage, TakeJobStage, CopyFileStage, RunStage, ProcessStage DEF FileInv
<1>2. UNCHANGED <<cacheVars, epoch, locked, jobEpoch>>
  BY DEF AddJob, TakeJob, CopyFile, ExecuteCommand, RunProcess, ProcessEnds, ProcessIsStopped,
         ProcessFails, Upload, Finish, processVars, requestVars
<1>3. PICK n : loads' = [loads EXCEPT ![j] = n]
  <2>1. CASE CopyFile(j) BY <2>1 DEF CopyFile
  <2>2. CASE ~CopyFile(j)
    <3>1. loads' = loads
      BY <2>2 DEF AddJob, TakeJob, ExecuteCommand, RunProcess, ProcessEnds, ProcessIsStopped,
                  ProcessFails, Upload, Finish
    <3> QED BY <3>1 DEF FileInv, StageInv
  <2> QED BY <2>1, <2>2
<1>4. PICK from \in {"none", "queued", "copying", "ready", "execution", "running", "uploading", "finishing"},
           to \in {"none", "queued", "loading", "ready", "execution", "running", "uploading",
                   "finishing", "ended"} :
        at[j] = from /\ at' = [at EXCEPT ![j] = to]
  <2>1. CASE AddJob(j)
    <3>1. at[j] = "none"
      BY <2>1 DEF AddJob, FileInv, StageInv, StageIsKept
    <3>2. at' = at \/ at' = [at EXCEPT ![j] = "queued"] BY <2>1 DEF AddJob, At
    <3>3. at = [at EXCEPT ![j] = "none"] BY <3>1 DEF ThreadTypeOK
    <3> QED BY <3>1, <3>2, <3>3
  <2>2. CASE CopyFile(j) BY <2>2 DEF CopyFile, At
  <2>3. CASE ~AddJob(j) /\ ~CopyFile(j)
    BY <2>3 DEF TakeJob, ExecuteCommand, RunProcess, ProcessEnds, ProcessIsStopped,
                ProcessFails, Upload, Finish, Ends, FailsInTrouble, Fails, At
  <2> QED BY <2>1, <2>2, <2>3
<1>5. at'[j] = to /\ \A i \in Job \ {j} : at'[i] = at[i] /\ loads'[i] = loads[i]
  BY <1>3, <1>4 DEF ThreadTypeOK, FileInv, StageInv
<1> QED BY <1>1, <1>2, <1>4, <1>5, FilesRestOfOne

LEMMA OtherFiles ==
  ASSUME FileInv,
         \/ \E j \in Job : StopJob(j) \/ SendResult(j)
         \/ ResetCache \/ Stop \/ Closing \/ UNCHANGED vars
  PROVE  FileInv'
<1>1. StageInv' BY SendResultStage, ProcessStepStage DEF FileInv
<1>2. UNCHANGED <<cacheVars, locked, jobEpoch, at, loads>>
  BY DEF StopJob, SendResult, ResetCache, Stop, Closing, StopSandboxThreads, StopRunnerThreads, Exit,
         vars, requestVars, pipelineVars
<1>3. epoch' = epoch \/ epoch' = epoch + 1
  BY DEF StopJob, SendResult, ResetCache, Stop, Closing, StopSandboxThreads, StopRunnerThreads, Exit,
         vars, processVars
<1> QED BY <1>1, <1>2, <1>3, FilesRest

----------------------------------------------------------------------------
(* The steps of the jobs at the cache, and the downloads.                   *)

LEMMA LockFileFiles ==
  ASSUME FileInv, ThreadTypeOK, NEW j \in Job, LockFile(j)
  PROVE  FileInv'
<1>1. StageInv' BY LockFileStage DEF FileInv
<1>2. /\ handler[j] = "locking" /\ locked[j] < Len(Files[j])
      /\ locked' = [locked EXCEPT ![j] = @ + 1]
      /\ UNCHANGED <<epoch, jobEpoch, at, loads>>
  BY DEF LockFile, processVars, requestVars, pipelineVars
<1>3. /\ locked \in [Job -> Nat] /\ locked' \in [Job -> Nat]
      /\ jobEpoch[j] \in Nat /\ jobEpoch[j] <= epoch
  BY <1>1 DEF FileInv, StageInv, StageIsKept
<1>4. PICK k : k = <<jobEpoch[j], Files[j][locked[j] + 1]>> OBVIOUS
<1>5. Lock(k) BY <1>4 DEF LockFile, KeyOf
<1>6. k \in Key
  <2>1. PICK len \in {1, 4} : Len(Files[j]) = len /\ Files[j] \in Seq(File) BY JobFacts
  <2>2. locked[j] + 1 \in 1..len BY <1>2, <1>3, <2>1
  <2>3. Files[j][locked[j] + 1] \in File BY <2>1, <2>2
  <2> QED BY <1>3, <1>4, <2>3 DEF Key
<1>7. CacheInv' /\ Moves(holders, holders', k, 1) BY <1>5, <1>6, LockMoves DEF FileInv
<1>8. /\ Grows(Lockers(locked, jobEpoch, k), Lockers(locked', jobEpoch, k))
      /\ \A x : x # k => Lockers(locked', jobEpoch, x) = Lockers(locked, jobEpoch, x)
  <2>1. LocksOneMore(locked, locked', j) BY <1>2, <1>3 DEF LocksOneMore
  <2>2. ASSUME NEW x
        PROVE  IF x = k THEN Grows(Lockers(locked, jobEpoch, x), Lockers(locked', jobEpoch, x))
                        ELSE Lockers(locked', jobEpoch, x) = Lockers(locked, jobEpoch, x)
    BY <1>4, <2>1, OneLocker
  <2> QED BY <2>2
<1>9. NextKeys' = NextKeys /\ at' = at /\ jobEpoch' = jobEpoch
  BY <1>2 DEF NextKeys, NextKey, KeyOf, LoadOrder
<1>10. LocksInv' BY <1>7, <1>8, <1>9, LocksChange DEF FileInv
<1>11. k[1] <= epoch BY <1>3, <1>4
<1>12. \A i \in Job : NextKey(i)' = NextKey(i) BY <1>2 DEF NextKey, KeyOf, LoadOrder
<1> QED BY <1>1, <1>2, <1>7, <1>10, <1>11, <1>12, FilesStay

LEMMA UnlockFileFiles ==
  ASSUME FileInv, ThreadTypeOK, NEW j \in Job, UnlockFile(j)
  PROVE  FileInv'
<1>1. StageInv' BY UnlockFileStage DEF FileInv
<1>2. /\ locked[j] > 0 /\ locked' = [locked EXCEPT ![j] = @ - 1]
      /\ UNCHANGED <<epoch, jobEpoch, at, loads>>
  BY DEF UnlockFile, processVars, requestVars, pipelineVars
<1>3. /\ locked \in [Job -> Nat] /\ locked' \in [Job -> Nat]
      /\ jobEpoch[j] \in Nat /\ jobEpoch[j] <= epoch /\ locked[j] <= Len(Files[j])
  BY <1>1 DEF FileInv, StageInv, StageIsKept
<1>4. PICK k : k = <<jobEpoch[j], Files[j][locked'[j] + 1]>> OBVIOUS
<1>5. locked'[j] + 1 = locked[j] /\ locked = [locked' EXCEPT ![j] = @ + 1] /\ locked'[j] < Len(Files[j])
  <2>1. PICK len \in {1, 4} : Len(Files[j]) = len BY JobFacts
  <2>2. locked'[j] = locked[j] - 1 /\ locked[j] \in Nat BY <1>2, <1>3
  <2>3. locked'[j] + 1 = locked[j] BY <2>2
  <2>4. [locked' EXCEPT ![j] = locked'[j] + 1] = locked BY <1>2, <1>3, <2>3
  <2> QED BY <1>3, <2>1, <2>2, <2>3, <2>4
<1>6. Unlock(k) BY <1>4, <1>5 DEF UnlockFile, KeyOf
<1>7. /\ Grows(Lockers(locked', jobEpoch, k), Lockers(locked, jobEpoch, k))
      /\ \A x : x # k => Lockers(locked', jobEpoch, x) = Lockers(locked, jobEpoch, x)
  <2>1. LocksOneMore(locked', locked, j) BY <1>2, <1>3, <1>5 DEF LocksOneMore
  <2>2. ASSUME NEW x
        PROVE  IF x = k THEN Grows(Lockers(locked', jobEpoch, x), Lockers(locked, jobEpoch, x))
                        ELSE Lockers(locked, jobEpoch, x) = Lockers(locked', jobEpoch, x)
    BY <1>4, <2>1, OneLocker
  <2> QED BY <2>2
<1>8. LocksIn(holders, k) # 0 /\ k \in Key
  <2>1. k \in Key
    <3>1. PICK len \in {1, 4} : Len(Files[j]) = len /\ Files[j] \in Seq(File) BY JobFacts
    <3>2. locked'[j] + 1 \in 1..len BY <1>3, <1>5, <3>1
    <3>3. Files[j][locked'[j] + 1] \in File BY <3>1, <3>2
    <3> QED BY <1>3, <1>4, <3>3 DEF Key
  <2>2. Lockers(locked, jobEpoch, k) # {} BY <1>7 DEF Grows
  <2>3. /\ IsFiniteSet(Lockers(locked, jobEpoch, k)) /\ IsFiniteSet(Waiters(at, NextKeys, k))
        /\ LocksIn(holders, k) = Cardinality(Lockers(locked, jobEpoch, k))
                                 + Cardinality(Waiters(at, NextKeys, k))
    BY <2>1 DEF FileInv, LocksInv
  <2> QED BY <2>1, <2>2, <2>3, CountedLocks
<1>9. CacheInv' /\ Moves(holders, holders', k, -1) BY <1>6, <1>8, UnlockMoves DEF FileInv
<1>10. NextKeys' = NextKeys /\ at' = at /\ jobEpoch' = jobEpoch
  BY <1>2 DEF NextKeys, NextKey, KeyOf, LoadOrder
<1>11. LocksInv' BY <1>7, <1>9, <1>10, LocksChange DEF FileInv
<1>12. k[1] <= epoch BY <1>3, <1>4
<1>13. \A i \in Job : NextKey(i)' = NextKey(i) BY <1>2 DEF NextKey, KeyOf, LoadOrder
<1> QED BY <1>1, <1>2, <1>9, <1>11, <1>12, <1>13, FilesStay

\* A call of Get: of a file that is there, of one that is not, and the end of a wait.
LEMMA GetFileFiles ==
  ASSUME FileInv, ThreadTypeOK, NEW j \in Job, GetFile(j) \/ GetAwaitedFile(j)
  PROVE  FileInv'
<1>1. StageInv' BY GetFileStage DEF FileInv
<1>2. UNCHANGED <<epoch, locked, jobEpoch, loads>>
  BY DEF GetFile, GetAwaitedFile, processVars, requestVars
<1>3. PICK k : k = NextKey(j) OBVIOUS
<1>4. PICK from \in {"loading", "waiting"}, to \in {"copying", "waiting", "finishing"} :
        /\ at[j] = from /\ at' = [at EXCEPT ![j] = to]
        /\ \/ from = "loading" /\ GetLoaded(k) /\ to \in {"copying", "finishing"}
           \/ from = "loading" /\ GetAndWait(k) /\ to = "waiting"
           \/ from = "waiting" /\ GetAfterWait(k) /\ to \in {"copying", "finishing"}
        /\ to = "copying" => ~IsError(k)
  BY <1>3 DEF GetFile, GetAwaitedFile, Got, FailsInTrouble, Fails, At
<1>5. at'[j] = to /\ \A i \in Job \ {j} : at'[i] = at[i] BY <1>4 DEF ThreadTypeOK
<1>6. /\ k \in Key /\ k[1] <= epoch
      /\ from = "waiting" => LocksIn(holders, k) > 1
  BY <1>3, <1>4, NeededIsLocked DEF FileInv
<1>7. NextKeys' = NextKeys /\ \A i \in Job : NextKey(i)' = NextKey(i)
  BY <1>2 DEF NextKeys, NextKey, KeyOf, LoadOrder
<1>8. NextKeys[j] = k BY <1>3 DEF NextKeys
<1>9. \A i \in Job : at'[i] = "copying" =>
        at[i] = "copying" \/ (IsLoaded(NextKey(i)) /\ ~IsError(NextKey(i)))
  BY <1>3, <1>4, <1>5 DEF GetLoaded, GetAfterWait
<1>10. CASE from = "loading" /\ to # "waiting"
  <2>1. GetLoaded(k) BY <1>4, <1>10
  <2>2. CacheInv' /\ Moves(holders, holders', k, 0) BY <2>1, GetLoadedMoves DEF FileInv
  <2>3. LocksInv'
    <3>1. \A i \in Job : at'[i] = "waiting" <=> at[i] = "waiting" BY <1>4, <1>5, <1>10
    <3> QED BY <1>2, <2>2, <3>1, LocksRest DEF FileInv, StageInv
  <2> QED BY <1>1, <1>2, <1>6, <1>7, <1>9, <2>2, <2>3, FilesStay
<1>11. CASE from = "loading" /\ to = "waiting"
  <2>1. GetAndWait(k) BY <1>4, <1>11
  <2>2. CacheInv' /\ Moves(holders, holders', k, 1) BY <1>6, <2>1, GetAndWaitMoves DEF FileInv
  <2>3. /\ Grows(Waiters(at, NextKeys, k), Waiters(at', NextKeys', k))
        /\ \A x : x # k => Waiters(at', NextKeys', x) = Waiters(at, NextKeys, x)
    <3>1. at'[j] = "waiting" /\ at[j] # "waiting" BY <1>4, <1>5, <1>11
    <3>2. j \notin Waiters(at, NextKeys, k) BY <3>1 DEF Waiters
    <3>3. Waiters(at', NextKeys, k) = Waiters(at, NextKeys, k) \cup {j}
      BY <1>5, <1>8, <3>1 DEF Waiters
    <3>4. \A x : x # k => Waiters(at', NextKeys, x) = Waiters(at, NextKeys, x)
      BY <1>5, <1>8, <3>1 DEF Waiters
    <3> QED BY <1>7, <3>2, <3>3, <3>4 DEF Grows
  <2>4. locked' = locked /\ jobEpoch' = jobEpoch BY <1>2
  <2>5. LocksInv' BY <2>2, <2>3, <2>4, LocksChange DEF FileInv
  <2> QED BY <1>1, <1>2, <1>6, <1>7, <1>9, <2>2, <2>5, FilesStay
<1>12. CASE from = "waiting"
  <2>1. GetAfterWait(k) /\ to # "waiting" BY <1>4, <1>12
  <2>2. CacheInv' /\ Moves(holders, holders', k, -1)
    BY <1>6, <1>12, <2>1, GetAfterWaitMoves DEF FileInv
  <2>3. /\ Grows(Waiters(at', NextKeys', k), Waiters(at, NextKeys, k))
        /\ \A x : x # k => Waiters(at', NextKeys', x) = Waiters(at, NextKeys, x)
    <3>1. at[j] = "waiting" /\ at'[j] # "waiting" BY <1>4, <1>5, <1>12, <2>1
    <3>2. j \notin Waiters(at', NextKeys, k) BY <3>1 DEF Waiters
    <3>3. Waiters(at, NextKeys, k) = Waiters(at', NextKeys, k) \cup {j}
      BY <1>5, <1>8, <3>1 DEF Waiters
    <3>4. \A x : x # k => Waiters(at', NextKeys, x) = Waiters(at, NextKeys, x)
      BY <1>5, <1>8, <3>1 DEF Waiters
    <3> QED BY <1>7, <3>2, <3>3, <3>4 DEF Grows
  <2>4. locked' = locked /\ jobEpoch' = jobEpoch BY <1>2
  <2>5. LocksInv' BY <2>2, <2>3, <2>4, LocksChange DEF FileInv
  <2> QED BY <1>1, <1>2, <1>6, <1>7, <1>9, <2>2, <2>5, FilesStay
<1> QED BY <1>10, <1>11, <1>12

LEMMA FileIsLoadedFiles ==
  ASSUME FileInv, NEW k \in (0..MaxResets) \X File, FileIsLoaded(k)
  PROVE  FileInv'
<1>1. StageInv' BY ProcessStepStage DEF FileInv
<1>2. UNCHANGED <<epoch, jobEpoch, locked, at, loads>>
  BY DEF FileIsLoaded, processVars, requestVars, pipelineVars
<1>3. CacheInv' /\ Moves(holders, holders', k, 0) /\ k[1] <= epoch
  <2>1. \E file, size : LoadAs(k, file, size) /\ size \in Nat /\ file \in {Failed, Loaded(epoch)}
    <3>1. SizeOf[k[2]] \in Nat BY CacheAssumption
    <3>2. CASE LoadAs(k, Loaded(epoch), SizeOf[k[2]]) BY <3>1, <3>2
    <3>3. CASE LoadAs(k, Failed, 0) BY <3>3
    <3> QED BY <3>2, <3>3 DEF FileIsLoaded, LoadAbsentValue, LoadError
  <2>2. PICK file, size : LoadAs(k, file, size) /\ size \in Nat /\ file \in {Failed, Loaded(epoch)}
    BY <2>1
  <2>3. k \in DOMAIN holders BY <2>2 DEF LoadAs
  <2>4. k[1] <= epoch /\ epoch \in Nat BY <2>3, JobsAssumption DEF FileInv, KeysInv, StageInv
  <2>5. file \in {Failed} \cup {Loaded(n) : n \in {m \in Nat : m >= k[1]}} BY <2>2, <2>4
  <2> QED BY <2>2, <2>4, <2>5, LoadMoves DEF FileInv
<1>4. LocksInv' BY <1>2, <1>3, LocksRest DEF FileInv, StageInv
<1>5. \A i \in Job : NextKey(i)' = NextKey(i) BY <1>2 DEF NextKey, KeyOf, LoadOrder
<1> QED BY <1>1, <1>2, <1>3, <1>4, <1>5, FilesStay

----------------------------------------------------------------------------
LEMMA InitFiles == Init => FileInv
<1> SUFFICES ASSUME Init PROVE FileInv OBVIOUS
<1>1. /\ DOMAIN holders = {} /\ holders = [k \in DOMAIN holders |-> holders[k]]
      /\ recentRank = <<>> /\ totalSize = 0
  BY DEF Init, CacheInit
<1>2. CacheInv
  <2>1. SizeSum(holders, {}) = 0 BY SumOfNone
  <2>2. <<>> \in Seq({}) /\ Listed(<<>>) = {} /\ Distinct(<<>>) BY DEF Listed, Distinct
  <2>3. IsFiniteSet({}) BY FS_EmptySet
  <2>4. IsCache(holders, recentRank, totalSize) BY <1>1, <2>1, <2>2, <2>3 DEF IsCache
  <2>5. Fits(holders, totalSize) BY <1>1 DEF Fits
  <2> QED BY <2>4, <2>5 DEF CacheInv
<1>3. StageInv
  <2>1. ASSUME NEW j \in Job PROVE StageIsKept(j)
    <3>1. PICK len \in {1, 4} : Len(Files[j]) = len BY JobFacts
    <3> QED BY <3>1 DEF Init, StageIsKept
  <2> QED BY <2>1, JobsAssumption DEF Init, StageInv, Phase
<1>4. KeysInv BY <1>1 DEF KeysInv
<1>5. LocksInv
  <2>1. ASSUME NEW k \in Key
        PROVE  /\ Lockers(locked, jobEpoch, k) = {} /\ Waiters(at, NextKeys, k) = {}
               /\ LocksIn(holders, k) = 0
    <3>1. ASSUME NEW l \in Job \X (1..4) PROVE ~ (l[2] <= locked[l[1]])
      <4>1. l[1] \in Job /\ l[2] \in 1..4 OBVIOUS
      <4> QED BY <4>1 DEF Init
    <3> QED BY <1>1, <3>1 DEF Init, Lockers, Waiters, LocksIn
  <2>2. IsFiniteSet({}) /\ Cardinality({}) = 0 BY FS_EmptySet
  <2> QED BY <2>1, <2>2 DEF LocksInv
<1>6. FilesAreThere BY DEF Init, FilesAreThere
<1> QED BY <1>2, <1>3, <1>4, <1>5, <1>6 DEF FileInv

LEMMA StepKeepsFiles == FileInv /\ ThreadInv /\ [Next]_vars => FileInv'
<1> SUFFICES ASSUME FileInv, ThreadTypeOK, [Next]_vars PROVE FileInv' BY DEF ThreadInv
<1>1. ASSUME NEW j \in Job, Pipeline(j) PROVE FileInv'
  BY <1>1, StageFiles, GetFileFiles, UnlockFileFiles DEF Pipeline
<1>2. ASSUME NEW j \in Job, Handling(j) PROVE FileInv'
  BY <1>2, StageFiles, LockFileFiles DEF Handling
<1>3. ASSUME NEW j \in Job, Arrive(j) PROVE FileInv' BY <1>3, ArriveFiles
<1>4. ASSUME NEW k \in (0..MaxResets) \X File, FileIsLoaded(k) PROVE FileInv'
  BY <1>4, FileIsLoadedFiles
<1>5. ASSUME \/ \E j \in Job : StopJob(j) \/ SendResult(j)
             \/ ResetCache \/ Stop \/ Closing \/ UNCHANGED vars
      PROVE  FileInv'
  BY <1>5, OtherFiles
<1> QED BY <1>1, <1>2, <1>3, <1>4, <1>5 DEF Next

LEMMA FilesAreKept == Spec => [](FileInv /\ ThreadInv)
BY InitFiles, InitThreads, StepKeepsFiles, StepKeepsThreads, PTL DEF Spec

\* What a pipeline copies into its sandbox is on the disk and is a file: from the Get
\* that gave its path no unlock and no load of another job removes it, in a cache of
\* any size.
THEOREM CopiedFilesAreThere == Spec => []FilesAreThere
<1>1. FileInv => FilesAreThere BY DEF FileInv
<1> QED BY FilesAreKept, <1>1, PTL

\* It is not of an older epoch than the job, whatever the cache was asked to load when.
THEOREM CopiedFilesAreFresh == Spec => []FilesAreFresh
<1>1. FileInv => FilesAreFresh
  <2> SUFFICES ASSUME FileInv, NEW j \in Job, at[j] = "copying"
               PROVE  holders[NextKey(j)].file.content >= jobEpoch[j]
    BY DEF FilesAreFresh
  <2>1. PICK k : k = NextKey(j) OBVIOUS
  <2>2. k[1] = jobEpoch[j] BY <2>1 DEF NextKey, KeyOf
  <2>3. k \in DOMAIN holders /\ holders[k].file \notin {Loading, Failed}
    BY <2>1 DEF FileInv, FilesAreThere, IsLoaded, IsError
  <2>4. holders[k] \in HolderOf(k) BY <2>3 DEF FileInv, CacheInv, IsCache
  <2>5. PICK n \in Nat : n >= k[1] /\ holders[k].file = Loaded(n) BY <2>3, <2>4 DEF HolderOf
  <2> QED BY <2>1, <2>5, <2>2, FilesDiffer
<1> QED BY FilesAreKept, <1>1, PTL

\* No lock is lost or left over.
THEOREM LocksAreCounted == Spec => []LocksMatchJobs
<1>1. FileInv => LocksMatchJobs
  <2> SUFFICES ASSUME FileInv, NEW k \in DOMAIN holders
               PROVE  holders[k].locks =
                 Cardinality({l \in Job \X (1..4) :
                                l[2] <= locked[l[1]] /\ KeyOf(l[1], Files[l[1]][l[2]]) = k})
                 + Cardinality({j \in Job : at[j] = "waiting" /\ NextKey(j) = k})
    BY DEF LocksMatchJobs
  <2>1. k \in Key BY DEF FileInv, CacheInv, IsCache
  <2>2. holders[k].locks = Cardinality(Lockers(locked, jobEpoch, k))
                           + Cardinality(Waiters(at, NextKeys, k))
    BY <2>1 DEF FileInv, LocksInv, LocksIn
  <2>3. /\ Lockers(locked, jobEpoch, k) =
             {l \in Job \X (1..4) : l[2] <= locked[l[1]] /\ KeyOf(l[1], Files[l[1]][l[2]]) = k}
        /\ Waiters(at, NextKeys, k) = {j \in Job : at[j] = "waiting" /\ NextKey(j) = k}
    BY DEF Lockers, KeyOf, Waiters, NextKeys
  <2> QED BY <2>2, <2>3
<1> QED BY FilesAreKept, <1>1, PTL

\* The size that the cache counts is that of its files, and it is over the bound only for
\* files that are locked, though not every operation that gives up a lock looks at it.
THEOREM TheRestFits == Spec => []OnlyLockedFilesExceed
<1>1. FileInv => OnlyLockedFilesExceed
  <2> SUFFICES ASSUME FileInv PROVE OnlyLockedFilesExceed OBVIOUS
  <2>1. totalSize = MapThenSumSet(LAMBDA k : holders[k].size, DOMAIN holders)
    BY DEF FileInv, CacheInv, IsCache, SizeSum
  <2>2. \A k \in DOMAIN holders : holders[k].locks \in Nat
    BY DEF FileInv, CacheInv, IsCache, HolderOf
  <2>3. totalSize > SizeBound => \A k \in DOMAIN holders : IsLoaded(k) => holders[k].locks > 0
    BY <2>2 DEF FileInv, CacheInv, Fits, IsLoaded
  <2> QED BY <2>1, <2>3 DEF OnlyLockedFilesExceed
<1> QED BY FilesAreKept, <1>1, PTL

\* The types, with the sizes and locks of the cache.
THEOREM InvokerTypeOK == Spec => []TypeOK
<1>1. FileInv /\ ThreadInv => TypeOK
  <2> SUFFICES ASSUME FileInv, ThreadTypeOK PROVE TypeOK BY DEF ThreadInv
  <2>1. CacheTypeOK
    <3>1. /\ DOMAIN holders \subseteq Key /\ IsFiniteSet(DOMAIN holders)
          /\ \A k \in DOMAIN holders : holders[k] \in HolderOf(k)
          /\ recentRank \in Seq(DOMAIN holders) /\ totalSize = SizeSum(holders, DOMAIN holders)
      BY DEF FileInv, CacheInv, IsCache
    <3>2. \A k \in DOMAIN holders : holders[k].size \in Nat /\ holders[k].locks \in Nat
      BY <3>1 DEF HolderOf
    <3>3. totalSize \in Nat BY <3>1, <3>2, SumIsNatural
    <3>4. recentRank \in Seq(Key) BY <3>1
    <3>5. ASSUME NEW k \in DOMAIN holders
          PROVE  \/ holders[k].file \in {Loading, Failed}
                 \/ holders[k].file.is = "file" /\ holders[k].file.content \in Nat
      BY <3>1 DEF HolderOf, Loaded
    <3> QED BY <3>1, <3>2, <3>3, <3>4, <3>5 DEF CacheTypeOK
  <2>2. jobEpoch \in [Job -> 0..epoch] /\ locked \in [Job -> 0..4] /\ loads \in [Job -> 0..4]
    <3>1. ASSUME NEW j \in Job
          PROVE  jobEpoch[j] \in 0..epoch /\ locked[j] \in 0..4 /\ loads[j] \in 0..4
      <4>1. PICK len \in {1, 4} : Len(Files[j]) = len BY JobFacts
      <4>2. /\ jobEpoch[j] \in Nat /\ locked[j] \in Nat /\ loads[j] \in Nat
            /\ epoch \in Nat /\ jobEpoch[j] <= epoch /\ locked[j] <= len /\ loads[j] <= len
        BY <4>1, JobsAssumption DEF FileInv, StageInv, StageIsKept
      <4> QED BY <4>2
    <3> QED BY <3>1 DEF FileInv, StageInv
  <2> QED BY <2>1, <2>2 DEF TypeOK, FileInv, StageInv, ThreadTypeOK
<1> QED BY FilesAreKept, <1>1, PTL
=============================================================================
