----------------------------- MODULE InvokerJobs -----------------------------
(* What an invoker process does with the jobs it is sent (invoker/job.go, the
   pipelines, threads_executor.go), on top of its file cache, from the request to
   the result, and until the process has shut down.

   The handler of a job locks its files one after the other and gives the job to
   the sandbox threads.  A sandbox thread copies the files it needs into its
   sandbox, lets a runner thread execute the process, goes on to the checker if the
   job is a test that ran well, stores what came out and unlocks the files.

   The simple sandbox (invoker/sandbox/simple) tells a stopped process by the
   context of the job; isolate does so only if it is running when it is stopped,
   and fails on a context that is cancelled before it starts.                  *)
EXTENDS LRUCache, FiniteSetsExt

CONSTANTS
  CompileJob, TestJob,
  Files,          \* of each job, in the order its handler locks them
  Sandboxes, Runners,
  SimpleSandbox,  \* the type of the sandboxes: simple, or isolate
  MaxResets, MaxFaults,  \* bounds
  Again           \* bound: the jobs of which the work may come again

Job == CompileJob \cup TestJob

ASSUME JobsAssumption ==
  /\ CompileJob \cap TestJob = {}
  /\ Files \in [Job -> Seq(File)]
  /\ \A j \in CompileJob : Len(Files[j]) = 1   \* the source
  /\ \A j \in TestJob : Len(Files[j]) = 4      \* binary, input, answer, checker
  /\ Sandboxes \in Nat \ {0} /\ Runners \in Nat \ {0}
  /\ SimpleSandbox \in BOOLEAN
  /\ Again \subseteq Job
  /\ MaxResets \in Nat /\ MaxFaults \in Nat

VARIABLES
  up,          \* of the process, see Phase
  epoch,       \* InvokerStorage.epoch
  handler,     \* of the request of each job: where it is
  jobEpoch,    \* job.storageEpoch
  locked,      \* how many files of the job are locked: the length of job.defers
  at,          \* where the pipeline of the job is
  loads,       \* how many files its pipeline has copied into the sandbox
  sandboxes,   \* SandboxThreads: values and closed
  runners,     \* RunnerThreads
  stopped,     \* jobs whose context is cancelled
  verdict,     \* the verdict of the job
  sent,        \* jobs of which the upload of the result is over
  troubled,    \* jobs that had a failure of a file, a sandbox, a checker or an upload
  faults

processVars == <<up, epoch>>
requestVars == <<handler, jobEpoch>>
pipelineVars == <<at, loads, verdict, troubled>>
threadVars == <<sandboxes, runners>>
endVars == <<stopped, sent>>
vars == <<cacheVars, processVars, requestVars, locked, pipelineVars, threadVars,
          endVars, faults>>

\* "closing": StopCtx is done.  No request comes any more, but those that have begun
\* go on until the exit.
Phase == {"running", "closing", "exited"}

Stage == {"none", "queued", "loading", "waiting", "copying", "ready", "execution",
          "running", "uploading", "finishing", "ended"}

InPipeline == Stage \ {"none", "queued", "ended"}

\* "run" stands for every verdict that a process or a checker earns.
Verdict == {"none", "run", "SK", "CF"}

Executor == [values : Seq(Job), closed : BOOLEAN]

NewExecutor == [values |-> <<>>, closed |-> FALSE]

TypeOK ==
  /\ CacheTypeOK
  /\ up \in Phase
  /\ epoch \in 0..MaxResets
  /\ handler \in [Job -> {"none", "locking", "done", "refused"}]
  /\ jobEpoch \in [Job -> 0..epoch]
  /\ locked \in [Job -> 0..4] /\ loads \in [Job -> 0..4]
  /\ at \in [Job -> Stage]
  /\ sandboxes \in Executor
  /\ runners \in Executor
  /\ stopped \subseteq TestJob
  /\ verdict \in [Job -> Verdict]
  /\ sent \subseteq Job /\ troubled \subseteq Job
  /\ faults \in 0..MaxFaults

Init ==
  /\ CacheInit
  /\ up = "running" /\ epoch = 0
  /\ handler = [j \in Job |-> "none"] /\ jobEpoch = [j \in Job |-> 0]
  /\ locked = [j \in Job |-> 0] /\ loads = [j \in Job |-> 0]
  /\ at = [j \in Job |-> "none"]
  /\ sandboxes = NewExecutor /\ runners = NewExecutor
  /\ stopped = {}
  /\ verdict = [j \in Job |-> "none"]
  /\ sent = {} /\ troubled = {}
  /\ faults = 0

Fault == faults < MaxFaults /\ faults' = faults + 1

\* (Mistake: the epoch is not part of the key.)
KeyForEver(j, file) == <<0, file>>

KeyOf(j, file) == <<jobEpoch[j], file>>

\* The files in the order the pipeline loads them, and after how many of them it
\* has a process to execute.
LoadOrder(j) ==
  IF j \in TestJob THEN <<Files[j][1], Files[j][2], Files[j][4], Files[j][3]>> ELSE Files[j]
RunsAfter(j) == IF j \in TestJob THEN {2, 4} ELSE {1}
IsChecker(j) == loads[j] = 4

At(j, from, to) == at[j] = from /\ at' = [at EXCEPT ![j] = to]

\* failJob: the pipeline goes to finish with the verdict CF.
Fails(j, from) ==
  /\ At(j, from, "finishing")
  /\ verdict' = [verdict EXCEPT ![j] = "CF"]

FailsInTrouble(j, from) == Fails(j, from) /\ troubled' = troubled \cup {j}

----------------------------------------------------------------------------
(* The requests.                                                            *)

\* initJob of handleNewJob, of a job that the database knows.  The same work comes
\* again, as another job, when a submission is tested anew after the cache was reset.
Arrive(j) ==
  /\ up = "running"
  /\ handler[j] = "none" \/ (j \in sent \cap Again /\ jobEpoch[j] < epoch)
  /\ handler' = [handler EXCEPT ![j] = "locking"]
  /\ jobEpoch' = [jobEpoch EXCEPT ![j] = epoch]
  /\ at' = [at EXCEPT ![j] = "none"]
  /\ loads' = [loads EXCEPT ![j] = 0]
  /\ verdict' = [verdict EXCEPT ![j] = "none"]
  /\ troubled' = troubled \ {j} /\ stopped' = stopped \ {j} /\ sent' = sent \ {j}
  /\ UNCHANGED <<cacheVars, processVars, locked, threadVars, faults>>

\* newCompileJob and newTestJob
LockFile(j) ==
  /\ handler[j] = "locking" /\ locked[j] < Len(Files[j])
  /\ Lock(KeyOf(j, Files[j][locked[j] + 1]))
  /\ locked' = [locked EXCEPT ![j] = @ + 1]
  /\ UNCHANGED <<processVars, requestVars, pipelineVars, threadVars, endVars, faults>>

\* SandboxThreads.add; a refused job leaves its files locked.
AddJob(j) ==
  /\ handler[j] = "locking" /\ locked[j] = Len(Files[j])
  /\ IF sandboxes.closed
     THEN /\ handler' = [handler EXCEPT ![j] = "refused"]
          /\ UNCHANGED <<at, sandboxes>>
     ELSE /\ handler' = [handler EXCEPT ![j] = "done"]
          /\ At(j, "none", "queued")
          /\ sandboxes' = [sandboxes EXCEPT !.values = Append(@, j)]
  /\ UNCHANGED <<cacheVars, processVars, jobEpoch, locked, loads, verdict, troubled,
                 runners, endVars, faults>>

\* stopJob, of a test in ActiveJobs: handleNewJob registers it there after AddJob,
\* where a job that is over by then stays (module Cluster), to no effect here.
StopJob(j) ==
  /\ j \in TestJob \ stopped
  /\ handler[j] = "done" /\ at[j] # "ended"
  /\ stopped' = stopped \cup {j}
  /\ UNCHANGED <<cacheVars, processVars, requestVars, locked, pipelineVars, threadVars,
                 sent, faults>>

\* resetCache, after the files of the storage were changed.
ResetCache ==
  /\ up = "running" /\ epoch < MaxResets
  /\ epoch' = epoch + 1
  /\ UNCHANGED <<cacheVars, up, requestVars, locked, pipelineVars, threadVars, endVars, faults>>

----------------------------------------------------------------------------
(* The pipelines.                                                           *)

\* The threads that are at work.
AtWork(stages) == {j \in Job : at[j] \in stages}

IsFree(count, work) == Cardinality(work) < count

IsNext(executor, j) == executor.values # <<>> /\ Head(executor.values) = j

\* A sandbox thread takes the job (runThread) and initialises its sandbox.
TakeJob(j) ==
  /\ IsFree(Sandboxes, AtWork(InPipeline))
  /\ IsNext(sandboxes, j)
  /\ sandboxes' = [sandboxes EXCEPT !.values = Tail(@)]
  /\ \/ At(j, "queued", "loading") /\ UNCHANGED <<verdict, troubled, faults>>
     \/ FailsInTrouble(j, "queued") /\ Fault
  /\ UNCHANGED <<cacheVars, processVars, requestVars, locked, loads, runners, endVars>>

\* loadResource: the next file is asked of the cache ...
NextKey(j) == KeyOf(j, LoadOrder(j)[loads[j] + 1])

IsError(k) == holders[k].file = Failed

Got(j, from) ==
  \/ /\ ~IsError(NextKey(j))
     /\ At(j, from, "copying")
     /\ UNCHANGED <<verdict, troubled>>
  \/ /\ IsError(NextKey(j))
     /\ FailsInTrouble(j, from)

GetFile(j) ==
  /\ at[j] = "loading"
  /\ \/ GetLoaded(NextKey(j)) /\ Got(j, "loading")
     \/ /\ GetAndWait(NextKey(j))
        /\ At(j, "loading", "waiting")
        /\ UNCHANGED <<verdict, troubled>>
  /\ UNCHANGED <<processVars, requestVars, locked, loads, threadVars, endVars, faults>>

GetAwaitedFile(j) ==
  /\ at[j] = "waiting"
  /\ GetAfterWait(NextKey(j))
  /\ Got(j, "waiting")
  /\ UNCHANGED <<processVars, requestVars, locked, loads, threadVars, endVars, faults>>

\* ... and copied into the sandbox, from the path that the cache gave.
CopyFile(j) ==
  /\ at[j] = "copying"
  /\ IsLoaded(NextKey(j))
  /\ At(j, "copying", IF loads[j] + 1 \in RunsAfter(j) THEN "ready" ELSE "loading")
  /\ loads' = [loads EXCEPT ![j] = @ + 1]
  /\ UNCHANGED <<cacheVars, processVars, requestVars, locked, verdict, troubled, threadVars,
                 endVars, faults>>

\* executeCompilationCommand, executeTestRunCommand and executeCheckerRunCommand:
\* runProcess gives the process to the runners, who may refuse it.
ExecuteCommand(j) ==
  /\ \/ /\ ~runners.closed
        /\ At(j, "ready", "execution")
        /\ runners' = [runners EXCEPT !.values = Append(@, j)]
        /\ UNCHANGED verdict
     \/ /\ runners.closed
        /\ Fails(j, "ready")
        /\ UNCHANGED runners
  /\ UNCHANGED <<cacheVars, processVars, requestVars, locked, loads, troubled,
                 sandboxes, endVars, faults>>

\* A runner thread takes it.  Isolate is not started if the context is cancelled by
\* then (exec.Cmd.Start fails), which is an error of the run.
RunProcess(j) ==
  /\ IsFree(Runners, AtWork({"running"}))
  /\ IsNext(runners, j)
  /\ IF ~SimpleSandbox /\ j \in stopped
     THEN Fails(j, "execution")
     ELSE At(j, "execution", "running") /\ UNCHANGED verdict
  /\ runners' = [runners EXCEPT !.values = Tail(@)]
  /\ UNCHANGED <<cacheVars, processVars, requestVars, locked, loads, troubled,
                 sandboxes, endVars, faults>>

Ends(j, stage, v) ==
  /\ At(j, "running", stage)
  /\ verdict' = [verdict EXCEPT ![j] = v]
  /\ UNCHANGED <<troubled, faults>>

\* sandbox.Run gives a verdict, and the wait of the pipeline is over: a test that
\* ran well goes on to the checker, and what came out of a compilation or a checked
\* test is stored.
ProcessEnds(j) ==
  /\ at[j] = "running"
  /\ ~(SimpleSandbox /\ j \in stopped)
  /\ \/ j \in TestJob /\ ~IsChecker(j) /\ Ends(j, "loading", "none")
     \/ j \in TestJob /\ ~IsChecker(j) /\ Ends(j, "finishing", "run")
     \/ (j \in CompileJob \/ IsChecker(j)) /\ Ends(j, "uploading", "run")
  /\ UNCHANGED <<cacheVars, processVars, requestVars, locked, loads, threadVars, endVars>>

\* It was stopped.
ProcessIsStopped(j) ==
  /\ j \in stopped
  /\ Ends(j, "finishing", "SK")
  /\ UNCHANGED <<cacheVars, processVars, requestVars, locked, loads, threadVars, endVars>>

\* RunResult.Err, or a checker that took too long, or what is prepared for the process
\* or read of its results.
ProcessFails(j) ==
  /\ FailsInTrouble(j, "running")
  /\ Fault
  /\ UNCHANGED <<cacheVars, processVars, requestVars, locked, loads, threadVars, endVars>>

\* uploadCompilationResources and uploadTestRunResources
Upload(j) ==
  /\ \/ At(j, "uploading", "finishing") /\ UNCHANGED <<verdict, troubled, faults>>
     \/ FailsInTrouble(j, "uploading") /\ Fault
  /\ UNCHANGED <<cacheVars, processVars, requestVars, locked, loads, threadVars, endVars>>

\* deferFunc in finish: the file locked last is unlocked first.
UnlockFile(j) ==
  /\ at[j] = "finishing" /\ locked[j] > 0
  /\ Unlock(KeyOf(j, Files[j][locked[j]]))
  /\ locked' = [locked EXCEPT ![j] = @ - 1]
  /\ UNCHANGED <<processVars, requestVars, pipelineVars, threadVars, endVars, faults>>

\* The rest of finish; the thread is free, the result is sent by a goroutine.
Finish(j) ==
  /\ locked[j] = 0
  /\ At(j, "finishing", "ended")
  /\ UNCHANGED <<cacheVars, processVars, requestVars, locked, loads, verdict, troubled,
                 threadVars, endVars, faults>>

\* uploadJobResult, whatever comes of it.
SendResult(j) ==
  /\ at[j] = "ended" /\ j \notin sent
  /\ sent' = sent \cup {j}
  /\ UNCHANGED <<cacheVars, processVars, requestVars, locked, pipelineVars, threadVars,
                 stopped, faults>>

----------------------------------------------------------------------------
(* The downloads.                                                           *)

\* getFiles, and what the cache does then; the file is what the storage has by now.
FileIsLoaded(k) ==
  /\ \/ LoadAbsentValue(k, epoch) /\ UNCHANGED faults
     \/ LoadError(k) /\ Fault
  /\ UNCHANGED <<processVars, requestVars, locked, pipelineVars, threadVars, endVars>>

----------------------------------------------------------------------------
(* The end of the process.                                                  *)

UpTo(from, to) == up = from /\ up' = to

Stop ==
  /\ UpTo("running", "closing")
  /\ UNCHANGED <<cacheVars, epoch, requestVars, locked, pipelineVars,
                 threadVars, endVars, faults>>

Close(executor) == [executor EXCEPT !.closed = TRUE]

StopSandboxThreads ==
  /\ up = "closing" /\ ~sandboxes.closed
  /\ sandboxes' = Close(sandboxes)
  /\ UNCHANGED <<cacheVars, processVars, requestVars, locked, pipelineVars, runners, endVars,
                 faults>>

\* (Mistake: a thread does not take the rest of a closed executor.)
AllEndedAtOnce(executor, work) == executor.closed /\ work = {}

\* A thread ends when it finds its executor closed and empty (runThread).
AllEnded(executor, work) == executor.closed /\ executor.values = <<>> /\ work = {}

\* (Mistake: the runners are stopped like the sandbox threads, with StopCtx.)
StopRunnersAtOnce ==
  /\ up = "closing" /\ ~runners.closed
  /\ runners' = Close(runners)
  /\ UNCHANGED <<cacheVars, processVars, requestVars, locked, pipelineVars, sandboxes, endVars,
                 faults>>

\* (Mistake: the runner threads are waited for too.)
StopRunnersAfterAll ==
  /\ AllEnded(sandboxes, AtWork(InPipeline)) /\ ~runners.closed
  /\ AllEnded(runners, AtWork({"running"}))
  /\ runners' = Close(runners)
  /\ UNCHANGED <<cacheVars, processVars, requestVars, locked, pipelineVars, sandboxes, endVars,
                 faults>>

\* threadsWaiter: the runners are stopped after the last sandbox thread.
StopRunnerThreads ==
  /\ AllEnded(sandboxes, AtWork(InPipeline)) /\ ~runners.closed
  /\ runners' = Close(runners)
  /\ UNCHANGED <<cacheVars, processVars, requestVars, locked, pipelineVars, sandboxes, endVars,
                 faults>>

\* (Mistake: successJob starts its goroutine like failJob.)
AwaitedNone == {}

\* What Run waits for besides the threads: the results that successJob sends by TS.Go;
\* failJob starts a goroutine that nothing waits for.
Awaited == {j \in Job : at[j] = "ended" /\ verdict[j] # "CF"}

\* stopWG.Wait is over and the process ends, whatever is still going on in it.
Exit ==
  /\ UpTo("closing", "exited")
  /\ AllEnded(runners, AtWork({"running"}))
  /\ Awaited \subseteq sent
  /\ UNCHANGED <<cacheVars, epoch, requestVars, locked, pipelineVars,
                 threadVars, endVars, faults>>

----------------------------------------------------------------------------
Handling(j) == LockFile(j) \/ AddJob(j)

Pipeline(j) ==
  \/ TakeJob(j) \/ GetFile(j) \/ GetAwaitedFile(j) \/ CopyFile(j)
  \/ ExecuteCommand(j) \/ RunProcess(j)
  \/ ProcessEnds(j) \/ ProcessIsStopped(j) \/ ProcessFails(j)
  \/ Upload(j) \/ UnlockFile(j) \/ Finish(j)

Closing == StopSandboxThreads \/ StopRunnerThreads \/ Exit

Next ==
  /\ up # "exited"
  /\ \/ \E j \in Job :
          \/ Arrive(j) \/ Handling(j) \/ StopJob(j) \/ Pipeline(j) \/ SendResult(j)
     \/ \E k \in (0..MaxResets) \X File : FileIsLoaded(k)
     \/ ResetCache \/ Stop \/ Closing

\* Threads and goroutines are scheduled; downloads, processes and calls come to an
\* end.  Requests need not come, and nobody need stop the process.  A job takes
\* finitely many steps, so it is enough to assume that some of the work that is left
\* is done, of whatever thread.
Work ==
  /\ up # "exited"
  /\ \/ \E j \in Job : Handling(j) \/ Pipeline(j) \/ SendResult(j)
     \/ \E k \in (0..MaxResets) \X File : FileIsLoaded(k)
     \/ Closing

Fairness == WF_vars(Work)

Spec == Init /\ [][Next]_vars /\ Fairness

----------------------------------------------------------------------------
\* Why handleNewJob locks the files before anything runs, and finish unlocks them
\* last: between Get, which gives a path, and the copy of the file nothing removes
\* it from the disk, however full the cache is.
FilesAreThere ==
  \A j \in Job : at[j] = "copying" => IsLoaded(NextKey(j)) /\ ~IsError(NextKey(j))

\* The locks of a file are those of the jobs that have locked it and of the calls of
\* Get that wait for it, so that no lock is left when these are over, except by a job
\* that AddJob refused.
LocksMatchJobs ==
  \A k \in DOMAIN holders :
    holders[k].locks =
      Cardinality({l \in Job \X (1..4) :
                     l[2] <= locked[l[1]] /\ KeyOf(l[1], Files[l[1]][l[2]]) = k})
      + Cardinality({j \in Job : at[j] = "waiting" /\ NextKey(j) = k})

\* The cache shrinks when a file is loaded or unlocked, but not when Get gives up its
\* lock or when a locked file is passed over: nevertheless, whenever the files it has
\* are over its bound every one of them is locked by a job.
OnlyLockedFilesExceed ==
  /\ totalSize = MapThenSumSet(LAMBDA k : holders[k].size, DOMAIN holders)
  /\ totalSize > SizeBound => \A k \in DOMAIN holders : IsLoaded(k) => holders[k].locks > 0

\* A job that arrives after the cache was reset is tested with the files that were in
\* the storage by then or later ones, whatever older jobs still load and unlock.
FilesAreFresh ==
  \A j \in Job : at[j] = "copying" => holders[NextKey(j)].file.content >= jobEpoch[j]

\* A job fails only because something failed: the shutdown, which ends the runners
\* after the sandbox threads, makes no CF of a verdict, and StopJob only with isolate,
\* before a process of the job is started.
FailuresAreReal ==
  \A j \in Job : verdict[j] = "CF" => j \in troubled \/ (~SimpleSandbox /\ j \in stopped)

\* No job that the executor accepted is lost to the shutdown: by the time the process
\* exits each of them was tested to the end and, unless it failed, its result was sent
\* (or tried to be), whether it was waiting for a thread, for a file or for the runners
\* when StopCtx was done.
ResultsAreSent ==
  up = "exited" =>
    \A j \in Job : handler[j] = "done" => at[j] = "ended" /\ (verdict[j] = "CF" \/ j \in sent)

\* The jobs that the executor accepted are tested to the end, through a shutdown too,
\* and for all that they wait for files, threads and each other: as they are finitely
\* many, again and again none is left.
AcceptedJobsEnd == []<>(\A j \in Job : at[j] \in {"none", "ended"})

\* The shutdown is not a deadlock: sandbox threads wait for the runners, and these are
\* stopped after them.
ShutdownEnds == up = "closing" ~> up = "exited"

============================================================================
