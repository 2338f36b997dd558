# Fusty in TLA+

Fusty polls network devices. A *controller* knows the devices and their jobs
and hands out executions; *workers* fetch them over HTTP, run them on the
devices at their time and post what they obtained; the controller writes each
result to a file of a git repository. This directory holds TLA+ models of that
program, the TLC configurations that check them on small instances, and proofs
checked by TLAPS.

Contents: [the system](#the-system), [the modules](#the-modules),
[the runs](#the-runs), [what the runs found](#what-the-runs-found),
[the proofs](#the-proofs), [what is left out](#what-is-left-out),
[the plan](#the-plan), [how to run it](#how-to-run-it).

## The system

Fusty's own Go code is in `main.go`, `config/`, `controller/`, `model/` and
`worker/`; `vendor/` holds forks of an SSH and an SFTP library, `integration/`
tests against a virtual machine.

| component | source | state | operations | talks to |
|---|---|---|---|---|
| Scheduler | `controller/scheduler.go` | per device job `lastRun` under `lastRunLock`; the lists of device jobs per tag (fixed at start) | `NextExecution`, `nextRun` | called by `/worker/next` |
| HTTP API | `controller/api.go` | none but the locals of each request | `/worker/ping`, `/worker/next`, `/worker/complete` | workers; scheduler; data store |
| Git data store, queue | `controller/data_store.go` | `pendingWrites`, `waitingOnRunningWrites`, `runningWriteIds` under `writesLock`; unbuffered `pendingWorkChan` | `Store`, `nextJobs`, `markJobsCompleted`, `run` | handlers; pool workers |
| Git data store, pool | `controller/data_store.go` | a clone on disk per pool worker; the remote repository | `initialize`, `clean`, `commitJob`, `push` | git |
| Worker loop | `worker/worker.go` | `runningExecutionCount`; timers of scheduled executions | `tick` twice per period, `scheduleExecution`, `runExecutionAndPostResult` | controller; executor |
| Executor and session | `worker/executor.go`, `worker/session.go` | shell output buffer shared with the SSH reader | `runCommands`, `fetchFile`, `scrubBytes` | device |
| Job and device stores, model | `controller/job_store.go`, `controller/device_store.go`, `model/` | jobs and devices, built once at start | `ApplyConfig`, `DeepCopy`, `ApplyTemplateValues`, `Validate` | configuration |
| Controller, configuration, command line | `controller/controller.go`, `config/`, `main.go` | the configuration | start-up, authentication, decoding | |

What is hard about each, and what makes it correct:

* **Scheduler and `/worker/next`.** Handlers run concurrently, walk shared
  lists one device job at a time, and the clock moves while they do. Correct
  means: a run goes to one worker only; `lastRun` never moves over a run that
  is still to come; a worker told "that is all" has really been told all.
* **Data store queue.** Handlers and pool workers share three maps and an
  unbuffered channel that carries wake-ups without data. Correct means: one
  writer per file, no result and no wake-up lost, results of a file in order,
  nobody blocked forever.
* **Pool.** git commands fail one by one, failures are only logged, clones
  survive restarts. Correct means: no commit is lost; what is not pushed is at
  least logged; a clone can always go on.
* **Worker.** Timers, running executions and requests overlap; responses get
  lost or come late, a failed post ends the worker. Correct means: no run is
  executed twice, none disappears without a known cause, none is missed while
  the requests are answered, and no more than `MaxJobs` run at once.
* **Executor.** The reader of the SSH session writes the buffer that the
  expect loop reads. Correct means: the output is in order and nothing of it
  that was read is lost, a verdict is true of it, and it leaves scrubbed.
* **Configuration chain.** Generic, job and device-job settings are applied in
  turn on deep copies. Correct means: the most specific setting wins and no
  device sees another's.

`PROJECT.json` lists every hazard at its line, with the properties that cover
it or the reason why none does.

## The modules

| module | what it is |
|---|---|
| `FileWriteQueue` | abstract: what the data store promises about the writes of a file |
| `GitDataStore` | the queue of the data store: `Store`, `nextJobs`, `pushJobs`, `markJobsCompleted`, the lock and the channel |
| `MCGitDataStore` | its constants for TLC |
| `GitDataStoreProofs` | theorems about it |
| `GitPool` | the clones of the pool: `initialize`, `clean`, `commitJob`, `push`, against the remote, with failing git commands and restarts |
| `MCGitPool` | its constants for TLC |
| `GitPoolProofs` | theorems about it |
| `Scheduler` | `NextExecution`, `nextRun` and the loop of `/worker/next` |
| `MCScheduler` | its constants for TLC |
| `SchedulerProofs` | theorems about it |
| `RunDispenser` | abstract: what `/worker/next` promises about the runs it hands out |
| `Worker` | the main loop of the workers, their timers, executions and posts, against one controller |
| `MCWorker` | its constants for TLC |
| `WorkerProofs` | theorems about it |
| `Fusty` | all of it together: `Worker`, the handlers of `/worker/complete` and `FileWriteQueue` |
| `MCFusty` | its constants for TLC |
| `FustyProofs` | theorems about it |
| `JobConfig` | the settings of jobs and what applying them does, and in closed form what a chain of settings describes |
| `ConfigChain` | the start of a controller: job store, device store and tag lists made of a configuration |
| `MCConfigChain` | the configurations for TLC |
| `ConfigChainProofs` | theorems about it |
| `Executor` | one execution: the command loop, the buffer it shares with the SSH reader, the scrubbers |
| `MCExecutor` | its constants for TLC |
| `ExecutorProofs` | theorems about it |
| `SequenceLemmas` | facts about sequences that the proofs share, and induction |

### GitDataStore

| variable | in the code |
|---|---|
| `pending`, `waiting` | `pendingWrites`, `waitingOnRunningWrites`; the empty list is a missing entry |
| `running` | `runningWriteIds`, a set of ids per key; the empty set is a missing entry (the code deletes a map with its last id) |
| `lock` | `writesLock`, only while it is held across a blocking operation |
| `wpc` | where a pool worker is in `run`: `receive` (at `<-pendingWorkChan`), `next` (before `nextJobs`), `push`, `mark` (before `markJobsCompleted`), `send` (inside it, blocked on the channel) |
| `batch` | the local `jobs` of `run` |
| `hpc` | where the handler of a result is: `posted` (before the critical section of `Store`), `sending` (blocked on the channel), `returned` |
| `pushed`, `arrived`, `file` | history: what went through `pushJobs`, the order `Store` took results in, what each file holds |

Every critical section of `writesLock` is straight-line code and one action,
except that of `markJobsCompleted`: it ends with a send on the unbuffered
channel, so the worker stays in `send` with `lock` taken until another worker
receives (`ReceiveFromMark`), and every other action that needs the lock waits.
A send and its receive are one action. `nextJobs` with nothing pending returns
`nil`; `run` then still calls `markJobsCompleted`, hence the `mark` stage with
an empty batch. `markJobsCompleted` walks the batch job by job and appends the
whole waiting list of the key at each of them: `Enqueued` repeats the list as
often as the batch has results of that key, and `waiting` is left as it is,
because no line of the program ever removes anything from
`waitingOnRunningWrites`. Go iterates over a map in any order, but only within
one key does the order of a batch matter, so a batch is kept per key.

`PushJobs` says what git can leave in the files. The whole of `pushJobs` may
fail (the file keeps what it had), the commit of any job may fail (the file
holds another result of the batch, or what it had), and the failures are only
logged: the batch is marked completed either way.

`FileWriteQueue` is the promise of `docs/data.md`: a result is accepted, a free
worker takes everything that is due, a file has one writer, and a worker lets
go of a file only after a write was attempted. It is at-least-once and says
nothing of the outcome of git. The refinement maps `writing` to the batches and
`written` to `pushed`; `Store` is `Accept`, `NextJobs` is `Begin`, `PushJobs`
is `Write`, `MarkJobsCompleted` is `Release`, the channel stutters.

### GitPool

| variable | in the code |
|---|---|
| `accepted`, `writing`, `written` | the queue, as `FileWriteQueue` specifies it |
| `stage` | where a pool worker is: `init` (in `initialize`, after a restart), `idle` (in `run`), in `pushJobs` before `clean` (`clean`) or after it (`commit`), `mark` (before `markJobsCompleted`) |
| `todo` | the results of the batch that the loop of `pushJobs` has not come to |
| `clone` | the clone at `gitWorker.dir`: the commits and the tree of its branch, the tree it last had in common with the remote (the merge base), the index, the working tree |
| `remote` | the repository at `conf.Url` |
| `author`, `logged`, `forgotten`, `epoch` | history: the result behind each commit, the results with an error in the log, those accepted before a restart, the restarts |

`GitPool` is the other half of the data store. `GitDataStore` implements
`FileWriteQueue` (checked and proved), and `GitPool` uses the actions of
`FileWriteQueue` for the queue: `Post` is its `Accept`, `Take` its `Begin`,
the three ways out of `pushJobs` its `Write`, `MarkJobsCompleted` its
`Release`. So whatever order the lock and the channel allow is an order here.
The order of a batch is arbitrary, and a result occurs in it once; the repetitions
that `GitDataStore` shows come back as later batches, since a result that was
written may be taken again.

The errors of `pushJobs` are its control flow: `clean` fails, log, return
(`CleanFails`); a `commitJob` fails, log, go on with the next result
(`CommitJobFails`); `push` fails, log, return (`PushFails`). A `commitJob` that
fails may have written its file, and added it, already. A `push` that fails
may have reached the remote already.

git is external, and modelled by what the code relies on:
* a branch is a set of commit numbers with the tree of its last commit. Merge
  commits have no number; they enter the remote together with what they merge,
  so "contains" is inclusion;
* `reset --hard` sets index and tracked files to the last commit, keeps
  commits, and leaves untracked files alone;
* `pull` does nothing if the clone has all of the remote, moves the branch
  forward if it has nothing of its own, and else merges file by file against
  the common tree. It fails if both sides changed a file differently or if an
  untracked file is in the way. (A git that refuses to merge without being
  configured for it fails earlier, in a subset of these states plus every
  diverged one.) What a failed merge leaves is tracked, and the `reset --hard`
  that always comes first in `clean` removes it;
* `push` is taken only from a branch that contains the remote's (git rejects
  any other; that the remote's history only grows is therefore an assumption
  here and no property);
* with `GitMayFail` every command and every write may fail for reasons of its
  own, while failures were logged for fewer than `MaxLogged` results.

`writeGitFile` truncates the file before it writes: a write that fails leaves
`Torn`, a part of the contents (`Truncated`). `Unfinished` is what a
`commitJob` can leave that does not get to its commit: nothing, a torn file, a
written one, an added one. Nothing is undone, and `git add .` of the next
`commitJob` takes it along. `NoSilentLoss` therefore has two parts. No result is
dropped without a word (`NothingDropped`); and a file of the remote holds a
whole result of its own, or a part only if a failure was logged for this file
or the controller was stopped with a result of it (`NothingDamaged`). What counts
as logged is what the log lets a reader find out: `pushJobs` writes the error of
a `commitJob` with its job, but for a `clean` that failed only the directory of
the clone (`controller/data_store.go:267`), not which results were dropped with
it; the model counts them all as logged.

`PushedCloneCanPull` leaves out clones with untracked files. `reset --hard` keeps
those, and one that is in the way of what others pushed stops every pull; the
model has these states, and nothing in the program gets a clone out of them.

`Restart` stops the controller between any two git commands or in the middle
of a `commitJob` (`LeftBy`): queue and batches are gone, the clones stay, and
`initialize` only cleans them. One structure is configured (the default
`by_device`), so a result is one file. At the first start the clones are fresh
and the remote has a first commit. What a killed git leaves of its own (a lock
file) is left out.

### Scheduler

| variable | in the code |
|---|---|
| `now` | `time.Now()`; whole seconds stand for instants |
| `lastRun` | `deviceJob.lastRun` |
| `req` | per handler, the locals of `apiWorkerNext` and of the `NextExecution` it is in: query, `fromNow`, `max`, executions so far, tags and device jobs yet to look at |
| `epoch`, `granted` | history: restarts of the controller, runs handed out per device job |

`Begin` fixes the end of the window. `NextTag`, `Grant` and `Pass` are the two
nested loops of `NextExecution`: `nextRun` runs under `lastRunLock` and is the
only shared step, so it is one action (`Grant` if it returns a run, `Pass` if
the zero time). After a grant the handler's own loop calls `NextExecution`
again, which walks from the first tag. `Respond` ends the request. `Restart`
is a new controller process: `NewLocalScheduler` sets every `lastRun` to the
present and running requests are gone. A device with several tags is in
several lists, with one shared `deviceJob`. The cron library
(`Expression.Next`) is external and modelled by what it returns: the first
instant of the expression after a given one.

`RunDispenser` is what remains of all that for the one who asks: a set of runs
handed out since the controller was started (`handed`) and the open requests
(`open`). `Give` hands out a run of a request's window that is still to come,
was handed to nobody, and is the first such run of its device job; `Close`
answers a request that got all it asked for, or that has nothing left in its
window. Lists, tags, `lastRun` and the walk are gone. The refinement maps
`handed` to the runs granted in the present epoch and `open` to `req`; `Begin`
is `Open`, `Grant` is `Give`, `Respond` is `Close`, and `NextTag`, `Pass` and
`Exhausted` stutter: that they may is what `ShortAnswerIsComplete` is for.

### Worker

| variable | in the code |
|---|---|
| `now`, `handed`, `open` | the controller, as `RunDispenser` specifies it |
| `loop` | per worker, where the goroutine of `Start` is: at a tick, waiting for an answer until its timeout, asleep, or ended with its process |
| `timers` | executions with an `AfterFunc` that did not fire |
| `running`, `posting` | the goroutines of `runExecutionAndPostResult`, before and after `runExecution` returns |
| `count` | `runningExecutionCount` |
| `epoch`, `started`, `ended`, `since` | history: restarts of the controller, executions that began, executions that are over, since when the requests of a worker are answered in time and in full |

`Ask` and `Full` are the two outcomes of the comparison with `MaxJobs` in
`tick`; `Answer` sets the timers, `GiveUp` is every error of `nextExecutions`.
Sending a request and its arrival are one step; a request that never arrives
has no handler. A handler goes on when its worker has given up, and its answer
then reaches nobody (`AnswerNobody`): the runs in it are lost, since the
controller counts them as handed out. `Post` is a post that is answered,
whatever the answer; `PostFails` one that is not, where `resp` is nil and
`defer resp.Body.Close()` panics and ends the process with everything it held.
`StartAgain` is a new process. `Restart` is a new controller, which forgets what
it handed out; an execution therefore carries the epoch it comes from.

Clocks: workers and controller read one clock in whole seconds, so the skew
between machines is left out. With `Prompt` a step that is due is done before
the second is over (ticks, timers, the end of a sleep and of a timeout);
executions, posts and handlers take any time. Only `NoRunMissed` depends on it.
Redirects, which the client turns into errors, are left out.

### Fusty

`Fusty` has the variables of `Worker` and of `FileWriteQueue`, both by INSTANCE,
and what lies between them:

| variable | in the code |
|---|---|
| `failed`, `blank` | executions that ended with a failure, and those that ended with neither a failure nor contents |
| `waiting` | per worker, the goroutines of `runExecutionAndPostResult` inside `controllerClient.Do` |
| `arrived` | requests that a handler of `/worker/complete` is in, before `Store` |
| `answered` | responses on their way to a worker that waits for them |
| `refused`, `forgotten`, `acked` | history: results that a handler answered with an error, those accepted before a restart, executions whose answer came back |

`Worker` has a post as one step; here it is sent (`Send`, which may lose the
request), looked at by a handler (`Complete`), answered, and received
(`Acknowledged`, the `Post` of `Worker`) or given up (`GiveUpPost`, its
`PostFails`). The worker may give up at any time between, also after the result
was stored. `Complete` has the ways through `apiWorkerComplete`. Any result, also
one with contents or a failure, may be refused: the form cannot be parsed or
spilled to disk (400, `controller/api.go:92`), or its file cannot be opened or
read (500, lines 98 and 104). Otherwise a failure is logged and answered with
200, a result with neither failure nor contents is refused (400, line 126), and
the rest is stored. The status makes no difference, since the worker never looks
at it (`worker/worker.go:280` has its test the wrong way round), and neither
side logs a refusal: such a result is gone. The blocking of `Store` is `GitDataStore`'s; here
it is a `Complete` that has not happened yet. The worker's own restart and
the controller's are independent: executions carry the epoch they were handed
out in, and their results may arrive in a later one.

`NoResultTwice` is about the gap that at-least-once delivery usually leaves:
nothing in the controller looks for duplicates, so a result may be posted only
once. It holds because a post that fails ends the worker instead of being tried
again. `ResultsAreAccounted` says what an answer means to the worker that got
it: stored, or a failure in the log, or refused. It does not say that nothing is
refused, the code gives no ground for that; it says that there is no further way
to lose what a worker believes delivered. `ExecutionsAreSettled` is its liveness
side.

### JobConfig and ConfigChain

| variable | in the code |
|---|---|
| `conf` | the decoded configuration |
| `phase` | where `NewController` is: job store, device store, data store, tag lists; or started, failed with an error, ended by a panic |
| `todo`, `cur` | the loops over the maps: entries to come, the entry that is visited with the settings still to apply, and the job or device made so far |
| `heap` | the `CommandSetCommand`s and `JobScrubber`s behind pointers |
| `jobs`, `devices` | `localJobStore.jobs`, `localDeviceStore.devices` |
| `errs` | whether the constructor has collected an error |
| `lists` | `schedulerLocal.deviceJobsByTag` |

`JobConfig` is two things side by side. `ApplyCommand`, `Generic`,
`NewCommands`, `Kind`, `ApplyFails`, `ApplyPanics`, `Resolve`, `ValidCommand`,
`ValidScrubber` are the methods of the model, applied one after the other to one
job. `Described` and `Wrong` say in closed form what a whole chain of settings
means by the documentation: the most specific setting where one replaces the
other, all of them in order where they add up, each command on top of the
generic commands up to its own level (`Merged`, `CommandOf`), each template
variable replaced by its most specific value (`Value`, `Filled`). `ConfigChain`
runs the first and is compared with the second, by TLC for the configurations of
the run and by the proofs for all.

The code and the documentation differ in two places, and there the properties
are silent. The documentation bases a job that names no generic on the generic
named "default" (`JobSettings`), the code on the *job* of that name
(`JobLayers`); `DefaultIsClear` takes those jobs for which both come to the same.
And the code puts in the values that a device's generic knows before it has the
device's own, which then come too late; `Settled` takes the chains whose values
do not change any more by then. `IsClear` is these two, and that no value
contains a variable (`PlainValues`), for then the outcome depends on the order
of a map. The configurations that are not clear are in the model and in the run:
the other properties hold of them too.

An empty template value is a value (`model/job.go:65`): it replaces a less
specific one, and the variable by nothing. `Valid` is all of `Job.Validate`: the
schedule, the commands with their patterns and timeouts, files without a path or
of an unknown compression (`BadFiles`), scrubbers of an unknown type, without a
search, or with a pattern that is none once the values are in it.

Maps are walked in any order: entries (`BeginJob`, `BeginDevice`, `CopyJob`,
`ApplyDeviceJob`, `BeginLists`, `AddDeviceJob`), files and template values. An
error skips the entry (`Skip`, the `continue`s), the constructor returns all errors
at its end. A job copy is new addresses (`DeepCopied`), as far as the
hand-written `DeepCopy` goes: the generic command is dropped, and a device
whose settings have commands for a stored command job then dereferences nil
(`phase = "panicked"`), and nothing happens after that.

A text is a word, which may be empty, or one template variable; `expect` and
`expect_not` are one list, and the scrubber types `regex` and `regex_substitute`
are one; `port` and `user` stand for the device settings that are overwritten,
one with and one without a default.

### Executor

| variable | in the code |
|---|---|
| `job` | `execution.Job` |
| `stage`, `command`, `round` | where `runExecution`, `runJob` and `runCommands` are; the number of `cmd`; `i` of `CommandLoop` |
| `cells`, `len` | the array of `threadSafeByteBuffer.buff` and how much of it is unread |
| `view`, `next` | the slice that `bytesAndReset` returned, and how far it was copied |
| `this`, `buff` | `thisCommandBytes`, `buff` |
| `file`, `failure` | the fields of `result` |
| `sent`, `taken`, `from`, `base`, `torn` | history: what the device sent, how much of it at the last `bytesAndReset` and when the shell was cleared, how much output when the command was typed, whether a slice in use was written over |

Output comes in *pieces*, and a pattern is the set of pieces it matches, so a
match does not depend on where the output was cut. Three loops remain: the
commands, the rounds of a command (one per second), and the copying of a slice.

`bytesAndReset` holds the lock only while it resets the buffer. The slice it
returns is the buffer's own array, and the next `Write` starts again at its
first cell, while the executor copies the slice, first to `thisCommandBytes`
and then to `buff`. This is a data race, and the model has its outcomes: each
cell is copied with its old or with its new content, in either copy. (Copying
and writing both go upwards cell by cell in the model; since they may pause
anywhere, every combination of old and new cells occurs. A `Write` that
outgrows the array gets a new one and leaves the slice alone; the result is
that of a `Write` after the copies.) Time is not modelled: a round is a step,
and any number of pieces arrive in it.

What holds in spite of the race: `NoTakenPieceLost`, of what was taken the number
of pieces is right and none is replaced by an older one. What holds without it:
`OutputIsExact`, `FailureIsJustified`, `PassIsJustified`; each says so (`torn`).

All four are about output that was *taken*, and that is less than the device
sent. After the last command nothing is read any more: what a last command with
timeout 0 prints (`worker/executor.go:119`), or what comes after the last round
of another, is dropped with the shell. And the rounds of a command with timeout
N read at 0, 1, ..., N-1 seconds: what arrives in the last second is matched by
nobody, so with a timeout of 1 a command has to answer at once.
`docs/jobs.md:33` promises to wait N seconds for a match. The verdicts of
`FailureIsJustified` and `PassIsJustified` are therefore true of what the rounds
took, not of what came within the timeout.

A job is a file set or commands (`Job.ApplyConfig` makes it one of them);
`Fetch` yields some contents or an error. `Connect` can fail in
`newSession`, `authenticate` or `shell`, `Type` at either `Write` or at a
pattern: a template value can make a pattern invalid after it was validated.
`Scrub` stands for all scrubbers of the job; the replacements hold no secrets. It
is reached by failed jobs too, and `OutputIsExact` says that their output is
scrubbed like any other. The text of a failure is not in the model: the code
puts the command into it as it was typed (`worker/executor.go:106`), with the
values of template variables, and does not scrub it.

## The runs

| run | instance | shows |
|---|---|---|
| `data_store_safety` | 4 results (3 of one file, two of them with the same id), 2 files, 2 pool workers, git may fail, pending lists up to 4 | `OneWriterPerKey`, `NoStoredJobLost`, `NoLostWakeup`, `FirstWriteInArrivalOrder`, and `QueueSpec`: the queue implements `FileWriteQueue` |
| `data_store_liveness` | 2 results of one file, 3 pool workers, fairness | `SenderHasReceiver`, `StoredIsPushed`, `EveryPostReturns` |
| `data_store_small_pool` | the same with 2 pool workers | violation of `StoredIsPushed` |
| `data_store_latest` | 3 results of one file, 2 pool workers, git never fails | violation of `FileKeepsLatest` |
| `pool_safety` | 3 results of 2 files, 2 clones, 2 commits, 1 restart, logged failures of up to 2 results | `NoSilentLoss`, `CommitsSurvive`, `PushedCloneCanPull` |
| `pool_conflict` | the same with 3 commits, no restart, and git never failing | violation of `NoPullConflict` |
| `scheduler_safety` | 3 device jobs in 3 tag lists, 2 handlers, windows of 3 s, at most 2 executions, clock to 2, 1 restart | `ExclusiveRuns`, `NoUpcomingRunSkipped`, `ShortAnswerIsComplete`, and `DispenserSpec`: the scheduler implements `RunDispenser` |
| `worker_safety` | 2 workers with up to 2 executions each, 1 handler, a device job with 2 runs, sleep 5 s, timeout 1 s, clock to 6, 1 restart | `ExecutedOnce`, `NoRunVanishes`, `CountIsRunning`, `NoRunMissed` |
| `executor_safety` | a job of two commands with scrubbers, one with a pattern that does not compile, and one of files; timeouts of 0 to 2 rounds, 3 pieces, up to 4 pieces of output | `NoTakenPieceLost`, `OutputIsExact`, `FailureIsJustified`, `PassIsJustified` |
| `config_chain` | 9450 configurations: 2 jobs and 2 generics, one of each named "default", 2 devices, 2 device generics | `StoresAreMerged`, `VerdictIsRight`, `PanicIsByDeviceCommands`, `EveryJobIsListed`, `StoresUntouched` |
| `fusty` | 2 workers, 1 run that each of 2 starts of the controller hands out, 1 handler, 3 pool members, requests that end within the second, clock to 1, fairness | `NoResultTwice`, `ResultsAreAccounted`, `ExecutionsAreSettled` |
| `worker_max_jobs` | 1 worker with `MaxJobs` 1, no restart | violation of `MaxJobsRespected` |

**Bounds.** Two results of a file are enough for one to wait behind the other;
the third makes a waiting result meet a later one on its second round, and the
shared id makes `runningWriteIds` lose an entry that two results have. The
second file lets two workers write at once. `MaxPending` stops the growth of
the pending lists, which the program does not: beyond it `MarkJobsCompleted` is
disabled. A pending list reaches the bound by repetition of results that are
already in it, so a longer one holds no result the short one lacks; the theorems
hold for every bound. In the pool two commits, one in each clone, are what a
rejected push, a merge and a conflict need, and the restart finds a clone in
any of the states before; the third result is for a batch of two, and for a
failed `commitJob` whose file the next commit takes along. Failures of two
results (`MaxLogged`) are one that leaves something in a clone and one that
meets what was left; git and the clones fail for reasons of their own beyond
that bound, as rejected pushes and conflicts are not counted by it. The theorems hold for any number of clones, commits, failures
and restarts. In the scheduler the window is longer than the clock
runs, so runs are granted ahead of the present, at it, and after a restart;
`max` is below the number of runs in a window, so requests end both full and
short. For the workers 5 seconds are the shortest sleep that two requests of one
second fit into; the second run lies beyond the first window, so it is obtained
only if the worker asks again in time, and the clock reaches it. The two
workers compete for both runs, and the one handler is busy with a late answer
while the other worker asks. For the executor four pieces are one before the
shell is cleared, one between commands, and two in a round, of which the second
can overwrite the first; two rounds let output of the first count in the second.
The configurations are products of what an own job, its generic, the "default"
job, the device's entry, the device generic and a second device can say; each
list of alternatives has one for every error, for the panic, for values that
meet variables of another level, for an empty value, for scrubbers and files that
are invalid from the start or after values were put in, for a "default" that is
clear and one that is not, and for devices that share a stored job. In
`fusty` one run is enough for two executions, since the second start of the
controller hands it out again: they may be with two workers or with one, and
their posts, answers and writes overlap in every order. Three pool members are
one more than these results, which is what the fairness below asks for. Handlers and pool workers are symmetric, and so are the two
results of one file in `pool_safety`.

**Deadlock.** Checked in the safety run of the scheduler and in `config_chain`,
whose only ends are a constructor that has returned. Off in the worker runs and in
`fusty`, where the clock stops at its bound, in the run of the executor, which ends
with its execution, and in the data store
and pool runs: once every result is stored and written there is nothing to do, and the
blocked send described below is a deadlock of its own, shown by a run.

**Fairness.** `GitDataStore!Fairness` is strong fairness of each handler and
pool worker for acquiring the mutex and for channel operations: a Go mutex
hands over to a goroutine that starved for a millisecond, and goroutines
blocked on a channel are served in their order. Weak fairness of `PushJobs`
assumes that git commands end; the program has no timeout for them.
`Fusty!Fairness` is weak fairness of each goroutine of a worker (its loop, its
timers, executions and posts): the Go scheduler runs what can run, and a request
ends with an answer or its timeout. Handlers of `/worker/complete` and the pool
are taken to make progress only if the pool has more members than there are
results (`PoolIsLarge`). That is what `data_store_liveness` shows of the queue
(`StoredIsPushed`, `EveryPostReturns`), and what `data_store_small_pool` shows not
to hold otherwise: there handlers block in `Store` for good. So
`ExecutionsAreSettled` says nothing of a pool that a controller which runs on
will outgrow. Executions are assumed to end. A
worker that ended need not be started again, and nothing restarts the
controller.

Every property of a passing run has a mutant in the modules (the operators with
an underscore, such as `Enqueued_Dropped`): a plausible slip in the code, under
which TLC finds the property violated.

## What the runs found

1. **Deadlock of a small pool** (`data_store_small_pool`,
   `controller/data_store.go:244`). `markJobsCompleted` sends with `writesLock`
   held. If all other pool workers have received and are waiting for that lock,
   nobody can receive, and every handler and worker of the process is stuck.
   `SenderHasReceiver` shows that a pool larger than the number of results can
   not get there; no fixed pool is large enough for a program that runs on.
2. **Old results overwrite newer ones** (`data_store_latest`,
   `controller/data_store.go:233`). Because waiting lists are never emptied, a
   result that waited once is enqueued again at every completion of its file,
   behind results that arrived later.
3. **Conflicts in the pool** (`pool_conflict`, `controller/data_store.go:278`).
   The queue keeps two workers from writing a file at the same time, but not a
   clone from keeping an unpushed commit of it. Clone 1 commits a result of
   file A; clone 2 pushes one of file B; the push of clone 1 is rejected, which
   is only logged. Clone 2 then takes the next result of A and pushes it. From
   now on clone 1 cannot pull: every batch it takes is dropped, and since
   `initialize` begins with the same pull, the controller does not start any
   more. `PushedCloneCanPull` shows what does recover: a clone whose commits
   all got to the remote. A pool of one cannot get there
   (`PoolOfOneNeverConflicts`).
4. **More than `MaxJobs`** (`worker_max_jobs`, `worker/worker.go:138`). `tick`
   counts the executions that run, not those it has set timers for. A worker
   with `-maxjobs=1` gets one run ahead of time, asks again half a window later
   and gets the next one; if the first takes long both run together.

The models follow the code also where it and its documents differ without a run
about it:
* a query without tags gets the device jobs of untagged devices
  (`controller/scheduler.go:39`); `docs/api.md:15` promises all tags;
* no run of the past is ever handed out (`controller/scheduler.go:92`);
  `docs/api.md:55` announces them. A run that falls due while no worker asks is
  nobody's;
* a restarted controller hands out again what it handed out before
  (`controller/scheduler.go:60`), so one run of a cron expression can be executed
  and stored twice. The models tell the two executions apart by the start of the
  controller they come from, and promise each of them only once;
* a pattern that comes in the last second of the timeout fails its command
  (`worker/executor.go:145`); `docs/jobs.md:33` has it wait for the whole of it;
* the generic of jobs that name none is the *job* "default"
  (`controller/job_store.go:47`), `docs/configuration.md:114` has it among the
  generics. A job of this name is applied to itself, so its commands come twice;
* a device, or its generic, cannot add commands to a job of the job store: the
  start ends in a nil dereference (`model/command_set.go:45`), although
  `docs/devices.md:23` lets device jobs override the settings of a job.
  `PanicIsByDeviceCommands` says when this happens, not that it does not;
* the template values of a device generic are applied before the device's own
  settings are known (`model/device.go:65`), so a value of the device does not
  replace one of its generic in commands that were there already;
  `docs/jobs.md:70` lets the inheriting configuration set it;
* a device without credentials is accepted (`model/device.go:81`);
  `docs/devices.md:19` requires them;
* a file of both a generic and a job is fetched twice, in the order of a map
  (`model/file_set.go`);
* a protocol block of a device resets the port that its generic set
  (`model/device.go:34`).

## The proofs

All theorems are for arbitrary sets of results, files, workers, device jobs,
tags, handlers, pieces of output and configurations, under the assumptions that
each module states of its constants (`ConstantsAssumption`, in `Fusty`
`FustyAssumption`, in `JobConfig` `JobConfigAssumption`, in `ConfigChain` also
`NothingAssumption`).

`GitDataStoreProofs` rests on one inductive invariant, `IInv`, whose parts are
* `LockHeldBySender`: the lock is held exactly by a worker blocked in its send;
* `BatchWhileWorking`: only a worker in `push` or `mark` has a batch;
* `MarkedIsPushed`: the batch of a worker in `mark` was pushed;
* `RunningIsHeld`: the running ids of a key are exactly those of the batch that
  some worker holds of it, and there are none while no worker does;
* `PendingNotRunning`: a key that a worker holds has nothing pending. This is
  what makes `nextJobs`, which does not look at `runningWriteIds`, safe;
* `ListsByKey`: lists and batches of a key hold stored results of that key.

`OneWriterPerKey` is not inductive: it needs `PendingNotRunning`, which in turn
needs `RunningIsHeld`, since `Store` decides by `runningWriteIds` and two
results may share an id. From `IInv` follow

* `TypeCorrect`, `MutualExclusion` (`OneWriterPerKey`), `NothingLost`
  (`NoStoredJobLost`), `WakeupOnItsWay` (`NoLostWakeup`);
* `ImplementsQueue`: `Spec => QueueSpec`, step by step.

`FirstWritesInOrder` (`FirstWriteInArrivalOrder`) needs a second invariant,
`OrderInv`, since results of a file wait in three places and are written again
and again. What `Store` took is somewhere (`ArrivedIsStored`); a waiting list
keeps the order of arrival (`WaitingInOrder`); and in a pending list and in a
batch a result has before it every result of its file that arrived earlier and
was not pushed (`PendingInOrder`, `BatchesInOrder`). A waiting list that is
enqueued whole and more than once does no harm to this, since the first of the
copies is in order and whatever is missing from it was pushed; that needs
`IInv` and `NoStoredJobLost`.

`GitPoolProofs` first sorts the steps by what they do to the branches (lemma
`Kinds`: nothing, tidy a clone, pull, commit, push) and shows that no branch
ever loses a commit (`Growth`). From this follows `CommitsKept`
(`CommitsSurvive`). `PushedCloneRecovers` (`PushedCloneCanPull`) rests on the invariant `CloneInv`: commit numbers are
those of commits that were made (`Numbered`), two clones share only what the
remote has (`Unshared`), and a clone without unpushed commits has the tree of
the common commit (`BaseWhenPushed`). The last is not inductive without the
others: a push must not turn another clone's own commits into pushed ones.
`NothingSilentlyLost` (`NoSilentLoss`) rests on `BatchAccounted`, each result of
a batch is still to do, or logged, or in a commit of the clone; and on
`PoolFits`, every tree, index and working tree of a clone, and the remote, holds
in each file only what is explained for it. What is explained only grows
(`KnownGrows`), merges choose file by file, and the torn file of a failed
`commitJob` or of a crash becomes explained in the step that leaves it.
`PoolOfOneNeverConflicts` is `NoPullConflict` under the assumption of one
worker: its clone always contains the remote.

`SchedulerProofs`: `TypeCorrect`; `Exclusive` (`ExclusiveRuns`, with the bound
of all grants of the present epoch by `lastRun`); `NothingSkipped`
(`NoUpcomingRunSkipped`); `ShortAnswers` (`ShortAnswerIsComplete`), from the
invariant that every device job of the query that the walk has passed has no
unhanded run in the window, which other handlers and the clock preserve.

`ImplementsDispenser` (`DispenserSpec`): every step of `Scheduler` is one of
`RunDispenser` or none. `Grant` needs that all runs handed out are at or before
`lastRun`, so that `nextRun`'s choice is the first due run of its device job;
`Respond` needs `ShortAnswerIsComplete`.

`WorkerProofs` assumes nothing of the scheduler but `RunDispenser`. The
invariant `OwnInv` says where an execution can be: runs in answers are handed
out, in one answer only, and with no worker (`AnswersAreHanded`,
`AnswersApart`, `AnswersAreNew`); what workers hold was handed out by this
controller or comes from an earlier one (`TimersAreHanded`, `StartedIsHanded`);
timers of two workers share nothing, and nothing that has a timer was started
(`TimersApart`). From it follow `AtMostOnce` (`ExecutedOnce`),
`CountNeverDrifts` (`CountIsRunning`: an execution that starts does not run
already) and `NothingVanishes` (`NoRunVanishes`). `WindowsOverlap`
(`NoRunMissed`) needs two more invariants. `RequestInv`: a worker waits for a
handler that works on its own request and no other worker waits for.
`TimeInv`: all runs before `Reach(w)` were handed out, where `Reach` is the
earliest end that the last answered window can have, given where the worker
is; it is ahead of the clock if two timeouts and half the sleep are shorter
than the sleep (`RequestsFit`; it holds for the defaults of 15 and 3 seconds).

`FustyProofs` first shows that each step of `Fusty` is one of `Worker` or none
(`ImplementsWorker`), so that the invariants of `WorkerProofs`, taken by
INSTANCE, hold of it, and with them its theorems (`WorkersKeepTheirWord`). The
rest follows from the invariant `Delivery`. `NoResultTwice` alone is not
inductive: it needs that what the controller has seen is with no worker that
would still send it (`NotSentAgain`), for which an execution must be with one
worker and either run or be posted (`AtWorkApart`), and what begins must be new
(`SentIsStarted`, and that nothing with a timer was started, from
`WorkerProofs`). `DeliveredOnce` is `NoResultTwice`. `NothingUnaccounted`
(`ResultsAreAccounted`) adds what was answered, whatever the handler did with it
(`AnsweredIsKnown`), that what is stored had contents (`StoredHasContents`), was
not refused (`RefusedIsOver`) and was due (`StartedInTime`).
`TypeCorrect` needs in addition that all runs in circulation are of the cron
expressions (`OnCron`).

`ExecutorProofs` follows the output through its three places: the cells of the
session's buffer that were not taken, the slice that was, and `buff`. How many
pieces are where always adds up (`AllIsKept`). Then, by index and place by
place, a piece is the one that is due or a later one (`CellsAreLatest`,
`SliceIsRecent`, `BuffIsRecent`), and exactly the one that is due while no slice
in use was written over (`SliceIsExact`, `BuffIsExact`). The race makes the
difference: a `Write` that reaches a cell of the slice puts a later piece
there, never an older one, and sets `torn`. What is in the cells and not taken
is what the device sent since the last `bytesAndReset` (`RestIsPending`). These
give `NothingTakenLost` (`NoTakenPieceLost`), and with `FileIsScrubbed`
`OutputIsWhatWasTaken` (`OutputIsExact`). The verdicts need
that `thisCommandBytes` has what was taken since the command was typed
(`ThisIsExact`), that a round is made only if one is left (`RoundsAreLeft`) and
that the loop goes on only if nothing matched (`NothingMatched`):
`FailuresAreJustified` (`FailureIsJustified`), `PassesAreJustified`
(`PassIsJustified`, an action property).

`ConfigChainProofs` rests on `Shape`, what every variable of the loops has to do
with the others at every stage. Three ideas carry it. First, addresses matter
and not contents: all addresses of a stored job are in the heap, and the
commands and scrubbers of a device in the making are at none of them
(`Separate`, `IsStored`); copies and new settings only get addresses beyond the
heap. Hence no write of `ApplyTemplateValues` reaches a store
(`HeapIsKept`), entries are written once (`EntriesAreKept`), and
`StoresStayUntouched` (`StoresUntouched`, an action property) follows. Second,
what has a nil generic: a job of a device in the making that is a command job
without one is a copy of a stored command job (`CopiesKnown`), so a panic is the
doing of a device that sets commands for one (`PanicsAreByDeviceCommands`,
`PanicIsByDeviceCommands`). Third, that nothing is forgotten: a stored device has
all its jobs and all its tags, those of its generic included
(`DevicesAreWhole`); without an error none was dropped (`NoneDropped`), and each
list has exactly the jobs visited so far under its tag (`ListsSoFar`), hence
`AllJobsAreListed` (`EveryJobIsListed`). `TypeCorrect` includes that no pointer is
to a cell that is not there. `Keys` and `Files` are assumed to be finite: with
an infinite map of files or of template values the loops over them would not
end, and `SetToSeqs` would have nothing to choose from. `NothingAssumption`
says that what stands for an absent command, job, device or protocol is none.

For `StoresMerged` (`StoresAreMerged`) and `VerdictsAreRight` (`VerdictIsRight`)
the contents matter as well, and a second inductive invariant, `Makes`, goes on
top of `IInv`. The documentation's `Described` is not what the loops keep, so the
proofs first say in closed form what the code builds of a chain of settings
(`Built`): as `Described`, but with each variable replaced at the first device
level that has a value for it (`Final`), and with the generic that the code
takes (`JobLayers`). The core of `Makes` is `Made(job, heap, chain, from)`: what is
seen through the pointers of the job is what is built of the settings applied so
far. The proof that it is kept has four layers.

* The closed form: `BuiltAppend` says what `Built` of a chain with one
  more setting is, in terms of `Built` of the chain. It has a lemma per
  part: the kind, the most specific schedule, the values, the commands over all
  generic ones (`CommandsAppend`), the scrubbers, the count of each file.
* The code: `AppliedSeen` says what the same setting does to what is seen
  through the pointers of a job, `CopiedSeen` that a deep copy is seen as its
  original is. The order in which template values are put in makes no
  difference when no value contains a variable (`ResolvePlain`); where one does
  nothing is claimed of texts (`PlainValues`), as in the property.
* The two together: `MadeApplied`, settings that apply to a job of a chain make
  a job of the longer chain; `FailsDisagree` and `SoundIsRight`, an error of
  `ApplyConfig` or `Validate`, of scrubbers and files too, is one of the chain
  (`Faulty`), and no error means that nothing in the chain is.
* The loops: each action keeps `Makes` (`MakesJobs` and one lemma for each
  action of the device store). Jobs of the device in the making that are still
  due have the settings of one layer less than the others (`ReachedFor`), and
  no two of them point to the same cell (`Apart`); without that, template
  values put in one job would show in another. `NoJobDropped` makes a missing
  job an error, `ErrorsAreRight` an error something wrong.

Both theorems need that what is stored stays as it was made (`StoredStay`),
which is `HeapIsKept` of the first invariant. What is built then meets the
documentation in two lemmas: where the default generic is clear, the code applies
the settings it is to apply (`SettingsAreClear`), and where the values are settled
when the first of them are put in, the first value that a variable gets is the
most specific one (`FinalIsValue`), so what is built is what is described
(`BuiltIsDescribed`, `FaultyIsWrong`).

Induction is available in first-order form: `SetInduction` (in
`SequenceLemmas`) says that a set which has 0 and, with each number, the next has
every number; it follows from the minimum principle of the library.
`AppendInduction` is the same for lists. With them a recursive function is shown
to exist and to be well typed, and to compute what is said of it: `Resolve`, and
`FlattenSeq` of the library modules (`FlattenStep`, `FlattenThrough`).

Model-checked only: the liveness properties `StoredIsPushed`, `EveryPostReturns`
and `ExecutionsAreSettled`, since liveness under fairness is out of the prover's
reach; and `SenderHasReceiver`, which holds only while there are more pool
workers than results ever posted, and is there as the reason why the two liveness
properties of its run hold. All other safety and action properties of the passing
runs are proved.

## What is left out

* Decoding of configuration files (done by libraries), flags, logging, HTTP
  details, TLS and authentication, the texts of commit messages: data or set-up
  without interleavings.
* Of the configuration: entries that are null, the replacements of scrubbers,
  `implicit_enter`, hosts and passwords, which are overwritten like `user`; and
  `marshal.go`, which hides passwords on output.
* Of the executor: the texts of failures, decompression and formatting of files,
  the duration of rounds, the SSH and SFTP exchanges of the vendored libraries,
  and `run`, which nothing calls. A verbose
  worker uses the index of an `expect_not` pattern in the `expect` list
  (`worker/executor.go:156`), which ends it when that list is shorter; the
  models are of a worker that is not verbose.
* Hangs: git commands and device connections have no timeout. The safety
  properties cover them, since no step need be taken; the liveness properties
  assume that they end.
* Fairness between device jobs: `NextExecution` begins each walk with the first
  one, as its comment says, and nothing promises more.
* Readme overviews are documented but not implemented.

## The plan

All components of the table are modelled as far as [listed](#what-is-left-out),
and all safety properties but `SenderHasReceiver` are proved. What could still be added:

1. Hangs of git commands and of device connections, as steps that never end,
   with what stays possible around them.
2. Fairness between device jobs, if `NextExecution` ever rotates its start.

## How to run it

    tlc -workers 2 -config DataStoreSafety.cfg MCGitDataStore
    tlapm GitDataStoreProofs.tla

and likewise for the other configurations and proof modules; the module and the
configuration of each run are in `PROJECT.json`.
