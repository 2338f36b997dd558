-------------------------------- MODULE Worker --------------------------------
(***************************************************************************)
(* The workers, worker/worker.go, against one controller.                  *)
(*                                                                         *)
(* A worker asks the controller for the runs of the next SleepSeconds,     *)
(* twice in a row, and sleeps for half that time (Start, tick,             *)
(* nextExecutions).  It sets a timer for each run it gets, and the timers  *)
(* run the executions and post their results on goroutines of their own    *)
(* (scheduleExecution, runExecutionAndPostResult).                         *)
(*                                                                         *)
(* The controller's side of /worker/next is RunDispenser, which Scheduler  *)
(* implements; its side of /worker/complete is apiWorkerComplete.  Requests*)
(* and answers may get lost, a worker gives up a request after its timeout *)
(* while the handler goes on, the controller may be restarted, and workers *)
(* die and are started again.  All read one clock, in seconds.             *)
(***************************************************************************)
EXTENDS Integers, Sequences, FiniteSets, Functions

CONSTANTS
  DeviceJobs,     \* the jobs of the devices
  CronTimes,      \* per device job, the instants it is to run at
  Workers,        \* the workers
  ScopeOf,        \* per worker, the device jobs that its tags reach
  Handlers,       \* the handlers of /worker/next that can run at once
  NoHandler,      \* not a handler
  SleepSeconds,   \* Config.SleepSeconds
  TimeoutSeconds, \* Config.TimeoutSeconds
  MaxJobs,        \* Config.MaxJobs
  Prompt,         \* whether what is due is done before the second is over
  MaxTime,        \* bound on the clock
  MaxRestarts     \* bound on the restarts of the controller

ASSUME ConstantsAssumption ==
  /\ CronTimes \in [DeviceJobs -> SUBSET Nat]
  /\ ScopeOf \in [Workers -> SUBSET DeviceJobs]
  /\ NoHandler \notin Handlers
  /\ SleepSeconds \in Nat
  /\ TimeoutSeconds \in Nat
  /\ MaxJobs \in Nat
  /\ Prompt \in BOOLEAN
  /\ MaxTime \in Nat
  /\ MaxRestarts \in Nat

VARIABLES
  now,     \* see RunDispenser
  handed,  \* see RunDispenser
  open,    \* see RunDispenser
  epoch,   \* how often the controller was restarted
  loop,    \* per worker, where its main loop is (see Loops)
  timers,  \* per worker, the executions a timer was set for
  running, \* per worker, the executions that run
  posting, \* per worker, the executions whose result it is to post
  count,   \* per worker, runningExecutionCount
  started, \* history: the executions that were started
  ended,   \* history: those that are over (see NoRunVanishes)
  since    \* history: per worker, how long its requests were answered (see Never)

controller == <<now, handed, open, epoch>>
history == <<started, ended, since>>
vars == <<controller, loop, timers, running, posting, count, history>>

Dispenser == INSTANCE RunDispenser WITH
  Scopes <- {ScopeOf[w] : w \in Workers},
  Seconds <- {SleepSeconds},
  Maxima <- 1 .. MaxJobs

-----------------------------------------------------------------------------

(* An execution, with the start of the controller that handed it out. *)
Executions == [job : DeviceJobs, time : Nat, epoch : Nat]

Answered_AllButLast(got) ==
  {[job |-> got[i].job, time |-> got[i].time, epoch |-> epoch] : i \in 1 .. Len(got) - 1}

(* What an answer of the controller contains. *)
Answered(got) == {[job |-> x.job, time |-> x.time, epoch |-> epoch] : x \in Range(got)}

(* The main loop of a worker: it is down, about to tick for the nth time, in   *)
(* a tick with a request that ends no later than until, or asleep until then. *)
Loops ==
  [at : {"down", "tick", "asking", "asleep"}, nth : {1, 2},
   handler : Handlers \cup {NoHandler}, until : Nat]

AtTick(nth) == [at |-> "tick", nth |-> nth, handler |-> NoHandler, until |-> 0]

Down == [AtTick(1) EXCEPT !.at = "down"]

(* No request of the worker was answered since it, or the controller, was     *)
(* started, got no answer, or had no room for more runs.                      *)
Never == -1

TypeOK ==
  /\ now \in Nat
  /\ handed \in SUBSET [job : DeviceJobs, time : Nat]
  /\ open \in [Handlers -> [on : BOOLEAN, scope : SUBSET DeviceJobs, before : Int, max : Nat,
                            got : Seq([job : DeviceJobs, time : Nat])]]
  /\ epoch \in Nat
  /\ loop \in [Workers -> Loops]
  /\ timers \in [Workers -> SUBSET Executions]
  /\ running \in [Workers -> SUBSET Executions]
  /\ posting \in [Workers -> SUBSET Executions]
  /\ count \in [Workers -> Int]
  /\ started \in SUBSET Executions
  /\ ended \in SUBSET Executions
  /\ since \in [Workers -> Nat \cup {Never}]

Onward_OneTick(w) ==
  [at |-> "asleep", nth |-> 1, handler |-> NoHandler, until |-> now + SleepSeconds]

Onward_Counting(w) == AtTick(loop[w].nth + 1)

(* Start: two ticks, then half of the time that was asked for. *)
Onward(w) ==
  IF loop[w].nth = 1 THEN AtTick(2)
  ELSE [at |-> "asleep", nth |-> 1, handler |-> NoHandler, until |-> now + SleepSeconds \div 2]

(* What a worker knows of and loses when it dies. *)
Held(w) == timers[w] \cup running[w] \cup posting[w]

-----------------------------------------------------------------------------

Init ==
  /\ Dispenser!Init
  /\ epoch = 0
  /\ loop = [w \in Workers |-> AtTick(1)]
  /\ timers = [w \in Workers |-> {}]
  /\ running = [w \in Workers |-> {}]
  /\ posting = [w \in Workers |-> {}]
  /\ count = [w \in Workers |-> 0]
  /\ started = {}
  /\ ended = {}
  /\ since = [w \in Workers |-> Never]

(* tick: the worker asks for as many runs as it has room for.  The request    *)
(* may get lost.                                                              *)
Ask(w) ==
  /\ loop[w].at = "tick"
  /\ count[w] < MaxJobs
  /\ \E h \in Handlers \cup {NoHandler} :
       /\ IF h = NoHandler THEN UNCHANGED <<now, handed, open>>
          ELSE Dispenser!Open(h, ScopeOf[w], SleepSeconds, MaxJobs - count[w])
       /\ loop' = [loop EXCEPT ![w] =
            [@ EXCEPT !.at = "asking", !.handler = h, !.until = now + TimeoutSeconds]]
  /\ UNCHANGED <<epoch, timers, running, posting, count, history>>

(* tick: there is no room, the controller is not asked. *)
Full(w) ==
  /\ loop[w].at = "tick"
  /\ count[w] >= MaxJobs
  /\ loop' = [loop EXCEPT ![w] = Onward(w)]
  /\ since' = [since EXCEPT ![w] = Never]
  /\ UNCHANGED <<controller, timers, running, posting, count, started, ended>>

(* tick: the answer comes and a timer is set for each execution. *)
Answer(w) ==
  LET h == loop[w].handler IN
  /\ loop[w].at = "asking"
  /\ h # NoHandler
  /\ Dispenser!Close(h)
  /\ timers' = [timers EXCEPT ![w] = @ \cup Answered(open[h].got)]
  /\ loop' = [loop EXCEPT ![w] = Onward(w)]
  /\ since' = [since EXCEPT ![w] =
       IF Len(open[h].got) >= open[h].max THEN Never ELSE IF @ = Never THEN now ELSE @]
  /\ UNCHANGED <<epoch, running, posting, count, started, ended>>

(* tick: the request fails or runs into its timeout.  That is logged; the     *)
(* handler does not notice.                                                   *)
GiveUp(w) ==
  /\ loop[w].at = "asking"
  /\ loop' = [loop EXCEPT ![w] = Onward(w)]
  /\ since' = [since EXCEPT ![w] = Never]
  /\ UNCHANGED <<controller, timers, running, posting, count, started, ended>>

(* Start: the worker wakes up. *)
Wake(w) ==
  /\ loop[w].at = "asleep"
  /\ now >= loop[w].until
  /\ loop' = [loop EXCEPT ![w] = AtTick(1)]
  /\ UNCHANGED <<controller, timers, running, posting, count, history>>

Run_KeepingTimer(w, x) ==
  /\ x \in timers[w]
  /\ now >= x.time
  /\ running' = [running EXCEPT ![w] = @ \cup {x}]
  /\ count' = [count EXCEPT ![w] = @ + 1]
  /\ started' = started \cup {x}
  /\ UNCHANGED <<controller, loop, timers, posting, ended, since>>

(* The timer of an execution fires and runExecution begins. *)
Run(w, x) ==
  /\ x \in timers[w]
  /\ now >= x.time
  /\ timers' = [timers EXCEPT ![w] = @ \ {x}]
  /\ running' = [running EXCEPT ![w] = @ \cup {x}]
  /\ count' = [count EXCEPT ![w] = @ + 1]
  /\ started' = started \cup {x}
  /\ UNCHANGED <<controller, loop, posting, ended, since>>

Finish_StillCounted(w, x) ==
  /\ x \in running[w]
  /\ running' = [running EXCEPT ![w] = @ \ {x}]
  /\ posting' = [posting EXCEPT ![w] = @ \cup {x}]
  /\ UNCHANGED <<controller, loop, timers, count, history>>

(* runExecution returns. *)
Finish(w, x) ==
  /\ x \in running[w]
  /\ running' = [running EXCEPT ![w] = @ \ {x}]
  /\ posting' = [posting EXCEPT ![w] = @ \cup {x}]
  /\ count' = [count EXCEPT ![w] = @ - 1]
  /\ UNCHANGED <<controller, loop, timers, history>>

(* The result is posted and the controller answers: it stored it, logged the  *)
(* failure or refused it, as it may refuse any.  The worker does not look at  *)
(* the status.                                                                *)
Post(w, x) ==
  /\ x \in posting[w]
  /\ posting' = [posting EXCEPT ![w] = @ \ {x}]
  /\ ended' = ended \cup {x}
  /\ UNCHANGED <<controller, loop, timers, running, count, started, since>>

(* The post fails or runs into its timeout, possibly after the controller got *)
(* the result.  There is no response, resp.Body panics, the worker ends.      *)
PostFails(w, x) ==
  /\ x \in posting[w]
  /\ ended' = ended \cup Held(w)
  /\ timers' = [timers EXCEPT ![w] = {}]
  /\ running' = [running EXCEPT ![w] = {}]
  /\ posting' = [posting EXCEPT ![w] = {}]
  /\ count' = [count EXCEPT ![w] = 0]
  /\ loop' = [loop EXCEPT ![w] = Down]
  /\ since' = [since EXCEPT ![w] = Never]
  /\ UNCHANGED <<controller, started>>

(* The worker is started again; nothing of it was kept. *)
StartAgain(w) ==
  /\ loop[w].at = "down"
  /\ loop' = [loop EXCEPT ![w] = AtTick(1)]
  /\ UNCHANGED <<controller, timers, running, posting, count, history>>

(* A handler of /worker/next hands out a run. *)
Give(h) ==
  /\ Dispenser!Give(h)
  /\ UNCHANGED <<epoch, loop, timers, running, posting, count, history>>

(* A handler answers a request that was given up. *)
AnswerNobody(h) ==
  /\ \A w \in Workers : loop[w].handler # h
  /\ Dispenser!Close(h)
  /\ ended' = ended \cup Answered(open[h].got)
  /\ UNCHANGED <<epoch, loop, timers, running, posting, count, started, since>>

(* The controller is restarted: it forgets what it handed out, and requests   *)
(* are not answered any more.                                                 *)
Restart ==
  /\ epoch < MaxRestarts
  /\ epoch' = epoch + 1
  /\ Dispenser!Restart
  /\ loop' = [w \in Workers |-> [loop[w] EXCEPT !.handler = NoHandler]]
  /\ ended' = ended \cup UNION {Answered(open[h].got) : h \in Handlers}
  /\ since' = [w \in Workers |-> Never]
  /\ UNCHANGED <<timers, running, posting, count, started>>

(* Something is to be done in this second: a tick, the end of a request, of a *)
(* sleep or of a timer.                                                       *)
Urgent(w) ==
  \/ loop[w].at = "tick"
  \/ loop[w].at \in {"asking", "asleep"} /\ now >= loop[w].until
  \/ \E x \in timers[w] : now >= x.time

Tick ==
  /\ now < MaxTime
  /\ Prompt => \A w \in Workers : ~ Urgent(w)
  /\ Dispenser!Tick
  /\ UNCHANGED <<epoch, loop, timers, running, posting, count, history>>

Next ==
  \/ \E w \in Workers :
       \/ Ask(w)
       \/ Full(w)
       \/ Answer(w)
       \/ GiveUp(w)
       \/ Wake(w)
       \/ \E x \in timers[w] : Run(w, x)
       \/ \E x \in running[w] : Finish(w, x)
       \/ \E x \in posting[w] : Post(w, x) \/ PostFails(w, x)
       \/ StartAgain(w)
  \/ \E h \in Handlers : Give(h) \/ AnswerNobody(h)
  \/ Restart
  \/ Tick

Spec == Init /\ [][Next]_vars

-----------------------------------------------------------------------------
(* Properties. *)

(* A run that one start of the controller handed out is never executed twice, *)
(* by no worker and however requests, answers and posts are lost or late and  *)
(* workers die: who starts an execution is the first to do so.                *)
ExecutedOnce ==
  [][\A w \in Workers : \A x \in running'[w] \ running[w] : x \notin started]_vars

(* Every run the controller handed out is in the answer of some handler, or   *)
(* with a worker, or its result arrived, or it was lost in one of the ways in *)
(* which this program loses runs: the answer came too late, the worker or the *)
(* controller ended, the result was refused.  No other path drops one.        *)
NoRunVanishes ==
  \A x \in handed :
    LET e == [job |-> x.job, time |-> x.time, epoch |-> epoch] IN
    \/ e \in ended
    \/ \E w \in Workers : e \in Held(w)
    \/ \E h \in Handlers : x \in Range(open[h].got)

(* runningExecutionCount is what it is named for, whatever failed: were it    *)
(* ever too high the worker would ask for less for the rest of its life.      *)
CountIsRunning == \A w \in Workers : count[w] = Cardinality(running[w])

(* Windows overlap: while the requests of a worker are answered in time and   *)
(* in full, no run of its tags falls due that was not handed out before,      *)
(* provided that two requests fit into the half of the window it does not     *)
(* sleep through (worker.go:125, "We will sleep half the amount of time range *)
(* configured to fetch jobs for").                                            *)
RequestsFit == Prompt /\ 2 * TimeoutSeconds + SleepSeconds \div 2 < SleepSeconds

NoRunMissed ==
  RequestsFit =>
    \A w \in Workers : since[w] # Never =>
      \A d \in ScopeOf[w] : \A t \in CronTimes[d] :
        since[w] < t /\ t <= now => [job |-> d, time |-> t] \in handed

(* docs/running.md:40: "The maximum number of jobs this worker can be         *)
(* executing at any one time."                                                *)
MaxJobsRespected == \A w \in Workers : Cardinality(running[w]) <= MaxJobs

=============================================================================
