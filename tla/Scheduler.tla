------------------------------ MODULE Scheduler ------------------------------
(***************************************************************************)
(* The scheduler of the controller, controller/scheduler.go, and the HTTP  *)
(* handler of /worker/next that drives it, controller/api.go:apiWorkerNext.*)
(*                                                                         *)
(* A handler asks for one execution at a time, until it has max of them or *)
(* gets none.  Each time NextExecution walks through the tags of the query *)
(* and the device jobs of each tag from the start; deviceJob.nextRun is    *)
(* the only step that reads or writes lastRun and runs under lastRunLock,  *)
(* so it is one action.  Handlers run concurrently and the clock moves     *)
(* between any two of their steps.                                         *)
(***************************************************************************)
EXTENDS Integers, Sequences, Functions

CONSTANTS
  DeviceJobs,   \* the jobs of the devices, one deviceJob for each
  Tags,         \* the device tags, the one of untagged devices included
  Untagged,     \* the tag "" of devices without tags
  ByTag,        \* deviceJobsByTag: per tag, the list of its device jobs
  CronTimes,    \* per device job, the instants of its cron expression
  Handlers,     \* the handlers of /worker/next that can run at once
  Queries,      \* the lists of tags that workers ask for
  Seconds,      \* the window lengths that workers ask for
  Maxima,       \* the execution counts that workers ask for
  MaxTime,      \* bound on the clock
  MaxRestarts   \* bound on the restarts of the controller

ASSUME ConstantsAssumption ==
  /\ Untagged \in Tags
  /\ ByTag \in [Tags -> Seq(DeviceJobs)]
  /\ CronTimes \in [DeviceJobs -> SUBSET Nat]
  /\ Queries \subseteq Seq(Tags)
  /\ Seconds \subseteq Int
  /\ Maxima \subseteq Nat
  /\ MaxTime \in Nat
  /\ MaxRestarts \in Nat

VARIABLES
  now,      \* the clock of the controller
  epoch,    \* how often the controller was restarted
  lastRun,  \* per device job, deviceJob.lastRun
  req,      \* per handler, its request (see Request)
  granted   \* history: per device job, its grants in order, with their epoch

vars == <<now, epoch, lastRun, req, granted>>

-----------------------------------------------------------------------------

Executions == [job : DeviceJobs, time : Nat]

Grants == [epoch : Nat, time : Nat]

(* The local variables of apiWorkerNext and of the NextExecution it is in: the *)
(* query, fromNow, max, the executions so far, the tags NextExecution has yet  *)
(* to look at and the device jobs left of the tag it is looking at.            *)
Request ==
  [stage : {"idle", "scan"}, query : Seq(Tags), before : Int, max : Nat,
   got : Seq(Executions), tags : Seq(Tags), devs : Seq(DeviceJobs)]

NoRequest ==
  [stage |-> "idle", query |-> <<>>, before |-> 0, max |-> 0,
   got |-> <<>>, tags |-> <<>>, devs |-> <<>>]

TypeOK ==
  /\ now \in Nat
  /\ epoch \in Nat
  /\ lastRun \in [DeviceJobs -> Nat]
  /\ req \in [Handlers -> Request]
  /\ granted \in [DeviceJobs -> Seq(Grants)]

TagsOf_Nil(query) == IF query = <<>> THEN <<<<>>>> ELSE query

(* NextExecution: a query without tags is a query for the tag "". *)
TagsOf(query) == IF query = <<>> THEN <<Untagged>> ELSE query

(* The device jobs a query reaches. *)
Reached(query) == UNION {Range(ByTag[t]) : t \in Range(TagsOf(query))}

After_IgnoringLastRun(d) == now

(* nextRun: runs are looked for after the last one and after the present. *)
After(d) == IF lastRun[d] > now THEN lastRun[d] ELSE now

Upcoming(d) == {t \in CronTimes[d] : t > After(d)}

NextRun_Latest(d, before) ==
  {t \in Upcoming(d) : t < before /\ \A u \in Upcoming(d) : u < before => u <= t}

(* nextRun: the next instant of the cron expression, if it is in the window. *)
NextRun(d, before) ==
  {t \in Upcoming(d) : t < before /\ \A u \in Upcoming(d) : t <= u}

(* nextRun returns the zero time: no instant is left in the window. *)
NoRunIn(d, before) == \A t \in Upcoming(d) : t >= before

Looking(h) == req[h].stage = "scan" /\ Len(req[h].got) < req[h].max

-----------------------------------------------------------------------------

(* NewLocalScheduler: every device job starts at the present. *)
Init ==
  /\ now = 0
  /\ epoch = 0
  /\ lastRun = [d \in DeviceJobs |-> now]
  /\ req = [h \in Handlers |-> NoRequest]
  /\ granted = [d \in DeviceJobs |-> <<>>]

(* apiWorkerNext begins: the end of the window is fixed once and for all. *)
Begin(h, query, seconds, max) ==
  /\ req[h].stage = "idle"
  /\ req' = [req EXCEPT ![h] =
       [stage |-> "scan", query |-> query, before |-> now + seconds,
        max |-> max, got |-> <<>>, tags |-> TagsOf(query), devs |-> <<>>]]
  /\ UNCHANGED <<now, epoch, lastRun, granted>>

(* NextExecution goes on to its next tag. *)
NextTag(h) ==
  /\ Looking(h)
  /\ req[h].devs = <<>>
  /\ req[h].tags # <<>>
  /\ req' = [req EXCEPT ![h].devs = ByTag[Head(req[h].tags)], ![h].tags = Tail(@)]
  /\ UNCHANGED <<now, epoch, lastRun, granted>>

Grant_AndGoOn(h) ==
  LET d == Head(req[h].devs) IN
  /\ Looking(h)
  /\ req[h].devs # <<>>
  /\ \E t \in NextRun(d, req[h].before) :
       /\ lastRun' = [lastRun EXCEPT ![d] = t]
       /\ granted' = [granted EXCEPT ![d] = Append(@, [epoch |-> epoch, time |-> t])]
       /\ req' = [req EXCEPT ![h].got = Append(@, [job |-> d, time |-> t]), ![h].devs = Tail(@)]
  /\ UNCHANGED <<now, epoch>>

(* nextRun finds a run: NextExecution returns it, and the handler calls       *)
(* NextExecution again, which walks from the start.                           *)
Grant(h) ==
  LET d == Head(req[h].devs) IN
  /\ Looking(h)
  /\ req[h].devs # <<>>
  /\ \E t \in NextRun(d, req[h].before) :
       /\ lastRun' = [lastRun EXCEPT ![d] = t]
       /\ granted' = [granted EXCEPT ![d] = Append(@, [epoch |-> epoch, time |-> t])]
       /\ req' = [req EXCEPT ![h] =
            [req[h] EXCEPT !.got = Append(req[h].got, [job |-> d, time |-> t]),
                           !.tags = TagsOf(req[h].query), !.devs = <<>>]]
  /\ UNCHANGED <<now, epoch>>

(* nextRun finds nothing: NextExecution goes on to the next device job. *)
Pass(h) ==
  /\ Looking(h)
  /\ req[h].devs # <<>>
  /\ NoRunIn(Head(req[h].devs), req[h].before)
  /\ req' = [req EXCEPT ![h].devs = Tail(@)]
  /\ UNCHANGED <<now, epoch, lastRun, granted>>

(* NextExecution has returned nil: the handler has less than it was asked for. *)
Exhausted(h) == Looking(h) /\ req[h].tags = <<>> /\ req[h].devs = <<>>

(* The response is written, 204 without executions. *)
Respond(h) ==
  /\ req[h].stage = "scan"
  /\ Exhausted(h) \/ Len(req[h].got) >= req[h].max
  /\ req' = [req EXCEPT ![h] = NoRequest]
  /\ UNCHANGED <<now, epoch, lastRun, granted>>

Tick ==
  /\ now < MaxTime
  /\ now' = now + 1
  /\ UNCHANGED <<epoch, lastRun, req, granted>>

(* The controller stops and is started again: nothing of the scheduler is     *)
(* persisted, and NewLocalScheduler starts from the present.                  *)
Restart ==
  /\ epoch < MaxRestarts
  /\ epoch' = epoch + 1
  /\ lastRun' = [d \in DeviceJobs |-> now]
  /\ req' = [h \in Handlers |-> NoRequest]
  /\ UNCHANGED <<now, granted>>

Next ==
  \/ \E h \in Handlers :
       \/ \E query \in Queries, seconds \in Seconds, max \in Maxima :
            Begin(h, query, seconds, max)
       \/ NextTag(h)
       \/ Grant(h)
       \/ Pass(h)
       \/ Respond(h)
  \/ Tick
  \/ Restart

Spec == Init /\ [][Next]_vars

-----------------------------------------------------------------------------
(* Properties. *)

(* Was this run handed out since the controller was last started? *)
Handed(d, t) == \E i \in DOMAIN granted[d] : granted[d][i] = [epoch |-> epoch, time |-> t]

(* One controller hands a run to one worker only, however many handlers walk  *)
(* the lists at the same time, and in order (docs/api.md:15, "Exclusively     *)
(* obtain the next set of jobs").                                             *)
ExclusiveRuns ==
  \A d \in DeviceJobs : \A i, j \in DOMAIN granted[d] :
    i < j /\ granted[d][i].epoch = granted[d][j].epoch =>
      granted[d][i].time < granted[d][j].time

(* lastRun moves over no run that is still to come: a run between the present *)
(* and lastRun is never looked for again, so it must have been handed out by  *)
(* this controller, not by the one before a restart.                          *)
NoUpcomingRunSkipped ==
  \A d \in DeviceJobs : \A t \in CronTimes[d] :
    now < t /\ t <= lastRun[d] => Handed(d, t)

(* A handler that answers with less than it was asked for leaves nothing to   *)
(* do in its window, for all the device jobs its query reaches: every run     *)
(* that is still to come has been handed to it or to another handler.         *)
ShortAnswerIsComplete ==
  \A h \in Handlers : Exhausted(h) =>
    \A d \in Reached(req[h].query) : \A t \in CronTimes[d] :
      now < t /\ t < req[h].before => Handed(d, t)

(* The runs handed out since the controller was last started, and the         *)
(* requests, as those who ask see them.                                       *)
HandedRuns ==
  UNION {{[job |-> d, time |-> granted[d][i].time] :
            i \in {k \in DOMAIN granted[d] : granted[d][k].epoch = epoch}} : d \in DeviceJobs}

OpenRequests ==
  [h \in Handlers |->
    IF req[h].stage = "idle"
    THEN [on |-> FALSE, scope |-> {}, before |-> 0, max |-> 0, got |-> <<>>]
    ELSE [on |-> TRUE, scope |-> Reached(req[h].query), before |-> req[h].before,
          max |-> req[h].max, got |-> req[h].got]]

Dispenser == INSTANCE RunDispenser WITH
  handed <- HandedRuns,
  open <- OpenRequests,
  Scopes <- {Reached(query) : query \in Queries}

(* The scheduler and its handlers keep the promise of RunDispenser: lists,    *)
(* lastRun and the walks of concurrent handlers stay behind it.               *)
DispenserSpec == Dispenser!Spec

=============================================================================
