--------------------------------- MODULE Fusty ---------------------------------
(***************************************************************************)
(* The whole way of a result: the workers (Worker) get runs from the       *)
(* controller, execute them and post the results to /worker/complete,      *)
(* whose handlers, controller/api.go:apiWorkerComplete, hand them to the   *)
(* data store (FileWriteQueue, which GitDataStore implements).             *)
(*                                                                         *)
(* Here a post has its parts: a goroutine of the worker sends it, a        *)
(* handler looks at the result and stores, logs or refuses it, and the     *)
(* answer travels back, of which the worker does not read the status.  The *)
(* request and the answer may get lost and the worker may give up waiting  *)
(* in between, which ends it.  A restart of the controller ends its        *)
(* handlers and empties its queue.                                         *)
(***************************************************************************)
EXTENDS Integers, Sequences, FiniteSets, Functions

CONSTANTS
  DeviceJobs, CronTimes, Workers, ScopeOf, Handlers, NoHandler, SleepSeconds,
  TimeoutSeconds, MaxJobs, Prompt, MaxTime, MaxRestarts,  \* see Worker
  Pool  \* the members of the pool of the data store

VARIABLES
  now, handed, open, epoch, loop, timers, running, posting, count, started,
  ended, since,                \* see Worker
  accepted, writing, written,  \* see FileWriteQueue
  failed,     \* executions that ended with a failure
  blank,      \* executions that ended without a failure and without contents
  waiting,    \* per worker, the executions whose post waits for its answer
  arrived,    \* executions whose post is with a handler of /worker/complete
  answered,   \* executions whose post was answered
  refused,    \* history: results that a handler answered with an error
  forgotten,  \* history: results that were accepted before a restart
  acked       \* history: executions whose answer came back to the worker

worker ==
  <<now, handed, open, epoch, loop, timers, running, posting, count, started, ended, since>>
queue == <<accepted, writing, written>>
post == <<failed, blank, waiting, arrived, answered, refused, forgotten, acked>>
vars == <<worker, queue, post>>

(* What can be executed: a run that some start of the controller hands out. *)
Results ==
  UNION {[job : {d}, time : CronTimes[d], epoch : 0 .. MaxRestarts] : d \in DeviceJobs}

W == INSTANCE Worker

ASSUME FustyAssumption == W!ConstantsAssumption

Queue == INSTANCE FileWriteQueue WITH
  Jobs <- Results,
  Files <- DeviceJobs,
  FileOf <- [x \in Results |-> x.job],
  Workers <- Pool

TypeOK ==
  /\ W!TypeOK
  /\ accepted \in SUBSET Results
  /\ writing \in [Pool -> SUBSET Results]
  /\ written \in SUBSET Results
  /\ failed \in SUBSET Results
  /\ blank \in SUBSET Results
  /\ waiting \in [Workers -> SUBSET Results]
  /\ arrived \in SUBSET Results
  /\ answered \in SUBSET Results
  /\ refused \in SUBSET Results
  /\ forgotten \in SUBSET Results
  /\ acked \in SUBSET Results

-----------------------------------------------------------------------------

Init ==
  /\ W!Init
  /\ Queue!Init
  /\ failed = {}
  /\ blank = {}
  /\ waiting = [w \in Workers |-> {}]
  /\ arrived = {}
  /\ answered = {}
  /\ refused = {}
  /\ forgotten = {}
  /\ acked = {}

(* The main loop of a worker: it gets executions for the near future. *)
Loop(w) ==
  /\ W!Ask(w) \/ W!Full(w) \/ W!Answer(w) \/ W!GiveUp(w) \/ W!Wake(w)
  /\ UNCHANGED <<queue, post>>

(* The timer of an execution fires. *)
Run(w, x) ==
  /\ W!Run(w, x)
  /\ UNCHANGED <<queue, post>>

StartAgain(w) ==
  /\ W!StartAgain(w)
  /\ UNCHANGED <<queue, post>>

(* The handlers of /worker/next. *)
Hand(h) ==
  /\ W!Give(h) \/ W!AnswerNobody(h)
  /\ UNCHANGED <<queue, post>>

Tick ==
  /\ W!Tick
  /\ UNCHANGED <<queue, post>>

(* runExecution returns: with contents, with a failure, or without either, as *)
(* a job whose last command has timeout 0 and is not waited for.              *)
Finish(w, x) ==
  /\ W!Finish(w, x)
  /\ \/ UNCHANGED <<failed, blank>>
     \/ failed' = failed \cup {x} /\ UNCHANGED blank
     \/ blank' = blank \cup {x} /\ UNCHANGED failed
  /\ UNCHANGED <<queue, waiting, arrived, answered, refused, forgotten, acked>>

Send_Twice(w, x) ==
  /\ x \in posting[w]
  /\ waiting' = [waiting EXCEPT ![w] = @ \cup {x}]
  /\ arrived' = arrived \cup {x}
  /\ UNCHANGED <<worker, queue, failed, blank, answered, refused, forgotten, acked>>

(* runExecutionAndPostResult posts the result; it may get lost. *)
Send(w, x) ==
  /\ x \in posting[w] \ waiting[w]
  /\ waiting' = [waiting EXCEPT ![w] = @ \cup {x}]
  /\ \/ arrived' = arrived \cup {x}
     \/ UNCHANGED arrived
  /\ UNCHANGED <<worker, queue, failed, blank, answered, refused, forgotten, acked>>

HasContents_Always(x) == x \in started

(* What tells a result to store from a failure, which is logged, and from one *)
(* with neither a failure nor contents, which is refused.                     *)
HasContents(x) == x \notin failed \cup blank

Complete_WithoutStore(x) ==
  /\ x \in arrived
  /\ arrived' = arrived \ {x}
  /\ answered' = answered \cup ({x} \cap UNION Range(waiting))
  /\ UNCHANGED <<worker, queue, failed, blank, waiting, refused, forgotten, acked>>

(* apiWorkerComplete.  Any result may be refused: its form cannot be parsed   *)
(* or spilled to disk, or its file cannot be opened or read (a worker sends   *)
(* all the fields).  One without a failure and contents always is.  Else a    *)
(* failure is logged and contents are stored.  All are answered alike for the *)
(* worker, which does not look at the status.                                 *)
Complete(x) ==
  /\ x \in arrived
  /\ arrived' = arrived \ {x}
  /\ answered' = answered \cup ({x} \cap UNION Range(waiting))
  /\ \/ refused' = refused \cup {x} /\ UNCHANGED queue
     \/ x \in failed /\ UNCHANGED <<queue, refused>>
     \/ HasContents(x) /\ Queue!Accept(x) /\ UNCHANGED refused
  /\ UNCHANGED <<worker, failed, blank, waiting, forgotten, acked>>

(* The answer comes back; the worker is done with the execution. *)
Acknowledged(w, x) ==
  /\ x \in waiting[w] \cap answered
  /\ W!Post(w, x)
  /\ waiting' = [waiting EXCEPT ![w] = @ \ {x}]
  /\ answered' = answered \ {x}
  /\ acked' = acked \cup {x}
  /\ UNCHANGED <<queue, failed, blank, arrived, refused, forgotten>>

(* The post fails or runs into its timeout, which ends the worker; answers to *)
(* its other posts find nobody.                                               *)
GiveUpPost(w, x) ==
  /\ x \in waiting[w]
  /\ W!PostFails(w, x)
  /\ waiting' = [waiting EXCEPT ![w] = {}]
  /\ answered' = answered \ waiting[w]
  /\ UNCHANGED <<queue, failed, blank, arrived, refused, forgotten, acked>>

(* A member of the pool takes, writes and lets go of results. *)
Take(p) ==
  /\ \E S \in SUBSET accepted \ {{}} : Queue!Begin(p, S)
  /\ UNCHANGED <<worker, post>>

Write(p) ==
  /\ Queue!Write(p)
  /\ UNCHANGED <<worker, post>>

Release(p) ==
  /\ Queue!Release(p)
  /\ UNCHANGED <<worker, post>>

(* The controller is restarted: handlers end, what is queued is lost, and so  *)
(* is what the scheduler has handed out (W!Restart).                          *)
Restart ==
  /\ W!Restart
  /\ forgotten' = forgotten \cup accepted
  /\ accepted' = {}
  /\ writing' = [p \in Pool |-> {}]
  /\ arrived' = {}
  /\ UNCHANGED <<written, failed, blank, waiting, answered, refused, acked>>

Next ==
  \/ \E w \in Workers :
       \/ Loop(w)
       \/ \E x \in timers[w] : Run(w, x)
       \/ StartAgain(w)
       \/ \E x \in running[w] : Finish(w, x)
       \/ \E x \in posting[w] : Send(w, x) \/ Acknowledged(w, x) \/ GiveUpPost(w, x)
  \/ \E h \in Handlers : Hand(h)
  \/ \E x \in arrived : Complete(x)
  \/ \E p \in Pool : Take(p) \/ Write(p) \/ Release(p)
  \/ Tick
  \/ Restart

Spec == Init /\ [][Next]_vars

-----------------------------------------------------------------------------
(* Properties. *)

(* However requests and answers are lost, workers end and the controller is   *)
(* restarted: a result reaches the controller once.  The data store does not  *)
(* look for results it has already, it would write one a second time.         *)
NoResultTwice ==
  \A x \in arrived : x \notin accepted \cup forgotten \cup answered \cup acked

(* A result that the worker believes delivered, because its post was answered *)
(* with whatever status (worker.go:280), was stored, or was a failure that    *)
(* was logged (api.go:130, "We log failures, we do not store them"), or the   *)
(* controller refused it, which neither side logs: there is no other way to   *)
(* lose it.  What was stored was executed and had contents, was not refused   *)
(* as well, and was executed, by the clock in its time, after the controller  *)
(* handed it out.                                                             *)
ResultsAreAccounted ==
  /\ acked \subseteq failed \cup accepted \cup forgotten \cup refused
  /\ \A x \in accepted \cup forgotten :
       /\ x \in started \ (failed \cup blank \cup refused)
       /\ x.time <= now
       /\ x.epoch = epoch => [job |-> x.job, time |-> x.time] \in handed

-----------------------------------------------------------------------------
(* Liveness.  Timers fire, executions and requests end (an execution that     *)
(* hangs is beyond the program, see Executor) and handlers run.  A worker     *)
(* that ended need not be started again, and nothing restarts the controller. *)

(* A pool of no more members than there are results can block for good, and   *)
(* the handlers behind it in Store (see the run data_store_small_pool of      *)
(* GitDataStore), so both are taken to make progress only if the pool is      *)
(* larger (StoredIsPushed, EveryPostReturns).                                 *)
PoolIsLarge == Cardinality(Pool) > Cardinality(Results)

Fairness ==
  /\ WF_vars(Tick)
  /\ \A w \in Workers :
       /\ WF_vars(Loop(w))
       /\ WF_vars(\E x \in timers[w] : Run(w, x))
       /\ WF_vars(\E x \in running[w] : Finish(w, x))
       /\ WF_vars(\E x \in posting[w] : Send(w, x))
       /\ WF_vars(\E x \in waiting[w] : Acknowledged(w, x) \/ GiveUpPost(w, x))
  /\ PoolIsLarge =>
       /\ WF_vars(\E x \in arrived : Complete(x))
       /\ \A p \in Pool : WF_vars(Take(p) \/ Write(p) \/ Release(p))

FairSpec == Spec /\ Fairness

(* An execution that a worker took comes to an end that is known: its result  *)
(* is written, or it is a failure or refused, or its worker ended, or the     *)
(* controller was restarted with the result in its queue.  And a result that  *)
(* arrived is written or refused or a failure even if its worker has ended,   *)
(* unless the controller is restarted.                                        *)
ExecutionsAreSettled ==
  \A x \in Results :
    /\ (\E w \in Workers : x \in W!Held(w)) ~>
         x \in written \cup forgotten \cup failed \cup refused \cup (ended \ acked)
    /\ (x \in arrived /\ epoch = MaxRestarts) ~> x \in written \cup failed \cup refused

=============================================================================
