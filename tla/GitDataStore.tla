---------------------------- MODULE GitDataStore ----------------------------
(***************************************************************************)
(* The in-memory queue of the git data store, controller/data_store.go:    *)
(* gitDataStore.Store called by the HTTP handlers of /worker/complete, and *)
(* the loop of the pool workers, gitWorker.run, with nextJobs, pushJobs    *)
(* and markJobsCompleted.                                                  *)
(*                                                                         *)
(* writesLock is a mutex.  Every critical section but one is straight-line *)
(* code and is one action guarded by the free lock; markJobsCompleted may  *)
(* block on pendingWorkChan with the lock held, so the lock is a variable. *)
(* pendingWorkChan is unbuffered: a send and the matching receive are one  *)
(* step of both goroutines.  What git does with a batch is one step here;  *)
(* the Go map that holds the batch has no order between keys, so a batch   *)
(* is kept per key.                                                        *)
(***************************************************************************)
EXTENDS Naturals, Sequences, FiniteSets, Functions

CONSTANTS
  Jobs,       \* the results posted to /worker/complete, one handler for each
  Keys,       \* device and job name pairs: DataStoreJob.key
  KeyOf,      \* the key of each result
  TimeOf,     \* the expected run time of each result: DataStoreJob.JobTime
  Workers,    \* the goroutines of the pool
  NoOne,      \* the free lock
  NoJob,      \* a file that was never written
  GitMayFail, \* whether the git commands of pushJobs may fail
  MaxPending  \* bound on the length of a pending list (see MarkJobsCompleted)

ASSUME ConstantsAssumption ==
  /\ KeyOf \in [Jobs -> Keys]
  /\ NoOne \notin Workers
  /\ NoJob \notin Jobs
  /\ GitMayFail \in BOOLEAN
  /\ MaxPending \in Nat

VARIABLES
  pending,    \* pendingWrites: per key, the results the next worker takes
  waiting,    \* waitingOnRunningWrites: per key, results behind a running write
  running,    \* runningWriteIds: per key, the ids being written ({} = no entry)
  lock,       \* the worker that holds writesLock across a send, or NoOne
  wpc,        \* where each pool worker is in run()
  batch,      \* per worker and key, the local variable jobs of run()
  hpc,        \* where each handler is in Store()
  pushed,     \* history: results that went through pushJobs
  arrived,    \* history: results in the order Store took them
  file        \* history: per key, the result pushJobs wrote last

vars == <<pending, waiting, running, lock, wpc, batch, hpc, pushed, arrived, file>>

-----------------------------------------------------------------------------

(* DataStoreJob.id: key and expected run time. *)
Id(j) == <<KeyOf[j], TimeOf[j]>>

(* s, n times in a row. *)
Repeated(s, n) == [i \in 1 .. (n * Len(s)) |-> s[1 + ((i - 1) % Len(s))]]

NoBatch_NilJob == [k \in Keys |-> <<NoJob>>]

(* Empty lists: a key without an entry in the Go map. *)
NoBatch == [k \in Keys |-> <<>>]

Stored(j) == hpc[j] # "posted"

(* The results worker w took and has not marked completed. *)
Held(w) == UNION {Range(batch[w][k]) : k \in Keys}

KeyIsRunning_Unchecked(k) == FALSE

(* Store: the key has an entry in runningWriteIds. *)
KeyIsRunning(k) == running[k] # {}

Queued_InFront(list, more) == more \o list

(* Go's append to the list of a key, which is made when it is missing. *)
Queued(list, more) == list \o more

Enqueued_Dropped(w) == NoBatch

(* markJobsCompleted: what is appended to the pending lists, the waiting list *)
(* of a key once for every result of that key in the batch.                   *)
Enqueued(w) == [k \in Keys |-> Repeated(waiting[k], Len(batch[w][k]))]

AnythingEnqueued_Never(w) == FALSE

AnythingEnqueued(w) == \E k \in Keys : Enqueued(w)[k] # <<>>

TypeOK ==
  /\ pending \in [Keys -> Seq(Jobs)]
  /\ waiting \in [Keys -> Seq(Jobs)]
  /\ running \in [Keys -> SUBSET {Id(j) : j \in Jobs}]
  /\ lock \in Workers \cup {NoOne}
  /\ wpc \in [Workers -> {"receive", "next", "push", "mark", "send"}]
  /\ batch \in [Workers -> [Keys -> Seq(Jobs)]]
  /\ hpc \in [Jobs -> {"posted", "sending", "returned"}]
  /\ pushed \in SUBSET Jobs
  /\ arrived \in Seq(Jobs)
  /\ file \in [Keys -> Jobs \cup {NoJob}]

(* newGitDataStore: empty maps, every pool worker at its first receive. *)
Init ==
  /\ pending = NoBatch
  /\ waiting = NoBatch
  /\ running = [k \in Keys |-> {}]
  /\ lock = NoOne
  /\ wpc = [w \in Workers |-> "receive"]
  /\ batch = [w \in Workers |-> NoBatch]
  /\ hpc = [j \in Jobs |-> "posted"]
  /\ pushed = {}
  /\ arrived = <<>>
  /\ file = [k \in Keys |-> NoJob]

-----------------------------------------------------------------------------

(* Store, the critical section: the result waits if its key is being written *)
(* and is pending otherwise.  The handler then blocks on pendingWorkChan.    *)
Store(j) ==
  LET k == KeyOf[j] IN
  /\ hpc[j] = "posted"
  /\ lock = NoOne
  /\ IF KeyIsRunning(k)
     THEN /\ waiting' = [waiting EXCEPT ![k] = Queued(@, <<j>>)]
          /\ UNCHANGED pending
     ELSE /\ pending' = [pending EXCEPT ![k] = Queued(@, <<j>>)]
          /\ UNCHANGED waiting
  /\ hpc' = [hpc EXCEPT ![j] = "sending"]
  /\ arrived' = Append(arrived, j)
  /\ UNCHANGED <<running, lock, wpc, batch, pushed, file>>

ReceiveFromStore_SentTwice(w, j) ==
  /\ wpc[w] = "receive"
  /\ hpc[j] = "sending"
  /\ wpc' = [wpc EXCEPT ![w] = "next"]
  /\ UNCHANGED <<pending, waiting, running, lock, batch, hpc, pushed, arrived, file>>

(* pendingWorkChan: worker w receives from the handler of j, which returns. *)
ReceiveFromStore(w, j) ==
  /\ wpc[w] = "receive"
  /\ hpc[j] = "sending"
  /\ wpc' = [wpc EXCEPT ![w] = "next"]
  /\ hpc' = [hpc EXCEPT ![j] = "returned"]
  /\ UNCHANGED <<pending, waiting, running, lock, batch, pushed, arrived, file>>

(* pendingWorkChan: worker w receives from worker v inside markJobsCompleted, *)
(* whose deferred unlock then runs before its next receive.                   *)
ReceiveFromMark(w, v) ==
  /\ wpc[w] = "receive"
  /\ wpc[v] = "send"
  /\ wpc' = [wpc EXCEPT ![w] = "next", ![v] = "receive"]
  /\ lock' = NoOne
  /\ UNCHANGED <<pending, waiting, running, batch, hpc, pushed, arrived, file>>

(* nextJobs: take every pending result and mark its id as running.  With    *)
(* nothing pending run() skips pushJobs and goes on to markJobsCompleted.   *)
NextJobs(w) ==
  /\ wpc[w] = "next"
  /\ lock = NoOne
  /\ batch' = [batch EXCEPT ![w] = pending]
  /\ running' = [k \in Keys |-> running[k] \cup {Id(j) : j \in Range(pending[k])}]
  /\ pending' = NoBatch
  /\ wpc' = [wpc EXCEPT ![w] = IF pending = NoBatch THEN "mark" ELSE "push"]
  /\ UNCHANGED <<waiting, lock, hpc, pushed, arrived, file>>

(* What a file can hold after pushJobs of worker w: the results of the batch  *)
(* are written in the order of their list, so the last one.  A git command    *)
(* that fails drops what it covered (the errors are only logged): the file    *)
(* then holds the last result whose write went well, or what it held before.  *)
Outcomes(w, k) ==
  LET b == batch[w][k] IN
  IF b = <<>> THEN {file[k]}
  ELSE {b[Len(b)]} \cup (IF GitMayFail THEN {file[k]} \cup Range(b) ELSE {})

(* pushJobs, seen from the queue. *)
PushJobs(w) ==
  /\ wpc[w] = "push"
  /\ file' \in {f \in [Keys -> Jobs \cup {NoJob}] : \A k \in Keys : f[k] \in Outcomes(w, k)}
  /\ pushed' = pushed \cup Held(w)
  /\ wpc' = [wpc EXCEPT ![w] = "mark"]
  /\ UNCHANGED <<pending, waiting, running, lock, batch, hpc, arrived>>

MarkJobsCompleted_StillLocked(w) ==
  /\ wpc[w] = "mark"
  /\ lock = NoOne
  /\ running' = [k \in Keys |-> running[k] \ {Id(j) : j \in Range(batch[w][k])}]
  /\ pending' = [k \in Keys |-> Queued(pending[k], Enqueued(w)[k])]
  /\ batch' = [batch EXCEPT ![w] = NoBatch]
  /\ wpc' = [wpc EXCEPT ![w] = IF AnythingEnqueued(w) THEN "send" ELSE "receive"]
  /\ lock' = w
  /\ UNCHANGED <<waiting, hpc, pushed, arrived, file>>

(* markJobsCompleted: for every job of the batch its id stops running and the *)
(* whole waiting list of its key, which is never emptied, is appended to the  *)
(* pending list.  If anything was appended the worker sends on                *)
(* pendingWorkChan with writesLock still held.  MaxPending bounds the growth. *)
MarkJobsCompleted(w) ==
  /\ wpc[w] = "mark"
  /\ lock = NoOne
  /\ \A k \in Keys : Len(pending[k]) + Len(Enqueued(w)[k]) <= MaxPending
  /\ running' = [k \in Keys |-> running[k] \ {Id(j) : j \in Range(batch[w][k])}]
  /\ pending' = [k \in Keys |-> Queued(pending[k], Enqueued(w)[k])]
  /\ batch' = [batch EXCEPT ![w] = NoBatch]
  /\ wpc' = [wpc EXCEPT ![w] = IF AnythingEnqueued(w) THEN "send" ELSE "receive"]
  /\ lock' = IF AnythingEnqueued(w) THEN w ELSE NoOne
  /\ UNCHANGED <<waiting, hpc, pushed, arrived, file>>

Receive(w) ==
  \/ \E j \in Jobs : ReceiveFromStore(w, j)
  \/ \E v \in Workers : ReceiveFromMark(w, v)

Next ==
  \/ \E j \in Jobs : Store(j)
  \/ \E w \in Workers :
       \/ Receive(w)
       \/ NextJobs(w)
       \/ PushJobs(w)
       \/ MarkJobsCompleted(w)

Spec == Init /\ [][Next]_vars

-----------------------------------------------------------------------------
(* Properties. *)

(* Two workers never hold results of the same key: what runningWriteIds is   *)
(* for.  It takes Store, nextJobs and markJobsCompleted together: pendingWrites *)
(* must stay empty for a key as long as a worker holds it.                   *)
OneWriterPerKey ==
  \A v, w \in Workers, k \in Keys :
    batch[v][k] # <<>> /\ batch[w][k] # <<>> => v = w

(* A result Store took and no worker has pushed yet is somewhere it will be   *)
(* found: pending, in a batch, or waiting behind a write that is running now  *)
(* and whose markJobsCompleted will enqueue it.  A result left in             *)
(* waitingOnRunningWrites with nobody writing its key would be stranded.      *)
NoStoredJobLost ==
  \A j \in Jobs : Stored(j) /\ j \notin pushed =>
    \/ j \in Range(pending[KeyOf[j]])
    \/ \E w \in Workers : j \in Held(w)
    \/ j \in Range(waiting[KeyOf[j]]) /\ \E w \in Workers : batch[w][KeyOf[j]] # <<>>

(* The channel carries no data, so a pending result is only noticed through   *)
(* a wake-up: while something is pending a send is blocked on                 *)
(* pendingWorkChan or a worker that received is on its way to nextJobs.       *)
NoLostWakeup ==
  (\E k \in Keys : pending[k] # <<>>) =>
    \/ \E j \in Jobs : hpc[j] = "sending"
    \/ \E w \in Workers : wpc[w] \in {"next", "send"}

(* i is before j in list s. *)
Before(i, j, s) ==
  \E m, n \in DOMAIN s : m < n /\ s[m] = i /\ s[n] = j

(* Results of one key are taken for their FIRST write in the order Store took *)
(* them, although they travel through two lists: when a worker holds j, every *)
(* result of the key that arrived before j was pushed or precedes j.          *)
FirstWriteInArrivalOrder ==
  \A w \in Workers, i, j \in Jobs :
    LET b == batch[w][KeyOf[j]] IN
    Before(i, j, arrived) /\ KeyOf[i] = KeyOf[j] /\ j \in Range(b) =>
      i \in pushed \/ Before(i, j, b)

(* markJobsCompleted sends with writesLock held: every worker that is not at  *)
(* its receive may need that lock, so the send succeeds only if some worker   *)
(* is.  A pool with more workers than results ever posted always has one;     *)
(* StoredIsPushed fails for a smaller pool.                                   *)
SenderHasReceiver ==
  \A v \in Workers : wpc[v] = "send" => \E w \in Workers : wpc[w] = "receive"

(* A file is never overwritten with a result that arrived before the one in   *)
(* it (docs/data.md:56-57: "This ensures that each file is updated with the   *)
(* latest information").                                                      *)
FileKeepsLatest ==
  [][\A k \in Keys : ~ Before(file'[k], file[k], arrived)]_vars

(* What the data store promises to its callers. *)
Queue == INSTANCE FileWriteQueue WITH
  Files <- Keys,
  FileOf <- KeyOf,
  accepted <- {j \in Jobs : Stored(j)},
  writing <- [w \in Workers |-> Held(w)],
  written <- pushed

QueueSpec == Queue!Spec

-----------------------------------------------------------------------------
(* Liveness.  A Go mutex is starvation-free and blocked channel operations    *)
(* are served first come first served, so a goroutine that could proceed      *)
(* again and again proceeds: strong fairness.  Git commands are assumed to    *)
(* end (doGitCmd has no timeout).                                             *)
Fairness ==
  /\ \A j \in Jobs :
       /\ SF_vars(Store(j))
       /\ SF_vars(\E w \in Workers : ReceiveFromStore(w, j))
  /\ \A w \in Workers :
       /\ SF_vars(\E v \in Workers : ReceiveFromMark(v, w))
       /\ SF_vars(NextJobs(w))
       /\ WF_vars(PushJobs(w))
       /\ SF_vars(MarkJobsCompleted(w))

FairSpec == Spec /\ Fairness

(* Every result Store took is pushed (docs/data.md:62-63: "Once one is        *)
(* available, all queued up operations are sent to git").                     *)
StoredIsPushed == \A j \in Jobs : Stored(j) ~> j \in pushed

(* Every handler gets through Store, its lock and its send, and answers. *)
EveryPostReturns == \A j \in Jobs : <>(hpc[j] = "returned")

=============================================================================
