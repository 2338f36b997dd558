------------------------- MODULE GitDataStoreProofs -------------------------
(***************************************************************************)
(* Proofs about the queue of the git data store, for every pool, every set *)
(* of results and every assignment of keys and times to them.              *)
(***************************************************************************)
EXTENDS GitDataStore, TLAPS

(* The ids of the results in a list. *)
Ids(s) == {Id(j) : j \in Range(s)}

(* A worker waits in its send exactly when it holds writesLock. *)
LockHeldBySender == \A w \in Workers : lock = w <=> wpc[w] = "send"

(* A worker holds results only between nextJobs and markJobsCompleted. *)
BatchWhileWorking ==
  \A w \in Workers, k \in Keys :
    batch[w][k] # <<>> => wpc[w] \in {"push", "mark"}

(* What a worker is about to mark completed went through pushJobs. *)
MarkedIsPushed ==
  \A w \in Workers : wpc[w] = "mark" => Held(w) \subseteq pushed

(* runningWriteIds is what the workers hold. *)
RunningIsHeld ==
  /\ \A w \in Workers, k \in Keys : batch[w][k] # <<>> => running[k] = Ids(batch[w][k])
  /\ \A k \in Keys : running[k] # {} => \E w \in Workers : batch[w][k] # <<>>

(* pendingWrites has nothing for a key that is being written. *)
PendingNotRunning == \A k \in Keys : pending[k] # <<>> => running[k] = {}

(* Every list holds results of its own key that Store took. *)
ListsByKey ==
  \A k \in Keys :
    /\ \A j \in Range(pending[k]) \cup Range(waiting[k]) : KeyOf[j] = k /\ Stored(j)
    /\ \A w \in Workers : \A j \in Range(batch[w][k]) : KeyOf[j] = k /\ Stored(j)

(* The inductive invariant.  OneWriterPerKey alone is not inductive: that a   *)
(* worker may take the pending list of a key without looking at the others    *)
(* rests on PendingNotRunning, and that rests on RunningIsHeld.               *)
IInv ==
  /\ TypeOK
  /\ LockHeldBySender
  /\ BatchWhileWorking
  /\ MarkedIsPushed
  /\ RunningIsHeld
  /\ PendingNotRunning
  /\ ListsByKey
  /\ OneWriterPerKey

-----------------------------------------------------------------------------
(* The operators on lists. *)

(* Queued appends: the result is a list and holds what the two lists held.    *)
LEMMA QueuedList ==
  ASSUME NEW S, NEW s \in Seq(S), NEW t \in Seq(S)
  PROVE  /\ Queued(s, t) \in Seq(S)
         /\ Range(Queued(s, t)) = Range(s) \cup Range(t)
         /\ Queued(s, t) = <<>> <=> s = <<>> /\ t = <<>>
         /\ t = <<>> => Queued(s, t) = s
<1>1. Queued(s, t) \in Seq(S) /\ Len(Queued(s, t)) = Len(s) + Len(t)
  BY DEF Queued
<1>2. \A i \in 1 .. Len(s) : Queued(s, t)[i] = s[i]
  BY DEF Queued
<1>3. \A i \in 1 .. Len(t) : Queued(s, t)[Len(s) + i] = t[i]
  BY DEF Queued
<1>4. Range(Queued(s, t)) \subseteq Range(s) \cup Range(t)
  <2>1. SUFFICES ASSUME NEW i \in 1 .. (Len(s) + Len(t))
                 PROVE  Queued(s, t)[i] \in Range(s) \cup Range(t)
    BY <1>1 DEF Range
  <2>2. CASE i <= Len(s)
    BY <1>2, <2>2 DEF Range
  <2>3. CASE i > Len(s)
    <3>1. i - Len(s) \in 1 .. Len(t) /\ Len(s) + (i - Len(s)) = i
      BY <2>3
    <3>2. Queued(s, t)[i] = t[i - Len(s)]
      BY <3>1, <1>3
    <3> QED BY <3>1, <3>2 DEF Range
  <2> QED BY <2>2, <2>3
<1>5. Range(s) \subseteq Range(Queued(s, t))
  BY <1>1, <1>2 DEF Range
<1>6. Range(t) \subseteq Range(Queued(s, t))
  <2>1. SUFFICES ASSUME NEW i \in 1 .. Len(t)
                 PROVE  t[i] \in Range(Queued(s, t))
    BY DEF Range
  <2>2. Len(s) + i \in 1 .. (Len(s) + Len(t))
    OBVIOUS
  <2>3. Queued(s, t)[Len(s) + i] = t[i]
    BY <1>3
  <2>4. Len(s) + i \in DOMAIN Queued(s, t)
    BY <1>1, <2>2
  <2> QED BY <2>3, <2>4 DEF Range
<1>7. Queued(s, t) = <<>> <=> s = <<>> /\ t = <<>>
  BY DEF Queued
<1>8. ASSUME t = <<>>
      PROVE  Queued(s, t) = s
  <2>1. Len(t) = 0
    BY <1>8
  <2>2. Len(Queued(s, t)) = Len(s)
    BY <1>1, <2>1
  <2> QED BY <1>1, <1>2, <2>2
<1> QED BY <1>1, <1>4, <1>5, <1>6, <1>7, <1>8

LEMMA QueuedOne ==
  ASSUME NEW j \in Jobs
  PROVE  \A s \in Seq(Jobs) : Range(Queued(s, <<j>>)) = Range(s) \cup {j}
<1>1. <<j>> \in Seq(Jobs) /\ Range(<<j>>) = {j}
  BY DEF Range
<1>2. ASSUME NEW s \in Seq(Jobs), NEW t \in Seq(Jobs), Range(t) = {j}
      PROVE  Range(Queued(s, t)) = Range(s) \cup {j}
  BY <1>2, QueuedList
<1> QED BY <1>1, <1>2

(* A list repeated n times is a list of the same elements, or empty. *)
LEMMA RepeatedList ==
  ASSUME NEW S, NEW s \in Seq(S), NEW n \in Nat
  PROVE  /\ Repeated(s, n) \in Seq(S)
         /\ Range(Repeated(s, n)) \subseteq Range(s)
         /\ n # 0 => Range(s) \subseteq Range(Repeated(s, n))
         /\ n = 0 \/ s = <<>> => Repeated(s, n) = <<>>
<1> DEFINE L == Len(s)
           m == n * L
<1>1. L \in Nat /\ m \in Nat
  OBVIOUS
<1>2. ASSUME NEW i \in 1 .. m
      PROVE  1 + ((i - 1) % L) \in 1 .. L
  <2>1. L # 0
    <3>1. L = 0 => m = 0
      OBVIOUS
    <3> QED BY <3>1, <1>1
  <2> HIDE DEF L, m
  <2> QED BY <2>1, <1>1
<1>3. \A i \in 1 .. m : Repeated(s, n)[i] = s[1 + ((i - 1) % L)]
  BY DEF Repeated
<1>4. Repeated(s, n) \in Seq(S) /\ Len(Repeated(s, n)) = m
  <2>1. \A i \in 1 .. m : s[1 + ((i - 1) % L)] \in S
    BY <1>2
  <2> HIDE DEF m
  <2>2. Repeated(s, n) = [i \in 1 .. m |-> s[1 + ((i - 1) % L)]]
    BY DEF Repeated, m
  <2> QED BY <2>1, <2>2, <1>1
<1>5. Range(Repeated(s, n)) \subseteq Range(s)
  BY <1>2, <1>3, <1>4 DEF Range
<1>6. ASSUME n # 0
      PROVE  Range(s) \subseteq Range(Repeated(s, n))
  <2>1. SUFFICES ASSUME NEW i \in 1 .. L
                 PROVE  s[i] \in Range(Repeated(s, n))
    BY DEF Range
  <2>2. L <= m
    BY <1>1, <1>6
  <2>3. i \in 1 .. m /\ (i - 1) % L = i - 1
    <3> HIDE DEF L, m
    <3> QED BY <2>2, <1>1
  <2>4. Repeated(s, n)[i] = s[i]
    BY <1>3, <2>3
  <2> QED BY <1>4, <2>3, <2>4 DEF Range
<1>7. ASSUME n = 0 \/ s = <<>>
      PROVE  Repeated(s, n) = <<>>
  <2>1. m = 0
    BY <1>7
  <2> QED BY <2>1, <1>4
<1> QED BY <1>4, <1>5, <1>6, <1>7

-----------------------------------------------------------------------------
(* Type correctness. *)

LEMMA EnqueuedType ==
  ASSUME TypeOK, NEW w \in Workers
  PROVE  /\ Enqueued(w) \in [Keys -> Seq(Jobs)]
         /\ \A k \in Keys : Len(batch[w][k]) \in Nat
<1>1. \A k \in Keys : waiting[k] \in Seq(Jobs) /\ batch[w][k] \in Seq(Jobs)
  BY DEF TypeOK
<1>2. \A k \in Keys : Len(batch[w][k]) \in Nat
  BY <1>1
<1>3. \A k \in Keys : Repeated(waiting[k], Len(batch[w][k])) \in Seq(Jobs)
  BY <1>1, <1>2, RepeatedList
<1> QED BY <1>2, <1>3 DEF Enqueued

LEMMA TypeInit == Init => TypeOK
  BY ConstantsAssumption DEF Init, TypeOK, NoBatch

LEMMA TypeNext == TypeOK /\ [Next]_vars => TypeOK'
<1> SUFFICES ASSUME TypeOK, [Next]_vars
             PROVE  TypeOK'
  OBVIOUS
<1> USE ConstantsAssumption
<1>1. ASSUME NEW j \in Jobs, Store(j)
      PROVE  TypeOK'
  <2>1. KeyOf[j] \in Keys
    OBVIOUS
  <2>2. \A l \in [Keys -> Seq(Jobs)] : Queued(l[KeyOf[j]], <<j>>) \in Seq(Jobs)
    <3>1. <<j>> \in Seq(Jobs)
      OBVIOUS
    <3> QED BY <2>1, <3>1, QueuedList
  <2>3. pending' \in [Keys -> Seq(Jobs)] /\ waiting' \in [Keys -> Seq(Jobs)]
    BY <1>1, <2>2, ZenonT(30) DEF Store, TypeOK
  <2>4. arrived' \in Seq(Jobs) /\ hpc' \in [Jobs -> {"posted", "sending", "returned"}]
    BY <1>1 DEF Store, TypeOK
  <2> QED BY <1>1, <2>3, <2>4 DEF Store, TypeOK
<1>2. ASSUME NEW w \in Workers, NEW j \in Jobs, ReceiveFromStore(w, j)
      PROVE  TypeOK'
  BY <1>2 DEF ReceiveFromStore, TypeOK
<1>3. ASSUME NEW w \in Workers, NEW v \in Workers, ReceiveFromMark(w, v)
      PROVE  TypeOK'
  BY <1>3 DEF ReceiveFromMark, TypeOK
<1>4. ASSUME NEW w \in Workers, NextJobs(w)
      PROVE  TypeOK'
  <2>1. ASSUME NEW k \in Keys
        PROVE  {Id(j) : j \in Range(pending[k])} \subseteq {Id(j) : j \in Jobs}
    <3>1. pending[k] \in Seq(Jobs)
      BY DEF TypeOK
    <3>2. Range(pending[k]) \subseteq Jobs
      BY <3>1 DEF Range
    <3> QED BY <3>2
  <2>2. running' \in [Keys -> SUBSET {Id(j) : j \in Jobs}]
    BY <1>4, <2>1 DEF NextJobs, TypeOK
  <2>3. batch' \in [Workers -> [Keys -> Seq(Jobs)]] /\ pending' \in [Keys -> Seq(Jobs)]
    BY <1>4 DEF NextJobs, TypeOK, NoBatch
  <2> QED BY <1>4, <2>2, <2>3 DEF NextJobs, TypeOK
<1>5. ASSUME NEW w \in Workers, PushJobs(w)
      PROVE  TypeOK'
  <2>1. Held(w) \subseteq Jobs
    <3>1. \A k \in Keys : batch[w][k] \in Seq(Jobs)
      BY DEF TypeOK
    <3>2. \A k \in Keys : Range(batch[w][k]) \subseteq Jobs
      BY <3>1 DEF Range
    <3> QED BY <3>2 DEF Held
  <2>2. pushed' \in SUBSET Jobs
    BY <1>5, <2>1 DEF PushJobs, TypeOK
  <2>3. file' \in [Keys -> Jobs \cup {NoJob}]
    BY <1>5 DEF PushJobs
  <2> QED BY <1>5, <2>2, <2>3 DEF PushJobs, TypeOK
<1>6. ASSUME NEW w \in Workers, MarkJobsCompleted(w)
      PROVE  TypeOK'
  <2>1. ASSUME NEW k \in Keys
        PROVE  Queued(pending[k], Enqueued(w)[k]) \in Seq(Jobs)
    BY EnqueuedType, QueuedList DEF TypeOK
  <2>2. pending' \in [Keys -> Seq(Jobs)]
    BY <1>6, <2>1 DEF MarkJobsCompleted
  <2>3. running' \in [Keys -> SUBSET {Id(j) : j \in Jobs}]
    BY <1>6 DEF MarkJobsCompleted, TypeOK
  <2>4. batch' \in [Workers -> [Keys -> Seq(Jobs)]]
    BY <1>6 DEF MarkJobsCompleted, TypeOK, NoBatch
  <2> QED BY <1>6, <2>2, <2>3, <2>4 DEF MarkJobsCompleted, TypeOK
<1>7. CASE UNCHANGED vars
  BY <1>7 DEF vars, TypeOK
<1> QED BY <1>1, <1>2, <1>3, <1>4, <1>5, <1>6, <1>7 DEF Next, Receive

(* The lists, the maps, the lock and the program counters always have the     *)
(* shape the data store gives them.                                           *)
THEOREM TypeCorrect == Spec => []TypeOK
  BY TypeInit, TypeNext, PTL DEF Spec

-----------------------------------------------------------------------------
(* The inductive invariant. *)

(* A list with an element has an id. *)
LEMMA IdsEmpty ==
  ASSUME NEW s \in Seq(Jobs)
  PROVE  Ids(s) = {} <=> s = <<>>
<1>1. s # <<>> => 1 \in DOMAIN s
  OBVIOUS
<1>2. s = <<>> => Range(s) = {}
  BY DEF Range
<1> QED BY <1>1, <1>2 DEF Ids, Range

LEMMA IInvInit == Init => IInv
<1> SUFFICES ASSUME Init
             PROVE  IInv
  OBVIOUS
<1>1. TypeOK
  BY TypeInit
<1>2. Range(<<>>) = {}
  BY DEF Range
<1>3. LockHeldBySender /\ BatchWhileWorking /\ MarkedIsPushed
  BY ConstantsAssumption
  DEF Init, NoBatch, LockHeldBySender, BatchWhileWorking, MarkedIsPushed
<1>4. RunningIsHeld /\ PendingNotRunning /\ OneWriterPerKey
  BY DEF Init, NoBatch, RunningIsHeld, PendingNotRunning, OneWriterPerKey
<1>5. ListsByKey
  BY <1>2 DEF Init, NoBatch, ListsByKey
<1> QED BY <1>1, <1>3, <1>4, <1>5 DEF IInv

LEMMA IInvStore ==
  ASSUME IInv, NEW j \in Jobs, Store(j)
  PROVE  IInv'
<1> DEFINE k == KeyOf[j]
<1> USE ConstantsAssumption
<1>1. TypeOK' /\ TypeOK
  <2>1. [Next]_vars
    BY DEF Next
  <2> QED BY <2>1, TypeNext DEF IInv
<1>2. k \in Keys /\ <<j>> \in Seq(Jobs) /\ Range(<<j>>) = {j}
  BY DEF Range
<1>3. LockHeldBySender' /\ BatchWhileWorking' /\ MarkedIsPushed' /\ OneWriterPerKey'
  BY DEF Store, IInv, LockHeldBySender, BatchWhileWorking, MarkedIsPushed, Held,
         OneWriterPerKey
<1>4. RunningIsHeld'
  BY DEF Store, IInv, RunningIsHeld
<1>5. PendingNotRunning'
  <2>1. running' = running /\ PendingNotRunning
    BY DEF Store, IInv
  <2>2. pending' = pending \/ (running[k] = {} /\ pending' = [pending EXCEPT ![k] = Queued(@, <<j>>)])
    BY DEF Store, KeyIsRunning
  <2>3. \A m \in Keys : running[m] # {} => pending'[m] = pending[m]
    BY <1>1, <1>2, <2>2 DEF TypeOK
  <2> QED BY <2>1, <2>3 DEF PendingNotRunning
<1>6. ListsByKey'
  <2>1. \A i \in Jobs : Stored(i) => Stored(i)'
    BY <1>1 DEF Store, Stored, TypeOK
  <2>2. Stored(j)'
    BY <1>1 DEF Store, Stored, TypeOK
  <2>3. \A l \in [Keys -> Seq(Jobs)], m \in Keys : Range(l[m]) \subseteq Jobs
    BY DEF Range
  <2>4. ASSUME NEW m \in Keys
        PROVE  /\ Range(pending'[m]) \subseteq Range(pending[m]) \cup (IF m = k THEN {j} ELSE {})
               /\ Range(waiting'[m]) \subseteq Range(waiting[m]) \cup (IF m = k THEN {j} ELSE {})
    <3>1. /\ Range(Queued(pending[k], <<j>>)) = Range(pending[k]) \cup {j}
          /\ Range(Queued(waiting[k], <<j>>)) = Range(waiting[k]) \cup {j}
      <4>1. pending[k] \in Seq(Jobs) /\ waiting[k] \in Seq(Jobs)
        BY <1>1, <1>2 DEF TypeOK
      <4> HIDE DEF k
      <4> QED BY <4>1, QueuedOne
    <3>2. CASE m = k
      <4>1. /\ pending'[k] \in {pending[k], Queued(pending[k], <<j>>)}
            /\ waiting'[k] \in {waiting[k], Queued(waiting[k], <<j>>)}
        BY <1>1, <1>2 DEF Store, TypeOK
      <4> HIDE DEF k
      <4> QED BY <3>1, <3>2, <4>1
    <3>3. CASE m # k
      <4>1. pending'[m] = pending[m] /\ waiting'[m] = waiting[m]
        BY <1>1, <1>2, <3>3 DEF Store, TypeOK
      <4> QED BY <4>1
    <3> QED BY <3>2, <3>3
  <2>5. ASSUME NEW m \in Keys, NEW i \in Range(pending'[m]) \cup Range(waiting'[m])
        PROVE  KeyOf[i] = m /\ Stored(i)'
    <3>1. CASE i \in Range(pending[m]) \cup Range(waiting[m])
      <4>1. i \in Jobs
        BY <1>1, <2>3, <3>1 DEF TypeOK
      <4> QED BY <2>1, <3>1, <4>1 DEF IInv, ListsByKey
    <3>2. CASE i = j /\ m = k
      BY <2>2, <3>2
    <3> QED BY <2>4, <2>5, <3>1, <3>2
  <2>6. ASSUME NEW m \in Keys, NEW w \in Workers, NEW i \in Range(batch'[w][m])
        PROVE  KeyOf[i] = m /\ Stored(i)'
    <3>1. i \in Range(batch[w][m])
      BY <2>6 DEF Store
    <3>2. i \in Jobs
      BY <1>1, <2>3, <3>1 DEF TypeOK
    <3> QED BY <2>1, <3>1, <3>2 DEF IInv, ListsByKey
  <2> QED BY <2>5, <2>6 DEF ListsByKey
<1> QED BY <1>1, <1>3, <1>4, <1>5, <1>6 DEF IInv

LEMMA IInvReceive ==
  ASSUME IInv, NEW w \in Workers, Receive(w)
  PROVE  IInv'
<1> USE ConstantsAssumption
<1>1. TypeOK' /\ TypeOK
  <2>1. [Next]_vars
    BY DEF Next
  <2> QED BY <2>1, TypeNext DEF IInv
<1>2. UNCHANGED <<pending, waiting, running, batch, pushed>>
  BY DEF Receive, ReceiveFromStore, ReceiveFromMark
<1>3. \A j \in Jobs : Stored(j) => Stored(j)'
  BY <1>1 DEF Receive, ReceiveFromStore, ReceiveFromMark, Stored, TypeOK
<1>4. LockHeldBySender'
  BY <1>1 DEF Receive, ReceiveFromStore, ReceiveFromMark, IInv, LockHeldBySender, TypeOK
<1>5. BatchWhileWorking'
  BY <1>1 DEF Receive, ReceiveFromStore, ReceiveFromMark, IInv, BatchWhileWorking, TypeOK
<1>6. MarkedIsPushed'
  <2>1. \A v \in Workers : wpc'[v] = "mark" => wpc[v] = "mark"
    BY <1>1 DEF Receive, ReceiveFromStore, ReceiveFromMark, TypeOK
  <2>2. \A v \in Workers : Held(v)' = Held(v)
    BY <1>2 DEF Held
  <2> QED BY <1>2, <2>1, <2>2 DEF IInv, MarkedIsPushed
<1>7. RunningIsHeld' /\ PendingNotRunning' /\ OneWriterPerKey'
  BY <1>2 DEF IInv, RunningIsHeld, PendingNotRunning, OneWriterPerKey
<1>8. ListsByKey'
  <2>1. \A l \in [Keys -> Seq(Jobs)], m \in Keys : Range(l[m]) \subseteq Jobs
    BY DEF Range
  <2> QED BY <1>1, <1>2, <1>3, <2>1 DEF IInv, ListsByKey, TypeOK
<1> QED BY <1>1, <1>4, <1>5, <1>6, <1>7, <1>8 DEF IInv

LEMMA IInvNextJobs ==
  ASSUME IInv, NEW w \in Workers, NextJobs(w)
  PROVE  IInv'
<1> USE ConstantsAssumption
<1>1. TypeOK' /\ TypeOK
  <2>1. [Next]_vars
    BY DEF Next
  <2> QED BY <2>1, TypeNext DEF IInv
<1>2. /\ batch'[w] = pending
      /\ \A v \in Workers : v # w => batch'[v] = batch[v]
      /\ \A k \in Keys : batch[w][k] = <<>>
  BY <1>1 DEF NextJobs, IInv, BatchWhileWorking, TypeOK
<1>3. \A k \in Keys : running'[k] = running[k] \cup Ids(pending[k]) /\ pending'[k] = <<>>
  BY DEF NextJobs, NoBatch, Ids
<1>4. \A k \in Keys : pending[k] \in Seq(Jobs)
  BY <1>1 DEF TypeOK
<1>5. \A k \in Keys : running[k] = {} => \A v \in Workers : batch[v][k] = <<>>
  BY <1>1, IdsEmpty DEF IInv, RunningIsHeld, TypeOK
<1>6. LockHeldBySender'
  BY <1>1 DEF NextJobs, IInv, LockHeldBySender, TypeOK
<1>7. BatchWhileWorking'
  <2>1. \A k \in Keys : pending[k] # <<>> => wpc'[w] = "push"
    BY <1>1 DEF NextJobs, NoBatch, TypeOK
  <2> QED BY <1>1, <1>2, <2>1 DEF NextJobs, IInv, BatchWhileWorking, TypeOK
<1>8. MarkedIsPushed'
  <2>1. ASSUME wpc'[w] = "mark"
        PROVE  Held(w)' \subseteq pushed'
    <3>1. pending = NoBatch
      BY <1>1, <2>1 DEF NextJobs, TypeOK
    <3>2. \A k \in Keys : batch'[w][k] = <<>>
      BY <1>2, <3>1 DEF NoBatch
    <3> QED BY <3>2 DEF Held, Range
  <2> QED BY <1>1, <1>2, <2>1 DEF NextJobs, IInv, MarkedIsPushed, Held, TypeOK
<1>9. RunningIsHeld'
  <2>1. ASSUME NEW v \in Workers, NEW k \in Keys, batch'[v][k] # <<>>
        PROVE  running'[k] = Ids(batch[v][k])'
    <3>1. CASE v = w
      BY <1>2, <1>3, <2>1, <3>1 DEF IInv, PendingNotRunning, Ids, Id
    <3>2. CASE v # w
      <4>1. batch[v][k] # <<>> /\ running[k] = Ids(batch[v][k])
        BY <1>2, <2>1, <3>2 DEF IInv, RunningIsHeld
      <4>2. pending[k] = <<>>
        BY <1>5, <4>1 DEF IInv, PendingNotRunning
      <4>3. Ids(pending[k]) = {}
        BY <1>4, <4>2, IdsEmpty
      <4> QED BY <1>2, <1>3, <3>2, <4>1, <4>3 DEF Ids, Id
    <3> QED BY <3>1, <3>2
  <2>2. ASSUME NEW k \in Keys, running'[k] # {}
        PROVE  \E v \in Workers : batch'[v][k] # <<>>
    <3>1. CASE pending[k] # <<>>
      BY <1>2, <3>1
    <3>2. CASE pending[k] = <<>>
      <4>1. running[k] # {}
        BY <1>3, <1>4, <2>2, <3>2, IdsEmpty
      <4>2. PICK v \in Workers : batch[v][k] # <<>>
        BY <4>1 DEF IInv, RunningIsHeld
      <4> QED BY <1>2, <4>2
    <3> QED BY <3>1, <3>2
  <2> QED BY <2>1, <2>2 DEF RunningIsHeld
<1>10. PendingNotRunning'
  BY <1>3 DEF PendingNotRunning
<1>11. ListsByKey'
  <2>1. Range(<<>>) = {}
    BY DEF Range
  <2> QED BY <1>1, <1>2, <1>3, <2>1, SMTT(30) DEF NextJobs, IInv, ListsByKey, Stored, TypeOK
<1>12. OneWriterPerKey'
  BY <1>2, <1>5 DEF IInv, PendingNotRunning, OneWriterPerKey
<1> QED BY <1>1, <1>6, <1>7, <1>8, <1>9, <1>10, <1>11, <1>12 DEF IInv

LEMMA IInvPushJobs ==
  ASSUME IInv, NEW w \in Workers, PushJobs(w)
  PROVE  IInv'
<1> USE ConstantsAssumption
<1>1. TypeOK' /\ TypeOK
  <2>1. [Next]_vars
    BY DEF Next
  <2> QED BY <2>1, TypeNext DEF IInv
<1>2. UNCHANGED <<pending, waiting, running, lock, batch, hpc>>
  BY DEF PushJobs
<1>3. LockHeldBySender' /\ BatchWhileWorking'
  BY <1>1 DEF PushJobs, IInv, LockHeldBySender, BatchWhileWorking, TypeOK
<1>4. MarkedIsPushed'
  BY <1>1 DEF PushJobs, IInv, MarkedIsPushed, Held, TypeOK
<1>5. RunningIsHeld' /\ PendingNotRunning' /\ OneWriterPerKey' /\ ListsByKey'
  BY <1>2 DEF IInv, RunningIsHeld, PendingNotRunning, OneWriterPerKey, ListsByKey, Stored
<1> QED BY <1>1, <1>3, <1>4, <1>5 DEF IInv

(* What markJobsCompleted does to the lists. *)
LEMMA MarkedLists ==
  ASSUME TypeOK, NEW w \in Workers, MarkJobsCompleted(w)
  PROVE  /\ \A k \in Keys :
              /\ batch'[w][k] = <<>>
              /\ \A v \in Workers : v # w => batch'[v][k] = batch[v][k]
              /\ running'[k] = running[k] \ Ids(batch[w][k])
              /\ Range(pending[k]) \subseteq Range(pending'[k])
              /\ Range(pending'[k]) \subseteq Range(pending[k]) \cup Range(waiting[k])
              /\ batch[w][k] # <<>> => Range(waiting[k]) \subseteq Range(pending'[k])
              /\ batch[w][k] = <<>> => pending'[k] = pending[k]
         /\ ~ AnythingEnqueued(w) => pending' = pending
<1>1. ASSUME NEW k \in Keys
      PROVE  /\ pending[k] \in Seq(Jobs) /\ waiting[k] \in Seq(Jobs)
             /\ batch[w][k] \in Seq(Jobs) /\ Len(batch[w][k]) \in Nat
             /\ Enqueued(w)[k] \in Seq(Jobs)
             /\ Enqueued(w)[k] = Repeated(waiting[k], Len(batch[w][k]))
             /\ pending'[k] = Queued(pending[k], Enqueued(w)[k])
  BY EnqueuedType DEF TypeOK, MarkJobsCompleted, Enqueued
<1>2. ASSUME NEW k \in Keys
      PROVE  Range(pending'[k]) = Range(pending[k]) \cup Range(Enqueued(w)[k])
  BY <1>1, QueuedList
<1>3. ASSUME NEW k \in Keys
      PROVE  /\ Range(Enqueued(w)[k]) \subseteq Range(waiting[k])
             /\ batch[w][k] # <<>> => Range(waiting[k]) \subseteq Range(Enqueued(w)[k])
             /\ batch[w][k] = <<>> => Enqueued(w)[k] = <<>>
  <2>1. batch[w][k] # <<>> <=> Len(batch[w][k]) # 0
    BY <1>1
  <2> QED BY <1>1, <2>1, RepeatedList
<1>4. ASSUME NEW k \in Keys, Enqueued(w)[k] = <<>>
      PROVE  pending'[k] = pending[k]
  BY <1>1, <1>4, QueuedList
<1>5. ASSUME NEW k \in Keys
      PROVE  /\ batch'[w][k] = <<>>
             /\ \A v \in Workers : v # w => batch'[v][k] = batch[v][k]
             /\ running'[k] = running[k] \ Ids(batch[w][k])
  BY DEF TypeOK, MarkJobsCompleted, NoBatch, Ids
<1>6. ~ AnythingEnqueued(w) => pending' = pending
  <2>1. pending' = [k \in Keys |-> Queued(pending[k], Enqueued(w)[k])]
    BY DEF MarkJobsCompleted
  <2> QED BY <1>4, <2>1 DEF AnythingEnqueued, TypeOK
<1> QED BY <1>2, <1>3, <1>4, <1>5, <1>6

LEMMA IInvMarkJobsCompleted ==
  ASSUME IInv, NEW w \in Workers, MarkJobsCompleted(w)
  PROVE  IInv'
<1> USE ConstantsAssumption
<1>1. TypeOK' /\ TypeOK
  <2>1. [Next]_vars
    BY DEF Next
  <2> QED BY <2>1, TypeNext DEF IInv
<1>2. ASSUME NEW k \in Keys
      PROVE  /\ batch'[w][k] = <<>>
             /\ \A v \in Workers : v # w => batch'[v][k] = batch[v][k]
             /\ running'[k] = running[k] \ Ids(batch[w][k])
             /\ Range(pending'[k]) \subseteq Range(pending[k]) \cup Range(waiting[k])
             /\ batch[w][k] = <<>> => pending'[k] = pending[k]
  BY <1>1, MarkedLists
<1>3. ASSUME NEW k \in Keys, batch[w][k] # <<>>
      PROVE  /\ running'[k] = {}
             /\ \A v \in Workers : batch'[v][k] = <<>>
  BY <1>2, <1>3 DEF IInv, RunningIsHeld, OneWriterPerKey
<1>4. ASSUME NEW k \in Keys, batch[w][k] = <<>>
      PROVE  running'[k] = running[k] /\ \A v \in Workers : batch'[v][k] = batch[v][k]
  <2>1. Ids(batch[w][k]) = {}
    BY <1>1, <1>4, IdsEmpty DEF TypeOK
  <2> QED BY <1>2, <1>4, <2>1
<1>5. LockHeldBySender'
  BY <1>1 DEF MarkJobsCompleted, IInv, LockHeldBySender, TypeOK
<1>6. BatchWhileWorking'
  BY <1>1, <1>2 DEF MarkJobsCompleted, IInv, BatchWhileWorking, TypeOK
<1>7. MarkedIsPushed'
  BY <1>1, <1>2 DEF MarkJobsCompleted, IInv, MarkedIsPushed, Held, TypeOK
<1>8. RunningIsHeld'
  <2>1. ASSUME NEW k \in Keys
        PROVE  /\ \A v \in Workers : batch'[v][k] # <<>> => running'[k] = Ids(batch[v][k])'
               /\ running'[k] # {} => \E v \in Workers : batch'[v][k] # <<>>
    <3>1. CASE batch[w][k] # <<>>
      BY <1>3, <3>1
    <3>2. CASE batch[w][k] = <<>>
      BY <1>4, <3>2 DEF IInv, RunningIsHeld, Ids, Id
    <3> QED BY <3>1, <3>2
  <2> QED BY <2>1 DEF RunningIsHeld
<1>9. PendingNotRunning'
  BY <1>2, <1>3, <1>4 DEF IInv, PendingNotRunning
<1>10. ListsByKey'
  <2>1. UNCHANGED <<waiting, hpc>>
    BY DEF MarkJobsCompleted
  <2>2. Range(<<>>) = {}
    BY DEF Range
  <2>3. \A k \in Keys, v \in Workers : batch'[v][k] \in {batch[v][k], <<>>}
    BY <1>2
  <2> QED BY <1>2, <2>1, <2>2, <2>3 DEF IInv, ListsByKey, Stored
<1>11. OneWriterPerKey'
  BY <1>2 DEF IInv, OneWriterPerKey
<1> QED BY <1>1, <1>5, <1>6, <1>7, <1>8, <1>9, <1>10, <1>11 DEF IInv

LEMMA IInvNext == IInv /\ [Next]_vars => IInv'
<1> SUFFICES ASSUME IInv, [Next]_vars
             PROVE  IInv'
  OBVIOUS
<1>1. CASE UNCHANGED vars
  <2>1. TypeOK'
    BY TypeNext DEF IInv
  <2> QED BY <1>1, <2>1
          DEF vars, IInv, LockHeldBySender, BatchWhileWorking, MarkedIsPushed, Held,
              RunningIsHeld, Ids, Id, PendingNotRunning, ListsByKey, Stored, OneWriterPerKey
<1>2. CASE Next
  BY <1>2, IInvStore, IInvReceive, IInvNextJobs, IInvPushJobs, IInvMarkJobsCompleted DEF Next
<1> QED BY <1>1, <1>2

LEMMA Invariance == Spec => []IInv
  BY IInvInit, IInvNext, PTL DEF Spec

(* Two workers never write the same file, whatever the size of the pool and   *)
(* however many results arrive.                                               *)
THEOREM MutualExclusion == Spec => []OneWriterPerKey
<1>1. IInv => OneWriterPerKey
  BY DEF IInv
<1> QED BY <1>1, Invariance, PTL

-----------------------------------------------------------------------------
(* No result is lost in the queue. *)

(* Where a result that was stored and not pushed can be. *)
Findable(j) ==
  \/ j \in Range(pending[KeyOf[j]])
  \/ \E w \in Workers : j \in Held(w)
  \/ j \in Range(waiting[KeyOf[j]]) /\ \E w \in Workers : batch[w][KeyOf[j]] # <<>>

LEMMA FindableStore ==
  ASSUME IInv, NoStoredJobLost, NEW i \in Jobs, Store(i),
         NEW j \in Jobs, Stored(j)', j \notin pushed'
  PROVE  Findable(j)'
<1> USE ConstantsAssumption
<1>1. TypeOK /\ UNCHANGED <<batch, pushed>>
  BY DEF Store, IInv
<1>2. /\ \A s \in Seq(Jobs) : Range(s) \subseteq Range(Queued(s, <<i>>))
      /\ \A s \in Seq(Jobs) : i \in Range(Queued(s, <<i>>))
  BY QueuedOne
<1>3. CASE j = i
  <2>1. CASE running[KeyOf[i]] # {}
    <3>1. waiting'[KeyOf[i]] = Queued(waiting[KeyOf[i]], <<i>>)
      BY <1>1, <2>1 DEF Store, KeyIsRunning, TypeOK
    <3>2. waiting[KeyOf[i]] \in Seq(Jobs)
      BY <1>1 DEF TypeOK
    <3>3. \E w \in Workers : batch[w][KeyOf[i]] # <<>>
      BY <2>1 DEF IInv, RunningIsHeld
    <3> QED BY <1>1, <1>2, <1>3, <3>1, <3>2, <3>3 DEF Findable
  <2>2. CASE running[KeyOf[i]] = {}
    <3>1. pending'[KeyOf[i]] = Queued(pending[KeyOf[i]], <<i>>)
      BY <1>1, <2>2 DEF Store, KeyIsRunning, TypeOK
    <3>2. pending[KeyOf[i]] \in Seq(Jobs)
      BY <1>1 DEF TypeOK
    <3> QED BY <1>2, <1>3, <3>1, <3>2 DEF Findable
  <2> QED BY <2>1, <2>2
<1>4. CASE j # i
  <2>1. Findable(j)
    BY <1>1, <1>4 DEF Store, Stored, NoStoredJobLost, Findable, TypeOK
  <2>2. /\ Range(pending[KeyOf[j]]) \subseteq Range(pending'[KeyOf[j]])
        /\ Range(waiting[KeyOf[j]]) \subseteq Range(waiting'[KeyOf[j]])
    <3>1. pending[KeyOf[j]] \in Seq(Jobs) /\ waiting[KeyOf[j]] \in Seq(Jobs)
      BY <1>1 DEF TypeOK
    <3>2. /\ pending'[KeyOf[j]] \in {pending[KeyOf[j]], Queued(pending[KeyOf[j]], <<i>>)}
          /\ waiting'[KeyOf[j]] \in {waiting[KeyOf[j]], Queued(waiting[KeyOf[j]], <<i>>)}
      BY <1>1 DEF Store, TypeOK
    <3> QED BY <1>2, <3>1, <3>2
  <2> QED BY <1>1, <2>1, <2>2 DEF Findable, Held
<1> QED BY <1>3, <1>4

LEMMA NoStoredJobLostNext == IInv /\ NoStoredJobLost /\ [Next]_vars => NoStoredJobLost'
<1> SUFFICES ASSUME IInv, NoStoredJobLost, [Next]_vars,
                    NEW j \in Jobs, Stored(j)', j \notin pushed'
             PROVE  Findable(j)'
  BY DEF NoStoredJobLost, Findable
<1> USE ConstantsAssumption
<1>1. TypeOK
  BY DEF IInv
<1>2. ASSUME Stored(j), j \notin pushed
      PROVE  Findable(j)
  BY <1>2 DEF NoStoredJobLost, Findable
<1>3. CASE \E i \in Jobs : Store(i)
  BY <1>3, FindableStore
<1>4. ASSUME NEW w \in Workers, Receive(w)
      PROVE  Findable(j)'
  <2>1. UNCHANGED <<pending, waiting, batch, pushed>>
    BY <1>4 DEF Receive, ReceiveFromStore, ReceiveFromMark
  <2>2. Stored(j)
    BY <1>1, <1>4 DEF Receive, ReceiveFromStore, ReceiveFromMark, Stored, TypeOK
  <2> QED BY <1>2, <2>1, <2>2 DEF Findable, Held
<1>5. ASSUME NEW w \in Workers, NextJobs(w)
      PROVE  Findable(j)'
  <2>1. UNCHANGED <<waiting, pushed>> /\ Stored(j)
    BY <1>5 DEF NextJobs, Stored
  <2>2. /\ batch'[w] = pending
        /\ \A v \in Workers : v # w => batch'[v] = batch[v]
        /\ \A k \in Keys : batch[w][k] = <<>>
    BY <1>1, <1>5 DEF NextJobs, IInv, BatchWhileWorking, TypeOK
  <2>3. CASE j \in Range(pending[KeyOf[j]])
    BY <2>2, <2>3 DEF Findable, Held
  <2>4. CASE \E v \in Workers : j \in Held(v)
    <3>1. PICK v \in Workers : j \in Held(v)
      BY <2>4
    <3>2. v # w
      BY <2>2, <3>1 DEF Held, Range
    <3> QED BY <2>2, <3>1, <3>2 DEF Findable, Held
  <2>5. CASE j \in Range(waiting[KeyOf[j]]) /\ \E v \in Workers : batch[v][KeyOf[j]] # <<>>
    <3>1. PICK v \in Workers : batch[v][KeyOf[j]] # <<>>
      BY <2>5
    <3>2. batch'[v][KeyOf[j]] # <<>>
      BY <2>2, <3>1
    <3> QED BY <2>1, <2>5, <3>2 DEF Findable
  <2> QED BY <1>2, <2>1, <2>3, <2>4, <2>5 DEF Findable
<1>6. ASSUME NEW w \in Workers, PushJobs(w)
      PROVE  Findable(j)'
  <2>1. Stored(j) /\ j \notin pushed /\ UNCHANGED <<pending, waiting, batch>>
    BY <1>6 DEF PushJobs, Stored
  <2> QED BY <1>2, <2>1 DEF Findable, Held
<1>7. ASSUME NEW w \in Workers, MarkJobsCompleted(w)
      PROVE  Findable(j)'
  <2> DEFINE k == KeyOf[j]
  <2>1. Stored(j) /\ UNCHANGED <<waiting, pushed>> /\ k \in Keys
    BY <1>7 DEF MarkJobsCompleted, Stored
  <2>2. /\ \A v \in Workers, m \in Keys : v # w => batch'[v][m] = batch[v][m]
        /\ Range(pending[k]) \subseteq Range(pending'[k])
        /\ batch[w][k] # <<>> => Range(waiting[k]) \subseteq Range(pending'[k])
    BY <1>1, <1>7, <2>1, MarkedLists
  <2>3. j \notin Held(w)
    BY <1>7, <2>1 DEF MarkJobsCompleted, IInv, MarkedIsPushed
  <2>4. CASE j \in Range(pending[k])
    BY <2>2, <2>4 DEF Findable
  <2>5. CASE \E v \in Workers : j \in Held(v)
    <3>1. PICK v \in Workers : v # w /\ j \in Held(v)
      BY <2>3, <2>5
    <3> QED BY <2>2, <3>1 DEF Findable, Held
  <2>6. CASE j \in Range(waiting[k]) /\ \E v \in Workers : batch[v][k] # <<>>
    <3>1. CASE batch[w][k] # <<>>
      BY <2>2, <2>6, <3>1 DEF Findable
    <3>2. CASE batch[w][k] = <<>>
      <4>1. PICK v \in Workers : v # w /\ batch[v][k] # <<>>
        BY <2>6, <3>2
      <4> QED BY <2>1, <2>2, <2>6, <4>1 DEF Findable
    <3> QED BY <3>1, <3>2
  <2> QED BY <1>2, <2>1, <2>4, <2>5, <2>6 DEF Findable
<1>8. CASE UNCHANGED vars
  BY <1>2, <1>8 DEF vars, Stored, Findable, Held
<1> QED BY <1>3, <1>4, <1>5, <1>6, <1>7, <1>8 DEF Next

(* A result that Store took stays where a worker will find it until a worker  *)
(* has been through pushJobs with it.                                         *)
THEOREM NothingLost == Spec => []NoStoredJobLost
<1>1. Init => NoStoredJobLost
  BY DEF Init, NoStoredJobLost, Stored
<1> QED BY <1>1, NoStoredJobLostNext, Invariance, PTL DEF Spec

(* A pending result always has a wake-up on its way. *)
THEOREM WakeupOnItsWay == Spec => []NoLostWakeup
<1>1. Init => NoLostWakeup
  BY DEF Init, NoLostWakeup, NoBatch
<1>2. IInv /\ NoLostWakeup /\ [Next]_vars => NoLostWakeup'
  <2> SUFFICES ASSUME IInv, NoLostWakeup, [Next]_vars
               PROVE  NoLostWakeup'
    OBVIOUS
  <2>1. TypeOK
    BY DEF IInv
  <2>2. ASSUME NEW j \in Jobs, Store(j)
        PROVE  NoLostWakeup'
    <3>1. hpc'[j] = "sending"
      BY <2>1, <2>2 DEF Store, TypeOK
    <3> QED BY <3>1 DEF NoLostWakeup
  <2>3. ASSUME NEW w \in Workers, Receive(w)
        PROVE  NoLostWakeup'
    <3>1. wpc'[w] = "next"
      BY <2>1, <2>3 DEF Receive, ReceiveFromStore, ReceiveFromMark, TypeOK
    <3> QED BY <3>1 DEF NoLostWakeup
  <2>4. ASSUME NEW w \in Workers, NextJobs(w)
        PROVE  NoLostWakeup'
    BY <2>4 DEF NextJobs, NoBatch, NoLostWakeup
  <2>5. ASSUME NEW w \in Workers, PushJobs(w)
        PROVE  NoLostWakeup'
    BY <2>1, <2>5 DEF PushJobs, NoLostWakeup, TypeOK
  <2>6. ASSUME NEW w \in Workers, MarkJobsCompleted(w)
        PROVE  NoLostWakeup'
    <3>1. CASE AnythingEnqueued(w)
      <4>1. wpc'[w] = "send"
        BY <2>1, <2>6, <3>1 DEF MarkJobsCompleted, TypeOK
      <4> QED BY <4>1 DEF NoLostWakeup
    <3>2. CASE ~ AnythingEnqueued(w)
      <4>1. pending' = pending
        BY <2>1, <2>6, <3>2, MarkedLists
      <4>2. hpc' = hpc /\ \A v \in Workers : wpc[v] \in {"next", "send"} => wpc'[v] = wpc[v]
        BY <2>1, <2>6 DEF MarkJobsCompleted, TypeOK
      <4> QED BY <4>1, <4>2 DEF NoLostWakeup
    <3> QED BY <3>1, <3>2
  <2>7. CASE UNCHANGED vars
    BY <2>7 DEF vars, NoLostWakeup
  <2> QED BY <2>2, <2>3, <2>4, <2>5, <2>6, <2>7 DEF Next
<1> QED BY <1>1, <1>2, Invariance, PTL DEF Spec

-----------------------------------------------------------------------------
(* Refinement of FileWriteQueue. *)

LEMMA QueueNext ==
  IInv /\ IInv' /\ NoStoredJobLost /\ [Next]_vars => [Queue!Next]_(Queue!vars)
<1> SUFFICES ASSUME IInv, IInv', NoStoredJobLost, [Next]_vars
             PROVE  [Queue!Next]_(Queue!vars)
  OBVIOUS
<1> USE ConstantsAssumption
<1> DEFINE accepted == {j \in Jobs : Stored(j)}
           writing == [w \in Workers |-> Held(w)]
<1>1. TypeOK /\ TypeOK'
  BY DEF IInv
<1>2. \A w \in Workers : batch'[w] = batch[w] => Held(w)' = Held(w)
  BY DEF Held
<1>3. ASSUME NEW j \in Jobs, Store(j)
      PROVE  Queue!Next
  <2>1. j \notin accepted /\ accepted' = accepted \cup {j}
    BY <1>1, <1>3 DEF Store, Stored, TypeOK
  <2>2. UNCHANGED <<writing, pushed>>
    BY <1>3 DEF Store, Held
  <2>3. Queue!Accept(j)
    BY <2>1, <2>2 DEF Queue!Accept
  <2> QED BY <2>3 DEF Queue!Next
<1>4. ASSUME NEW w \in Workers, Receive(w)
      PROVE  UNCHANGED Queue!vars
  <2>1. accepted' = accepted
    BY <1>1, <1>4 DEF Receive, ReceiveFromStore, ReceiveFromMark, Stored, TypeOK
  <2>2. UNCHANGED <<writing, pushed>>
    BY <1>4 DEF Receive, ReceiveFromStore, ReceiveFromMark, Held
  <2> QED BY <2>1, <2>2 DEF Queue!vars
<1>5. ASSUME NEW w \in Workers, NextJobs(w)
      PROVE  Queue!Next
  <2> DEFINE S == UNION {Range(pending[k]) : k \in Keys}
  <2>1. accepted' = accepted /\ pushed' = pushed
    BY <1>5 DEF NextJobs, Stored
  <2>2. /\ batch'[w] = pending
        /\ \A v \in Workers : v # w => batch'[v] = batch[v]
        /\ \A k \in Keys : batch[w][k] = <<>>
    BY <1>1, <1>5 DEF NextJobs, IInv, BatchWhileWorking, TypeOK
  <2>3. Held(w) = {} /\ Held(w)' = S
    BY <2>2 DEF Held, Range
  <2>4. writing' = [writing EXCEPT ![w] = S]
    BY <1>2, <2>2, <2>3
  <2>5. \A k \in Keys : Range(pending[k]) \subseteq Jobs
    <3>1. \A k \in Keys : pending[k] \in Seq(Jobs)
      BY <1>1 DEF TypeOK
    <3> QED BY <3>1 DEF Range
  <2>6. S \in SUBSET accepted
    BY <2>5 DEF IInv, ListsByKey
  <2>7. ASSUME NEW j \in Jobs, NEW v \in Workers, j \in Held(v)
        PROVE  batch[v][KeyOf[j]] # <<>>
    <3>1. PICK k \in Keys : j \in Range(batch[v][k])
      BY <2>7 DEF Held
    <3>2. KeyOf[j] = k
      BY <3>1 DEF IInv, ListsByKey
    <3> QED BY <3>1, <3>2 DEF Range
  <2>8. \A v \in Workers : Held(v) \subseteq Jobs
    <3>1. \A v \in Workers, k \in Keys : batch[v][k] \in Seq(Jobs)
      BY <1>1 DEF TypeOK
    <3>2. \A v \in Workers, k \in Keys : Range(batch[v][k]) \subseteq Jobs
      BY <3>1 DEF Range
    <3> QED BY <3>2 DEF Held
  <2>9. ASSUME NEW j \in S
        PROVE  ~ Queue!Busy(KeyOf[j])
    <3>1. PICK k \in Keys : j \in Range(pending[k])
      OBVIOUS
    <3>2. KeyOf[j] = k /\ pending[k] # <<>>
      BY <3>1 DEF IInv, ListsByKey, Range
    <3>3. running[k] = {}
      BY <3>2 DEF IInv, PendingNotRunning
    <3>4. \A v \in Workers : batch[v][k] = <<>>
      BY <1>1, <3>3, IdsEmpty DEF IInv, RunningIsHeld, TypeOK
    <3> QED BY <2>7, <2>8, <3>2, <3>4 DEF Queue!Busy
  <2>10. ASSUME NEW j \in accepted, j \notin pushed, ~ Queue!Busy(KeyOf[j])
         PROVE  j \in S
    <3>1. \A v \in Workers : j \notin Held(v)
      BY <2>10 DEF Queue!Busy
    <3>2. \A v \in Workers : batch[v][KeyOf[j]] = <<>>
      <4>1. SUFFICES ASSUME NEW v \in Workers, batch[v][KeyOf[j]] # <<>>
                     PROVE  FALSE
        OBVIOUS
      <4>2. batch[v][KeyOf[j]] \in Seq(Jobs)
        BY <1>1 DEF TypeOK
      <4>3. PICK i \in Range(batch[v][KeyOf[j]]) : TRUE
        <5>1. 1 \in DOMAIN batch[v][KeyOf[j]]
          BY <4>1, <4>2
        <5> QED BY <5>1 DEF Range
      <4>4. i \in Held(v) /\ KeyOf[i] = KeyOf[j]
        BY <4>3 DEF Held, IInv, ListsByKey
      <4> QED BY <2>10, <4>4 DEF Queue!Busy
    <3> QED BY <2>10, <3>1, <3>2 DEF NoStoredJobLost
  <2>11. Queue!Due \subseteq S
    BY <2>10 DEF Queue!Due
  <2>12. writing[w] = {}
    BY <2>3
  <2>13. Queue!Begin(w, S)
    BY <2>1, <2>4, <2>9, <2>11, <2>12 DEF Queue!Begin
  <2> QED BY <2>6, <2>13 DEF Queue!Next
<1>6. ASSUME NEW w \in Workers, PushJobs(w)
      PROVE  Queue!Next
  <2>1. accepted' = accepted /\ UNCHANGED writing
    BY <1>6 DEF PushJobs, Stored, Held
  <2>2. pushed' = pushed \cup writing[w]
    BY <1>6 DEF PushJobs
  <2>3. Queue!Write(w)
    BY <2>1, <2>2 DEF Queue!Write
  <2> QED BY <2>3 DEF Queue!Next
<1>7. ASSUME NEW w \in Workers, MarkJobsCompleted(w)
      PROVE  Queue!Next
  <2>1. accepted' = accepted /\ pushed' = pushed
    BY <1>7 DEF MarkJobsCompleted, Stored
  <2>2. writing[w] \subseteq pushed
    BY <1>7 DEF MarkJobsCompleted, IInv, MarkedIsPushed
  <2>3. \A v \in Workers : v # w => batch'[v] = batch[v]
    BY <1>1, <1>7 DEF MarkJobsCompleted, TypeOK
  <2>4. Held(w)' = {}
    <3>1. \A k \in Keys : batch'[w][k] = <<>>
      BY <1>1, <1>7, MarkedLists
    <3> QED BY <3>1 DEF Held, Range
  <2>5. writing' = [writing EXCEPT ![w] = {}]
    BY <1>2, <2>3, <2>4
  <2>6. Queue!Release(w)
    BY <2>1, <2>2, <2>5 DEF Queue!Release
  <2> QED BY <2>6 DEF Queue!Next
<1>8. CASE UNCHANGED vars
  <2>1. UNCHANGED <<accepted, writing, pushed>>
    BY <1>8 DEF vars, Stored, Held
  <2> QED BY <2>1 DEF Queue!vars
<1> QED BY <1>3, <1>4, <1>5, <1>6, <1>7, <1>8 DEF Next

(* The queue of the git data store does what FileWriteQueue promises: one     *)
(* writer per file, and a worker that becomes available takes everything that *)
(* is due.                                                                    *)
THEOREM ImplementsQueue == Spec => QueueSpec
<1>1. Init => Queue!Init
  <2> SUFFICES ASSUME Init
               PROVE  Queue!Init
    OBVIOUS
  <2>1. {j \in Jobs : Stored(j)} = {} /\ pushed = {}
    BY DEF Init, Stored
  <2>2. \A w \in Workers : Held(w) = {}
    BY DEF Init, NoBatch, Held, Range
  <2> QED BY <2>1, <2>2 DEF Queue!Init
<1> QED BY <1>1, QueueNext, Invariance, NothingLost, PTL DEF Spec, QueueSpec, Queue!Spec

-----------------------------------------------------------------------------
(* The order of the first writes. *)

(* What append and repetition keep of the order of a list. *)
LEMMA BeforeQueued ==
  ASSUME NEW s \in Seq(Jobs), NEW t \in Seq(Jobs), NEW i, NEW j
  PROVE  /\ Before(i, j, s) => Before(i, j, Queued(s, t))
         /\ Before(i, j, t) => Before(i, j, Queued(s, t))
         /\ i \in Range(s) /\ j \in Range(t) => Before(i, j, Queued(s, t))
<1> DEFINE q == Queued(s, t)
<1>1. /\ Len(s) \in Nat /\ Len(t) \in Nat
      /\ DOMAIN s = 1 .. Len(s) /\ DOMAIN t = 1 .. Len(t)
      /\ DOMAIN q = 1 .. Len(s) + Len(t)
      /\ \A m \in 1 .. Len(s) : q[m] = s[m]
      /\ \A m \in 1 .. Len(t) : q[Len(s) + m] = t[m]
  BY DEF Queued
<1> HIDE DEF q
<1>2. ASSUME Before(i, j, s)
      PROVE  Before(i, j, q)
  <2>1. PICK m, n \in 1 .. Len(s) : m < n /\ s[m] = i /\ s[n] = j
    BY <1>1, <1>2 DEF Before
  <2>2. m \in DOMAIN q /\ n \in DOMAIN q
    BY <1>1, <2>1
  <2> QED BY <1>1, <2>1, <2>2 DEF Before
<1>3. ASSUME Before(i, j, t)
      PROVE  Before(i, j, q)
  <2>1. PICK m, n \in 1 .. Len(t) : m < n /\ t[m] = i /\ t[n] = j
    BY <1>1, <1>3 DEF Before
  <2>2. /\ Len(s) + m \in DOMAIN q /\ Len(s) + n \in DOMAIN q
        /\ Len(s) + m < Len(s) + n
    BY <1>1, <2>1
  <2> QED BY <1>1, <2>1, <2>2 DEF Before
<1>4. ASSUME i \in Range(s), j \in Range(t)
      PROVE  Before(i, j, q)
  <2>1. PICK m \in 1 .. Len(s), n \in 1 .. Len(t) : s[m] = i /\ t[n] = j
    BY <1>1, <1>4 DEF Range
  <2>2. m \in DOMAIN q /\ Len(s) + n \in DOMAIN q /\ m < Len(s) + n
    BY <1>1, <2>1
  <2> QED BY <1>1, <2>1, <2>2 DEF Before
<1> QED BY <1>2, <1>3, <1>4 DEF q

LEMMA BeforeRepeated ==
  ASSUME NEW s \in Seq(Jobs), NEW n \in Nat, n # 0, NEW i, NEW j, Before(i, j, s)
  PROVE  Before(i, j, Repeated(s, n))
<1> DEFINE L == Len(s)
           m == n * L
           r == Repeated(s, n)
<1>1. L \in Nat /\ m \in Nat /\ L <= m /\ DOMAIN s = 1 .. L
  OBVIOUS
<1>2. DOMAIN r = 1 .. m /\ \A k \in 1 .. m : r[k] = s[1 + ((k - 1) % L)]
  BY DEF Repeated
<1>3. PICK a, b \in 1 .. L : a < b /\ s[a] = i /\ s[b] = j
  BY <1>1 DEF Before
<1> HIDE DEF L, m, r
<1>4. ASSUME NEW k \in 1 .. L
      PROVE  k \in DOMAIN r /\ r[k] = s[k]
  <2>1. k \in 1 .. m /\ (k - 1) % L = k - 1 /\ 1 + (k - 1) = k
    BY <1>1
  <2> QED BY <1>2, <2>1
<1>5. Before(i, j, r)
  BY <1>3, <1>4 DEF Before
<1> QED BY <1>5 DEF r

(* A result that arrives is after all the others, and their order stays.      *)
LEMMA BeforeArrived ==
  ASSUME NEW s \in Seq(Jobs), NEW e \in Jobs, e \notin Range(s), NEW i, NEW j,
         Before(i, j, Append(s, e))
  PROVE  /\ i \in Range(s)
         /\ j # e => Before(i, j, s)
<1> DEFINE t == Append(s, e)
<1>1. /\ Len(s) \in Nat /\ DOMAIN s = 1 .. Len(s) /\ DOMAIN t = 1 .. Len(s) + 1
      /\ t[Len(s) + 1] = e
      /\ \A m \in 1 .. Len(s) : t[m] = s[m]
  OBVIOUS
<1> HIDE DEF t
<1>2. PICK m, n \in 1 .. Len(s) + 1 : m < n /\ t[m] = i /\ t[n] = j
  BY <1>1 DEF Before, t
<1>3. m \in 1 .. Len(s) /\ s[m] = i
  BY <1>1, <1>2
<1>4. ASSUME j # e
      PROVE  Before(i, j, s)
  <2>1. n \in 1 .. Len(s) /\ s[n] = j
    BY <1>1, <1>2, <1>4
  <2> QED BY <1>1, <1>2, <1>3, <2>1 DEF Before
<1> QED BY <1>1, <1>3, <1>4 DEF Range

(* What arrived earlier for the key was pushed or precedes j in list s. *)
InOrder(s, k) ==
  \A i \in Jobs, j \in Range(s) :
    KeyOf[i] = k /\ Before(i, j, arrived) => i \in pushed \/ Before(i, j, s)

ArrivedIsStored == \A j \in Range(arrived) : Stored(j)

(* The waiting lists are never emptied, so they keep the order of arrival. *)
WaitingInOrder ==
  \A k \in Keys : \A i, j \in Range(waiting[k]) :
    Before(i, j, arrived) => Before(i, j, waiting[k])

PendingInOrder == \A k \in Keys : InOrder(pending[k], k)

BatchesInOrder == \A w \in Workers, k \in Keys : InOrder(batch[w][k], k)

OrderInv == ArrivedIsStored /\ WaitingInOrder /\ PendingInOrder /\ BatchesInOrder

(* Store: what is before the new result was pushed, or it is in the list that *)
(* the result is put at the end of.                                           *)
LEMMA OrderStore ==
  ASSUME IInv, NoStoredJobLost, OrderInv, NEW e \in Jobs, Store(e)
  PROVE  OrderInv'
<1> USE ConstantsAssumption
<1> DEFINE K == KeyOf[e]
<1>1. /\ TypeOK /\ ListsByKey /\ RunningIsHeld /\ ~ Stored(e) /\ K \in Keys
      /\ ArrivedIsStored /\ WaitingInOrder /\ PendingInOrder /\ BatchesInOrder
      /\ UNCHANGED <<running, batch, pushed>>
      /\ arrived' = Append(arrived, e)
      /\ arrived \in Seq(Jobs) /\ e \notin Range(arrived)
  BY DEF Store, Stored, IInv, OrderInv, ArrivedIsStored, TypeOK
<1>2. \A j \in Jobs : Stored(j) \/ j = e => Stored(j)'
  BY <1>1 DEF Store, Stored, TypeOK
<1>3. ArrivedIsStored'
  <2>1. arrived' = Queued(arrived, <<e>>)
    BY <1>1 DEF Queued
  <2>2. Range(arrived') = Range(arrived) \cup {e}
    BY <1>1, <2>1, QueuedOne
  <2>3. Range(arrived) \subseteq Jobs
    BY <1>1 DEF Range
  <2> QED BY <1>1, <1>2, <2>2, <2>3 DEF ArrivedIsStored
<1>4. ASSUME NEW i, NEW j, Before(i, j, arrived')
      PROVE  i \in Range(arrived) /\ (j # e => Before(i, j, arrived))
  BY <1>1, <1>4, BeforeArrived
<1>5. ASSUME NEW s \in Seq(Jobs), NEW k \in Keys, InOrder(s, k), e \notin Range(s)
      PROVE  InOrder(s, k)'
  BY <1>1, <1>4, <1>5 DEF InOrder
<1>6. ASSUME NEW k \in Keys
      PROVE  /\ pending[k] \in Seq(Jobs) /\ e \notin Range(pending[k])
             /\ waiting[k] \in Seq(Jobs) /\ e \notin Range(waiting[k])
             /\ \A w \in Workers : batch[w][k] \in Seq(Jobs) /\ e \notin Range(batch[w][k])
  BY <1>1 DEF TypeOK, ListsByKey
<1>7. ASSUME NEW s \in Seq(Jobs)
      PROVE  /\ Range(Queued(s, <<e>>)) = Range(s) \cup {e}
             /\ \A i, j : Before(i, j, s) => Before(i, j, Queued(s, <<e>>))
             /\ \A i \in Range(s) : Before(i, e, Queued(s, <<e>>))
  <2>1. <<e>> \in Seq(Jobs)
    BY <1>1
  <2>2. e \in Range(<<e>>)
    <3>1. 1 \in DOMAIN <<e>> /\ <<e>>[1] = e
      OBVIOUS
    <3> QED BY <3>1 DEF Range
  <2>3. Range(Queued(s, <<e>>)) = Range(s) \cup {e}
    BY <1>1, QueuedOne
  <2>4. ASSUME NEW i, NEW j
        PROVE  /\ Before(i, j, s) => Before(i, j, Queued(s, <<e>>))
               /\ i \in Range(s) /\ j \in Range(<<e>>) => Before(i, j, Queued(s, <<e>>))
    BY <2>1, BeforeQueued
  <2> QED BY <2>2, <2>3, <2>4
<1>8. BatchesInOrder'
  BY <1>1, <1>5, <1>6 DEF BatchesInOrder
<1>9. CASE running[K] # {}
  <2>1. /\ pending' = pending
        /\ waiting' = [waiting EXCEPT ![K] = Queued(waiting[K], <<e>>)]
    BY <1>9 DEF Store, KeyIsRunning
  <2>2. PendingInOrder'
    BY <1>1, <1>5, <1>6, <2>1 DEF PendingInOrder
  <2>3. ASSUME NEW k \in Keys, NEW i \in Range(waiting'[k]), NEW j \in Range(waiting'[k]),
               Before(i, j, arrived')
        PROVE  Before(i, j, waiting'[k])
    <3>1. i \in Range(arrived) /\ i # e
      BY <1>1, <1>4, <2>3
    <3>2. CASE k = K
      <4>1. /\ waiting'[k] = Queued(waiting[k], <<e>>)
            /\ waiting[k] \in Seq(Jobs)
            /\ Range(waiting'[k]) = Range(waiting[k]) \cup {e}
        <5>1. waiting'[k] = Queued(waiting[k], <<e>>)
          BY <1>1, <2>1, <3>2 DEF TypeOK
        <5> QED BY <1>6, <1>7, <5>1
      <4>2. i \in Range(waiting[k])
        BY <2>3, <3>1, <4>1
      <4>3. CASE j = e
        BY <1>7, <4>1, <4>2, <4>3
      <4>4. CASE j # e
        <5>1. j \in Range(waiting[k]) /\ Before(i, j, arrived)
          BY <1>4, <2>3, <4>1, <4>4
        <5>2. Before(i, j, waiting[k])
          BY <1>1, <4>2, <5>1 DEF WaitingInOrder
        <5> QED BY <1>7, <4>1, <5>2
      <4> QED BY <4>3, <4>4
    <3>3. CASE k # K
      <4>1. waiting'[k] = waiting[k]
        BY <1>1, <2>1, <3>3 DEF TypeOK
      <4>2. j # e
        BY <1>6, <2>3, <4>1
      <4> QED BY <1>1, <1>4, <2>3, <4>1, <4>2 DEF WaitingInOrder
    <3> QED BY <3>2, <3>3
  <2>4. WaitingInOrder'
    BY <2>3 DEF WaitingInOrder
  <2> QED BY <1>3, <1>8, <2>2, <2>4 DEF OrderInv
<1>10. CASE running[K] = {}
  <2>1. /\ waiting' = waiting
        /\ pending' = [pending EXCEPT ![K] = Queued(pending[K], <<e>>)]
    BY <1>10 DEF Store, KeyIsRunning
  <2>2. WaitingInOrder'
    BY <1>1, <1>4, <1>6, <2>1 DEF WaitingInOrder
  <2>3. ASSUME NEW k \in Keys
        PROVE  InOrder(pending[k], k)'
    <3>1. CASE k = K
      <4>1. /\ pending'[k] = Queued(pending[k], <<e>>)
            /\ pending[k] \in Seq(Jobs)
            /\ Range(pending'[k]) = Range(pending[k]) \cup {e}
        <5>1. pending'[k] = Queued(pending[k], <<e>>)
          BY <1>1, <2>1, <3>1 DEF TypeOK
        <5> QED BY <1>6, <1>7, <5>1
      <4>2. ASSUME NEW i \in Jobs, NEW j \in Range(pending'[k]), KeyOf[i] = k,
                   Before(i, j, arrived'), i \notin pushed
            PROVE  Before(i, j, pending'[k])
        <5>1. CASE j = e
          <6>1. Stored(i)
            BY <1>1, <1>4, <4>2 DEF ArrivedIsStored
          <6>2. \A w \in Workers : batch[w][k] = <<>>
            <7>1. ASSUME NEW w \in Workers, batch[w][k] # <<>>
                  PROVE  FALSE
              <8>1. Ids(batch[w][k]) = {}
                BY <1>1, <1>10, <3>1, <7>1 DEF RunningIsHeld
              <8> QED BY <1>6, <7>1, <8>1, IdsEmpty
            <7> QED BY <7>1
          <6>3. \A w \in Workers : i \notin Held(w)
            <7>1. ASSUME NEW w \in Workers, NEW m \in Keys, i \in Range(batch[w][m])
                  PROVE  FALSE
              <8>1. m = k
                BY <1>1, <4>2, <7>1 DEF ListsByKey
              <8>2. batch[w][k] = <<>>
                BY <6>2
              <8> QED BY <7>1, <8>1, <8>2 DEF Range
            <7> QED BY <7>1 DEF Held
          <6>4. i \in Range(pending[k])
            BY <4>2, <6>1, <6>2, <6>3 DEF NoStoredJobLost
          <6> QED BY <1>7, <4>1, <5>1, <6>4
        <5>2. CASE j # e
          <6>1. j \in Range(pending[k]) /\ Before(i, j, arrived)
            BY <1>4, <4>1, <4>2, <5>2
          <6>2. Before(i, j, pending[k])
            BY <1>1, <4>2, <6>1 DEF PendingInOrder, InOrder
          <6> QED BY <1>7, <4>1, <6>2
        <5> QED BY <5>1, <5>2
      <4> QED BY <1>1, <4>2 DEF InOrder
    <3>2. CASE k # K
      <4>1. pending'[k] = pending[k]
        BY <1>1, <2>1, <3>2 DEF TypeOK
      <4> QED BY <1>1, <1>5, <1>6, <4>1 DEF PendingInOrder, InOrder
    <3> QED BY <3>1, <3>2
  <2>4. PendingInOrder'
    BY <2>3 DEF PendingInOrder
  <2> QED BY <1>3, <1>8, <2>2, <2>4 DEF OrderInv
<1> QED BY <1>9, <1>10

(* markJobsCompleted: the waiting list of a key comes after nothing, and what *)
(* is not in it was pushed.                                                   *)
LEMMA OrderMark ==
  ASSUME IInv, NoStoredJobLost, OrderInv, NEW w \in Workers, MarkJobsCompleted(w)
  PROVE  OrderInv'
<1> USE ConstantsAssumption
<1>1. /\ TypeOK /\ ListsByKey /\ RunningIsHeld /\ PendingNotRunning /\ MarkedIsPushed /\ OneWriterPerKey
      /\ ArrivedIsStored /\ WaitingInOrder /\ PendingInOrder /\ BatchesInOrder
      /\ UNCHANGED <<waiting, hpc, pushed, arrived>>
      /\ wpc[w] = "mark"
  BY DEF MarkJobsCompleted, IInv, OrderInv
<1>2. ArrivedIsStored' /\ WaitingInOrder'
  BY <1>1 DEF ArrivedIsStored, WaitingInOrder, Stored
<1>3. BatchesInOrder'
  <2>1. ASSUME NEW v \in Workers, NEW k \in Keys
        PROVE  batch'[v][k] = <<>> \/ batch'[v][k] = batch[v][k]
    BY <1>1, MarkedLists
  <2>2. Range(<<>>) = {}
    BY DEF Range
  <2> QED BY <1>1, <2>1, <2>2 DEF BatchesInOrder, InOrder
<1>4. ASSUME NEW k \in Keys, NEW i \in Jobs, NEW j \in Range(pending'[k]), KeyOf[i] = k,
             Before(i, j, arrived), i \notin pushed
      PROVE  Before(i, j, pending'[k])
  <2>1. CASE batch[w][k] = <<>>
    <3>1. pending'[k] = pending[k]
      BY <1>1, <2>1, MarkedLists
    <3> QED BY <1>1, <1>4, <3>1 DEF PendingInOrder, InOrder
  <2>2. CASE batch[w][k] # <<>>
    <3>1. /\ pending[k] \in Seq(Jobs) /\ waiting[k] \in Seq(Jobs) /\ batch[w][k] \in Seq(Jobs)
          /\ Len(batch[w][k]) \in Nat /\ Len(batch[w][k]) # 0
      BY <1>1, <2>2, EnqueuedType DEF TypeOK
    <3>2. pending[k] = <<>>
      <4>1. Ids(batch[w][k]) # {}
        BY <2>2, <3>1, IdsEmpty
      <4> QED BY <1>1, <2>2, <4>1 DEF RunningIsHeld, PendingNotRunning
    <3>3. /\ pending'[k] = Queued(pending[k], Repeated(waiting[k], Len(batch[w][k])))
          /\ Repeated(waiting[k], Len(batch[w][k])) \in Seq(Jobs)
      BY <3>1, RepeatedList DEF MarkJobsCompleted, Enqueued
    <3>4. Range(pending'[k]) \subseteq Range(waiting[k])
      <4>1. Range(pending'[k]) \subseteq Range(pending[k]) \cup Range(waiting[k])
        BY <1>1, MarkedLists
      <4> QED BY <3>2, <4>1 DEF Range
    <3>5. i \in Range(waiting[k])
      <4>1. Stored(i)
        BY <1>1, <1>4 DEF ArrivedIsStored, Before, Range
      <4>2. ASSUME NEW v \in Workers, i \in Held(v)
            PROVE  FALSE
        <5>1. PICK m \in Keys : i \in Range(batch[v][m])
          BY <4>2 DEF Held
        <5>2. m = k
          BY <1>1, <1>4, <5>1 DEF ListsByKey
        <5>3. batch[v][k] # <<>>
          BY <5>1, <5>2 DEF Range
        <5>4. v = w
          BY <1>1, <2>2, <5>3 DEF OneWriterPerKey
        <5> QED BY <1>1, <1>4, <4>2, <5>4 DEF MarkedIsPushed
      <4>3. i \notin Range(pending[k])
        BY <3>2 DEF Range
      <4> QED BY <1>4, <4>1, <4>2, <4>3 DEF NoStoredJobLost
    <3>6. Before(i, j, waiting[k])
      BY <1>1, <1>4, <3>4, <3>5 DEF WaitingInOrder
    <3>7. Before(i, j, Repeated(waiting[k], Len(batch[w][k])))
      BY <3>1, <3>6, BeforeRepeated
    <3> QED BY <3>1, <3>3, <3>7, BeforeQueued
  <2> QED BY <2>1, <2>2
<1>5. PendingInOrder'
  BY <1>1, <1>4 DEF PendingInOrder, InOrder
<1> QED BY <1>2, <1>3, <1>5 DEF OrderInv

LEMMA OrderNext == IInv /\ NoStoredJobLost /\ OrderInv /\ [Next]_vars => OrderInv'
<1> SUFFICES ASSUME IInv, NoStoredJobLost, OrderInv, [Next]_vars
             PROVE  OrderInv'
  OBVIOUS
<1> USE DEF OrderInv
<1>1. TypeOK /\ ArrivedIsStored /\ WaitingInOrder /\ PendingInOrder /\ BatchesInOrder
  BY DEF IInv
<1>2. ASSUME NEW w \in Workers, Receive(w)
      PROVE  OrderInv'
  <2>1. UNCHANGED <<pending, waiting, batch, pushed, arrived>>
    BY <1>2 DEF Receive, ReceiveFromStore, ReceiveFromMark
  <2>2. \A j \in Jobs : Stored(j) => Stored(j)'
    BY <1>1, <1>2 DEF Receive, ReceiveFromStore, ReceiveFromMark, Stored, TypeOK
  <2>3. Range(arrived) \subseteq Jobs
    BY <1>1 DEF TypeOK, Range
  <2>4. ArrivedIsStored'
    BY <1>1, <2>1, <2>2, <2>3 DEF ArrivedIsStored
  <2> QED BY <1>1, <2>1, <2>4 DEF WaitingInOrder, PendingInOrder, BatchesInOrder, InOrder
<1>3. ASSUME NEW w \in Workers, NextJobs(w)
      PROVE  OrderInv'
  <2>1. /\ UNCHANGED <<waiting, hpc, pushed, arrived>>
        /\ pending' = NoBatch
        /\ batch' = [batch EXCEPT ![w] = pending]
    BY <1>3 DEF NextJobs
  <2>2. \A v \in Workers : batch'[v] = batch[v] \/ batch'[v] = pending
    BY <1>1, <2>1 DEF TypeOK
  <2>3. \A k \in Keys : Range(pending'[k]) = {}
    BY <2>1 DEF NoBatch, Range
  <2>4. ArrivedIsStored' /\ WaitingInOrder'
    BY <1>1, <2>1 DEF ArrivedIsStored, WaitingInOrder, Stored
  <2>5. PendingInOrder'
    BY <2>3 DEF PendingInOrder, InOrder
  <2>6. BatchesInOrder'
    BY <1>1, <2>1, <2>2 DEF BatchesInOrder, PendingInOrder, InOrder
  <2> QED BY <2>4, <2>5, <2>6
<1>4. ASSUME NEW w \in Workers, PushJobs(w)
      PROVE  OrderInv'
  <2>1. UNCHANGED <<pending, waiting, batch, hpc, arrived>> /\ pushed \subseteq pushed'
    BY <1>4 DEF PushJobs
  <2>2. ArrivedIsStored' /\ WaitingInOrder'
    BY <1>1, <2>1 DEF ArrivedIsStored, WaitingInOrder, Stored
  <2> QED BY <1>1, <2>1, <2>2 DEF PendingInOrder, BatchesInOrder, InOrder
<1>5. CASE UNCHANGED vars
  BY <1>1, <1>5 DEF vars, ArrivedIsStored, Stored, WaitingInOrder, PendingInOrder, BatchesInOrder,
     InOrder
<1> QED BY <1>2, <1>3, <1>4, <1>5, OrderStore, OrderMark DEF Next

(* A worker gets the results of a key for the first time in the order Store   *)
(* took them, by whichever of the two lists they came.                        *)
THEOREM FirstWritesInOrder == Spec => []FirstWriteInArrivalOrder
<1>1. Init => NoStoredJobLost /\ OrderInv
  <2>1. ASSUME Init
        PROVE  OrderInv
    <3>1. Range(<<>>) = {}
      BY DEF Range
    <3> QED BY <2>1, <3>1 DEF Init, NoBatch, OrderInv, ArrivedIsStored, WaitingInOrder,
               PendingInOrder, BatchesInOrder, InOrder
  <2> QED BY <2>1 DEF Init, NoStoredJobLost, Stored
<1>2. OrderInv => FirstWriteInArrivalOrder
  BY ConstantsAssumption DEF OrderInv, BatchesInOrder, InOrder, FirstWriteInArrivalOrder
<1>3. IInv /\ NoStoredJobLost /\ OrderInv /\ [Next]_vars => (NoStoredJobLost /\ OrderInv)'
  BY NoStoredJobLostNext, OrderNext
<1> QED BY <1>1, <1>2, <1>3, Invariance, PTL DEF Spec

=============================================================================
