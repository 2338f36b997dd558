--------------------------- MODULE SchedulerProofs ---------------------------
(***************************************************************************)
(* Proofs about the scheduler, for all lists of device jobs, all cron      *)
(* expressions, all queries and any number of concurrent handlers.         *)
(***************************************************************************)
EXTENDS Scheduler, SequenceLemmas, TLAPS

(* Type correctness. *)

LEMMA TagsOfType ==
  ASSUME NEW query \in Seq(Tags)
  PROVE  TagsOf(query) \in Seq(Tags)
  BY ConstantsAssumption DEF TagsOf

LEMMA NextRunType ==
  ASSUME TypeOK, NEW d \in DeviceJobs, NEW b \in Int, NEW t \in NextRun(d, b)
  PROVE  /\ t \in Nat /\ t \in CronTimes[d]
         /\ t > now /\ t > lastRun[d] /\ t < b
         /\ \A u \in CronTimes[d] : u > now /\ u > lastRun[d] => t <= u
<1>1. CronTimes[d] \in SUBSET Nat /\ lastRun[d] \in Nat /\ now \in Nat
  BY ConstantsAssumption DEF TypeOK
<1> QED BY <1>1 DEF NextRun, Upcoming, After

LEMMA TypeInit == Init => TypeOK
<1> SUFFICES ASSUME Init
             PROVE  TypeOK
  OBVIOUS
<1>1. NoRequest \in Request
  BY DEF NoRequest, Request
<1> QED BY <1>1 DEF Init, TypeOK

LEMMA TypeNext == TypeOK /\ [Next]_vars => TypeOK'
<1> SUFFICES ASSUME TypeOK, [Next]_vars
             PROVE  TypeOK'
  OBVIOUS
<1> USE ConstantsAssumption
<1>1. \A h \in Handlers : req[h] \in Request
  BY DEF TypeOK
<1>2. ASSUME NEW h \in Handlers, NEW query \in Queries, NEW seconds \in Seconds,
             NEW max \in Maxima, Begin(h, query, seconds, max)
      PROVE  TypeOK'
  <2>1. query \in Seq(Tags) /\ TagsOf(query) \in Seq(Tags)
    BY TagsOfType
  <2>2. now + seconds \in Int /\ max \in Nat /\ now \in Nat
    BY DEF TypeOK
  <2>3. [stage |-> "scan", query |-> query, before |-> now + seconds,
         max |-> max, got |-> <<>>, tags |-> TagsOf(query), devs |-> <<>>] \in Request
    BY <2>1, <2>2 DEF Request
  <2>4. req' \in [Handlers -> Request]
    BY <1>2, <2>3 DEF Begin, TypeOK
  <2> QED BY <1>2, <2>4 DEF Begin, TypeOK
<1>3. ASSUME NEW h \in Handlers, NextTag(h)
      PROVE  TypeOK'
  <2>1. Head(req[h].tags) \in Tags /\ Tail(req[h].tags) \in Seq(Tags)
    BY <1>1, <1>3 DEF NextTag, Request
  <2>2. ByTag[Head(req[h].tags)] \in Seq(DeviceJobs)
    BY <2>1
  <2>3. req' \in [Handlers -> Request]
    BY <1>1, <1>3, <2>1, <2>2 DEF NextTag, Request, TypeOK
  <2> QED BY <1>3, <2>3 DEF NextTag, TypeOK
<1>4. ASSUME NEW h \in Handlers, Grant(h)
      PROVE  TypeOK'
  <2> DEFINE d == Head(req[h].devs)
  <2>1. d \in DeviceJobs /\ req[h].before \in Int
    BY <1>1, <1>4 DEF Grant, Request
  <2>2. PICK t \in NextRun(d, req[h].before) :
          /\ lastRun' = [lastRun EXCEPT ![d] = t]
          /\ granted' = [granted EXCEPT ![d] = Append(@, [epoch |-> epoch, time |-> t])]
          /\ req' = [req EXCEPT ![h] =
               [req[h] EXCEPT !.got = Append(req[h].got, [job |-> d, time |-> t]),
                              !.tags = TagsOf(req[h].query), !.devs = <<>>]]
    BY <1>4 DEF Grant
  <2>3. t \in Nat
    BY <2>1, NextRunType
  <2>4. [epoch |-> epoch, time |-> t] \in Grants /\ [job |-> d, time |-> t] \in Executions
    BY <2>1, <2>3 DEF TypeOK, Grants, Executions
  <2>5. lastRun' \in [DeviceJobs -> Nat] /\ granted' \in [DeviceJobs -> Seq(Grants)]
    BY <2>1, <2>2, <2>3, <2>4 DEF TypeOK
  <2>6. /\ TagsOf(req[h].query) \in Seq(Tags)
        /\ Append(req[h].got, [job |-> d, time |-> t]) \in Seq(Executions)
    BY <1>1, <2>4, TagsOfType DEF Request
  <2>7. [req[h] EXCEPT !.got = Append(req[h].got, [job |-> d, time |-> t]),
                       !.tags = TagsOf(req[h].query), !.devs = <<>>] \in Request
    <3>1. ASSUME NEW r \in Request, NEW g \in Seq(Executions), NEW ts \in Seq(Tags)
          PROVE  [r EXCEPT !.got = g, !.tags = ts, !.devs = <<>>] \in Request
      <4>1. [r EXCEPT !.got = g] \in Request
        BY DEF Request
      <4>2. \A q \in Request : [q EXCEPT !.tags = ts] \in Request
        BY DEF Request
      <4>3. \A q \in Request, ds \in Seq(DeviceJobs) : [q EXCEPT !.devs = ds] \in Request
        BY DEF Request
      <4>4. <<>> \in Seq(DeviceJobs)
        OBVIOUS
      <4> QED BY <4>1, <4>2, <4>3, <4>4
    <3> QED BY <1>1, <2>6, <3>1
  <2>8. req' \in [Handlers -> Request]
    BY <1>1, <2>2, <2>7 DEF TypeOK
  <2> QED BY <1>4, <2>5, <2>8 DEF Grant, TypeOK
<1>5. ASSUME NEW h \in Handlers, Pass(h)
      PROVE  TypeOK'
  <2>1. Tail(req[h].devs) \in Seq(DeviceJobs)
    BY <1>1, <1>5 DEF Pass, Request
  <2>2. req' \in [Handlers -> Request]
    BY <1>1, <1>5, <2>1 DEF Pass, Request, TypeOK
  <2> QED BY <1>5, <2>2 DEF Pass, TypeOK
<1>6. ASSUME NEW h \in Handlers, Respond(h)
      PROVE  TypeOK'
  <2>1. NoRequest \in Request
    BY DEF NoRequest, Request
  <2> QED BY <1>6, <2>1 DEF Respond, TypeOK
<1>7. CASE Tick
  BY <1>7 DEF Tick, TypeOK
<1>8. CASE Restart
  <2>1. NoRequest \in Request
    BY DEF NoRequest, Request
  <2> QED BY <1>8, <2>1 DEF Restart, TypeOK
<1>9. CASE UNCHANGED vars
  BY <1>9 DEF vars, TypeOK
<1> QED BY <1>2, <1>3, <1>4, <1>5, <1>6, <1>7, <1>8, <1>9 DEF Next

(* The clock, the epochs, the last runs, the requests and the grants always   *)
(* have the shape the controller gives them.                                  *)
THEOREM TypeCorrect == Spec => []TypeOK
  BY TypeInit, TypeNext, PTL DEF Spec

-----------------------------------------------------------------------------
(* What a step does to lastRun and to the grants. *)

LEMMA GrantStep ==
  ASSUME TypeOK, NEW h \in Handlers, Grant(h)
  PROVE  \E d \in DeviceJobs : \E t \in NextRun(d, req[h].before) :
           /\ lastRun' = [lastRun EXCEPT ![d] = t]
           /\ granted' = [granted EXCEPT ![d] = Append(@, [epoch |-> epoch, time |-> t])]
           /\ now' = now /\ epoch' = epoch
           /\ t \in Nat /\ t \in CronTimes[d] /\ t > now /\ t > lastRun[d]
           /\ \A u \in CronTimes[d] : u > now /\ u > lastRun[d] => t <= u
<1> DEFINE d == Head(req[h].devs)
<1>1. req[h] \in Request
  BY DEF TypeOK
<1>2. d \in DeviceJobs /\ req[h].before \in Int
  BY <1>1 DEF Grant, Request
<1>3. PICK t \in NextRun(d, req[h].before) :
        /\ lastRun' = [lastRun EXCEPT ![d] = t]
        /\ granted' = [granted EXCEPT ![d] = Append(@, [epoch |-> epoch, time |-> t])]
  BY DEF Grant
<1>4. /\ t \in Nat /\ t \in CronTimes[d] /\ t > now /\ t > lastRun[d]
      /\ \A u \in CronTimes[d] : u > now /\ u > lastRun[d] => t <= u
  BY <1>2, NextRunType
<1>5. now' = now /\ epoch' = epoch
  BY DEF Grant
<1> QED BY <1>2, <1>3, <1>4, <1>5

(* Every other step of a handler leaves the device jobs alone. *)
LEMMA QuietStep ==
  ASSUME NEW h \in Handlers,
         \/ \E query \in Queries, seconds \in Seconds, max \in Maxima :
              Begin(h, query, seconds, max)
         \/ NextTag(h) \/ Pass(h) \/ Respond(h)
  PROVE  UNCHANGED <<now, epoch, lastRun, granted>>
  BY DEF Begin, NextTag, Pass, Respond

-----------------------------------------------------------------------------
(* Exclusive grants. *)

(* No grant is from the future, and those of this epoch are not after lastRun:  *)
(* what makes the next grant later than all of them.                           *)
GrantsUpToLastRun ==
  \A d \in DeviceJobs : \A i \in DOMAIN granted[d] :
    /\ granted[d][i].epoch <= epoch
    /\ granted[d][i].epoch = epoch => granted[d][i].time <= lastRun[d]

LEMMA ExclusiveNext ==
  TypeOK /\ GrantsUpToLastRun /\ ExclusiveRuns /\ [Next]_vars
    => GrantsUpToLastRun' /\ ExclusiveRuns'
<1> SUFFICES ASSUME TypeOK, GrantsUpToLastRun, ExclusiveRuns, [Next]_vars
             PROVE  GrantsUpToLastRun' /\ ExclusiveRuns'
  OBVIOUS
<1>1. ASSUME UNCHANGED <<epoch, lastRun, granted>>
      PROVE  GrantsUpToLastRun' /\ ExclusiveRuns'
  BY <1>1 DEF GrantsUpToLastRun, ExclusiveRuns
<1>2. ASSUME NEW h \in Handlers, Grant(h)
      PROVE  GrantsUpToLastRun' /\ ExclusiveRuns'
  <2>1. PICK d \in DeviceJobs, t \in Nat :
          /\ lastRun' = [lastRun EXCEPT ![d] = t]
          /\ granted' = [granted EXCEPT ![d] = Append(@, [epoch |-> epoch, time |-> t])]
          /\ epoch' = epoch
          /\ t > lastRun[d]
    BY <1>2, GrantStep
  <2> DEFINE g == [epoch |-> epoch, time |-> t]
             n == Len(granted[d])
  <2>2. granted[d] \in Seq(Grants) /\ g \in Grants /\ n \in Nat /\ lastRun[d] \in Nat
    BY DEF TypeOK, Grants
  <2>3. /\ DOMAIN granted'[d] = 1 .. (n + 1)
        /\ DOMAIN granted[d] = 1 .. n
        /\ granted'[d][n + 1] = g
        /\ \A i \in 1 .. n : granted'[d][i] = granted[d][i]
    BY <2>1, <2>2 DEF TypeOK
  <2>4. /\ lastRun'[d] = t
        /\ \A e \in DeviceJobs : e # d => granted'[e] = granted[e] /\ lastRun'[e] = lastRun[e]
    BY <2>1 DEF TypeOK
  <2>5. \A i \in 1 .. n : granted[d][i] \in Grants
    BY <2>2
  <2>6. \A i \in 1 .. n : granted[d][i].time \in Nat /\ granted[d][i].epoch \in Nat
    BY <2>5 DEF Grants
  <2>7. \A i \in 1 .. n : granted[d][i].epoch = epoch => granted[d][i].time < t
    BY <2>1, <2>2, <2>3, <2>6 DEF GrantsUpToLastRun
  <2>8. g.epoch = epoch /\ g.time = t
    OBVIOUS
  <2> HIDE DEF g, n
  <2>9. ASSUME NEW i \in DOMAIN granted'[d]
        PROVE  /\ granted'[d][i].epoch <= epoch'
               /\ granted'[d][i].epoch = epoch' => granted'[d][i].time <= lastRun'[d]
    <3>1. CASE i = n + 1
      BY <2>1, <2>3, <2>4, <2>8, <3>1 DEF TypeOK
    <3>2. CASE i \in 1 .. n
      BY <2>1, <2>3, <2>4, <2>6, <2>7, <3>2 DEF GrantsUpToLastRun
    <3> QED BY <2>2, <2>3, <3>1, <3>2
  <2>10. GrantsUpToLastRun'
    BY <2>1, <2>4, <2>9 DEF GrantsUpToLastRun
  <2>11. ASSUME NEW i \in DOMAIN granted'[d], NEW j \in DOMAIN granted'[d], i < j,
                granted'[d][i].epoch = granted'[d][j].epoch
         PROVE  granted'[d][i].time < granted'[d][j].time
    <3>1. i \in 1 .. n
      BY <2>2, <2>3, <2>11
    <3>2. CASE j = n + 1
      BY <2>3, <2>7, <2>8, <2>11, <3>1, <3>2
    <3>3. CASE j \in 1 .. n
      BY <2>3, <2>11, <3>1, <3>3 DEF ExclusiveRuns
    <3> QED BY <2>2, <2>3, <3>2, <3>3
  <2>12. ExclusiveRuns'
    BY <2>4, <2>11 DEF ExclusiveRuns
  <2> QED BY <2>10, <2>12
<1>3. CASE Tick
  BY <1>1, <1>3 DEF Tick
<1>4. CASE Restart
  <2>1. epoch' = epoch + 1 /\ granted' = granted
    BY <1>4 DEF Restart
  <2>2. \A d \in DeviceJobs : \A i \in DOMAIN granted[d] :
          granted[d][i].epoch \in Nat /\ granted[d][i].epoch < epoch'
    <3>1. \A d \in DeviceJobs : \A i \in DOMAIN granted[d] : granted[d][i] \in Grants
      BY DEF TypeOK
    <3>2. \A d \in DeviceJobs : \A i \in DOMAIN granted[d] : granted[d][i].epoch \in Nat
      BY <3>1 DEF Grants
    <3> QED BY <2>1, <3>2 DEF TypeOK, GrantsUpToLastRun
  <2> QED BY <2>1, <2>2 DEF TypeOK, GrantsUpToLastRun, ExclusiveRuns
<1>5. CASE UNCHANGED vars
  BY <1>1, <1>5 DEF vars
<1> QED BY <1>1, <1>2, <1>3, <1>4, <1>5, QuietStep DEF Next

(* A run of a device job is never handed out twice by one controller, to      *)
(* whatever handlers.                                                         *)
THEOREM Exclusive == Spec => []ExclusiveRuns
<1>1. Init => GrantsUpToLastRun /\ ExclusiveRuns
  BY DEF Init, GrantsUpToLastRun, ExclusiveRuns
<1> QED BY <1>1, ExclusiveNext, TypeCorrect, PTL DEF Spec

-----------------------------------------------------------------------------
(* No upcoming run is skipped. *)

LEMMA NoUpcomingRunSkippedNext ==
  TypeOK /\ NoUpcomingRunSkipped /\ [Next]_vars => NoUpcomingRunSkipped'
<1> SUFFICES ASSUME TypeOK, NoUpcomingRunSkipped, [Next]_vars
             PROVE  NoUpcomingRunSkipped'
  OBVIOUS
<1> USE ConstantsAssumption
<1>1. ASSUME UNCHANGED <<now, epoch, lastRun, granted>>
      PROVE  NoUpcomingRunSkipped'
  BY <1>1 DEF NoUpcomingRunSkipped, Handed
<1>2. ASSUME NEW h \in Handlers, Grant(h)
      PROVE  NoUpcomingRunSkipped'
  <2>1. PICK d \in DeviceJobs, t \in Nat :
          /\ lastRun' = [lastRun EXCEPT ![d] = t]
          /\ granted' = [granted EXCEPT ![d] = Append(@, [epoch |-> epoch, time |-> t])]
          /\ now' = now /\ epoch' = epoch
          /\ \A u \in CronTimes[d] : u > now /\ u > lastRun[d] => t <= u
    BY <1>2, GrantStep
  <2> DEFINE g == [epoch |-> epoch, time |-> t]
             n == Len(granted[d])
  <2>2. granted[d] \in Seq(Grants) /\ g \in Grants /\ n \in Nat
    BY DEF TypeOK, Grants
  <2>3. /\ granted'[d][n + 1] = g /\ n + 1 \in DOMAIN granted'[d]
        /\ \A i \in DOMAIN granted[d] :
             i \in DOMAIN granted'[d] /\ granted'[d][i] = granted[d][i]
    BY <2>1, <2>2 DEF TypeOK
  <2>4. /\ lastRun'[d] = t
        /\ \A e \in DeviceJobs : e # d => granted'[e] = granted[e] /\ lastRun'[e] = lastRun[e]
    BY <2>1 DEF TypeOK
  <2>5. \A e \in DeviceJobs, u \in Nat : Handed(e, u) => Handed(e, u)'
    BY <2>1, <2>3, <2>4 DEF Handed
  <2>6. Handed(d, t)'
    BY <2>1, <2>3 DEF Handed
  <2>7. ASSUME NEW u \in CronTimes[d], now < u, u <= t
        PROVE  Handed(d, u)'
    <3>1. u \in Nat /\ lastRun[d] \in Nat
      BY DEF TypeOK
    <3>2. CASE u <= lastRun[d]
      BY <2>5, <2>7, <3>1, <3>2 DEF NoUpcomingRunSkipped
    <3>3. CASE u > lastRun[d]
      <4>1. u = t
        BY <2>1, <2>7, <3>1, <3>3 DEF TypeOK
      <4> QED BY <2>6, <4>1
    <3> QED BY <3>1, <3>2, <3>3
  <2>8. ASSUME NEW e \in DeviceJobs, NEW u \in CronTimes[e], now < u, u <= lastRun'[e]
        PROVE  Handed(e, u)'
    <3>1. CASE e = d
      BY <2>4, <2>7, <2>8, <3>1
    <3>2. CASE e # d
      BY <2>4, <2>5, <2>8, <3>2 DEF NoUpcomingRunSkipped
    <3> QED BY <3>1, <3>2
  <2> QED BY <2>1, <2>8 DEF NoUpcomingRunSkipped
<1>3. CASE Tick
  <2>1. \A u \in Nat : now' < u => now < u
    BY <1>3 DEF Tick, TypeOK
  <2> QED BY <1>3, <2>1 DEF Tick, NoUpcomingRunSkipped, Handed
<1>4. CASE Restart
  <2>1. \A d \in DeviceJobs : lastRun'[d] = now'
    BY <1>4 DEF Restart
  <2>2. now' \in Nat
    BY <1>4 DEF Restart, TypeOK
  <2> QED BY <2>1, <2>2 DEF NoUpcomingRunSkipped
<1>5. CASE UNCHANGED vars
  BY <1>1, <1>5 DEF vars
<1> QED BY <1>1, <1>2, <1>3, <1>4, <1>5, QuietStep DEF Next

(* A run that is still to come is never jumped over: it is handed out by this *)
(* controller or will be found by the next request whose window reaches it.   *)
THEOREM NothingSkipped == Spec => []NoUpcomingRunSkipped
<1>1. Init => NoUpcomingRunSkipped
  BY ConstantsAssumption DEF Init, NoUpcomingRunSkipped
<1> QED BY <1>1, NoUpcomingRunSkippedNext, TypeCorrect, PTL DEF Spec

-----------------------------------------------------------------------------
(* Short answers. *)

(* Nothing is left to hand out for this device job before this instant. *)
Covered(d, before) ==
  \A t \in CronTimes[d] : now < t /\ t < before => t <= lastRun[d]

(* The device jobs a walk has not come to yet. *)
Ahead(r) == Range(r.devs) \cup UNION {Range(ByTag[t]) : t \in Range(r.tags)}

(* What a walk has been through stays covered while other handlers walk, the  *)
(* clock moves and lastRun grows.                                             *)
Walked(h) ==
  req[h].stage = "scan" =>
    \A d \in Reached(req[h].query) : d \in Ahead(req[h]) \/ Covered(d, req[h].before)

WalkCovers == \A h \in Handlers : Walked(h)

LEMMA CoveredStays ==
  ASSUME TypeOK, TypeOK', NEW d \in DeviceJobs, NEW b \in Int, Covered(d, b),
         now <= now', lastRun[d] <= lastRun'[d]
  PROVE  Covered(d, b)'
<1>1. CronTimes[d] \in SUBSET Nat
  BY ConstantsAssumption
<1>2. lastRun[d] \in Nat /\ now \in Nat /\ lastRun'[d] \in Nat /\ now' \in Nat
  BY DEF TypeOK
<1>3. ASSUME NEW t \in CronTimes[d], now' < t, t < b
      PROVE  t <= lastRun'[d]
  <2>1. t \in Nat /\ now < t
    BY <1>1, <1>2, <1>3
  <2> QED BY <1>2, <1>3, <2>1 DEF Covered
<1> QED BY <1>3 DEF Covered

LEMMA WalkStart ==
  ASSUME NEW query \in Seq(Tags), NEW r \in Request,
         r.tags = TagsOf(query), r.query = query
  PROVE  Reached(r.query) \subseteq Ahead(r)
  BY DEF Reached, Ahead

LEMMA ReachedType ==
  ASSUME NEW query \in Seq(Tags)
  PROVE  Reached(query) \subseteq DeviceJobs
<1>1. TagsOf(query) \in Seq(Tags)
  BY TagsOfType
<1>2. Range(TagsOf(query)) \subseteq Tags
  BY <1>1 DEF Range
<1>3. \A t \in Tags : Range(ByTag[t]) \subseteq DeviceJobs
  <2>1. \A t \in Tags : ByTag[t] \in Seq(DeviceJobs)
    BY ConstantsAssumption
  <2> QED BY <2>1 DEF Range
<1> QED BY <1>2, <1>3 DEF Reached

(* A handler that does not move keeps what it has covered. *)
LEMMA WalkedStays ==
  ASSUME TypeOK, TypeOK', NEW h \in Handlers, Walked(h),
         req'[h] = req[h], now <= now',
         \A d \in DeviceJobs : lastRun[d] <= lastRun'[d]
  PROVE  Walked(h)'
<1>1. req[h] \in Request
  BY DEF TypeOK
<1>2. PICK b \in Int : b = req[h].before
  BY <1>1 DEF Request
<1>3. Reached(req[h].query) \subseteq DeviceJobs
  BY <1>1, ReachedType DEF Request
<1>4. SUFFICES ASSUME req[h].stage = "scan", NEW d \in Reached(req[h].query),
                      d \notin Ahead(req[h])
               PROVE  Covered(d, req[h].before)'
  BY DEF Walked
<1>5. d \in DeviceJobs /\ Covered(d, b)
  BY <1>2, <1>3, <1>4 DEF Walked
<1>6. Covered(d, b)'
  BY <1>5, CoveredStays
<1> QED BY <1>2, <1>6 DEF Covered

LEMMA WalkCoversNext ==
  TypeOK /\ TypeOK' /\ WalkCovers /\ [Next]_vars => WalkCovers'
<1> SUFFICES ASSUME TypeOK, TypeOK', WalkCovers, [Next]_vars,
                    NEW h \in Handlers
             PROVE  Walked(h)'
  BY DEF WalkCovers
<1> USE ConstantsAssumption
<1>1. req[h] \in Request /\ req'[h] \in Request /\ Walked(h)
  BY DEF TypeOK, WalkCovers
<1>2. ASSUME req'[h] = req[h], UNCHANGED <<now, lastRun>>
      PROVE  Walked(h)'
  BY <1>1, <1>2 DEF Walked, Covered
<1>3. ASSUME NEW g \in Handlers, NEW query \in Queries, NEW seconds \in Seconds,
             NEW max \in Maxima, Begin(g, query, seconds, max)
      PROVE  Walked(h)'
  <2>1. CASE g = h
    <3>1. req'[h].query = query /\ req'[h].tags = TagsOf(query) /\ query \in Seq(Tags)
      BY <1>3, <2>1 DEF Begin, TypeOK
    <3>2. Reached(req'[h].query) \subseteq Ahead(req'[h])
      BY <1>1, <3>1, WalkStart
    <3> QED BY <3>2 DEF Walked
  <2>2. CASE g # h
    BY <1>2, <1>3, <2>2 DEF Begin, TypeOK
  <2> QED BY <2>1, <2>2
<1>4. ASSUME NEW g \in Handlers, NextTag(g)
      PROVE  Walked(h)'
  <2>1. CASE g = h
    <3>1. /\ req[h].tags \in Seq(Tags) /\ req[h].tags # <<>> /\ req[h].devs = <<>>
          /\ req'[h] = [req[h] EXCEPT !.devs = ByTag[Head(req[h].tags)],
                                      !.tags = Tail(req[h].tags)]
          /\ UNCHANGED <<now, lastRun>>
      BY <1>1, <1>4, <2>1 DEF NextTag, Request, TypeOK
    <3>2. /\ req'[h].devs = ByTag[Head(req[h].tags)] /\ req'[h].tags = Tail(req[h].tags)
          /\ req'[h].query = req[h].query /\ req'[h].before = req[h].before
          /\ req'[h].stage = req[h].stage
      BY <1>1, <3>1 DEF Request
    <3>3. Range(req[h].tags) = {Head(req[h].tags)} \cup Range(Tail(req[h].tags))
      BY <3>1, RangeOfTail
    <3>4. Ahead(req[h]) \subseteq Ahead(req'[h])
      <4>1. Range(req[h].devs) = {}
        BY <3>1 DEF Range
      <4>2. Ahead(req[h]) = Range(ByTag[Head(req[h].tags)])
                              \cup UNION {Range(ByTag[t]) : t \in Range(Tail(req[h].tags))}
        BY <3>3, <4>1 DEF Ahead
      <4> QED BY <3>2, <4>2 DEF Ahead
    <3> QED BY <1>1, <3>1, <3>2, <3>4 DEF Walked, Covered
  <2>2. CASE g # h
    BY <1>2, <1>4, <2>2 DEF NextTag, TypeOK
  <2> QED BY <2>1, <2>2
<1>5. ASSUME NEW g \in Handlers, Grant(g)
      PROVE  Walked(h)'
  <2>1. CASE g = h
    <3> DEFINE d == Head(req[h].devs)
    <3>0. Grant(h)
      BY <1>5, <2>1
    <3>1. PICK t \in NextRun(d, req[h].before) : req' = [req EXCEPT ![h] =
                   [req[h] EXCEPT !.got = Append(req[h].got, [job |-> d, time |-> t]),
                                  !.tags = TagsOf(req[h].query), !.devs = <<>>]]
      BY <3>0 DEF Grant
    <3>2. /\ req'[h].tags = TagsOf(req[h].query) /\ req'[h].query = req[h].query
          /\ req[h].query \in Seq(Tags)
      BY <1>1, <3>1 DEF Request, TypeOK
    <3>3. Reached(req'[h].query) \subseteq Ahead(req'[h])
      BY <1>1, <3>2, WalkStart
    <3> QED BY <3>3 DEF Walked
  <2>2. CASE g # h
    <3>1. req'[h] = req[h]
      BY <1>5, <2>2 DEF Grant, TypeOK
    <3>2. PICK d \in DeviceJobs, t \in Nat :
            lastRun' = [lastRun EXCEPT ![d] = t] /\ t > lastRun[d] /\ now' = now
      BY <1>5, GrantStep
    <3>3. \A e \in DeviceJobs : lastRun[e] <= lastRun'[e]
      BY <3>2 DEF TypeOK
    <3>4. now <= now'
      BY <3>2 DEF TypeOK
    <3> QED BY <1>1, <3>1, <3>3, <3>4, WalkedStays
  <2> QED BY <2>1, <2>2
<1>6. ASSUME NEW g \in Handlers, Pass(g)
      PROVE  Walked(h)'
  <2>1. CASE g = h
    <3> DEFINE e == Head(req[h].devs)
    <3>1. /\ req[h].devs \in Seq(DeviceJobs) /\ req[h].devs # <<>>
          /\ NoRunIn(e, req[h].before)
          /\ req'[h] = [req[h] EXCEPT !.devs = Tail(req[h].devs)]
          /\ UNCHANGED <<now, lastRun>>
      BY <1>1, <1>6, <2>1 DEF Pass, Request, TypeOK
    <3>2. /\ req'[h].devs = Tail(req[h].devs) /\ req'[h].tags = req[h].tags
          /\ req'[h].query = req[h].query /\ req'[h].before = req[h].before
          /\ req'[h].stage = req[h].stage
      BY <1>1, <3>1 DEF Request
    <3>3. Range(req[h].devs) = {e} \cup Range(Tail(req[h].devs)) /\ e \in DeviceJobs
      BY <3>1, RangeOfTail
    <3>4. Ahead(req[h]) \subseteq Ahead(req'[h]) \cup {e}
      BY <3>2, <3>3 DEF Ahead
    <3>5. Covered(e, req[h].before)
      <4>1. CronTimes[e] \in SUBSET Nat /\ lastRun[e] \in Nat /\ now \in Nat
        BY <3>3 DEF TypeOK
      <4>2. req[h].before \in Int
        BY <1>1 DEF Request
      <4> HIDE DEF e
      <4>3. ASSUME NEW t \in CronTimes[e], now < t, t < req[h].before
            PROVE  t <= lastRun[e]
        <5>1. t \in Nat
          BY <4>1
        <5>2. t \notin Upcoming(e)
          BY <3>1, <4>2, <4>3, <5>1 DEF NoRunIn
        <5> QED BY <4>1, <4>3, <5>1, <5>2 DEF Upcoming, After
      <4> QED BY <4>3 DEF Covered
    <3> HIDE DEF e
    <3> QED BY <1>1, <3>1, <3>2, <3>4, <3>5 DEF Walked, Covered
  <2>2. CASE g # h
    BY <1>2, <1>6, <2>2 DEF Pass, TypeOK
  <2> QED BY <2>1, <2>2
<1>7. ASSUME NEW g \in Handlers, Respond(g)
      PROVE  Walked(h)'
  <2>1. CASE g = h
    <3>1. req'[h].stage = "idle"
      BY <1>7, <2>1 DEF Respond, NoRequest, TypeOK
    <3> QED BY <3>1 DEF Walked
  <2>2. CASE g # h
    BY <1>2, <1>7, <2>2 DEF Respond, TypeOK
  <2> QED BY <2>1, <2>2
<1>8. CASE Tick
  <2>1. /\ req' = req /\ now <= now'
        /\ \A d \in DeviceJobs : lastRun[d] <= lastRun'[d]
    BY <1>8 DEF Tick, TypeOK
  <2> QED BY <1>1, <2>1, WalkedStays
<1>9. CASE Restart
  <2>1. req'[h].stage = "idle"
    BY <1>9 DEF Restart, NoRequest
  <2> QED BY <2>1 DEF Walked
<1>10. CASE UNCHANGED vars
  BY <1>2, <1>10 DEF vars
<1> QED BY <1>3, <1>4, <1>5, <1>6, <1>7, <1>8, <1>9, <1>10 DEF Next

(* An answer with fewer executions than were asked for means that every run   *)
(* still to come in the window, of every device job the query reaches, is     *)
(* handed out, although no lock spans the walk.                               *)
THEOREM ShortAnswers == Spec => []ShortAnswerIsComplete
<1>1. Init => WalkCovers
  BY DEF Init, WalkCovers, Walked, NoRequest
<1>2. TypeOK /\ WalkCovers /\ NoUpcomingRunSkipped => ShortAnswerIsComplete
  <2> SUFFICES ASSUME TypeOK, WalkCovers, NoUpcomingRunSkipped,
                      NEW h \in Handlers, Exhausted(h),
                      NEW d \in Reached(req[h].query), NEW t \in CronTimes[d],
                      now < t, t < req[h].before
               PROVE  Handed(d, t)
    BY DEF ShortAnswerIsComplete
  <2>1. Ahead(req[h]) = {}
    BY DEF Exhausted, Ahead, Range
  <2>2. Covered(d, req[h].before)
    BY <2>1 DEF WalkCovers, Walked, Exhausted, Looking
  <2>3. d \in DeviceJobs
    BY ReachedType DEF TypeOK, Request
  <2> QED BY <2>2, <2>3 DEF Covered, NoUpcomingRunSkipped
<1> QED BY <1>1, <1>2, WalkCoversNext, NothingSkipped, TypeCorrect, PTL DEF Spec

-----------------------------------------------------------------------------
(* The scheduler implements RunDispenser. *)

(* A walk looks at nothing that its query does not reach. *)
InReach == \A h \in Handlers :
  req[h].stage = "scan" => Ahead(req[h]) \subseteq Reached(req[h].query)

LEMMA InReachNext ==
  TypeOK /\ InReach /\ [Next]_vars => InReach'
<1> SUFFICES ASSUME TypeOK, InReach, [Next]_vars, NEW h \in Handlers, req'[h].stage = "scan"
             PROVE  Ahead(req'[h]) \subseteq Reached(req'[h].query)
  BY DEF InReach, Ahead, Reached
<1>1. req[h] \in Request
  BY DEF TypeOK
<1>2. ASSUME req'[h] = req[h]
      PROVE  Ahead(req'[h]) \subseteq Reached(req'[h].query)
  BY <1>2 DEF InReach
<1>3. ASSUME req'[h].tags = TagsOf(req'[h].query), req'[h].devs = <<>>
      PROVE  Ahead(req'[h]) \subseteq Reached(req'[h].query)
  BY <1>3 DEF Ahead, Reached, Range
<1>4. ASSUME req'[h].query = req[h].query, req[h].stage = "scan",
             Ahead(req'[h]) \subseteq Ahead(req[h])
      PROVE  Ahead(req'[h]) \subseteq Reached(req'[h].query)
  BY <1>4 DEF InReach
<1>5. ASSUME NEW g \in Handlers, NEW query \in Queries, NEW seconds \in Seconds,
             NEW max \in Maxima, Begin(g, query, seconds, max)
      PROVE  Ahead(req'[h]) \subseteq Reached(req'[h].query)
  <2>1. CASE g = h
    BY <1>3, <1>5, <2>1 DEF Begin, TypeOK
  <2>2. CASE g # h
    BY <1>2, <1>5, <2>2 DEF Begin, TypeOK
  <2> QED BY <2>1, <2>2
<1>6. ASSUME NEW g \in Handlers, NextTag(g)
      PROVE  Ahead(req'[h]) \subseteq Reached(req'[h].query)
  <2>1. CASE g = h
    <3>1. /\ req[h].tags \in Seq(Tags) /\ req[h].tags # <<>> /\ req[h].devs = <<>>
          /\ req'[h] = [req[h] EXCEPT !.devs = ByTag[Head(req[h].tags)],
                                      !.tags = Tail(req[h].tags)]
      BY <1>1, <1>6, <2>1 DEF NextTag, Request, TypeOK
    <3>2. /\ req'[h].devs = ByTag[Head(req[h].tags)] /\ req'[h].tags = Tail(req[h].tags)
          /\ req'[h].query = req[h].query /\ req[h].stage = "scan"
      <4>1. req[h].stage = "scan"
        BY <1>6, <2>1 DEF NextTag, Looking
      <4>2. /\ req'[h].devs = ByTag[Head(req[h].tags)] /\ req'[h].tags = Tail(req[h].tags)
            /\ req'[h].query = req[h].query
        BY <1>1, <3>1 DEF Request
      <4> QED BY <4>1, <4>2
    <3>3. Range(req[h].tags) = {Head(req[h].tags)} \cup Range(Tail(req[h].tags))
      BY <3>1, RangeOfTail
    <3>4. Ahead(req'[h]) \subseteq Ahead(req[h])
      BY <3>2, <3>3 DEF Ahead
    <3> QED BY <1>4, <3>2, <3>4
  <2>2. CASE g # h
    BY <1>2, <1>6, <2>2 DEF NextTag, TypeOK
  <2> QED BY <2>1, <2>2
<1>7. ASSUME NEW g \in Handlers, Grant(g)
      PROVE  Ahead(req'[h]) \subseteq Reached(req'[h].query)
  <2>1. CASE g = h
    <3> DEFINE d == Head(req[h].devs)
    <3>1. Grant(h)
      BY <1>7, <2>1
    <3>2. PICK t \in NextRun(d, req[h].before) : req' = [req EXCEPT ![h] =
                   [req[h] EXCEPT !.got = Append(req[h].got, [job |-> d, time |-> t]),
                                  !.tags = TagsOf(req[h].query), !.devs = <<>>]]
      BY <3>1 DEF Grant
    <3>3. /\ req'[h].tags = TagsOf(req[h].query) /\ req'[h].devs = <<>>
          /\ req'[h].query = req[h].query
      BY <1>1, <3>2 DEF Request, TypeOK
    <3> QED BY <1>3, <3>3
  <2>2. CASE g # h
    BY <1>2, <1>7, <2>2 DEF Grant, TypeOK
  <2> QED BY <2>1, <2>2
<1>8. ASSUME NEW g \in Handlers, Pass(g)
      PROVE  Ahead(req'[h]) \subseteq Reached(req'[h].query)
  <2>1. CASE g = h
    <3>1. /\ req[h].devs \in Seq(DeviceJobs) /\ req[h].devs # <<>>
          /\ req'[h] = [req[h] EXCEPT !.devs = Tail(req[h].devs)]
      BY <1>1, <1>8, <2>1 DEF Pass, Request, TypeOK
    <3>2. /\ req'[h].devs = Tail(req[h].devs) /\ req'[h].tags = req[h].tags
          /\ req'[h].query = req[h].query /\ req[h].stage = "scan"
      BY <1>1, <1>8, <2>1, <3>1 DEF Request, Pass, Looking
    <3>3. Range(Tail(req[h].devs)) \subseteq Range(req[h].devs)
      BY <3>1, RangeOfTail
    <3>4. Ahead(req'[h]) \subseteq Ahead(req[h])
      BY <3>2, <3>3 DEF Ahead
    <3> QED BY <1>4, <3>2, <3>4
  <2>2. CASE g # h
    BY <1>2, <1>8, <2>2 DEF Pass, TypeOK
  <2> QED BY <2>1, <2>2
<1>9. ASSUME NEW g \in Handlers, Respond(g)
      PROVE  Ahead(req'[h]) \subseteq Reached(req'[h].query)
  BY <1>2, <1>9 DEF Respond, NoRequest, TypeOK
<1>10. CASE Tick \/ UNCHANGED vars
  BY <1>2, <1>10 DEF Tick, vars
<1>11. CASE Restart
  BY <1>11 DEF Restart, NoRequest
<1> QED BY <1>5, <1>6, <1>7, <1>8, <1>9, <1>10, <1>11 DEF Next

(* HandedRuns says what Handed says. *)
LEMMA HandedRunsType ==
  TypeOK => \A y : y \in HandedRuns <=>
              \E d \in DeviceJobs, t \in Nat : y = [job |-> d, time |-> t] /\ Handed(d, t)
<1> SUFFICES ASSUME TypeOK
             PROVE  \A y : y \in HandedRuns <=>
                      \E d \in DeviceJobs, t \in Nat : y = [job |-> d, time |-> t] /\ Handed(d, t)
  OBVIOUS
<1>1. \A d \in DeviceJobs : \A i \in DOMAIN granted[d] : granted[d][i] \in Grants
  BY DEF TypeOK
<1>2. \A d \in DeviceJobs : \A i \in DOMAIN granted[d] :
        /\ granted[d][i].time \in Nat
        /\ granted[d][i] = [epoch |-> granted[d][i].epoch, time |-> granted[d][i].time]
  BY <1>1 DEF Grants
<1>3. ASSUME NEW y \in HandedRuns
      PROVE  \E d \in DeviceJobs, t \in Nat : y = [job |-> d, time |-> t] /\ Handed(d, t)
  <2>1. PICK d \in DeviceJobs : \E i \in DOMAIN granted[d] :
          granted[d][i].epoch = epoch /\ y = [job |-> d, time |-> granted[d][i].time]
    BY DEF HandedRuns
  <2>2. PICK i \in DOMAIN granted[d] :
          granted[d][i].epoch = epoch /\ y = [job |-> d, time |-> granted[d][i].time]
    BY <2>1
  <2>3. Handed(d, granted[d][i].time) /\ granted[d][i].time \in Nat
    BY <1>2, <2>2 DEF Handed
  <2> QED BY <2>2, <2>3
<1>4. ASSUME NEW d \in DeviceJobs, NEW t \in Nat, Handed(d, t)
      PROVE  [job |-> d, time |-> t] \in HandedRuns
  <2>1. PICK i \in DOMAIN granted[d] : granted[d][i] = [epoch |-> epoch, time |-> t]
    BY <1>4 DEF Handed
  <2>2. granted[d][i].epoch = epoch /\ granted[d][i].time = t
    BY <2>1
  <2> QED BY <2>2 DEF HandedRuns
<1> QED BY <1>3, <1>4

LEMMA HandedRunsTypeNext ==
  (TypeOK => \A y : y \in HandedRuns <=>
               \E d \in DeviceJobs, t \in Nat : y = [job |-> d, time |-> t] /\ Handed(d, t))'
  BY HandedRunsType, PTL

LEMMA HandedUpToLastRun ==
  ASSUME TypeOK, GrantsUpToLastRun, NEW d \in DeviceJobs, NEW t \in Nat, Handed(d, t)
  PROVE  t <= lastRun[d]
  BY DEF Handed, GrantsUpToLastRun

(* What is due, for those who ask, is what the lists still hold. *)
LEMMA DueIs ==
  ASSUME TypeOK, NEW h \in Handlers, req[h].stage = "scan"
  PROVE  \A y : y \in Dispenser!Due(OpenRequests[h]) <=>
           \E d \in Reached(req[h].query) : \E t \in CronTimes[d] :
             /\ y = [job |-> d, time |-> t]
             /\ now < t /\ t < req[h].before
             /\ ~ Handed(d, t)
<1>1. /\ OpenRequests[h].scope = Reached(req[h].query)
      /\ OpenRequests[h].before = req[h].before
  BY DEF OpenRequests
<1>2. req[h].query \in Seq(Tags)
  BY DEF TypeOK, Request
<1>3. Reached(req[h].query) \subseteq DeviceJobs
  BY <1>2, ReachedType
<1>4. \A d \in DeviceJobs : \A t \in CronTimes[d] :
        [job |-> d, time |-> t] \in HandedRuns <=> Handed(d, t)
  <2>1. \A d \in DeviceJobs : CronTimes[d] \subseteq Nat
    BY ConstantsAssumption
  <2>2. ASSUME NEW d \in DeviceJobs, NEW t \in CronTimes[d]
        PROVE  [job |-> d, time |-> t] \in HandedRuns <=> Handed(d, t)
    <3>1. t \in Nat
      BY <2>1
    <3>2. \A e, u : [job |-> d, time |-> t] = [job |-> e, time |-> u] => e = d /\ u = t
      <4>1. \A e, u : [job |-> e, time |-> u].job = e /\ [job |-> e, time |-> u].time = u
        OBVIOUS
      <4> QED BY <4>1
    <3> QED BY <3>1, <3>2, HandedRunsType
  <2> QED BY <2>2
<1>5. \A y : y \in Dispenser!Due(OpenRequests[h]) <=>
        \E d \in Reached(req[h].query) : \E t \in CronTimes[d] :
          /\ y = [job |-> d, time |-> t]
          /\ now < t /\ t < req[h].before
          /\ y \notin HandedRuns
  BY <1>1 DEF Dispenser!Due
<1> QED BY <1>3, <1>4, <1>5

DispenserInv ==
  TypeOK /\ GrantsUpToLastRun /\ NoUpcomingRunSkipped /\ ShortAnswerIsComplete /\ InReach

LEMMA OpenRequestsStay ==
  ASSUME req' = req
  PROVE  OpenRequests' = OpenRequests
  BY DEF OpenRequests, Reached

LEMMA HandedRunsStay ==
  ASSUME UNCHANGED <<granted, epoch>>
  PROVE  HandedRuns' = HandedRuns
  BY DEF HandedRuns

(* A grant hands out the first due run of its device job. *)
LEMMA GrantGives ==
  ASSUME DispenserInv, TypeOK', NEW h \in Handlers, Grant(h)
  PROVE  Dispenser!Give(h)
<1> USE DEF DispenserInv
<1>1. req[h] \in Request
  BY DEF TypeOK
<1>2. PICK d \in DeviceJobs : d = Head(req[h].devs) /\ d \in Reached(req[h].query)
  <2>1. req[h].devs \in Seq(DeviceJobs) /\ req[h].devs # <<>> /\ req[h].stage = "scan"
    BY <1>1 DEF Grant, Looking, Request
  <2>2. Head(req[h].devs) \in Range(req[h].devs) /\ Head(req[h].devs) \in DeviceJobs
    BY <2>1, RangeOfTail
  <2>3. Head(req[h].devs) \in Ahead(req[h])
    BY <2>2 DEF Ahead
  <2> QED BY <2>1, <2>2, <2>3 DEF InReach
<1>3. PICK t \in NextRun(d, req[h].before) :
        /\ granted' = [granted EXCEPT ![d] = Append(@, [epoch |-> epoch, time |-> t])]
        /\ req' = [req EXCEPT ![h] =
             [req[h] EXCEPT !.got = Append(req[h].got, [job |-> d, time |-> t]),
                            !.tags = TagsOf(req[h].query), !.devs = <<>>]]
  BY <1>2 DEF Grant
<1>4. /\ req[h].stage = "scan" /\ Len(req[h].got) < req[h].max
      /\ now' = now /\ epoch' = epoch
      /\ req[h].before \in Int /\ req[h].query \in Seq(Tags)
  BY <1>1 DEF Grant, Looking, Request
<1>5. /\ t \in Nat /\ t \in CronTimes[d]
      /\ t > now /\ t > lastRun[d] /\ t < req[h].before
      /\ \A u \in CronTimes[d] : u > now /\ u > lastRun[d] => t <= u
  BY <1>4, NextRunType
<1> DEFINE x == [job |-> d, time |-> t]
<1>6. x.job = d /\ x.time = t
  OBVIOUS
<1>7. ~ Handed(d, t)
  <2>1. lastRun[d] \in Nat
    BY DEF TypeOK
  <2> QED BY <1>5, <2>1, HandedUpToLastRun
<1>8. x \in Dispenser!Due(OpenRequests[h])
  BY <1>2, <1>4, <1>5, <1>7, DueIs
<1>9. \A y \in Dispenser!Due(OpenRequests[h]) : y.job = x.job => x.time <= y.time
  <2> SUFFICES ASSUME NEW e \in Reached(req[h].query), NEW u \in CronTimes[e],
                      now < u, ~ Handed(e, u), e = d
               PROVE  t <= u
    BY <1>4, <1>6, DueIs
  <2>1. u \in Nat /\ lastRun[d] \in Nat /\ now \in Nat
    BY ConstantsAssumption DEF TypeOK
  <2>2. ~ (u <= lastRun[d])
    BY DEF NoUpcomingRunSkipped
  <2> QED BY <1>5, <2>1, <2>2
<1>10. HandedRuns' = HandedRuns \cup {x}
  <2>1. \A e \in DeviceJobs, u \in Nat : Handed(e, u)' <=> Handed(e, u) \/ (e = d /\ u = t)
    <3> DEFINE g == [epoch |-> epoch, time |-> t]
               n == Len(granted[d])
    <3>1. granted[d] \in Seq(Grants) /\ g \in Grants /\ n \in Nat
      BY <1>5 DEF TypeOK, Grants
    <3>2. /\ DOMAIN granted'[d] = 1 .. (n + 1) /\ DOMAIN granted[d] = 1 .. n
          /\ granted'[d][n + 1] = g
          /\ \A i \in 1 .. n : granted'[d][i] = granted[d][i]
      BY <1>3, <3>1 DEF TypeOK
    <3>3. \A e \in DeviceJobs : e # d => granted'[e] = granted[e]
      BY <1>3 DEF TypeOK
    <3>4. \A u \in Nat : g = [epoch |-> epoch, time |-> u] => u = t
      OBVIOUS
    <3> HIDE DEF g, n
    <3>5. \A u \in Nat : (\E i \in DOMAIN granted'[d] : granted'[d][i] = [epoch |-> epoch, time |-> u])
                           <=> (\E i \in DOMAIN granted[d] : granted[d][i] = [epoch |-> epoch, time |-> u])
                               \/ g = [epoch |-> epoch, time |-> u]
      <4>1. \A i : i \in 1 .. (n + 1) <=> i \in 1 .. n \/ i = n + 1
        BY <3>1
      <4> QED BY <3>2, <4>1
    <3>6. g = [epoch |-> epoch, time |-> t]
      BY DEF g
    <3> QED BY <1>4, <3>3, <3>4, <3>5, <3>6 DEF Handed
  <2>2. \A y : y \in HandedRuns' <=>
          \E e \in DeviceJobs, u \in Nat : y = [job |-> e, time |-> u] /\ Handed(e, u)'
    BY HandedRunsTypeNext
  <2> QED BY <1>5, <2>1, <2>2, HandedRunsType
<1>11. OpenRequests' = [OpenRequests EXCEPT ![h].got = Append(@, x)]
  <2>1. /\ req'[h].stage = "scan"
        /\ req'[h].query = req[h].query
        /\ req'[h].before = req[h].before
        /\ req'[h].max = req[h].max
        /\ req'[h].got = Append(req[h].got, x)
    BY <1>1, <1>3, <1>4 DEF Request, TypeOK
  <2>2. \A g \in Handlers : g # h => req'[g] = req[g]
    BY <1>3 DEF TypeOK
  <2> QED BY <1>4, <2>1, <2>2, ZenonT(30) DEF OpenRequests, Reached
<1>12. OpenRequests[h].on /\ Len(OpenRequests[h].got) < OpenRequests[h].max
  BY <1>4 DEF OpenRequests
<1> QED BY <1>4, <1>8, <1>9, <1>10, <1>11, <1>12 DEF Dispenser!Give

LEMMA DispenserStep ==
  ASSUME DispenserInv, TypeOK', [Next]_vars
  PROVE  [Dispenser!Next]_Dispenser!vars
<1> USE DEF DispenserInv
<1>1. ASSUME NEW h \in Handlers, NEW query \in Queries, NEW seconds \in Seconds,
             NEW max \in Maxima, Begin(h, query, seconds, max)
      PROVE  Dispenser!Open(h, Reached(query), seconds, max)
  <2>1. req' = [req EXCEPT ![h] =
          [stage |-> "scan", query |-> query, before |-> now + seconds,
           max |-> max, got |-> <<>>, tags |-> TagsOf(query), devs |-> <<>>]]
    BY <1>1 DEF Begin
  <2>2. /\ req'[h].stage = "scan" /\ req'[h].query = query
        /\ req'[h].before = now + seconds /\ req'[h].max = max /\ req'[h].got = <<>>
        /\ \A g \in Handlers : g # h => req'[g] = req[g]
    BY <2>1 DEF TypeOK
  <2>3. OpenRequests' = [OpenRequests EXCEPT ![h] =
          [on |-> TRUE, scope |-> Reached(query), before |-> now + seconds, max |-> max,
           got |-> <<>>]]
    BY <2>2 DEF OpenRequests, Reached
  <2>4. ~ OpenRequests[h].on
    BY <1>1 DEF Begin, OpenRequests
  <2>5. HandedRuns' = HandedRuns /\ now' = now
    BY <1>1, HandedRunsStay DEF Begin
  <2> QED BY <2>3, <2>4, <2>5 DEF Dispenser!Open
<1>2. ASSUME NEW h \in Handlers, NextTag(h) \/ Pass(h)
      PROVE  UNCHANGED Dispenser!vars
  <2>1. req[h] \in Request
    BY DEF TypeOK
  <2> DEFINE Kept == /\ req'[h].stage = req[h].stage /\ req'[h].query = req[h].query
                     /\ req'[h].before = req[h].before /\ req'[h].max = req[h].max
                     /\ req'[h].got = req[h].got
                     /\ \A g \in Handlers : g # h => req'[g] = req[g]
  <2>2. ASSUME NextTag(h)
        PROVE  Kept
    <3>1. req'[h] = [req[h] EXCEPT !.devs = ByTag[Head(req[h].tags)], !.tags = Tail(req[h].tags)]
      BY <2>1, <2>2 DEF NextTag, Request, TypeOK
    <3>2. \A g \in Handlers : g # h => req'[g] = req[g]
      BY <2>2 DEF NextTag, TypeOK
    <3> QED BY <2>1, <3>1, <3>2 DEF Request
  <2>3. ASSUME Pass(h)
        PROVE  Kept
    <3>1. req'[h] = [req[h] EXCEPT !.devs = Tail(req[h].devs)]
      BY <2>1, <2>3 DEF Pass, Request, TypeOK
    <3>2. \A g \in Handlers : g # h => req'[g] = req[g]
      BY <2>3 DEF Pass, TypeOK
    <3> QED BY <2>1, <3>1, <3>2 DEF Request
  <2>4. OpenRequests' = OpenRequests
    BY <1>2, <2>2, <2>3 DEF OpenRequests, Reached
  <2>5. HandedRuns' = HandedRuns /\ now' = now
    BY <1>2, HandedRunsStay DEF NextTag, Pass
  <2> QED BY <2>4, <2>5 DEF Dispenser!vars
<1>3. ASSUME NEW h \in Handlers, Respond(h)
      PROVE  Dispenser!Close(h)
  <2>1. req[h].stage = "scan" /\ (Exhausted(h) \/ Len(req[h].got) >= req[h].max)
    BY <1>3 DEF Respond
  <2>2. OpenRequests[h].on /\ OpenRequests[h].got = req[h].got /\ OpenRequests[h].max = req[h].max
    BY <2>1 DEF OpenRequests
  <2>3. ASSUME Exhausted(h)
        PROVE  Dispenser!Due(OpenRequests[h]) = {}
    BY <2>1, <2>3, DueIs DEF ShortAnswerIsComplete
  <2>4. /\ req'[h].stage = "idle"
        /\ \A g \in Handlers : g # h => req'[g] = req[g]
    BY <1>3 DEF Respond, NoRequest, TypeOK
  <2>5. OpenRequests' = [OpenRequests EXCEPT ![h] = Dispenser!NoRequest]
    BY <2>4 DEF OpenRequests, Reached, Dispenser!NoRequest
  <2>6. HandedRuns' = HandedRuns /\ now' = now
    BY <1>3, HandedRunsStay DEF Respond
  <2> QED BY <2>1, <2>2, <2>3, <2>5, <2>6 DEF Dispenser!Close
<1>4. CASE Tick
  <2>1. now' = now + 1 /\ HandedRuns' = HandedRuns /\ OpenRequests' = OpenRequests
    BY <1>4, HandedRunsStay, OpenRequestsStay DEF Tick
  <2> QED BY <2>1 DEF Dispenser!Tick, Dispenser!Next
<1>5. CASE Restart
  <2>1. epoch' = epoch + 1 /\ granted' = granted /\ now' = now
    BY <1>5 DEF Restart
  <2>2. \A d \in DeviceJobs : \A i \in DOMAIN granted[d] : granted[d][i].epoch # epoch'
    <3>1. \A d \in DeviceJobs : \A i \in DOMAIN granted[d] : granted[d][i] \in Grants
      BY DEF TypeOK
    <3>2. \A d \in DeviceJobs : \A i \in DOMAIN granted[d] : granted[d][i].epoch \in Nat
      BY <3>1 DEF Grants
    <3> QED BY <2>1, <3>2 DEF TypeOK, GrantsUpToLastRun
  <2>3. HandedRuns' = {}
    BY <2>1, <2>2 DEF HandedRuns
  <2>4. OpenRequests' = [h \in Handlers |-> Dispenser!NoRequest]
    BY <1>5 DEF Restart, NoRequest, OpenRequests, Reached, Dispenser!NoRequest
  <2> QED BY <2>1, <2>3, <2>4 DEF Dispenser!Restart, Dispenser!Next
<1>6. CASE UNCHANGED vars
  BY <1>6, HandedRunsStay, OpenRequestsStay DEF vars, Dispenser!vars
<1> QED BY <1>1, <1>2, <1>3, <1>4, <1>5, <1>6, GrantGives DEF Next, Dispenser!Next

(* Behind the lists, lastRun and the walks, the scheduler is a dispenser of    *)
(* runs: every step of it is a step of RunDispenser or none.                  *)
THEOREM ImplementsDispenser == Spec => DispenserSpec
<1>1. Init => Dispenser!Init
  <2> SUFFICES ASSUME Init
               PROVE  Dispenser!Init
    OBVIOUS
  <2>1. HandedRuns = {}
    BY DEF Init, HandedRuns
  <2>2. OpenRequests = [h \in Handlers |-> Dispenser!NoRequest]
    BY DEF Init, NoRequest, OpenRequests, Dispenser!NoRequest
  <2> QED BY <2>1, <2>2 DEF Init, Dispenser!Init
<1>2. Init => GrantsUpToLastRun /\ ExclusiveRuns /\ InReach
  BY DEF Init, GrantsUpToLastRun, ExclusiveRuns, InReach, NoRequest
<1>3. Spec => []GrantsUpToLastRun
  BY <1>2, ExclusiveNext, TypeCorrect, PTL DEF Spec
<1>4. Spec => []InReach
  BY <1>2, InReachNext, TypeCorrect, PTL DEF Spec
<1>5. DispenserInv /\ TypeOK' /\ [Next]_vars => [Dispenser!Next]_Dispenser!vars
  BY DispenserStep
<1> QED
  BY <1>1, <1>3, <1>4, <1>5, TypeCorrect, NothingSkipped, ShortAnswers, PTL
  DEF Spec, DispenserSpec, Dispenser!Spec, DispenserInv

=============================================================================
