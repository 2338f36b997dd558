----------------------------- MODULE WorkerProofs -----------------------------
(***************************************************************************)
(* Proofs about the workers, for any number of workers, handlers, device   *)
(* jobs and restarts, and all cron expressions, sleeps and timeouts.       *)
(***************************************************************************)
EXTENDS Worker, SequenceLemmas, FiniteSetTheorems, TLAPS

Runs == [job : DeviceJobs, time : Nat]

Requests ==
  [on : BOOLEAN, scope : SUBSET DeviceJobs, before : Int, max : Nat, got : Seq(Runs)]

-----------------------------------------------------------------------------
(* Lists and answers. *)

LEMMA RangeOfAppend ==
  ASSUME NEW S, NEW s \in Seq(S), NEW x \in S
  PROVE  /\ Append(s, x) \in Seq(S)
         /\ Range(Append(s, x)) = Range(s) \cup {x}
<1>1. /\ Append(s, x) \in Seq(S) /\ DOMAIN Append(s, x) = 1 .. Len(s) + 1
      /\ DOMAIN s = 1 .. Len(s) /\ Len(s) \in Nat
      /\ Append(s, x)[Len(s) + 1] = x
      /\ \A i \in 1 .. Len(s) : Append(s, x)[i] = s[i]
  OBVIOUS
<1>2. \A i \in DOMAIN Append(s, x) : Append(s, x)[i] \in Range(s) \cup {x}
  <2> SUFFICES ASSUME NEW i \in DOMAIN Append(s, x)
               PROVE  Append(s, x)[i] \in Range(s) \cup {x}
    OBVIOUS
  <2>1. CASE i = Len(s) + 1
    BY <1>1, <2>1
  <2>2. CASE i # Len(s) + 1
    <3>1. i \in DOMAIN s /\ Append(s, x)[i] = s[i]
      BY <1>1, <2>2
    <3> QED BY <3>1 DEF Range
  <2> QED BY <2>1, <2>2
<1>3. Range(Append(s, x)) \subseteq Range(s) \cup {x}
  BY <1>2 DEF Range
<1>4. x \in Range(Append(s, x))
  <2>1. Len(s) + 1 \in DOMAIN Append(s, x)
    BY <1>1
  <2> QED BY <1>1, <2>1 DEF Range
<1>5. Range(s) \subseteq Range(Append(s, x))
  <2>1. ASSUME NEW i \in DOMAIN s
        PROVE  i \in DOMAIN Append(s, x) /\ Append(s, x)[i] = s[i]
    BY <1>1
  <2> QED BY <2>1 DEF Range
<1> QED BY <1>1, <1>3, <1>4, <1>5

LEMMA RangeOfEmpty == Range(<<>>) = {}
  BY DEF Range

LEMMA AnsweredType ==
  ASSUME TypeOK, NEW h \in Handlers
  PROVE  Answered(open[h].got) \subseteq Executions
<1>1. open[h].got \in Seq(Runs)
  BY DEF TypeOK, Runs
<1>2. Range(open[h].got) \subseteq Runs
  BY <1>1, RangeOfSeq
<1> QED BY <1>2 DEF Answered, Executions, Runs, TypeOK

-----------------------------------------------------------------------------
(* Type correctness. *)

LEMMA OnwardType ==
  ASSUME TypeOK, NEW w \in Workers
  PROVE  Onward(w) \in Loops
<1>1. now + SleepSeconds \div 2 \in Nat
  BY ConstantsAssumption DEF TypeOK
<1> QED BY <1>1 DEF Onward, AtTick, Loops

LEMMA AtTickType == AtTick(1) \in Loops /\ AtTick(2) \in Loops /\ Down \in Loops
  BY DEF AtTick, Down, Loops

(* What a grant of the controller does. *)
LEMMA GiveIs ==
  ASSUME TypeOK, NEW h \in Handlers, Dispenser!Give(h)
  PROVE  /\ open[h].on
         /\ now' = now
         /\ \E x \in Runs :
              /\ x \notin handed
              /\ handed' = handed \cup {x}
              /\ open' = [open EXCEPT ![h].got = Append(@, x)]
<1>1. PICK x \in Dispenser!Due(open[h]) :
        /\ handed' = handed \cup {x}
        /\ open' = [open EXCEPT ![h].got = Append(@, x)]
  BY DEF Dispenser!Give
<1>2. open[h].scope \subseteq DeviceJobs
  BY DEF TypeOK
<1>3. x \in Runs /\ x \notin handed
  BY <1>1, <1>2, ConstantsAssumption DEF Dispenser!Due, Runs
<1> QED BY <1>1, <1>3 DEF Dispenser!Give

LEMMA TypeInit == Init => TypeOK
<1> SUFFICES ASSUME Init
             PROVE  TypeOK
  OBVIOUS
<1> USE DEF Init
<1>1. open \in [Handlers -> Requests]
  BY DEF Dispenser!Init, Dispenser!NoRequest, Requests, Runs
<1>2. loop \in [Workers -> Loops] /\ count \in [Workers -> Int]
  BY AtTickType
<1>3. now = 0 /\ handed = {}
  BY DEF Dispenser!Init
<1> QED BY <1>1, <1>2, <1>3 DEF TypeOK, Requests, Runs

LEMMA TypeNext == TypeOK /\ [Next]_vars => TypeOK'
<1> SUFFICES ASSUME TypeOK, [Next]_vars
             PROVE  TypeOK'
  OBVIOUS
<1> USE ConstantsAssumption DEF controller, history
<1>0. open \in [Handlers -> Requests]
  BY DEF TypeOK, Requests, Runs
<1>1. ASSUME NEW w \in Workers, Ask(w)
      PROVE  TypeOK'
  <2>1. PICK h \in Handlers \cup {NoHandler} :
          /\ IF h = NoHandler THEN UNCHANGED <<now, handed, open>>
             ELSE Dispenser!Open(h, ScopeOf[w], SleepSeconds, MaxJobs - count[w])
          /\ loop' = [loop EXCEPT ![w] =
               [@ EXCEPT !.at = "asking", !.handler = h, !.until = now + TimeoutSeconds]]
    BY <1>1 DEF Ask
  <2>2. loop' \in [Workers -> Loops]
    <3>1. now + TimeoutSeconds \in Nat /\ loop \in [Workers -> Loops]
      BY DEF TypeOK
    <3>2. [loop[w] EXCEPT !.at = "asking", !.handler = h, !.until = now + TimeoutSeconds] \in Loops
      <4>1. loop[w] \in Loops /\ h \in Handlers \cup {NoHandler}
        BY <3>1
      <4> QED BY <3>1, <4>1 DEF Loops
    <3> QED BY <2>1, <3>1, <3>2
  <2>3. now' = now /\ handed' = handed /\ open' \in [Handlers -> Requests]
    <3>1. MaxJobs - count[w] \in Nat /\ now + SleepSeconds \in Int /\ ScopeOf[w] \subseteq DeviceJobs
      BY <1>1 DEF Ask, TypeOK
    <3>2. CASE h = NoHandler
      BY <1>0, <2>1, <3>2 DEF TypeOK
    <3>3. CASE h # NoHandler
      <4>1. [on |-> TRUE, scope |-> ScopeOf[w], before |-> now + SleepSeconds,
             max |-> MaxJobs - count[w], got |-> <<>>] \in Requests
        BY <3>1 DEF Requests
      <4> QED BY <1>0, <2>1, <3>3, <4>1 DEF Dispenser!Open
    <3> QED BY <3>2, <3>3
  <2> QED BY <1>1, <2>2, <2>3 DEF Ask, TypeOK, Requests, Runs
<1>2. ASSUME NEW w \in Workers, Full(w)
      PROVE  TypeOK'
  BY <1>2, OnwardType DEF Full, TypeOK
<1>3. ASSUME NEW w \in Workers, Answer(w)
      PROVE  TypeOK'
  <2> DEFINE h == loop[w].handler
  <2>1. h \in Handlers /\ Dispenser!Close(h)
    BY <1>3 DEF Answer, TypeOK, Loops
  <2>2. Dispenser!NoRequest \in Requests
    BY DEF Dispenser!NoRequest, Requests
  <2>3. now' = now /\ handed' = handed /\ open' \in [Handlers -> Requests]
    BY <1>0, <2>1, <2>2 DEF Dispenser!Close
  <2>4. timers' \in [Workers -> SUBSET Executions]
    BY <1>3, <2>1, AnsweredType DEF Answer, TypeOK
  <2>5. loop' \in [Workers -> Loops]
    BY <1>3, OnwardType DEF Answer, TypeOK
  <2>6. since' \in [Workers -> Nat \cup {Never}]
    BY <1>3 DEF Answer, TypeOK
  <2> QED BY <1>3, <2>3, <2>4, <2>5, <2>6 DEF Answer, TypeOK, Requests, Runs
<1>4. ASSUME NEW w \in Workers, GiveUp(w)
      PROVE  TypeOK'
  BY <1>4, OnwardType DEF GiveUp, TypeOK
<1>5. ASSUME NEW w \in Workers, Wake(w)
      PROVE  TypeOK'
  BY <1>5, AtTickType DEF Wake, TypeOK
<1>6. ASSUME NEW w \in Workers, NEW x \in timers[w], Run(w, x)
      PROVE  TypeOK'
  <2>1. x \in Executions /\ count[w] \in Int
    BY DEF TypeOK
  <2>2. count' \in [Workers -> Int]
    BY <1>6, <2>1 DEF Run, TypeOK
  <2>3. /\ timers' \in [Workers -> SUBSET Executions]
        /\ running' \in [Workers -> SUBSET Executions]
        /\ started' \in SUBSET Executions
    BY <1>6, <2>1 DEF Run, TypeOK
  <2> QED BY <1>6, <2>2, <2>3 DEF Run, TypeOK
<1>7. ASSUME NEW w \in Workers, NEW x \in running[w], Finish(w, x)
      PROVE  TypeOK'
  <2>1. x \in Executions /\ count[w] \in Int
    BY DEF TypeOK
  <2>2. count' \in [Workers -> Int]
    BY <1>7, <2>1 DEF Finish, TypeOK
  <2>3. /\ running' \in [Workers -> SUBSET Executions]
        /\ posting' \in [Workers -> SUBSET Executions]
    BY <1>7, <2>1 DEF Finish, TypeOK
  <2> QED BY <1>7, <2>2, <2>3 DEF Finish, TypeOK
<1>8. ASSUME NEW w \in Workers, NEW x \in posting[w], Post(w, x)
      PROVE  TypeOK'
  BY <1>8 DEF Post, TypeOK
<1>9. ASSUME NEW w \in Workers, NEW x \in posting[w], PostFails(w, x)
      PROVE  TypeOK'
  <2>1. /\ timers' \in [Workers -> SUBSET Executions]
        /\ running' \in [Workers -> SUBSET Executions]
        /\ posting' \in [Workers -> SUBSET Executions]
        /\ count' \in [Workers -> Int]
    BY <1>9 DEF PostFails, TypeOK
  <2>2. loop' \in [Workers -> Loops] /\ since' \in [Workers -> Nat \cup {Never}]
    BY <1>9, AtTickType DEF PostFails, TypeOK
  <2>3. ended' \in SUBSET Executions
    BY <1>9 DEF PostFails, Held, TypeOK
  <2> QED BY <1>9, <2>1, <2>2, <2>3 DEF PostFails, TypeOK
<1>10. ASSUME NEW w \in Workers, StartAgain(w)
       PROVE  TypeOK'
  BY <1>10, AtTickType DEF StartAgain, TypeOK
<1>11. ASSUME NEW h \in Handlers, Give(h)
       PROVE  TypeOK'
  <2>1. PICK x \in Runs :
          /\ handed' = handed \cup {x}
          /\ open' = [open EXCEPT ![h].got = Append(@, x)]
    BY <1>11, GiveIs DEF Give
  <2>2. now' = now
    BY <1>11, GiveIs DEF Give
  <2>3. open' \in [Handlers -> Requests]
    BY <1>0, <2>1, RangeOfAppend DEF Requests
  <2>4. handed' \in SUBSET Runs
    BY <2>1 DEF TypeOK, Runs
  <2> QED BY <1>11, <2>2, <2>3, <2>4 DEF Give, TypeOK, Requests, Runs
<1>12. ASSUME NEW h \in Handlers, AnswerNobody(h)
       PROVE  TypeOK'
  <2>1. Dispenser!NoRequest \in Requests
    BY DEF Dispenser!NoRequest, Requests
  <2>2. now' = now /\ handed' = handed /\ open' \in [Handlers -> Requests]
    BY <1>0, <1>12, <2>1 DEF AnswerNobody, Dispenser!Close
  <2>3. ended' \in SUBSET Executions
    BY <1>12, AnsweredType DEF AnswerNobody, TypeOK
  <2> QED BY <1>12, <2>2, <2>3 DEF AnswerNobody, TypeOK, Requests, Runs
<1>13. CASE Restart
  <2>1. now' = now /\ handed' = {} /\ open' \in [Handlers -> Requests]
    BY <1>13 DEF Restart, Dispenser!Restart, Dispenser!NoRequest, Requests
  <2>2. UNION {Answered(open[h].got) : h \in Handlers} \subseteq Executions
    BY AnsweredType
  <2>3. loop' \in [Workers -> Loops]
    <3>1. \A w \in Workers : [loop[w] EXCEPT !.handler = NoHandler] \in Loops
      <4> SUFFICES ASSUME NEW w \in Workers
                   PROVE  [loop[w] EXCEPT !.handler = NoHandler] \in Loops
        OBVIOUS
      <4>1. loop[w] \in Loops
        BY DEF TypeOK
      <4> QED BY <4>1 DEF Loops
    <3> QED BY <1>13, <3>1 DEF Restart
  <2>4. epoch' \in Nat /\ ended' \in SUBSET Executions /\ since' \in [Workers -> Nat \cup {Never}]
    BY <1>13, <2>2 DEF Restart, TypeOK
  <2> QED BY <1>13, <2>1, <2>3, <2>4 DEF Restart, TypeOK, Requests, Runs
<1>14. CASE Tick
  <2>1. now' \in Nat
    BY <1>14 DEF Tick, Dispenser!Tick, TypeOK
  <2>2. UNCHANGED <<handed, open>>
    BY <1>14 DEF Tick, Dispenser!Tick
  <2> QED BY <1>14, <2>1, <2>2 DEF Tick, TypeOK
<1>15. CASE UNCHANGED vars
  BY <1>15 DEF vars, TypeOK
<1> QED BY <1>1, <1>2, <1>3, <1>4, <1>5, <1>6, <1>7, <1>8, <1>9, <1>10, <1>11,
           <1>12, <1>13, <1>14, <1>15 DEF Next

(* Every reachable state of the workers and of the controller they talk to is *)
(* well typed (worker.go and /worker/next).                                   *)
THEOREM TypeCorrect == Spec => []TypeOK
  BY TypeInit, TypeNext, PTL DEF Spec

-----------------------------------------------------------------------------
(* Which executions there are, and where. *)

InAnswer(h) == Range(open[h].got)

Of(x) == [job |-> x.job, time |-> x.time, epoch |-> epoch]

(* A handler without a request has no answer. *)
Closed == \A h \in Handlers : ~ open[h].on => open[h].got = <<>>

(* What the workers know of was handed out, if not by an earlier controller.  *)
KnownIsHanded(e) ==
  /\ e.epoch <= epoch
  /\ e.epoch = epoch => [job |-> e.job, time |-> e.time] \in handed

TimersAreHanded == \A w \in Workers : \A e \in timers[w] : KnownIsHanded(e)

StartedIsHanded == \A e \in started : KnownIsHanded(e)

AnswersAreHanded == \A h \in Handlers : InAnswer(h) \subseteq handed

AnswersApart ==
  \A h, k \in Handlers : h # k => InAnswer(h) \cap InAnswer(k) = {}

(* What is in an answer is with no worker yet. *)
AnswersAreNew ==
  \A h \in Handlers : \A x \in InAnswer(h) :
    /\ Of(x) \notin started
    /\ \A w \in Workers : Of(x) \notin timers[w]

TimersApart ==
  /\ \A v, w \in Workers : v # w => timers[v] \cap timers[w] = {}
  /\ \A w \in Workers : timers[w] \cap started = {}

RunningIsStarted == \A w \in Workers : running[w] \subseteq started

OwnInv ==
  /\ Closed
  /\ TimersAreHanded
  /\ StartedIsHanded
  /\ AnswersAreHanded
  /\ AnswersApart
  /\ AnswersAreNew
  /\ TimersApart
  /\ RunningIsStarted

LEMMA AnswerType ==
  ASSUME TypeOK, NEW h \in Handlers
  PROVE  /\ InAnswer(h) \subseteq Runs
         /\ Answered(open[h].got) = {Of(x) : x \in InAnswer(h)}
<1>1. open[h].got \in Seq(Runs)
  BY DEF TypeOK, Runs
<1> QED BY <1>1, RangeOfSeq DEF Answered, InAnswer, Of

(* Two runs with one execution are one run. *)
LEMMA OfIsInjective ==
  ASSUME NEW x \in Runs, NEW y \in Runs, Of(x) = Of(y)
  PROVE  x = y
<1>1. x.job = y.job /\ x.time = y.time
  <2>1. Of(x).job = Of(y).job /\ Of(x).time = Of(y).time
    OBVIOUS
  <2> QED BY <2>1 DEF Of
<1> QED BY <1>1 DEF Runs

LEMMA RunOf ==
  ASSUME NEW x \in Runs
  PROVE  /\ Of(x).epoch = epoch
         /\ [job |-> Of(x).job, time |-> Of(x).time] = x
  BY DEF Of, Runs

(* The steps that touch no execution. *)
Quiet ==
  /\ UNCHANGED <<handed, epoch, timers, running, posting, started, ended>>
  /\ \A h \in Handlers : open'[h].got = open[h].got

LEMMA QuietSteps ==
  ASSUME TypeOK, Closed,
         \/ \E w \in Workers : Ask(w) \/ Full(w) \/ GiveUp(w) \/ Wake(w) \/ StartAgain(w)
         \/ Tick
         \/ UNCHANGED vars
  PROVE  Quiet /\ Closed'
<1> USE DEF controller, history
<1>1. ASSUME NEW w \in Workers, Ask(w)
      PROVE  Quiet /\ Closed'
  <2>1. PICK h \in Handlers \cup {NoHandler} :
          IF h = NoHandler THEN UNCHANGED <<now, handed, open>>
          ELSE Dispenser!Open(h, ScopeOf[w], SleepSeconds, MaxJobs - count[w])
    BY <1>1 DEF Ask
  <2>2. CASE h = NoHandler
    BY <1>1, <2>1, <2>2 DEF Ask, Quiet, Closed
  <2>3. CASE h # NoHandler
    <3>1. /\ h \in Handlers
          /\ ~ open[h].on
          /\ open' = [open EXCEPT ![h] =
               [on |-> TRUE, scope |-> ScopeOf[w], before |-> now + SleepSeconds,
                max |-> MaxJobs - count[w], got |-> <<>>]]
          /\ handed' = handed
      BY <2>1, <2>3 DEF Dispenser!Open
    <3>2. DOMAIN open = Handlers
      BY DEF TypeOK
    <3>3. /\ open'[h].got = <<>> /\ open[h].got = <<>>
          /\ \A k \in Handlers \ {h} : open'[k] = open[k]
      BY <3>1, <3>2 DEF Closed
    <3>4. \A k \in Handlers : open'[k].got = open[k].got
      BY <3>3
    <3>5. Closed'
      BY <3>3 DEF Closed
    <3> QED BY <1>1, <3>1, <3>4, <3>5 DEF Ask, Quiet
  <2> QED BY <2>2, <2>3
<1>2. ASSUME NEW w \in Workers, Full(w) \/ GiveUp(w) \/ Wake(w) \/ StartAgain(w)
      PROVE  Quiet /\ Closed'
  BY <1>2 DEF Full, GiveUp, Wake, StartAgain, Quiet, Closed
<1>3. CASE Tick
  BY <1>3 DEF Tick, Dispenser!Tick, Quiet, Closed
<1>4. CASE UNCHANGED vars
  BY <1>4 DEF vars, Quiet, Closed
<1> QED BY <1>1, <1>2, <1>3, <1>4

LEMMA CloseIs ==
  ASSUME TypeOK, Closed, NEW h \in Handlers, Dispenser!Close(h)
  PROVE  /\ now' = now /\ handed' = handed
         /\ open' = [open EXCEPT ![h] = Dispenser!NoRequest]
         /\ InAnswer(h)' = {}
         /\ \A k \in Handlers \ {h} : InAnswer(k)' = InAnswer(k)
         /\ Closed'
<1>1. /\ now' = now /\ handed' = handed
      /\ open' = [open EXCEPT ![h] = Dispenser!NoRequest]
      /\ DOMAIN open = Handlers
  BY DEF Dispenser!Close, TypeOK
<1>2. /\ open'[h] = Dispenser!NoRequest
      /\ \A k \in Handlers \ {h} : open'[k] = open[k]
  BY <1>1
<1>3. open'[h].got = <<>>
  BY <1>2 DEF Dispenser!NoRequest
<1> QED BY <1>1, <1>2, <1>3, RangeOfEmpty DEF InAnswer, Closed

LEMMA GiveAnswers ==
  ASSUME TypeOK, Closed, NEW h \in Handlers, Dispenser!Give(h)
  PROVE  /\ Closed'
         /\ \E x \in Runs :
              /\ x \notin handed
              /\ handed' = handed \cup {x}
              /\ InAnswer(h)' = InAnswer(h) \cup {x}
              /\ \A k \in Handlers \ {h} : InAnswer(k)' = InAnswer(k)
<1>1. PICK x \in Runs :
        /\ x \notin handed
        /\ handed' = handed \cup {x}
        /\ open' = [open EXCEPT ![h].got = Append(@, x)]
  BY GiveIs
<1>2. open[h].on /\ open[h].got \in Seq(Runs) /\ open \in [Handlers -> Requests]
  BY GiveIs DEF TypeOK, Runs, Requests
<1>3. /\ open'[h] = [open[h] EXCEPT !.got = Append(@, x)]
      /\ \A k \in Handlers \ {h} : open'[k] = open[k]
  BY <1>1, <1>2
<1>4. open'[h].got = Append(open[h].got, x) /\ open'[h].on = open[h].on
  BY <1>2, <1>3 DEF Requests
<1>5. Range(Append(open[h].got, x)) = Range(open[h].got) \cup {x}
  BY <1>2, RangeOfAppend
<1> QED BY <1>1, <1>2, <1>3, <1>4, <1>5 DEF InAnswer, Closed

LEMMA OwnInvInit == Init => OwnInv
<1> SUFFICES ASSUME Init
             PROVE  OwnInv
  OBVIOUS
<1>1. \A h \in Handlers : open[h].got = <<>>
  BY DEF Init, Dispenser!Init, Dispenser!NoRequest
<1>2. \A h \in Handlers : InAnswer(h) = {}
  BY <1>1, RangeOfEmpty DEF InAnswer
<1> QED BY <1>1, <1>2 DEF Init, OwnInv, Closed, TimersAreHanded, StartedIsHanded,
      AnswersAreHanded, AnswersApart, AnswersAreNew, TimersApart, RunningIsStarted

LEMMA OwnInvQuiet == OwnInv /\ Quiet /\ Closed' => OwnInv'
<1> SUFFICES ASSUME OwnInv, Quiet, Closed'
             PROVE  OwnInv'
  OBVIOUS
<1>1. \A h \in Handlers : InAnswer(h)' = InAnswer(h)
  BY DEF Quiet, InAnswer
<1>2. \A e : KnownIsHanded(e)' <=> KnownIsHanded(e)
  BY DEF Quiet, KnownIsHanded
<1>3. \A x : Of(x)' = Of(x)
  BY DEF Quiet, Of
<1>4. TimersAreHanded' /\ StartedIsHanded' /\ RunningIsStarted' /\ TimersApart'
  BY <1>2 DEF OwnInv, Quiet, TimersAreHanded, StartedIsHanded, RunningIsStarted, TimersApart
<1>5. AnswersAreHanded' /\ AnswersApart'
  BY <1>1 DEF OwnInv, Quiet, AnswersAreHanded, AnswersApart
<1>6. AnswersAreNew'
  BY <1>1, <1>3 DEF OwnInv, Quiet, AnswersAreNew
<1> QED BY <1>4, <1>5, <1>6 DEF OwnInv

LEMMA OwnInvAnswer ==
  ASSUME TypeOK, OwnInv, NEW w \in Workers, Answer(w)
  PROVE  OwnInv'
<1> USE DEF OwnInv
<1>1. PICK h \in Handlers : h = loop[w].handler /\ Dispenser!Close(h)
  BY DEF Answer, TypeOK, Loops
<1>2. /\ handed' = handed
      /\ InAnswer(h)' = {}
      /\ \A k \in Handlers \ {h} : InAnswer(k)' = InAnswer(k)
      /\ Closed'
  BY <1>1, CloseIs
<1>3. /\ epoch' = epoch /\ started' = started /\ running' = running
      /\ timers' = [timers EXCEPT ![w] = @ \cup {Of(x) : x \in InAnswer(h)}]
  BY <1>1, AnswerType DEF Answer
<1>4. timers \in [Workers -> SUBSET Executions]
  BY DEF TypeOK
<1>5. /\ timers'[w] = timers[w] \cup {Of(x) : x \in InAnswer(h)}
      /\ \A v \in Workers \ {w} : timers'[v] = timers[v]
  BY <1>3, <1>4
<1>6. \A e : KnownIsHanded(e)' <=> KnownIsHanded(e)
  BY <1>2, <1>3 DEF KnownIsHanded
<1>7. TimersAreHanded'
  <2>1. ASSUME NEW x \in InAnswer(h)
        PROVE  KnownIsHanded(Of(x))
    <3>1. x \in Runs /\ x \in handed /\ epoch \in Nat
      BY <1>1, AnswerType DEF AnswersAreHanded, TypeOK
    <3> QED BY <3>1, RunOf DEF KnownIsHanded
  <2> QED BY <1>5, <1>6, <2>1 DEF TimersAreHanded
<1>8. StartedIsHanded' /\ RunningIsStarted'
  BY <1>3, <1>6 DEF StartedIsHanded, RunningIsStarted
<1>9. AnswersAreHanded' /\ AnswersApart'
  BY <1>2 DEF AnswersAreHanded, AnswersApart
<1>10. \A x : Of(x)' = Of(x)
  BY <1>3 DEF Of
<1>11. AnswersAreNew'
  <2> SUFFICES ASSUME NEW k \in Handlers, NEW x \in InAnswer(k)'
               PROVE  Of(x) \notin started /\ \A v \in Workers : Of(x) \notin timers'[v]
    BY <1>3, <1>10 DEF AnswersAreNew
  <2>1. k # h /\ x \in InAnswer(k)
    BY <1>2
  <2>2. Of(x) \notin started /\ \A v \in Workers : Of(x) \notin timers[v]
    BY <2>1 DEF AnswersAreNew
  <2>3. ASSUME NEW y \in InAnswer(h), Of(x) = Of(y)
        PROVE  FALSE
    <3>1. x \in Runs /\ y \in Runs
      BY <1>1, <2>1, AnswerType
    <3>2. x = y
      BY <2>3, <3>1, OfIsInjective
    <3> QED BY <1>1, <2>1, <3>2 DEF AnswersApart
  <2> QED BY <1>5, <2>2, <2>3
<1>12. TimersApart'
  <2>1. ASSUME NEW y \in InAnswer(h)
        PROVE  Of(y) \notin started /\ \A v \in Workers : Of(y) \notin timers[v]
    BY <1>1 DEF AnswersAreNew
  <2> QED BY <1>3, <1>5, <2>1 DEF TimersApart
<1> QED BY <1>2, <1>7, <1>8, <1>9, <1>11, <1>12

LEMMA OwnInvGive ==
  ASSUME TypeOK, OwnInv, NEW h \in Handlers, Give(h)
  PROVE  OwnInv'
<1> USE DEF OwnInv
<1>1. PICK x \in Runs :
        /\ x \notin handed
        /\ handed' = handed \cup {x}
        /\ InAnswer(h)' = InAnswer(h) \cup {x}
        /\ \A k \in Handlers \ {h} : InAnswer(k)' = InAnswer(k)
  BY GiveAnswers DEF Give
<1>2. Closed'
  BY GiveAnswers DEF Give
<1>3. epoch' = epoch /\ started' = started /\ running' = running /\ timers' = timers
  BY DEF Give, history
<1>4. \A e : KnownIsHanded(e) => KnownIsHanded(e)'
  BY <1>1, <1>3 DEF KnownIsHanded
<1>5. TimersAreHanded' /\ StartedIsHanded' /\ RunningIsStarted' /\ TimersApart'
  BY <1>3, <1>4 DEF TimersAreHanded, StartedIsHanded, RunningIsStarted, TimersApart
<1>6. AnswersAreHanded' /\ AnswersApart'
  <2>1. \A k \in Handlers : x \notin InAnswer(k)
    BY <1>1 DEF AnswersAreHanded
  <2> QED BY <1>1, <2>1 DEF AnswersAreHanded, AnswersApart
<1>7. AnswersAreNew'
  <2>1. ~ KnownIsHanded(Of(x))
    BY <1>1, RunOf DEF KnownIsHanded
  <2>2. Of(x) \notin started /\ \A w \in Workers : Of(x) \notin timers[w]
    BY <2>1 DEF TimersAreHanded, StartedIsHanded
  <2>3. \A y : Of(y)' = Of(y)
    BY <1>3 DEF Of
  <2> QED BY <1>1, <1>3, <2>2, <2>3 DEF AnswersAreNew
<1> QED BY <1>2, <1>5, <1>6, <1>7

LEMMA OwnInvAnswerNobody ==
  ASSUME TypeOK, OwnInv, NEW h \in Handlers, AnswerNobody(h)
  PROVE  OwnInv'
<1> USE DEF OwnInv
<1>1. /\ handed' = handed
      /\ \A k \in Handlers : InAnswer(k)' \subseteq InAnswer(k)
      /\ Closed'
  BY CloseIs DEF AnswerNobody
<1>2. epoch' = epoch /\ started' = started /\ running' = running /\ timers' = timers
  BY DEF AnswerNobody
<1>3. \A e : KnownIsHanded(e)' <=> KnownIsHanded(e)
  BY <1>1, <1>2 DEF KnownIsHanded
<1>4. TimersAreHanded' /\ StartedIsHanded' /\ RunningIsStarted' /\ TimersApart'
  BY <1>2, <1>3 DEF TimersAreHanded, StartedIsHanded, RunningIsStarted, TimersApart
<1>5. AnswersAreHanded' /\ AnswersApart'
  BY <1>1 DEF AnswersAreHanded, AnswersApart
<1>6. AnswersAreNew'
  <2>1. \A y : Of(y)' = Of(y)
    BY <1>2 DEF Of
  <2> QED BY <1>1, <1>2, <2>1 DEF AnswersAreNew
<1> QED BY <1>1, <1>4, <1>5, <1>6

LEMMA OwnInvRestart ==
  ASSUME TypeOK, OwnInv, Restart
  PROVE  OwnInv'
<1> USE DEF OwnInv
<1>1. handed' = {} /\ \A h \in Handlers : open'[h].got = <<>>
  BY DEF Restart, Dispenser!Restart, Dispenser!NoRequest
<1>2. \A h \in Handlers : InAnswer(h)' = {}
  BY <1>1, RangeOfEmpty DEF InAnswer
<1>3. epoch' = epoch + 1 /\ started' = started /\ running' = running /\ timers' = timers
  BY DEF Restart
<1>4. ASSUME NEW e \in Executions, KnownIsHanded(e)
      PROVE  KnownIsHanded(e)'
  <2>1. e.epoch \in Nat /\ epoch \in Nat /\ e.epoch <= epoch
    BY <1>4 DEF Executions, TypeOK, KnownIsHanded
  <2>2. e.epoch <= epoch + 1 /\ e.epoch # epoch + 1
    BY <2>1
  <2> QED BY <1>3, <2>2 DEF KnownIsHanded
<1>5. TimersAreHanded' /\ StartedIsHanded'
  BY <1>3, <1>4 DEF TimersAreHanded, StartedIsHanded, TypeOK
<1>6. RunningIsStarted' /\ TimersApart'
  BY <1>3 DEF RunningIsStarted, TimersApart
<1>7. Closed' /\ AnswersAreHanded' /\ AnswersApart' /\ AnswersAreNew'
  BY <1>1, <1>2 DEF Closed, AnswersAreHanded, AnswersApart, AnswersAreNew
<1> QED BY <1>5, <1>6, <1>7

(* The steps of an execution on its worker. *)
LEMMA OwnInvExecution ==
  ASSUME TypeOK, OwnInv, NEW w \in Workers,
         \/ \E x \in timers[w] : Run(w, x)
         \/ \E x \in running[w] : Finish(w, x)
         \/ \E x \in posting[w] : Post(w, x) \/ PostFails(w, x)
  PROVE  OwnInv'
<1> USE DEF OwnInv, controller, history
<1>1. handed' = handed /\ open' = open /\ epoch' = epoch
  BY DEF Run, Finish, Post, PostFails
<1>2. /\ \A h : InAnswer(h)' = InAnswer(h)
      /\ \A x : Of(x)' = Of(x)
      /\ \A e : KnownIsHanded(e)' <=> KnownIsHanded(e)
  BY <1>1 DEF InAnswer, Of, KnownIsHanded
<1>3. Closed' /\ AnswersAreHanded' /\ AnswersApart'
  BY <1>1, <1>2 DEF Closed, AnswersAreHanded, AnswersApart
<1>4. CASE \E x \in timers[w] : Run(w, x)
  <2>1. PICK x \in timers[w] : Run(w, x)
    BY <1>4
  <2>2. /\ timers'[w] = timers[w] \ {x}
        /\ \A v \in Workers \ {w} : timers'[v] = timers[v]
        /\ running'[w] = running[w] \cup {x}
        /\ \A v \in Workers \ {w} : running'[v] = running[v]
        /\ started' = started \cup {x}
    BY <2>1 DEF Run, TypeOK
  <2>3. TimersAreHanded' /\ StartedIsHanded'
    BY <1>2, <2>2 DEF TimersAreHanded, StartedIsHanded
  <2>4. AnswersAreNew'
    BY <1>2, <2>2 DEF AnswersAreNew
  <2>5. TimersApart' /\ RunningIsStarted'
    BY <2>2 DEF TimersApart, RunningIsStarted
  <2> QED BY <1>3, <2>3, <2>4, <2>5
<1>5. CASE \/ \E x \in running[w] : Finish(w, x)
           \/ \E x \in posting[w] : Post(w, x) \/ PostFails(w, x)
  <2>1. started' = started
    BY <1>5 DEF Finish, Post, PostFails
  <2>2. \A v \in Workers : timers'[v] \subseteq timers[v] /\ running'[v] \subseteq running[v]
    BY <1>5 DEF Finish, Post, PostFails, TypeOK
  <2>3. TimersAreHanded' /\ StartedIsHanded'
    BY <1>2, <2>1, <2>2 DEF TimersAreHanded, StartedIsHanded
  <2>4. AnswersAreNew'
    BY <1>2, <2>1, <2>2 DEF AnswersAreNew
  <2>5. TimersApart' /\ RunningIsStarted'
    BY <2>1, <2>2 DEF TimersApart, RunningIsStarted
  <2> QED BY <1>3, <2>3, <2>4, <2>5
<1> QED BY <1>4, <1>5

LEMMA OwnInvNext == TypeOK /\ OwnInv /\ [Next]_vars => OwnInv'
  BY OwnInvQuiet, QuietSteps, OwnInvAnswer, OwnInvGive, OwnInvAnswerNobody, OwnInvRestart,
     OwnInvExecution DEF Next, OwnInv

LEMMA OwnInvariance == Spec => [](TypeOK /\ OwnInv)
<1>1. Init => TypeOK /\ OwnInv
  BY TypeInit, OwnInvInit
<1>2. TypeOK /\ OwnInv /\ [Next]_vars => (TypeOK /\ OwnInv)'
  BY TypeNext, OwnInvNext
<1> QED BY <1>1, <1>2, PTL DEF Spec

-----------------------------------------------------------------------------
(* No execution is started twice. *)

LEMMA OnlyRunStarts ==
  ASSUME TypeOK, [Next]_vars, NEW w \in Workers, NEW x \in running'[w] \ running[w]
  PROVE  x \in timers[w]
<1> USE DEF controller, history
<1>1. running \in [Workers -> SUBSET Executions]
  BY DEF TypeOK
<1>2. ASSUME NEW v \in Workers, NEW y \in timers[v], Run(v, y)
      PROVE  x \in timers[w]
  <2>1. running' = [running EXCEPT ![v] = @ \cup {y}]
    BY <1>2 DEF Run
  <2> QED BY <1>1, <2>1
<1>3. ASSUME NEW v \in Workers,
             \/ \E y \in running[v] : Finish(v, y)
             \/ \E y \in posting[v] : PostFails(v, y)
      PROVE  running'[w] \subseteq running[w]
  BY <1>1, <1>3 DEF Finish, PostFails
<1>4. ASSUME \/ \E v \in Workers : \/ Ask(v) \/ Full(v) \/ Answer(v) \/ GiveUp(v)
                                   \/ Wake(v) \/ StartAgain(v)
                                   \/ \E y \in posting[v] : Post(v, y)
             \/ \E h \in Handlers : Give(h) \/ AnswerNobody(h)
             \/ Restart \/ Tick \/ UNCHANGED vars
      PROVE  running' = running
  BY <1>4 DEF Ask, Full, Answer, GiveUp, Wake, StartAgain, Post, Give, AnswerNobody,
              Restart, Tick, vars
<1> QED BY <1>2, <1>3, <1>4 DEF Next

(* A run that one start of the controller handed out is executed at most once *)
(* (scheduleExecution, runExecutionAndPostResult), whatever gets lost or late *)
(* and whoever is started again.                                              *)
THEOREM AtMostOnce == Spec => ExecutedOnce
<1>1. TypeOK /\ OwnInv /\ [Next]_vars =>
        [\A w \in Workers : \A x \in running'[w] \ running[w] : x \notin started]_vars
  BY OnlyRunStarts DEF OwnInv, TimersApart
<1> QED BY <1>1, OwnInvariance, PTL DEF Spec, ExecutedOnce

-----------------------------------------------------------------------------
(* The running count. *)

CountInv == CountIsRunning /\ \A w \in Workers : IsFiniteSet(running[w])

LEMMA CountInvNext == TypeOK /\ OwnInv /\ CountInv /\ [Next]_vars => CountInv'
<1> SUFFICES ASSUME TypeOK, OwnInv, CountInv, [Next]_vars
             PROVE  CountInv'
  OBVIOUS
<1> USE DEF controller, history
<1>1. /\ running \in [Workers -> SUBSET Executions]
      /\ count \in [Workers -> Int]
      /\ \A w \in Workers : IsFiniteSet(running[w]) /\ count[w] = Cardinality(running[w])
  BY DEF TypeOK, CountInv, CountIsRunning
<1>2. ASSUME NEW w \in Workers, NEW x \in timers[w], Run(w, x)
      PROVE  CountInv'
  <2>1. x \notin running[w]
    BY DEF OwnInv, TimersApart, RunningIsStarted
  <2>2. /\ IsFiniteSet(running[w] \cup {x})
        /\ Cardinality(running[w] \cup {x}) = count[w] + 1
    BY <1>1, <2>1, FS_AddElement
  <2>3. /\ running' = [running EXCEPT ![w] = @ \cup {x}]
        /\ count' = [count EXCEPT ![w] = @ + 1]
    BY <1>2 DEF Run
  <2> QED BY <1>1, <2>2, <2>3 DEF CountInv, CountIsRunning
<1>3. ASSUME NEW w \in Workers, NEW x \in running[w], Finish(w, x)
      PROVE  CountInv'
  <2>1. /\ IsFiniteSet(running[w] \ {x})
        /\ Cardinality(running[w] \ {x}) = count[w] - 1
    BY <1>1, FS_RemoveElement
  <2>2. /\ running' = [running EXCEPT ![w] = @ \ {x}]
        /\ count' = [count EXCEPT ![w] = @ - 1]
    BY <1>3 DEF Finish
  <2> QED BY <1>1, <2>1, <2>2 DEF CountInv, CountIsRunning
<1>4. ASSUME NEW w \in Workers, NEW x \in posting[w], PostFails(w, x)
      PROVE  CountInv'
  <2>1. /\ running' = [running EXCEPT ![w] = {}]
        /\ count' = [count EXCEPT ![w] = 0]
    BY <1>4 DEF PostFails
  <2> QED BY <1>1, <2>1, FS_EmptySet DEF CountInv, CountIsRunning
<1>5. ASSUME \/ \E v \in Workers : \/ Ask(v) \/ Full(v) \/ Answer(v) \/ GiveUp(v)
                                   \/ Wake(v) \/ StartAgain(v)
                                   \/ \E y \in posting[v] : Post(v, y)
             \/ \E h \in Handlers : Give(h) \/ AnswerNobody(h)
             \/ Restart \/ Tick \/ UNCHANGED vars
      PROVE  CountInv'
  <2>1. running' = running /\ count' = count
    BY <1>5 DEF Ask, Full, Answer, GiveUp, Wake, StartAgain, Post, Give, AnswerNobody,
                Restart, Tick, vars
  <2> QED BY <2>1 DEF CountInv, CountIsRunning
<1> QED BY <1>2, <1>3, <1>4, <1>5 DEF Next

(* runningExecutionCount never drifts from the executions that run (tick      *)
(* sizes its requests by it).                                                 *)
THEOREM CountNeverDrifts == Spec => []CountIsRunning
<1>1. Init => CountInv
  BY FS_EmptySet DEF Init, CountInv, CountIsRunning
<1>2. TypeOK /\ OwnInv /\ CountInv /\ [Next]_vars => CountInv'
  BY CountInvNext
<1>3. CountInv => CountIsRunning
  BY DEF CountInv
<1> QED BY <1>1, <1>2, <1>3, OwnInvariance, PTL DEF Spec

-----------------------------------------------------------------------------
(* Nothing disappears. *)

Accounted(x) ==
  \/ Of(x) \in ended
  \/ \E w \in Workers : Of(x) \in Held(w)
  \/ \E h \in Handlers : x \in InAnswer(h)

LEMMA NoRunVanishesIs == NoRunVanishes <=> \A x \in handed : Accounted(x)
  BY DEF NoRunVanishes, Accounted, Of, InAnswer

LEMMA NoRunVanishesNext == TypeOK /\ OwnInv /\ NoRunVanishes /\ [Next]_vars => NoRunVanishes'
<1> SUFFICES ASSUME TypeOK, OwnInv, NoRunVanishes, [Next]_vars
             PROVE  NoRunVanishes'
  OBVIOUS
<1> USE DEF controller, history
<1>0. /\ \A x \in handed : Accounted(x)
      /\ Closed
      /\ NoRunVanishes' <=> \A x \in handed' : Accounted(x)'
  BY NoRunVanishesIs DEF OwnInv, NoRunVanishes, Accounted, Of, InAnswer
<1>1. ASSUME Quiet
      PROVE  NoRunVanishes'
  <2>1. /\ \A x : Of(x)' = Of(x)
        /\ \A w : Held(w)' = Held(w)
        /\ \A h \in Handlers : InAnswer(h)' = InAnswer(h)
        /\ handed' = handed /\ ended' = ended
    BY <1>1 DEF Quiet, Of, Held, InAnswer
  <2> QED BY <1>0, <2>1 DEF Accounted
<1>2. ASSUME NEW w \in Workers, Answer(w)
      PROVE  NoRunVanishes'
  <2>1. PICK h \in Handlers : h = loop[w].handler /\ Dispenser!Close(h)
    BY <1>2 DEF Answer, TypeOK, Loops
  <2>2. handed' = handed /\ \A k \in Handlers \ {h} : InAnswer(k)' = InAnswer(k)
    BY <1>0, <2>1, CloseIs
  <2>3. /\ epoch' = epoch /\ ended' = ended /\ running' = running /\ posting' = posting
        /\ timers' = [timers EXCEPT ![w] = @ \cup {Of(x) : x \in InAnswer(h)}]
    BY <1>2, <2>1, AnswerType DEF Answer
  <2>4. /\ \A v \in Workers : timers[v] \subseteq timers'[v]
        /\ \A x \in InAnswer(h) : Of(x) \in timers'[w]
    BY <2>3 DEF TypeOK
  <2>5. /\ \A x : Of(x)' = Of(x)
        /\ \A v \in Workers : Held(v) \subseteq Held(v)'
        /\ \A x \in InAnswer(h) : Of(x) \in Held(w)'
    BY <2>3, <2>4 DEF Of, Held
  <2> QED BY <1>0, <2>2, <2>3, <2>5 DEF Accounted
<1>3. ASSUME NEW h \in Handlers, Give(h)
      PROVE  NoRunVanishes'
  <2>1. PICK x \in Runs :
          /\ handed' = handed \cup {x}
          /\ InAnswer(h)' = InAnswer(h) \cup {x}
          /\ \A k \in Handlers \ {h} : InAnswer(k)' = InAnswer(k)
    BY <1>0, <1>3, GiveAnswers DEF Give
  <2>2. /\ ended' = ended
        /\ \A y : Of(y)' = Of(y)
        /\ \A w : Held(w)' = Held(w)
    BY <1>3 DEF Give, Of, Held
  <2>3. \A k \in Handlers : InAnswer(k) \subseteq InAnswer(k)'
    BY <2>1
  <2> QED BY <1>0, <2>1, <2>2, <2>3 DEF Accounted
<1>4. ASSUME NEW h \in Handlers, AnswerNobody(h)
      PROVE  NoRunVanishes'
  <2>1. handed' = handed /\ \A k \in Handlers \ {h} : InAnswer(k)' = InAnswer(k)
    BY <1>0, <1>4, CloseIs DEF AnswerNobody
  <2>2. /\ ended' = ended \cup {Of(x) : x \in InAnswer(h)}
        /\ \A x : Of(x)' = Of(x)
        /\ \A w : Held(w)' = Held(w)
    BY <1>4, AnswerType DEF AnswerNobody, Of, Held
  <2> QED BY <1>0, <2>1, <2>2 DEF Accounted
<1>5. CASE Restart
  <2>1. handed' = {}
    BY <1>5 DEF Restart, Dispenser!Restart
  <2> QED BY <1>0, <2>1
<1>6. ASSUME NEW w \in Workers,
             \/ \E x \in timers[w] : Run(w, x)
             \/ \E x \in running[w] : Finish(w, x)
             \/ \E x \in posting[w] : Post(w, x) \/ PostFails(w, x)
      PROVE  NoRunVanishes'
  <2>1. /\ handed' = handed
        /\ \A x : Of(x)' = Of(x)
        /\ \A h : InAnswer(h)' = InAnswer(h)
    BY <1>6 DEF Run, Finish, Post, PostFails, Of, InAnswer
  <2>2. ended \subseteq ended'
    BY <1>6 DEF Run, Finish, Post, PostFails
  <2>3. \A v \in Workers : Held(v) \subseteq Held(v)' \cup ended'
    <3>1. CASE \E x \in timers[w] : Run(w, x)
      BY <3>1 DEF Run, Held, TypeOK
    <3>2. CASE \E x \in running[w] : Finish(w, x)
      BY <3>2 DEF Finish, Held, TypeOK
    <3>3. CASE \E x \in posting[w] : Post(w, x)
      BY <3>3 DEF Post, Held, TypeOK
    <3>4. CASE \E x \in posting[w] : PostFails(w, x)
      BY <3>4 DEF PostFails, Held, TypeOK
    <3> QED BY <1>6, <3>1, <3>2, <3>3, <3>4
  <2> QED BY <1>0, <2>1, <2>2, <2>3 DEF Accounted
<1> QED BY <1>0, <1>1, <1>2, <1>3, <1>4, <1>5, <1>6, QuietSteps DEF Next

(* Every run the controller handed out is in an answer, with a worker, or was *)
(* posted or lost in one of the known ways (worker.go:148-296).               *)
THEOREM NothingVanishes == Spec => []NoRunVanishes
<1>1. Init => NoRunVanishes
  BY DEF Init, Dispenser!Init, NoRunVanishes
<1>2. TypeOK /\ OwnInv /\ NoRunVanishes /\ [Next]_vars => NoRunVanishes'
  BY NoRunVanishesNext
<1> QED BY <1>1, <1>2, OwnInvariance, PTL DEF Spec

-----------------------------------------------------------------------------
(* No run is missed.  First, requests and the handlers they wait for.         *)

(* Who waits for a handler waits for one that works on its request. *)
OwnRequest ==
  \A w \in Workers : loop[w].handler # NoHandler =>
    /\ loop[w].at = "asking"
    /\ open[loop[w].handler].scope = ScopeOf[w]
    /\ open[loop[w].handler].before = loop[w].until - TimeoutSeconds + SleepSeconds
    /\ open[loop[w].handler].on

NoSharedHandler ==
  \A v, w \in Workers :
    v # w /\ loop[v].handler = loop[w].handler => loop[v].handler = NoHandler

RequestInv == OwnRequest /\ NoSharedHandler

LEMMA RequestInvStep ==
  ASSUME TypeOK, RequestInv, NEW w \in Workers,
         loop' = [loop EXCEPT ![w] = loop'[w]],
         loop'[w].handler = NoHandler,
         \A h \in Handlers : h # loop[w].handler => open'[h] = open[h]
  PROVE  RequestInv'
<1>1. \A v \in Workers \ {w} : loop'[v] = loop[v]
  BY DEF TypeOK
<1>2. ASSUME NEW v \in Workers, v # w, loop[v].handler # NoHandler
      PROVE  open'[loop[v].handler] = open[loop[v].handler]
  <2>1. loop[v].handler \in Handlers /\ loop[v].handler # loop[w].handler
    BY <1>2 DEF TypeOK, Loops, RequestInv, NoSharedHandler
  <2> QED BY <2>1
<1>3. OwnRequest'
  BY <1>1, <1>2 DEF RequestInv, OwnRequest
<1>4. NoSharedHandler'
  BY <1>1 DEF RequestInv, NoSharedHandler
<1> QED BY <1>3, <1>4 DEF RequestInv

LEMMA OnwardHandler ==
  ASSUME NEW w \in Workers
  PROVE  Onward(w).handler = NoHandler /\ AtTick(1).handler = NoHandler /\ Down.handler = NoHandler
  BY DEF Onward, AtTick, Down

LEMMA RequestInvNext == TypeOK /\ RequestInv /\ [Next]_vars => RequestInv'
<1> SUFFICES ASSUME TypeOK, RequestInv, [Next]_vars
             PROVE  RequestInv'
  OBVIOUS
<1> USE ConstantsAssumption DEF controller, history
<1>0. loop \in [Workers -> Loops] /\ open \in [Handlers -> Requests]
  BY DEF TypeOK, Requests, Runs
<1>1. ASSUME NEW w \in Workers, Ask(w)
      PROVE  RequestInv'
  <2>1. PICK h \in Handlers \cup {NoHandler} :
          /\ IF h = NoHandler THEN UNCHANGED <<now, handed, open>>
             ELSE Dispenser!Open(h, ScopeOf[w], SleepSeconds, MaxJobs - count[w])
          /\ loop' = [loop EXCEPT ![w] =
               [@ EXCEPT !.at = "asking", !.handler = h, !.until = now + TimeoutSeconds]]
    BY <1>1 DEF Ask
  <2>2. /\ loop'[w].at = "asking" /\ loop'[w].handler = h
        /\ loop'[w].until = now + TimeoutSeconds
        /\ \A v \in Workers \ {w} : loop'[v] = loop[v]
    BY <1>0, <2>1 DEF Loops
  <2>3. CASE h = NoHandler
    <3>1. open' = open
      BY <2>1, <2>3
    <3>2. OwnRequest' /\ NoSharedHandler'
      BY <2>2, <2>3, <3>1 DEF RequestInv, OwnRequest, NoSharedHandler
    <3> QED BY <3>2 DEF RequestInv
  <2>4. CASE h # NoHandler
    <3>1. /\ h \in Handlers /\ ~ open[h].on
          /\ open' = [open EXCEPT ![h] =
               [on |-> TRUE, scope |-> ScopeOf[w], before |-> now + SleepSeconds,
                max |-> MaxJobs - count[w], got |-> <<>>]]
      BY <2>1, <2>4 DEF Dispenser!Open
    <3>2. /\ open'[h].on /\ open'[h].scope = ScopeOf[w]
          /\ open'[h].before = now + SleepSeconds
          /\ \A k \in Handlers \ {h} : open'[k] = open[k]
      BY <1>0, <3>1
    <3>3. \A v \in Workers : loop[v].handler # h
      BY <2>4, <3>1 DEF RequestInv, OwnRequest
    <3>4. now + SleepSeconds = loop'[w].until - TimeoutSeconds + SleepSeconds
      BY <2>2 DEF TypeOK
    <3>5. \A v \in Workers \ {w} : loop[v].handler # NoHandler =>
            open'[loop[v].handler] = open[loop[v].handler]
      <4> SUFFICES ASSUME NEW v \in Workers \ {w}, loop[v].handler # NoHandler
                   PROVE  open'[loop[v].handler] = open[loop[v].handler]
        OBVIOUS
      <4>1. loop[v].handler \in Handlers
        BY <1>0 DEF Loops
      <4> QED BY <3>2, <3>3, <4>1
    <3>6. OwnRequest'
      <4> SUFFICES ASSUME NEW v \in Workers, loop'[v].handler # NoHandler
                   PROVE  /\ loop'[v].at = "asking"
                          /\ open'[loop'[v].handler].scope = ScopeOf[v]
                          /\ open'[loop'[v].handler].before =
                               loop'[v].until - TimeoutSeconds + SleepSeconds
                          /\ open'[loop'[v].handler].on
        BY DEF OwnRequest
      <4>1. CASE v = w
        BY <2>2, <3>2, <3>4, <4>1
      <4>2. CASE v # w
        BY <2>2, <3>5, <4>2 DEF RequestInv, OwnRequest
      <4> QED BY <4>1, <4>2
    <3>7. NoSharedHandler'
      BY <2>2, <3>3 DEF RequestInv, NoSharedHandler
    <3> QED BY <3>6, <3>7 DEF RequestInv
  <2> QED BY <2>3, <2>4
<1>2. ASSUME NEW w \in Workers, Full(w) \/ GiveUp(w) \/ Wake(w) \/ StartAgain(w)
      PROVE  RequestInv'
  <2>1. /\ open' = open
        /\ \/ loop' = [loop EXCEPT ![w] = Onward(w)]
           \/ loop' = [loop EXCEPT ![w] = AtTick(1)]
    BY <1>2 DEF Full, GiveUp, Wake, StartAgain
  <2>2. loop' = [loop EXCEPT ![w] = loop'[w]] /\ loop'[w].handler = NoHandler
    BY <1>0, <2>1, OnwardHandler
  <2> QED BY <2>1, <2>2, RequestInvStep
<1>3. ASSUME NEW w \in Workers, Answer(w)
      PROVE  RequestInv'
  <2>1. /\ open' = [open EXCEPT ![loop[w].handler] = Dispenser!NoRequest]
        /\ loop' = [loop EXCEPT ![w] = Onward(w)]
    BY <1>3 DEF Answer, Dispenser!Close
  <2>2. loop' = [loop EXCEPT ![w] = loop'[w]] /\ loop'[w].handler = NoHandler
    BY <1>0, <2>1, OnwardHandler
  <2>3. \A h \in Handlers : h # loop[w].handler => open'[h] = open[h]
    BY <1>0, <2>1
  <2> QED BY <2>2, <2>3, RequestInvStep
<1>4. ASSUME NEW w \in Workers, NEW x \in posting[w], PostFails(w, x)
      PROVE  RequestInv'
  <2>1. open' = open /\ loop' = [loop EXCEPT ![w] = Down]
    BY <1>4 DEF PostFails
  <2>2. loop' = [loop EXCEPT ![w] = loop'[w]] /\ loop'[w].handler = NoHandler
    BY <1>0, <2>1, OnwardHandler
  <2> QED BY <2>1, <2>2, RequestInvStep
<1>5. ASSUME NEW h \in Handlers, Give(h)
      PROVE  RequestInv'
  <2>1. PICK x \in Runs : open' = [open EXCEPT ![h].got = Append(@, x)]
    BY <1>5, GiveIs DEF Give
  <2>2. \A k \in Handlers : /\ open'[k].on = open[k].on
                            /\ open'[k].scope = open[k].scope
                            /\ open'[k].before = open[k].before
    BY <1>0, <2>1 DEF Requests
  <2>3. loop' = loop
    BY <1>5 DEF Give
  <2>4. \A w \in Workers : loop[w].handler # NoHandler => loop[w].handler \in Handlers
    BY <1>0 DEF Loops
  <2> QED BY <2>2, <2>3, <2>4 DEF RequestInv, OwnRequest, NoSharedHandler
<1>6. ASSUME NEW h \in Handlers, AnswerNobody(h)
      PROVE  RequestInv'
  <2>1. /\ open' = [open EXCEPT ![h] = Dispenser!NoRequest] /\ loop' = loop
        /\ \A w \in Workers : loop[w].handler # h
    BY <1>6 DEF AnswerNobody, Dispenser!Close
  <2>2. \A w \in Workers : loop[w].handler # NoHandler =>
          open'[loop[w].handler] = open[loop[w].handler]
    BY <1>0, <2>1 DEF Loops
  <2> QED BY <2>1, <2>2 DEF RequestInv, OwnRequest, NoSharedHandler
<1>7. CASE Restart
  <2>1. loop' = [w \in Workers |-> [loop[w] EXCEPT !.handler = NoHandler]]
    BY <1>7 DEF Restart
  <2>2. \A w \in Workers : loop'[w].handler = NoHandler
    BY <1>0, <2>1 DEF Loops
  <2> QED BY <2>2 DEF RequestInv, OwnRequest, NoSharedHandler
<1>8. ASSUME \/ \E w \in Workers : \/ \E x \in timers[w] : Run(w, x)
                                   \/ \E x \in running[w] : Finish(w, x)
                                   \/ \E x \in posting[w] : Post(w, x)
             \/ Tick \/ UNCHANGED vars
      PROVE  RequestInv'
  <2>1. loop' = loop /\ open' = open
    BY <1>8 DEF Run, Finish, Post, Tick, Dispenser!Tick, vars
  <2> QED BY <2>1 DEF RequestInv, OwnRequest, NoSharedHandler
<1> QED BY <1>1, <1>2, <1>3, <1>4, <1>5, <1>6, <1>7, <1>8 DEF Next

(* Then the windows: as long as its requests are answered, all runs that fall *)
(* due before Reach(w) were handed out, and Reach(w) is ahead of the clock.   *)

Half == SleepSeconds \div 2

Reach(w) ==
  IF loop[w].at = "tick" THEN now - TimeoutSeconds - Half + SleepSeconds
  ELSE IF loop[w].at = "asking" THEN loop[w].until - 2 * TimeoutSeconds - Half + SleepSeconds
  ELSE loop[w].until - TimeoutSeconds - Half + SleepSeconds

Covered(w, from, to, given) ==
  \A d \in ScopeOf[w] : \A t \in CronTimes[d] :
    from < t /\ t < to => [job |-> d, time |-> t] \in given

OnTime(w) == loop[w].at \in {"asking", "asleep"} => now <= loop[w].until

Ahead(w) ==
  since[w] # Never => loop[w].at # "down" /\ Covered(w, since[w], Reach(w), handed)

TimeInv == \A w \in Workers : OnTime(w) /\ Ahead(w)

LEMMA CoveredLess ==
  ASSUME NEW w \in Workers, NEW from \in Int, NEW to \in Int, NEW less \in Int, less <= to,
         NEW given, NEW more, given \subseteq more, Covered(w, from, to, given)
  PROVE  Covered(w, from, less, more)
<1>1. \A d \in ScopeOf[w] : CronTimes[d] \subseteq Nat
  BY ConstantsAssumption
<1> QED BY <1>1 DEF Covered

LEMMA TimeType ==
  ASSUME TypeOK, NEW w \in Workers
  PROVE  /\ Half \in Nat /\ SleepSeconds \in Nat /\ TimeoutSeconds \in Nat /\ now \in Nat
         /\ loop[w] \in Loops /\ loop[w].until \in Nat
         /\ Reach(w) \in Int /\ since[w] \in Int
<1>1. Half \in Nat
  BY ConstantsAssumption DEF Half
<1>2. SleepSeconds \in Nat /\ TimeoutSeconds \in Nat /\ now \in Nat
  BY ConstantsAssumption DEF TypeOK
<1>3. loop[w] \in Loops
  BY DEF TypeOK
<1>4. loop[w].until \in Nat
  BY <1>3 DEF Loops
<1>5. Reach(w) \in Int
  BY <1>1, <1>2, <1>4 DEF Reach
<1>6. since[w] \in Int
  BY DEF TypeOK, Never
<1> QED BY <1>1, <1>2, <1>3, <1>4, <1>5, <1>6

LEMMA ReachIsAhead ==
  ASSUME TypeOK, TimeInv, RequestsFit, NEW w \in Workers, since[w] # Never
  PROVE  now < Reach(w)
<1>1. 2 * TimeoutSeconds + Half < SleepSeconds
  BY DEF RequestsFit, Half
<1>2. loop[w].at \in {"tick", "asking", "asleep"}
  BY TimeType DEF TimeInv, Ahead, Loops
<1>3. loop[w].at # "tick" => now <= loop[w].until
  BY <1>2 DEF TimeInv, OnTime
<1> QED BY <1>1, <1>2, <1>3, TimeType DEF Reach

(* Steps of one worker while the clock stands still. *)
LEMMA TimeInvStep ==
  ASSUME TypeOK, TimeInv, NEW w \in Workers,
         now' = now, handed' = handed,
         \A v \in Workers \ {w} : loop'[v] = loop[v] /\ since'[v] = since[v],
         OnTime(w)', Ahead(w)'
  PROVE  TimeInv'
<1>1. ASSUME NEW v \in Workers \ {w}
      PROVE  OnTime(v)' /\ Ahead(v)'
  <2>1. Reach(v)' = Reach(v)
    BY DEF Reach
  <2> QED BY <2>1 DEF TimeInv, OnTime, Ahead
<1> QED BY <1>1 DEF TimeInv

LEMMA OnwardIs ==
  ASSUME TypeOK, NEW w \in Workers
  PROVE  \/ Onward(w).at = "tick"
         \/ Onward(w).at = "asleep" /\ Onward(w).until = now + Half
  BY DEF Onward, AtTick, Half

LEMMA TimeInvAnswer ==
  ASSUME TypeOK, RequestInv, TimeInv, RequestsFit, NEW w \in Workers, Answer(w)
  PROVE  TimeInv'
<1>1. PICK h \in Handlers : h = loop[w].handler /\ Dispenser!Close(h)
  BY DEF Answer, TypeOK, Loops
<1>2. /\ now' = now /\ handed' = handed
      /\ loop' = [loop EXCEPT ![w] = Onward(w)]
      /\ since' = [since EXCEPT ![w] =
           IF Len(open[h].got) >= open[h].max THEN Never ELSE IF @ = Never THEN now ELSE @]
      /\ loop[w].at = "asking"
  BY <1>1 DEF Answer, Dispenser!Close
<1>3. /\ loop'[w] = Onward(w)
      /\ since'[w] = IF Len(open[h].got) >= open[h].max THEN Never
                     ELSE IF since[w] = Never THEN now ELSE since[w]
      /\ \A v \in Workers \ {w} : loop'[v] = loop[v] /\ since'[v] = since[v]
  BY <1>2 DEF TypeOK
<1>4. OnTime(w)'
  BY <1>2, <1>3, OnwardIs, TimeType DEF OnTime
<1>5. now <= loop[w].until
  BY <1>2 DEF TimeInv, OnTime
<1>6. ASSUME since'[w] # Never
      PROVE  Covered(w, since'[w], loop[w].until - TimeoutSeconds + SleepSeconds, handed)
  <2>1. /\ open[h].scope = ScopeOf[w]
        /\ open[h].before = loop[w].until - TimeoutSeconds + SleepSeconds
    BY <1>1, ConstantsAssumption DEF RequestInv, OwnRequest
  <2>2. Dispenser!Due(open[h]) = {}
    BY <1>1, <1>3, <1>6 DEF Dispenser!Close
  <2>3. ASSUME NEW d \in ScopeOf[w], NEW t \in CronTimes[d],
               now < t, t < loop[w].until - TimeoutSeconds + SleepSeconds
        PROVE  [job |-> d, time |-> t] \in handed
    BY <2>1, <2>2, <2>3 DEF Dispenser!Due
  <2>4. ASSUME NEW d \in ScopeOf[w], NEW t \in CronTimes[d], since'[w] < t, t <= now
        PROVE  [job |-> d, time |-> t] \in handed
    <3>1. t \in Nat /\ now \in Nat
      BY ConstantsAssumption DEF TypeOK
    <3>2. since[w] # Never /\ since'[w] = since[w]
      BY <1>3, <1>6, <2>4, <3>1
    <3>3. t < Reach(w)
      BY <2>4, <3>1, <3>2, ReachIsAhead, TimeType
    <3> QED BY <2>4, <3>2, <3>3 DEF TimeInv, Ahead, Covered
  <2>5. \A d \in ScopeOf[w] : CronTimes[d] \subseteq Nat
    BY ConstantsAssumption
  <2> QED BY <2>3, <2>4, <2>5, TimeType DEF Covered
<1>7. Ahead(w)'
  <2> SUFFICES ASSUME since'[w] # Never
               PROVE  loop'[w].at # "down" /\ Covered(w, since'[w], Reach(w)', handed')
    BY DEF Ahead
  <2>1. loop'[w].at # "down"
    BY <1>3, OnwardIs
  <2>2. /\ Reach(w)' \in Int /\ since'[w] \in Int
        /\ loop[w].until - TimeoutSeconds + SleepSeconds \in Int
        /\ Reach(w)' <= loop[w].until - TimeoutSeconds + SleepSeconds
    <3>1. CASE Onward(w).at = "tick"
      <4>1. Reach(w)' = now - TimeoutSeconds - Half + SleepSeconds
        BY <1>2, <1>3, <3>1 DEF Reach
      <4> QED BY <1>3, <1>5, <4>1, TimeType, SMTT(30)
    <3>2. CASE Onward(w).at = "asleep" /\ Onward(w).until = now + Half
      <4>1. loop'[w].at = "asleep" /\ loop'[w].until = now + Half
        BY <1>3, <3>2
      <4>2. Reach(w)' = loop'[w].until - TimeoutSeconds - Half + SleepSeconds
        BY <4>1 DEF Reach
      <4> QED BY <1>3, <1>5, <4>1, <4>2, TimeType, SMTT(30)
    <3> QED BY <3>1, <3>2, OnwardIs
  <2> QED BY <1>2, <1>6, <2>1, <2>2, CoveredLess
<1> QED BY <1>2, <1>3, <1>4, <1>7, TimeInvStep

LEMMA TimeInvNext ==
  TypeOK /\ RequestInv /\ TimeInv /\ RequestsFit /\ [Next]_vars => TimeInv'
<1> SUFFICES ASSUME TypeOK, RequestInv, TimeInv, RequestsFit, [Next]_vars
             PROVE  TimeInv'
  OBVIOUS
<1> USE DEF controller, history
<1>0. loop \in [Workers -> Loops] /\ since \in [Workers -> Nat \cup {Never}]
  BY DEF TypeOK
<1>1. ASSUME NEW w \in Workers, Ask(w)
      PROVE  TimeInv'
  <2>1. /\ now' = now /\ handed' = handed /\ since' = since
        /\ loop[w].at = "tick"
        /\ \E h \in Handlers \cup {NoHandler} : loop' = [loop EXCEPT ![w] =
             [@ EXCEPT !.at = "asking", !.handler = h, !.until = now + TimeoutSeconds]]
    BY <1>1 DEF Ask, Dispenser!Open
  <2>2. /\ loop'[w].at = "asking" /\ loop'[w].until = now + TimeoutSeconds
        /\ \A v \in Workers \ {w} : loop'[v] = loop[v]
    BY <1>0, <2>1 DEF Loops
  <2>3. OnTime(w)'
    BY <2>1, <2>2, TimeType DEF OnTime
  <2>4. Reach(w)' = Reach(w)
    BY <2>1, <2>2, TimeType DEF Reach
  <2>5. Ahead(w)'
    BY <2>1, <2>2, <2>4 DEF TimeInv, Ahead
  <2> QED BY <2>1, <2>2, <2>3, <2>5, TimeInvStep
<1>2. ASSUME NEW w \in Workers, Full(w) \/ GiveUp(w)
      PROVE  TimeInv'
  <2>1. /\ now' = now /\ handed' = handed
        /\ loop'[w] = Onward(w) /\ since'[w] = Never
        /\ \A v \in Workers \ {w} : loop'[v] = loop[v] /\ since'[v] = since[v]
    BY <1>0, <1>2 DEF Full, GiveUp
  <2>2. OnTime(w)'
    BY <2>1, OnwardIs, TimeType DEF OnTime
  <2> QED BY <2>1, <2>2, TimeInvStep DEF Ahead
<1>3. ASSUME NEW w \in Workers, Wake(w)
      PROVE  TimeInv'
  <2>1. /\ now' = now /\ handed' = handed /\ since' = since
        /\ loop[w].at = "asleep" /\ loop[w].until = now
        /\ loop'[w].at = "tick"
        /\ \A v \in Workers \ {w} : loop'[v] = loop[v]
    BY <1>0, <1>3, TimeType DEF Wake, AtTick, TimeInv, OnTime
  <2>2. Reach(w)' = Reach(w)
    BY <2>1 DEF Reach
  <2> QED BY <2>1, <2>2, TimeInvStep DEF OnTime, Ahead, TimeInv
<1>4. ASSUME NEW w \in Workers, StartAgain(w)
      PROVE  TimeInv'
  <2>1. /\ now' = now /\ handed' = handed /\ since' = since
        /\ loop[w].at = "down" /\ loop'[w].at = "tick"
        /\ \A v \in Workers \ {w} : loop'[v] = loop[v]
    BY <1>0, <1>4 DEF StartAgain, AtTick
  <2> QED BY <2>1, TimeInvStep DEF OnTime, Ahead, TimeInv
<1>5. ASSUME NEW w \in Workers, NEW x \in posting[w], PostFails(w, x)
      PROVE  TimeInv'
  <2>1. /\ now' = now /\ handed' = handed
        /\ loop'[w].at = "down" /\ since'[w] = Never
        /\ \A v \in Workers \ {w} : loop'[v] = loop[v] /\ since'[v] = since[v]
    BY <1>0, <1>5 DEF PostFails, Down, AtTick
  <2> QED BY <2>1, TimeInvStep DEF OnTime, Ahead
<1>6. ASSUME \/ \E w \in Workers : \/ \E x \in timers[w] : Run(w, x)
                                   \/ \E x \in running[w] : Finish(w, x)
                                   \/ \E x \in posting[w] : Post(w, x)
             \/ \E h \in Handlers : Give(h) \/ AnswerNobody(h)
             \/ UNCHANGED vars
      PROVE  TimeInv'
  <2>1. now' = now /\ loop' = loop /\ since' = since
    BY <1>6, GiveIs DEF Run, Finish, Post, Give, AnswerNobody, Dispenser!Close, vars
  <2>2. handed \subseteq handed'
    BY <1>6, GiveIs DEF Run, Finish, Post, Give, AnswerNobody, Dispenser!Close, vars
  <2>3. \A w \in Workers : Reach(w)' = Reach(w)
    BY <2>1 DEF Reach
  <2> QED BY <2>1, <2>2, <2>3 DEF TimeInv, OnTime, Ahead, Covered
<1>7. CASE Restart
  <2>1. /\ now' = now
        /\ since' = [w \in Workers |-> Never]
        /\ loop' = [w \in Workers |-> [loop[w] EXCEPT !.handler = NoHandler]]
    BY <1>7 DEF Restart, Dispenser!Restart
  <2>2. \A w \in Workers : loop'[w].at = loop[w].at /\ loop'[w].until = loop[w].until
    BY <1>0, <2>1 DEF Loops
  <2> QED BY <2>1, <2>2 DEF TimeInv, OnTime, Ahead
<1>8. CASE Tick
  <2>1. /\ now' = now + 1 /\ handed' = handed /\ loop' = loop /\ since' = since
        /\ \A w \in Workers : ~ Urgent(w)
    BY <1>8 DEF Tick, Dispenser!Tick, RequestsFit
  <2>2. ASSUME NEW w \in Workers
        PROVE  OnTime(w)' /\ Ahead(w)'
    <3>1. /\ loop[w].at # "tick"
          /\ loop[w].at \in {"asking", "asleep"} => ~ (now >= loop[w].until)
      BY <2>1 DEF Urgent
    <3>2. Reach(w)' = Reach(w)
      BY <2>1, <3>1 DEF Reach
    <3> QED BY <2>1, <3>1, <3>2, TimeType DEF TimeInv, OnTime, Ahead
  <2> QED BY <2>2 DEF TimeInv
<1> QED BY <1>1, <1>2, <1>3, <1>4, <1>5, <1>6, <1>7, <1>8, TimeInvAnswer DEF Next

(* Under RequestsFit a worker whose requests are answered in time and in full *)
(* misses no run (Start asks again after half of the window it asked for).    *)
THEOREM WindowsOverlap == Spec => []NoRunMissed
<1>1. Init => RequestInv /\ TimeInv
  BY DEF Init, AtTick, Never, RequestInv, OwnRequest, NoSharedHandler, TimeInv, OnTime, Ahead
<1>2. TypeOK /\ RequestInv /\ [Next]_vars => RequestInv'
  BY RequestInvNext
<1>3. TypeOK /\ RequestInv /\ (RequestsFit => TimeInv) /\ [Next]_vars => (RequestsFit => TimeInv)'
  BY TimeInvNext DEF RequestsFit
<1>4. TypeOK /\ (RequestsFit => TimeInv) => NoRunMissed
  <2> SUFFICES ASSUME TypeOK, RequestsFit, TimeInv, NEW w \in Workers, since[w] # Never,
                      NEW d \in ScopeOf[w], NEW t \in CronTimes[d], since[w] < t, t <= now
               PROVE  [job |-> d, time |-> t] \in handed
    BY DEF NoRunMissed
  <2>1. t \in Nat
    BY ConstantsAssumption
  <2>2. t < Reach(w)
    BY <2>1, ReachIsAhead, TimeType
  <2> QED BY <2>2 DEF TimeInv, Ahead, Covered
<1> QED BY <1>1, <1>2, <1>3, <1>4, TypeCorrect, PTL DEF Spec

=============================================================================
