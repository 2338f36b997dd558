----------------------------- MODULE FustyProofs -----------------------------
(***************************************************************************)
(* Proofs about the whole way of a result, for any number of workers,      *)
(* handlers, pool members, device jobs and restarts of the controller.     *)
(*                                                                         *)
(* The workers are those of Worker: every step of Fusty is one of theirs   *)
(* or none (ImplementsWorker), so what WorkerProofs has shown of them      *)
(* holds here and is used here.                                            *)
(***************************************************************************)
EXTENDS Fusty, TLAPS

WP == INSTANCE WorkerProofs

-----------------------------------------------------------------------------
(* The workers of Fusty are those of WorkerProofs. *)

LEMMA WorkerAssumption == WP!ConstantsAssumption
  BY FustyAssumption DEF W!ConstantsAssumption, WP!ConstantsAssumption

LEMMA SameInit == W!Init => WP!Init
  BY DEF W!Init, WP!Init, W!AtTick, WP!AtTick, W!Never, WP!Never, W!Dispenser!Init,
         WP!Dispenser!Init, W!Dispenser!NoRequest, WP!Dispenser!NoRequest

LEMMA SameVars ==
  /\ UNCHANGED W!vars <=> UNCHANGED WP!vars
  /\ UNCHANGED worker <=> UNCHANGED W!vars
  BY DEF W!vars, WP!vars, W!controller, WP!controller, W!history, WP!history, worker

(* One lemma per action: both copies of Worker say the same of it. *)
LEMMA SameLoop ==
  ASSUME NEW w
  PROVE  /\ W!Ask(w) => WP!Ask(w)
         /\ W!Full(w) => WP!Full(w)
         /\ W!Answer(w) => WP!Answer(w)
         /\ W!GiveUp(w) => WP!GiveUp(w)
         /\ W!Wake(w) => WP!Wake(w)
         /\ W!StartAgain(w) => WP!StartAgain(w)
<1> USE DEF W!controller, WP!controller, W!history, WP!history, W!AtTick, WP!AtTick,
            W!Onward, WP!Onward, W!Never, WP!Never
<1>1. W!Ask(w) => WP!Ask(w)
  BY DEF W!Ask, WP!Ask, W!Dispenser!Open, WP!Dispenser!Open
<1>2. W!Full(w) => WP!Full(w)
  BY DEF W!Full, WP!Full
<1>3. W!Answer(w) => WP!Answer(w)
  BY DEF W!Answer, WP!Answer, W!Answered, WP!Answered, W!Range, WP!Range,
         W!Dispenser!Close, WP!Dispenser!Close,
         W!Dispenser!Due, WP!Dispenser!Due, W!Dispenser!NoRequest, WP!Dispenser!NoRequest
<1>4. W!GiveUp(w) => WP!GiveUp(w)
  BY DEF W!GiveUp, WP!GiveUp
<1>5. W!Wake(w) => WP!Wake(w)
  BY DEF W!Wake, WP!Wake
<1>6. W!StartAgain(w) => WP!StartAgain(w)
  BY DEF W!StartAgain, WP!StartAgain
<1> QED BY <1>1, <1>2, <1>3, <1>4, <1>5, <1>6

LEMMA SameExecution ==
  ASSUME NEW w, NEW x
  PROVE  /\ W!Run(w, x) => WP!Run(w, x)
         /\ W!Finish(w, x) => WP!Finish(w, x)
         /\ W!Post(w, x) => WP!Post(w, x)
         /\ W!PostFails(w, x) => WP!PostFails(w, x)
<1> USE DEF W!controller, WP!controller, W!history, WP!history
<1>1. W!Run(w, x) => WP!Run(w, x)
  BY DEF W!Run, WP!Run
<1>2. W!Finish(w, x) => WP!Finish(w, x)
  BY DEF W!Finish, WP!Finish
<1>3. W!Post(w, x) => WP!Post(w, x)
  BY DEF W!Post, WP!Post
<1>4. W!PostFails(w, x) => WP!PostFails(w, x)
  BY DEF W!PostFails, WP!PostFails, W!Held, WP!Held, W!Down, WP!Down, W!AtTick, WP!AtTick,
         W!Never, WP!Never
<1> QED BY <1>1, <1>2, <1>3, <1>4

LEMMA SameController ==
  /\ \A h : W!Give(h) => WP!Give(h)
  /\ \A h : W!AnswerNobody(h) => WP!AnswerNobody(h)
  /\ W!Restart => WP!Restart
  /\ W!Tick => WP!Tick
<1> USE DEF W!controller, WP!controller, W!history, WP!history, W!Answered, WP!Answered,
            W!Range, WP!Range, W!Dispenser!NoRequest, WP!Dispenser!NoRequest, W!Dispenser!Due, WP!Dispenser!Due
<1>1. ASSUME NEW h PROVE W!Give(h) => WP!Give(h)
  BY DEF W!Give, WP!Give, W!Dispenser!Give, WP!Dispenser!Give
<1>2. ASSUME NEW h PROVE W!AnswerNobody(h) => WP!AnswerNobody(h)
  BY DEF W!AnswerNobody, WP!AnswerNobody, W!Dispenser!Close, WP!Dispenser!Close
<1>3. W!Restart => WP!Restart
  BY DEF W!Restart, WP!Restart, W!Dispenser!Restart, WP!Dispenser!Restart, W!Never, WP!Never
<1>4. W!Tick => WP!Tick
  BY DEF W!Tick, WP!Tick, W!Urgent, WP!Urgent, W!Dispenser!Tick, WP!Dispenser!Tick
<1> QED BY <1>1, <1>2, <1>3, <1>4

LEMMA SameNext == [W!Next]_(W!vars) => [WP!Next]_(WP!vars)
  BY SameVars, SameLoop, SameExecution, SameController DEF W!Next, WP!Next

-----------------------------------------------------------------------------
(* Every step of Fusty is one of the workers and their controller, or none. *)

LEMMA WorkerStep == [Next]_vars => [W!Next]_(W!vars)
<1> SUFFICES ASSUME [Next]_vars
             PROVE  W!Next \/ UNCHANGED worker
  BY SameVars
<1>1. ASSUME NEW w \in Workers, Loop(w)
      PROVE  W!Next
  BY <1>1 DEF Loop, W!Next
<1>2. ASSUME NEW w \in Workers, NEW x \in timers[w], Run(w, x)
      PROVE  W!Next
  BY <1>2 DEF Run, W!Next
<1>3. ASSUME NEW w \in Workers, StartAgain(w)
      PROVE  W!Next
  BY <1>3 DEF StartAgain, W!Next
<1>4. ASSUME NEW w \in Workers, NEW x \in running[w], Finish(w, x)
      PROVE  W!Next
  BY <1>4 DEF Finish, W!Next
<1>5. ASSUME NEW w \in Workers, NEW x \in posting[w],
             Send(w, x) \/ Acknowledged(w, x) \/ GiveUpPost(w, x)
      PROVE  W!Next \/ UNCHANGED worker
  BY <1>5 DEF Send, Acknowledged, GiveUpPost, W!Next
<1>6. ASSUME NEW h \in Handlers, Hand(h)
      PROVE  W!Next
  BY <1>6 DEF Hand, W!Next
<1>7. ASSUME NEW x \in arrived, Complete(x)
      PROVE  UNCHANGED worker
  BY <1>7 DEF Complete
<1>8. ASSUME NEW p \in Pool, Take(p) \/ Write(p) \/ Release(p)
      PROVE  UNCHANGED worker
  BY <1>8 DEF Take, Write, Release
<1>9. Tick \/ Restart => W!Next
  BY DEF Tick, Restart, W!Next
<1>10. CASE UNCHANGED vars
  BY <1>10 DEF vars
<1> QED BY <1>1, <1>2, <1>3, <1>4, <1>5, <1>6, <1>7, <1>8, <1>9, <1>10 DEF Next

(* The workers with the parts of their posts, the handlers and the data store *)
(* around them do what Worker specifies.                                      *)
THEOREM ImplementsWorker == Spec => W!Spec
<1>1. Init => W!Init
  BY DEF Init
<1> QED BY <1>1, WorkerStep, PTL DEF Spec, W!Spec

(* What is proved of the workers holds of them here too: no run is executed   *)
(* twice, none vanishes, the count does not drift, and a worker whose         *)
(* requests are answered misses no run (worker.go).                           *)
THEOREM WorkersKeepTheirWord ==
  Spec => /\ W!ExecutedOnce
          /\ [](W!NoRunVanishes /\ W!CountIsRunning /\ W!NoRunMissed)
<1>1. Spec => WP!Spec
  <2>1. Init => WP!Init
    BY SameInit DEF Init
  <2> QED BY <2>1, WorkerStep, SameNext, PTL DEF Spec, WP!Spec
<1>2. WP!Spec => WP!ExecutedOnce
  BY WorkerAssumption, WP!AtMostOnce
<1>3. WP!ExecutedOnce => W!ExecutedOnce
  <2>1. [\A w \in Workers : \A x \in running'[w] \ running[w] : x \notin started]_(WP!vars)
        => [\A w \in Workers : \A x \in running'[w] \ running[w] : x \notin started]_(W!vars)
    BY SameVars
  <2> QED BY <2>1, PTL DEF WP!ExecutedOnce, W!ExecutedOnce
<1>4. WP!Spec => []WP!NoRunVanishes
  BY WorkerAssumption, WP!NothingVanishes
<1>5. WP!Spec => []WP!CountIsRunning
  BY WorkerAssumption, WP!CountNeverDrifts
<1>6. WP!Spec => []WP!NoRunMissed
  BY WorkerAssumption, WP!WindowsOverlap
<1>7. WP!NoRunVanishes => W!NoRunVanishes
  BY DEF WP!NoRunVanishes, W!NoRunVanishes, WP!Held, W!Held, WP!Range, W!Range
<1>8. WP!CountIsRunning => W!CountIsRunning
  BY DEF WP!CountIsRunning, W!CountIsRunning, WP!Cardinality, W!Cardinality
<1>9. WP!NoRunMissed => W!NoRunMissed
  BY DEF WP!NoRunMissed, W!NoRunMissed, WP!RequestsFit, W!RequestsFit, WP!Never, W!Never
<1> QED BY <1>1, <1>2, <1>3, <1>4, <1>5, <1>6, <1>7, <1>8, <1>9, PTL

LEMMA WorkerInvariance == Spec => [](WP!TypeOK /\ WP!OwnInv)
<1>1. Init => WP!TypeOK /\ WP!OwnInv
  BY WorkerAssumption, SameInit, WP!TypeInit, WP!OwnInvInit DEF Init
<1>2. WP!TypeOK /\ WP!OwnInv /\ [Next]_vars => (WP!TypeOK /\ WP!OwnInv)'
  BY WorkerAssumption, WorkerStep, SameNext, WP!TypeNext, WP!OwnInvNext
<1> QED BY <1>1, <1>2, PTL DEF Spec

-----------------------------------------------------------------------------
(* How a result is delivered. *)

(* Results the controller has seen. *)
Sent == arrived \cup accepted \cup forgotten \cup refused \cup answered \cup acked

SentIsStarted == Sent \cup failed \cup blank \subseteq started

AtWorkIsStarted == \A w \in Workers : running[w] \cup posting[w] \subseteq started

(* An execution is with one worker, and either runs or is posted. *)
AtWorkApart ==
  /\ \A v, w \in Workers :
       v # w => (running[v] \cup posting[v]) \cap (running[w] \cup posting[w]) = {}
  /\ \A w \in Workers : running[w] \cap posting[w] = {}

WaitingIsPosting == \A w \in Workers : waiting[w] \subseteq posting[w]

(* What the controller has seen is posted, and no worker will post it again. *)
NotSentAgain ==
  \A w \in Workers : (running[w] \cup (posting[w] \ waiting[w])) \cap Sent = {}

(* What was or will be answered was looked at. *)
AnsweredIsKnown == answered \cup acked \subseteq failed \cup accepted \cup forgotten \cup refused

StoredHasContents == (accepted \cup forgotten) \cap (failed \cup blank) = {}

(* A refused result is neither stored nor will be: no handler has it any more. *)
RefusedIsOver == refused \cap (arrived \cup accepted \cup forgotten) = {}

StartedInTime == \A x \in started : x.time <= now

Delivery ==
  /\ waiting \in [Workers -> SUBSET started]
  /\ SentIsStarted
  /\ AtWorkIsStarted
  /\ AtWorkApart
  /\ WaitingIsPosting
  /\ NotSentAgain
  /\ NoResultTwice
  /\ AnsweredIsKnown
  /\ StoredHasContents
  /\ RefusedIsOver
  /\ StartedInTime

(* What the steps need to know of the workers. *)
Workshop ==
  /\ now \in Nat
  /\ timers \in [Workers -> SUBSET W!Executions]
  /\ running \in [Workers -> SUBSET W!Executions]
  /\ posting \in [Workers -> SUBSET W!Executions]
  /\ started \subseteq W!Executions
  /\ \A w \in Workers : timers[w] \cap started = {}

LEMMA WorkshopIs == WP!TypeOK /\ WP!OwnInv => Workshop
  BY DEF Workshop, WP!TypeOK, WP!OwnInv, WP!TimersApart, W!Executions, WP!Executions

LEMMA DeliveryInit == Init => Delivery
  BY DEF Init, W!Init, W!Dispenser!Init, Queue!Init, Delivery, Sent, SentIsStarted,
         AtWorkIsStarted, AtWorkApart, WaitingIsPosting, NotSentAgain, NoResultTwice,
         AnsweredIsKnown, StoredHasContents, RefusedIsOver, StartedInTime

(* Steps that no execution and no result is touched by. *)
Quiet ==
  /\ now' \in Nat /\ now <= now'
  /\ UNCHANGED <<running, posting, started, accepted, post>>

LEMMA DeliveryQuiet == Workshop /\ Delivery /\ Quiet => Delivery'
<1> SUFFICES ASSUME Workshop, Delivery, Quiet
             PROVE  Delivery'
  OBVIOUS
<1> USE DEF Quiet, post, Delivery
<1>1. Sent' = Sent
  BY DEF Sent
<1>2. (SentIsStarted /\ AtWorkIsStarted /\ AtWorkApart /\ WaitingIsPosting)'
  BY <1>1 DEF SentIsStarted, AtWorkIsStarted, AtWorkApart, WaitingIsPosting
<1>3. (NotSentAgain /\ NoResultTwice /\ AnsweredIsKnown /\ StoredHasContents /\ RefusedIsOver)'
  BY <1>1 DEF NotSentAgain, NoResultTwice, AnsweredIsKnown, StoredHasContents, RefusedIsOver
<1>4. StartedInTime'
  BY DEF StartedInTime, Workshop, W!Executions
<1> QED BY <1>2, <1>3, <1>4

LEMMA QuietSteps ==
  ASSUME Workshop,
         \/ \E w \in Workers : Loop(w) \/ StartAgain(w)
         \/ \E h \in Handlers : Hand(h)
         \/ \E p \in Pool : Take(p) \/ Write(p) \/ Release(p)
         \/ Tick
         \/ UNCHANGED vars
  PROVE  Quiet
<1> USE DEF Quiet, Workshop, worker, queue, post, W!controller, W!history
<1>1. ASSUME NEW w \in Workers, Loop(w)
      PROVE  Quiet
  <2>1. UNCHANGED <<queue, post>>
    BY <1>1 DEF Loop
  <2>2. W!Ask(w) => UNCHANGED <<now, running, posting, started>>
    BY DEF W!Ask, W!Dispenser!Open
  <2>3. W!Answer(w) => UNCHANGED <<now, running, posting, started>>
    BY DEF W!Answer, W!Dispenser!Close
  <2>4. W!Full(w) \/ W!GiveUp(w) \/ W!Wake(w) => UNCHANGED <<now, running, posting, started>>
    BY DEF W!Full, W!GiveUp, W!Wake
  <2>5. UNCHANGED <<now, running, posting, started>>
    BY <1>1, <2>2, <2>3, <2>4 DEF Loop
  <2> QED BY <2>1, <2>5
<1>2. ASSUME NEW w \in Workers, StartAgain(w)
      PROVE  Quiet
  BY <1>2 DEF StartAgain, W!StartAgain
<1>3. ASSUME NEW h \in Handlers, Hand(h)
      PROVE  Quiet
  BY <1>3 DEF Hand, W!Give, W!AnswerNobody, W!Dispenser!Give, W!Dispenser!Close
<1>4. ASSUME NEW p \in Pool, Take(p) \/ Write(p) \/ Release(p)
      PROVE  Quiet
  BY <1>4 DEF Take, Write, Release, Queue!Begin, Queue!Write, Queue!Release
<1>5. CASE Tick
  BY <1>5 DEF Tick, W!Tick, W!Dispenser!Tick
<1>6. CASE UNCHANGED vars
  BY <1>6 DEF vars
<1> QED BY <1>1, <1>2, <1>3, <1>4, <1>5, <1>6

(* An execution that begins was not started before, so nothing of it was sent. *)
LEMMA DeliveryRun ==
  ASSUME Workshop, Delivery, NEW w \in Workers, NEW x \in timers[w], Run(w, x)
  PROVE  Delivery'
<1> USE DEF Delivery, queue, post
<1>1. /\ now' = now /\ x.time <= now
      /\ running' = [running EXCEPT ![w] = @ \cup {x}]
      /\ posting' = posting /\ started' = started \cup {x}
      /\ UNCHANGED <<queue, post>>
  BY DEF Run, W!Run, W!controller, Workshop, W!Executions
<1>2. /\ running'[w] = running[w] \cup {x}
      /\ \A v \in Workers : v # w => running'[v] = running[v]
  BY <1>1 DEF Workshop
<1>3. x \notin started /\ x \in W!Executions
  BY DEF Workshop
<1>4. Sent' = Sent /\ x \notin Sent
  BY <1>1, <1>3 DEF Sent, SentIsStarted
<1>5. \A v \in Workers : x \notin running[v] \cup posting[v]
  BY <1>3 DEF AtWorkIsStarted
<1>6. SentIsStarted' /\ AtWorkIsStarted' /\ waiting' \in [Workers -> SUBSET started']
  BY <1>1, <1>2, <1>4 DEF SentIsStarted, AtWorkIsStarted
<1>7. AtWorkApart' /\ WaitingIsPosting'
  BY <1>1, <1>2, <1>5 DEF AtWorkApart, WaitingIsPosting
<1>8. NotSentAgain'
  BY <1>1, <1>2, <1>4 DEF NotSentAgain
<1>9. NoResultTwice' /\ AnsweredIsKnown' /\ StoredHasContents' /\ RefusedIsOver' /\ StartedInTime'
  BY <1>1 DEF NoResultTwice, AnsweredIsKnown, StoredHasContents, RefusedIsOver, StartedInTime
<1> QED BY <1>6, <1>7, <1>8, <1>9

(* An execution that ends was not sent yet, whatever comes of it. *)
LEMMA DeliveryFinish ==
  ASSUME Workshop, Delivery, NEW w \in Workers, NEW x \in running[w], Finish(w, x)
  PROVE  Delivery'
<1> USE DEF Delivery
<1>1. /\ running' = [running EXCEPT ![w] = @ \ {x}]
      /\ posting' = [posting EXCEPT ![w] = @ \cup {x}]
      /\ UNCHANGED <<now, started, accepted, waiting, arrived, answered, refused, forgotten, acked>>
      /\ failed' \in {failed, failed \cup {x}} /\ blank' \in {blank, blank \cup {x}}
  BY DEF Finish, W!Finish, W!controller, W!history, queue
<1>2. /\ running'[w] = running[w] \ {x} /\ posting'[w] = posting[w] \cup {x}
      /\ \A v \in Workers : v # w => running'[v] = running[v] /\ posting'[v] = posting[v]
  BY <1>1 DEF Workshop
<1>3. Sent' = Sent /\ x \notin Sent /\ x \in started /\ x \notin waiting[w]
  BY <1>1 DEF Sent, NotSentAgain, AtWorkIsStarted, WaitingIsPosting, AtWorkApart
<1>4. SentIsStarted' /\ AtWorkIsStarted' /\ waiting' \in [Workers -> SUBSET started']
  BY <1>1, <1>2, <1>3 DEF SentIsStarted, AtWorkIsStarted
<1>5. AtWorkApart' /\ WaitingIsPosting'
  BY <1>1, <1>2 DEF AtWorkApart, WaitingIsPosting
<1>6. NotSentAgain'
  BY <1>1, <1>2, <1>3 DEF NotSentAgain
<1>7. NoResultTwice' /\ AnsweredIsKnown' /\ RefusedIsOver' /\ StartedInTime'
  BY <1>1 DEF NoResultTwice, AnsweredIsKnown, RefusedIsOver, StartedInTime
<1>8. StoredHasContents'
  BY <1>1, <1>3 DEF StoredHasContents, Sent
<1> QED BY <1>4, <1>5, <1>6, <1>7, <1>8

(* A post leaves once, and from no other worker. *)
LEMMA DeliverySend ==
  ASSUME Workshop, Delivery, NEW w \in Workers, NEW x \in posting[w], Send(w, x)
  PROVE  Delivery'
<1> USE DEF Delivery
<1>1. /\ x \notin waiting[w]
      /\ waiting' = [waiting EXCEPT ![w] = @ \cup {x}]
      /\ arrived' \subseteq arrived \cup {x} /\ arrived \subseteq arrived'
      /\ UNCHANGED <<now, running, posting, started, accepted, failed, blank, answered,
                  refused, forgotten, acked>>
  BY DEF Send, worker, queue
<1>2. /\ waiting'[w] = waiting[w] \cup {x}
      /\ \A v \in Workers : v # w => waiting'[v] = waiting[v]
  BY <1>1
<1>3. x \notin Sent /\ x \in started /\ Sent' \subseteq Sent \cup {x}
  BY <1>1 DEF NotSentAgain, AtWorkIsStarted, Sent
<1>4. /\ \A v \in Workers : x \notin running[v]
      /\ \A v \in Workers : v # w => x \notin posting[v]
  BY DEF AtWorkApart
<1>5. SentIsStarted' /\ AtWorkIsStarted' /\ waiting' \in [Workers -> SUBSET started']
  BY <1>1, <1>3 DEF SentIsStarted, AtWorkIsStarted
<1>6. AtWorkApart' /\ WaitingIsPosting'
  BY <1>1, <1>2 DEF AtWorkApart, WaitingIsPosting
<1>7. NotSentAgain'
  BY <1>1, <1>2, <1>3, <1>4 DEF NotSentAgain
<1>8. NoResultTwice'
  BY <1>1, <1>3 DEF NoResultTwice, Sent
<1>9. AnsweredIsKnown' /\ StoredHasContents' /\ StartedInTime'
  BY <1>1 DEF AnsweredIsKnown, StoredHasContents, StartedInTime
<1>10. RefusedIsOver'
  BY <1>1, <1>3 DEF RefusedIsOver, Sent
<1> QED BY <1>5, <1>6, <1>7, <1>8, <1>9, <1>10

(* A handler is done with a post: nothing of it is new to the controller. *)
LEMMA DeliveryComplete ==
  ASSUME Workshop, Delivery, NEW x \in arrived, Complete(x)
  PROVE  Delivery'
<1> USE DEF Delivery
<1>1. /\ arrived' = arrived \ {x}
      /\ answered' \subseteq answered \cup {x}
      /\ \/ refused' = refused \cup {x} /\ accepted' = accepted
         \/ x \in failed /\ refused' = refused /\ accepted' = accepted
         \/ /\ x \notin failed \cup blank
            /\ refused' = refused /\ accepted' = accepted \cup {x}
      /\ UNCHANGED <<now, running, posting, started, failed, blank, waiting, forgotten, acked>>
  BY DEF Complete, HasContents, Queue!Accept, worker, queue
<1>2. Sent' \subseteq Sent
  BY <1>1 DEF Sent
<1>3. SentIsStarted' /\ AtWorkIsStarted' /\ waiting' \in [Workers -> SUBSET started']
  BY <1>1, <1>2 DEF SentIsStarted, AtWorkIsStarted
<1>4. AtWorkApart' /\ WaitingIsPosting' /\ NotSentAgain'
  BY <1>1, <1>2 DEF AtWorkApart, WaitingIsPosting, NotSentAgain
<1>5. NoResultTwice'
  BY <1>1 DEF NoResultTwice
<1>6. AnsweredIsKnown' /\ StoredHasContents' /\ StartedInTime'
  BY <1>1 DEF AnsweredIsKnown, StoredHasContents, StartedInTime
<1>7. RefusedIsOver'
  BY <1>1 DEF RefusedIsOver, NoResultTwice
<1> QED BY <1>3, <1>4, <1>5, <1>6, <1>7

(* An answer ends the execution; a failed post ends all of the worker. *)
LEMMA DeliveryAcknowledged ==
  ASSUME Workshop, Delivery, NEW w \in Workers, NEW x \in posting[w], Acknowledged(w, x)
  PROVE  Delivery'
<1> USE DEF Delivery
<1>1. /\ x \in answered
      /\ posting' = [posting EXCEPT ![w] = @ \ {x}]
      /\ waiting' = [waiting EXCEPT ![w] = @ \ {x}]
      /\ answered' = answered \ {x} /\ acked' = acked \cup {x}
      /\ UNCHANGED <<now, running, started, accepted, failed, blank, arrived, refused, forgotten>>
  BY DEF Acknowledged, W!Post, W!controller, queue
<1>2. /\ posting'[w] = posting[w] \ {x} /\ waiting'[w] = waiting[w] \ {x}
      /\ \A v \in Workers : v # w => posting'[v] = posting[v] /\ waiting'[v] = waiting[v]
  BY <1>1 DEF Workshop
<1>3. Sent' = Sent
  BY <1>1 DEF Sent
<1>4. SentIsStarted' /\ AtWorkIsStarted' /\ waiting' \in [Workers -> SUBSET started']
  BY <1>1, <1>2, <1>3 DEF SentIsStarted, AtWorkIsStarted
<1>5. AtWorkApart' /\ WaitingIsPosting'
  BY <1>1, <1>2 DEF AtWorkApart, WaitingIsPosting
<1>6. NotSentAgain'
  BY <1>1, <1>2, <1>3 DEF NotSentAgain
<1>7. NoResultTwice' /\ AnsweredIsKnown' /\ StoredHasContents' /\ RefusedIsOver' /\ StartedInTime'
  BY <1>1 DEF NoResultTwice, AnsweredIsKnown, StoredHasContents, RefusedIsOver, StartedInTime
<1> QED BY <1>4, <1>5, <1>6, <1>7

LEMMA DeliveryGiveUpPost ==
  ASSUME Workshop, Delivery, NEW w \in Workers, NEW x \in posting[w], GiveUpPost(w, x)
  PROVE  Delivery'
<1> USE DEF Delivery
<1>1. /\ running' = [running EXCEPT ![w] = {}]
      /\ posting' = [posting EXCEPT ![w] = {}]
      /\ waiting' = [waiting EXCEPT ![w] = {}]
      /\ answered' \subseteq answered
      /\ UNCHANGED <<now, started, accepted, failed, blank, arrived, refused,
                  forgotten, acked>>
  BY DEF GiveUpPost, W!PostFails, W!controller, queue
<1>2. /\ running'[w] = {} /\ posting'[w] = {} /\ waiting'[w] = {}
      /\ \A v \in Workers : v # w =>
           running'[v] = running[v] /\ posting'[v] = posting[v] /\ waiting'[v] = waiting[v]
  BY <1>1 DEF Workshop
<1>3. Sent' \subseteq Sent
  BY <1>1 DEF Sent
<1>4. SentIsStarted' /\ AtWorkIsStarted' /\ waiting' \in [Workers -> SUBSET started']
  BY <1>1, <1>2, <1>3 DEF SentIsStarted, AtWorkIsStarted
<1>5. AtWorkApart' /\ WaitingIsPosting'
  BY <1>1, <1>2 DEF AtWorkApart, WaitingIsPosting
<1>6. NotSentAgain'
  BY <1>1, <1>2, <1>3 DEF NotSentAgain
<1>7. NoResultTwice' /\ AnsweredIsKnown' /\ StoredHasContents' /\ RefusedIsOver' /\ StartedInTime'
  BY <1>1 DEF NoResultTwice, AnsweredIsKnown, StoredHasContents, RefusedIsOver, StartedInTime
<1> QED BY <1>4, <1>5, <1>6, <1>7

(* A restart of the controller forgets posts, but it remembers that they were *)
(* seen only in the history: no worker sends them again.                      *)
LEMMA DeliveryRestart ==
  ASSUME Workshop, Delivery, Restart
  PROVE  Delivery'
<1> USE DEF Delivery
<1>1. /\ forgotten' = forgotten \cup accepted
      /\ accepted' = {} /\ arrived' = {}
      /\ UNCHANGED <<now, running, posting, started, failed, blank, waiting, answered,
                  refused, acked>>
  BY DEF Restart, W!Restart, W!Dispenser!Restart
<1>2. Sent' \subseteq Sent
  BY <1>1 DEF Sent
<1>3. SentIsStarted' /\ AtWorkIsStarted' /\ waiting' \in [Workers -> SUBSET started']
  BY <1>1, <1>2 DEF SentIsStarted, AtWorkIsStarted
<1>4. AtWorkApart' /\ WaitingIsPosting' /\ NotSentAgain'
  BY <1>1, <1>2 DEF AtWorkApart, WaitingIsPosting, NotSentAgain
<1>5. NoResultTwice' /\ AnsweredIsKnown' /\ StoredHasContents' /\ RefusedIsOver' /\ StartedInTime'
  BY <1>1 DEF NoResultTwice, AnsweredIsKnown, StoredHasContents, RefusedIsOver, StartedInTime
<1> QED BY <1>3, <1>4, <1>5

LEMMA DeliveryNext == Workshop /\ Delivery /\ [Next]_vars => Delivery'
  BY DeliveryQuiet, QuietSteps, DeliveryRun, DeliveryFinish, DeliverySend, DeliveryComplete,
     DeliveryAcknowledged, DeliveryGiveUpPost, DeliveryRestart DEF Next

LEMMA DeliveryInvariance == Spec => []Delivery
<1>1. WP!TypeOK /\ WP!OwnInv /\ Delivery /\ [Next]_vars => Delivery'
  BY WorkshopIs, DeliveryNext
<1> QED BY <1>1, DeliveryInit, WorkerInvariance, PTL DEF Spec

(* A result reaches the controller once: a post that fails ends the worker    *)
(* instead of being repeated, and no execution is with two workers            *)
(* (runExecutionAndPostResult, apiWorkerComplete).                            *)
THEOREM DeliveredOnce == Spec => []NoResultTwice
<1>1. Delivery => NoResultTwice
  BY DEF Delivery
<1> QED BY <1>1, DeliveryInvariance, PTL

(* What the worker believes delivered was stored, or logged as a failure, or  *)
(* refused by the controller; what is stored had contents, was not refused,   *)
(* was executed in its time and was handed out by the controller              *)
(* (apiWorkerComplete, runExecutionAndPostResult).                           *)
THEOREM NothingUnaccounted == Spec => []ResultsAreAccounted
<1>1. WP!OwnInv /\ Delivery => ResultsAreAccounted
  <2> SUFFICES ASSUME WP!OwnInv, Delivery
               PROVE  ResultsAreAccounted
    OBVIOUS
  <2>1. acked \subseteq failed \cup accepted \cup forgotten \cup refused
    BY DEF Delivery, AnsweredIsKnown
  <2>2. \A x \in started : x.epoch = epoch => [job |-> x.job, time |-> x.time] \in handed
    BY DEF WP!OwnInv, WP!StartedIsHanded, WP!KnownIsHanded
  <2>3. \A x \in accepted \cup forgotten :
          x \in started \ (failed \cup blank \cup refused) /\ x.time <= now
    BY DEF Delivery, SentIsStarted, Sent, StoredHasContents, RefusedIsOver, StartedInTime
  <2> QED BY <2>1, <2>2, <2>3 DEF ResultsAreAccounted
<1> QED BY <1>1, DeliveryInvariance, WorkerInvariance, PTL

-----------------------------------------------------------------------------
(* Type correctness: what goes around are executions of runs of the cron      *)
(* expressions.                                                               *)

CronRuns == {x \in [job : DeviceJobs, time : Nat] : x.time \in CronTimes[x.job]}

OnCron ==
  /\ epoch \in 0 .. MaxRestarts
  /\ handed \subseteq CronRuns
  /\ started \subseteq Results
  /\ \A w \in Workers : timers[w] \subseteq Results

QueueTyped ==
  /\ writing \in [Pool -> SUBSET Results]
  /\ written \subseteq Results

LEMMA ResultOf ==
  ASSUME NEW x \in CronRuns, NEW e \in 0 .. MaxRestarts
  PROVE  [job |-> x.job, time |-> x.time, epoch |-> e] \in Results
<1> DEFINE d == x.job
<1>1. d \in DeviceJobs /\ x.time \in CronTimes[d]
  BY DEF CronRuns
<1>2. [job |-> d, time |-> x.time, epoch |-> e] \in
        [job : {d}, time : CronTimes[d], epoch : 0 .. MaxRestarts]
  BY <1>1
<1> QED BY <1>1, <1>2 DEF Results

LEMMA OnCronGive ==
  ASSUME WP!TypeOK, OnCron, NEW h \in Handlers, W!Give(h)
  PROVE  OnCron'
<1>1. PICK x \in W!Dispenser!Due(open[h]) : handed' = handed \cup {x}
  BY DEF W!Give, W!Dispenser!Give
<1>2. open[h].scope \subseteq DeviceJobs
  BY DEF WP!TypeOK
<1>3. x \in CronRuns
  BY <1>1, <1>2, WorkerAssumption DEF W!Dispenser!Due, CronRuns, WP!ConstantsAssumption
<1>4. UNCHANGED <<epoch, started, timers>>
  BY DEF W!Give, W!history
<1> QED BY <1>1, <1>3, <1>4 DEF OnCron

LEMMA OnCronAnswer ==
  ASSUME WP!TypeOK, WP!OwnInv, OnCron, NEW w \in Workers, W!Answer(w)
  PROVE  OnCron'
<1> DEFINE h == loop[w].handler
<1>1. /\ timers' = [timers EXCEPT ![w] = @ \cup W!Answered(open[h].got)]
      /\ h # NoHandler
      /\ UNCHANGED <<epoch, started, handed>>
  BY DEF W!Answer, W!Dispenser!Close
<1>2. h \in Handlers
  BY <1>1 DEF WP!TypeOK, WP!Loops
<1>3. W!Range(open[h].got) \subseteq CronRuns
  BY <1>2 DEF WP!OwnInv, WP!AnswersAreHanded, WP!InAnswer, WP!Range, W!Range, OnCron
<1>4. W!Answered(open[h].got) \subseteq Results
  BY <1>3, ResultOf DEF W!Answered, OnCron
<1>5. timers \in [Workers -> SUBSET WP!Executions]
  BY DEF WP!TypeOK
<1> QED BY <1>1, <1>4, <1>5 DEF OnCron

LEMMA OnCronExecution ==
  ASSUME WP!TypeOK, OnCron, NEW w \in Workers,
         \/ \E x \in timers[w] : W!Run(w, x)
         \/ \E x \in running[w] : W!Finish(w, x)
         \/ \E x \in posting[w] : W!Post(w, x) \/ W!PostFails(w, x)
  PROVE  OnCron'
<1> USE DEF W!controller, W!history, OnCron
<1>0. timers \in [Workers -> SUBSET WP!Executions]
  BY DEF WP!TypeOK
<1>1. ASSUME NEW x \in timers[w], W!Run(w, x)
      PROVE  OnCron'
  BY <1>0, <1>1 DEF W!Run
<1>2. ASSUME NEW x \in running[w], W!Finish(w, x)
      PROVE  OnCron'
  BY <1>2 DEF W!Finish
<1>3. ASSUME NEW x \in posting[w], W!Post(w, x) \/ W!PostFails(w, x)
      PROVE  OnCron'
  BY <1>0, <1>3 DEF W!Post, W!PostFails
<1> QED BY <1>1, <1>2, <1>3

LEMMA OnCronNext == WP!TypeOK /\ WP!OwnInv /\ OnCron /\ [W!Next]_(W!vars) => OnCron'
<1> SUFFICES ASSUME WP!TypeOK, WP!OwnInv, OnCron, [W!Next]_(W!vars)
             PROVE  OnCron'
  OBVIOUS
<1> USE DEF W!controller, W!history
<1>1. ASSUME NEW w \in Workers, W!Ask(w)
      PROVE  OnCron'
  <2>1. handed' = handed
    BY <1>1 DEF W!Ask, W!Dispenser!Open
  <2> QED BY <1>1, <2>1 DEF W!Ask, OnCron
<1>2. ASSUME NEW w \in Workers, W!Full(w) \/ W!GiveUp(w) \/ W!Wake(w) \/ W!StartAgain(w)
      PROVE  OnCron'
  BY <1>2 DEF W!Full, W!GiveUp, W!Wake, W!StartAgain, OnCron
<1>3. ASSUME NEW h \in Handlers, W!AnswerNobody(h)
      PROVE  OnCron'
  BY <1>3 DEF W!AnswerNobody, W!Dispenser!Close, OnCron
<1>4. ASSUME W!Restart
      PROVE  OnCron'
  BY <1>4, WorkerAssumption DEF W!Restart, W!Dispenser!Restart, OnCron, WP!ConstantsAssumption
<1>5. ASSUME W!Tick
      PROVE  OnCron'
  BY <1>5 DEF W!Tick, W!Dispenser!Tick, OnCron
<1>6. CASE UNCHANGED W!vars
  BY <1>6 DEF W!vars, OnCron
<1> QED BY <1>1, <1>2, <1>3, <1>4, <1>5, <1>6, OnCronGive, OnCronAnswer, OnCronExecution
        DEF W!Next

LEMMA QueueTypedNext == OnCron /\ Delivery /\ QueueTyped /\ [Next]_vars => QueueTyped'
<1> SUFFICES ASSUME OnCron, Delivery, QueueTyped, [Next]_vars
             PROVE  QueueTyped'
  OBVIOUS
<1> USE DEF QueueTyped, queue
<1>1. ASSUME NEW p \in Pool, Take(p)
      PROVE  QueueTyped'
  <2>1. PICK S \in SUBSET accepted : Queue!Begin(p, S)
    BY <1>1 DEF Take
  <2>2. S \subseteq Results
    BY <2>1 DEF Delivery, SentIsStarted, Sent, OnCron
  <2> QED BY <2>1, <2>2 DEF Queue!Begin
<1>2. ASSUME NEW p \in Pool, Write(p) \/ Release(p)
      PROVE  QueueTyped'
  BY <1>2 DEF Write, Release, Queue!Write, Queue!Release
<1>3. CASE Restart
  BY <1>3 DEF Restart
<1>4. ASSUME NEW x \in arrived, Complete(x)
      PROVE  QueueTyped'
  BY <1>4 DEF Complete, Queue!Accept
<1>5. ASSUME NEW w \in Workers,
             \/ Loop(w) \/ StartAgain(w)
             \/ \E x \in timers[w] : Run(w, x)
             \/ \E x \in running[w] : Finish(w, x)
             \/ \E x \in posting[w] : Send(w, x) \/ Acknowledged(w, x) \/ GiveUpPost(w, x)
      PROVE  QueueTyped'
  BY <1>5 DEF Loop, StartAgain, Run, Finish, Send, Acknowledged, GiveUpPost
<1>6. CASE Tick \/ (\E h \in Handlers : Hand(h)) \/ UNCHANGED vars
  BY <1>6 DEF Tick, Hand, vars
<1> QED BY <1>1, <1>2, <1>3, <1>4, <1>5, <1>6 DEF Next

LEMMA TypeOKIs == WP!TypeOK /\ OnCron /\ Delivery /\ QueueTyped => TypeOK
<1> SUFFICES ASSUME WP!TypeOK, OnCron, Delivery, QueueTyped
             PROVE  TypeOK
  OBVIOUS
<1>1. W!TypeOK
  BY DEF WP!TypeOK, W!TypeOK, WP!Executions, W!Executions, WP!Loops, W!Loops,
         WP!Never, W!Never
<1>2. /\ Sent \cup failed \cup blank \subseteq Results
      /\ waiting \in [Workers -> SUBSET Results]
  BY DEF Delivery, SentIsStarted, OnCron
<1> QED BY <1>1, <1>2 DEF TypeOK, Sent, QueueTyped

(* Every reachable state is well typed: all that is executed, posted, stored  *)
(* and written are executions of runs of the cron expressions.                *)
THEOREM TypeCorrect == Spec => []TypeOK
<1>1. Init => OnCron /\ QueueTyped
  BY WorkerAssumption DEF Init, W!Init, W!Dispenser!Init, Queue!Init, OnCron, QueueTyped,
     WP!ConstantsAssumption
<1>2. WP!TypeOK /\ WP!OwnInv /\ OnCron /\ [Next]_vars => OnCron'
  BY OnCronNext, WorkerStep
<1>3. OnCron /\ Delivery /\ QueueTyped /\ [Next]_vars => QueueTyped'
  BY QueueTypedNext
<1> QED BY <1>1, <1>2, <1>3, TypeOKIs, WorkerInvariance, DeliveryInvariance, PTL DEF Spec

=============================================================================
