----------------------------- MODULE RunDispenser -----------------------------
(***************************************************************************)
(* What the controller promises to those who ask for runs (docs/api.md:15, *)
(* "Exclusively obtain the next set of jobs for the next N seconds         *)
(* guaranteeing that no more than M jobs are returned"): a run is handed   *)
(* out once since the controller was started, while it is still to come,   *)
(* the runs of a device job in order; and a request that gets less than it *)
(* asked for leaves nothing to do in its window.                           *)
(*                                                                         *)
(* Scheduler implements it.                                                *)
(***************************************************************************)
EXTENDS Integers, Sequences

CONSTANTS
  DeviceJobs, \* the jobs of the devices
  CronTimes,  \* per device job, the instants it is to run at
  Handlers,   \* the requests that can be open at once
  Scopes,     \* the sets of device jobs that requests can reach
  Seconds,    \* the window lengths that requests ask for
  Maxima      \* the numbers of runs that requests ask for

VARIABLES
  now,    \* the clock of the controller
  handed, \* the runs handed out since the controller was started
  open    \* per handler, its request

vars == <<now, handed, open>>

NoRequest == [on |-> FALSE, scope |-> {}, before |-> 0, max |-> 0, got |-> <<>>]

(* The runs of a request's window that are still to come and were handed to   *)
(* nobody.                                                                    *)
Due(r) ==
  (UNION {{[job |-> d, time |-> t] : t \in {u \in CronTimes[d] : now < u /\ u < r.before}} :
            d \in r.scope}) \ handed

Init ==
  /\ now = 0
  /\ handed = {}
  /\ open = [h \in Handlers |-> NoRequest]

Open(h, scope, seconds, max) ==
  /\ ~ open[h].on
  /\ open' = [open EXCEPT ![h] =
       [on |-> TRUE, scope |-> scope, before |-> now + seconds, max |-> max, got |-> <<>>]]
  /\ UNCHANGED <<now, handed>>

(* A due run is handed out, the first of its device job. *)
Give(h) ==
  /\ open[h].on
  /\ Len(open[h].got) < open[h].max
  /\ \E x \in Due(open[h]) :
       /\ handed' = handed \cup {x}
       /\ open' = [open EXCEPT ![h].got = Append(@, x)]
       /\ \A y \in Due(open[h]) : y.job = x.job => x.time <= y.time
  /\ UNCHANGED now

Close(h) ==
  /\ open[h].on
  /\ Len(open[h].got) >= open[h].max \/ Due(open[h]) = {}
  /\ open' = [open EXCEPT ![h] = NoRequest]
  /\ UNCHANGED <<now, handed>>

Tick ==
  /\ now' = now + 1
  /\ UNCHANGED <<handed, open>>

(* The controller forgets everything and starts again. *)
Restart ==
  /\ handed' = {}
  /\ open' = [h \in Handlers |-> NoRequest]
  /\ UNCHANGED now

Next ==
  \/ \E h \in Handlers :
       \/ \E scope \in Scopes, seconds \in Seconds, max \in Maxima :
            Open(h, scope, seconds, max)
       \/ Give(h)
       \/ Close(h)
  \/ Tick
  \/ Restart

Spec == Init /\ [][Next]_vars

=============================================================================
