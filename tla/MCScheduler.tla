----------------------------- MODULE MCScheduler -----------------------------
(***************************************************************************)
(* Constants for model-checking Scheduler: p and q are jobs of an untagged *)
(* device and of one with the tag x; s is a job of a device that has the   *)
(* tags x and y, so it is in two lists.                                    *)
(***************************************************************************)
EXTENDS Scheduler, TLC

CONSTANTS p, q, s, x, y

Lists == [t \in Tags |-> CASE t = Untagged -> <<p>>
                           [] t = x -> <<q, s>>
                           [] t = y -> <<s>>]

(* Runs at the same instant of several device jobs, and windows with several *)
(* runs of one of them.                                                      *)
Cron == [d \in DeviceJobs |-> IF d = p THEN {2, 3} ELSE {1, 2, 4}]

(* A worker without tags, one with y before x. *)
TwoQueries == {<<>>, <<y, x>>}

Symmetry == Permutations(Handlers)

=============================================================================
