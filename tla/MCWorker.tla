------------------------------- MODULE MCWorker -------------------------------
(***************************************************************************)
(* Constants for model-checking Worker.                                    *)
(***************************************************************************)
EXTENDS Worker, TLC

(* A run that the first request gets, and one beyond the window of that       *)
(* request.                                                                   *)
Cron == [d \in DeviceJobs |-> {2, 6}]

Everything == [w \in Workers |-> DeviceJobs]

Symmetry == Permutations(Workers)

=============================================================================
