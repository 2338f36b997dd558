------------------------------- MODULE MCFusty -------------------------------
(***************************************************************************)
(* Constants for model-checking Fusty.                                     *)
(***************************************************************************)
EXTENDS Fusty

(* Each start of the controller hands the run out once. *)
Cron == [d \in DeviceJobs |-> {1}]

Everything == [w \in Workers |-> DeviceJobs]

=============================================================================
