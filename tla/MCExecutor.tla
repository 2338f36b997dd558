------------------------------ MODULE MCExecutor ------------------------------
(***************************************************************************)
(* Constants for model-checking Executor.                                  *)
(***************************************************************************)
EXTENDS Executor

CONSTANTS good, bad, key

Command(expect, expectNot, timeout) ==
  [expect |-> expect, expectNot |-> expectNot, timeout |-> timeout, compiles |-> TRUE]

(* A command that is not waited for and one with expectations; one that only  *)
(* must not fail and one with a pattern that does not compile; files.         *)
ThreeJobs ==
  {[files |-> FALSE, scrub |-> TRUE,
    commands |-> <<Command({}, {}, 0), Command({good}, {bad}, 2)>>],
   [files |-> FALSE, scrub |-> FALSE,
    commands |-> <<Command({}, {bad}, 1),
                   [Command({good}, {}, 1) EXCEPT !.compiles = FALSE]>>],
   [files |-> TRUE, scrub |-> TRUE, commands |-> <<>>]}

=============================================================================
