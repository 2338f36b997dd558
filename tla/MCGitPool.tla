------------------------------ MODULE MCGitPool ------------------------------
(***************************************************************************)
(* Constants for model-checking GitPool.                                   *)
(***************************************************************************)
EXTENDS GitPool, TLC

CONSTANTS ra, rb, rc, f1, f2

(* Two results of one file and one of another. *)
TwoFiles == [j \in Jobs |-> IF j = rc THEN f2 ELSE f1]

(* All different. *)
OwnContent == [j \in Jobs |-> j]

(* ra and rb differ in nothing but their contents. *)
Symmetry == Permutations(Workers) \cup Permutations({ra, rb})

=============================================================================
