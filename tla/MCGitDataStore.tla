--------------------------- MODULE MCGitDataStore ---------------------------
(***************************************************************************)
(* Constants for model-checking GitDataStore.                              *)
(***************************************************************************)
EXTENDS GitDataStore, TLC

CONSTANTS ra, rb, rc, rd, k1, k2

(* Two keys: three results of k1 and one of k2. *)
TwoKeys == [j \in Jobs |-> IF j = rd THEN k2 ELSE k1]

(* ra and rb are executions for the same second, so they have the same id; rc *)
(* is a later one.                                                            *)
SharedIds == [j \in Jobs |-> IF j = rc THEN 2 ELSE 1]

OneKey == [j \in Jobs |-> k1]

Symmetry == Permutations(Workers)

=============================================================================
