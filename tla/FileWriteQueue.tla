--------------------------- MODULE FileWriteQueue ---------------------------
(***************************************************************************)
(* What the git data store promises (docs/data.md, Pools and Atomicness):  *)
(* the results of one job on one device go to one file; writes to a file   *)
(* are queued behind the write in progress on that file; when a pool       *)
(* member becomes available it takes everything that is queued; and every  *)
(* accepted result stays due until a write of it was attempted.  The       *)
(* promise is at-least-once: nothing here forbids that a result is written *)
(* again, and the outcome of the git commands is not part of it.           *)
(*                                                                         *)
(* GitDataStore implements this specification.                             *)
(***************************************************************************)
EXTENDS Naturals

CONSTANTS
  Jobs,     \* the results that may be handed to the data store
  Files,    \* the files they are written to
  FileOf,   \* the file of each result
  Workers   \* the members of the pool

VARIABLES
  accepted, \* results the data store has taken
  writing,  \* per worker, the results it took and has not let go of
  written   \* results that went through a write at least once

vars == <<accepted, writing, written>>

(* A file is busy while some worker holds a result for it. *)
Busy(f) == \E w \in Workers : \E j \in writing[w] : FileOf[j] = f

(* Accepted results that were never written and whose file is free. *)
Due == {j \in accepted \ written : ~ Busy(FileOf[j])}

Init ==
  /\ accepted = {}
  /\ writing = [w \in Workers |-> {}]
  /\ written = {}

Accept(j) ==
  /\ j \notin accepted
  /\ accepted' = accepted \cup {j}
  /\ UNCHANGED <<writing, written>>

(* A free worker takes accepted results of free files, all the due ones among *)
(* them.                                                                      *)
Begin(w, S) ==
  /\ writing[w] = {}
  /\ Due \subseteq S
  /\ \A j \in S : ~ Busy(FileOf[j])
  /\ writing' = [writing EXCEPT ![w] = S]
  /\ UNCHANGED <<accepted, written>>

Write(w) ==
  /\ written' = written \cup writing[w]
  /\ UNCHANGED <<accepted, writing>>

(* A worker lets go of its files only when what it took has been written. *)
Release(w) ==
  /\ writing[w] \subseteq written
  /\ writing' = [writing EXCEPT ![w] = {}]
  /\ UNCHANGED <<accepted, written>>

Next ==
  \/ \E j \in Jobs : Accept(j)
  \/ \E w \in Workers :
        \/ \E S \in SUBSET accepted : Begin(w, S)
        \/ Write(w)
        \/ Release(w)

Spec == Init /\ [][Next]_vars

-----------------------------------------------------------------------------

(* Two workers never write the same file at the same time. *)
OneWriterPerFile ==
  \A v, w \in Workers : \A i \in writing[v], j \in writing[w] :
    FileOf[i] = FileOf[j] => v = w

=============================================================================
