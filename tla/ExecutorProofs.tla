---------------------------- MODULE ExecutorProofs ----------------------------
(***************************************************************************)
(* Proofs about an execution, for every set of jobs and pieces of output   *)
(* and every amount of output.                                             *)
(*                                                                         *)
(* The output is in three places: buff, the slice that is being copied and *)
(* the cells that were not taken.  The parts of the invariant say by index *)
(* which piece of the device's output each place has, once for any slice   *)
(* and once for those that were not written over while in use.             *)
(***************************************************************************)
EXTENDS Executor, SequenceTheorems, TLAPS

(* The stages with a shell, those of a command and those of its rounds. *)
RoundStages == {"read", "copyThis", "copyBuff", "check", "pause"}
CommandStages == RoundStages \cup {"clearing", "type"}
ShellStages == CommandStages \cup {"settle", "clear"}

(* The stages in which a slice of the buffer is in use. *)
Copying == {"clearing", "copyThis", "copyBuff"}

(* The first cell of the slice that buff does not have, how many of those     *)
(* there are, and how many pieces thisCommandBytes has that buff does not.    *)
First == IF stage = "copyThis" THEN 1 ELSE next

Left == IF stage \in Copying THEN view + 1 - First ELSE 0

Ahead ==
  CASE stage = "copyThis" -> next - 1
    [] stage = "copyBuff" -> view + 1 - next
    [] OTHER -> 0

(* What the stage tells of the job, the command and the failure. *)
Control ==
  /\ stage = "fetch" => job.files
  /\ stage \in ShellStages => ~ job.files
  /\ stage \in {"connect", "settle", "fetch"} => buff = <<>>
  /\ stage \in CommandStages => command <= Len(job.commands)
  /\ stage \notin {"scrub", "done"} => failure = "none"

(* Every piece is in one of the three places. *)
AllIsKept == ~ job.files => Len(buff) + Left + len = Len(sent) - from

(* What was not taken is in the buffer. *)
RestIsPending == taken + len = Len(sent)

(* The cells that were not taken have the latest output, torn slice or not. *)
CellsAreLatest == \A i \in 1 .. len : cells[i] = sent[Len(sent) - len + i]

(* A cell of the slice has the piece that is due, or a later one that was     *)
(* written over it.                                                           *)
SliceIsRecent ==
  stage \in Copying =>
    \A i \in First .. view :
      \E j \in Len(buff) + i - First + 1 .. Len(sent) - from : cells[i] = sent[from + j]

SliceIsExact ==
  stage \in Copying /\ ~ torn =>
    \A i \in First .. view : cells[i] = sent[from + Len(buff) + i - First + 1]

(* The same for buff. *)
BuffIsRecent ==
  ~ job.files => \A k \in 1 .. Len(buff) : \E j \in k .. Len(sent) - from : buff[k] = sent[from + j]

BuffIsExact ==
  ~ job.files /\ ~ torn => \A k \in 1 .. Len(buff) : buff[k] = sent[from + k]

(* thisCommandBytes has what was taken since the command was typed. *)
ThisIsExact ==
  stage \in RoundStages =>
    /\ Len(this) = Len(buff) - base + Ahead
    /\ ~ torn => \A k \in 1 .. Len(this) : this[k] = sent[from + base + k]

(* A round is made only if there is one left, and the loop goes on only if    *)
(* nothing matched.                                                           *)
RoundsAreLeft ==
  /\ stage = "read" => round <= Cmd.timeout
  /\ stage \in RoundStages \ {"read"} => round < Cmd.timeout

NothingMatched ==
  stage \in {"read", "pause"} => ~ Matches(Cmd.expect, this) /\ ~ Matches(Cmd.expectNot, this)

(* What leaves the worker is buff, scrubbed, or nothing and a failure. *)
FileIsScrubbed ==
  stage = "done" =>
    \/ file = IF job.scrub THEN Scrubbed(buff) ELSE buff
    \/ file = <<>> /\ failure # "none"

(* The inductive invariant.  That a verdict is about what the device sent     *)
(* rests on thisCommandBytes having it, which rests on the slices, which rest *)
(* on the cells.                                                              *)
IInv ==
  /\ TypeOK
  /\ Control
  /\ AllIsKept
  /\ RestIsPending
  /\ CellsAreLatest
  /\ SliceIsRecent
  /\ SliceIsExact
  /\ BuffIsRecent
  /\ BuffIsExact
  /\ ThisIsExact
  /\ RoundsAreLeft
  /\ NothingMatched
  /\ FailureIsJustified
  /\ FileIsScrubbed

-----------------------------------------------------------------------------
(* The operators. *)

(* Patterns match only what is in the output. *)
LEMMA MatchesMonotone ==
  ASSUME NEW pieces, NEW s, NEW t, Range(s) = Range(t)
  PROVE  Matches(pieces, s) <=> Matches(pieces, t)
BY DEF Matches

LEMMA NothingMatchesEmpty ==
  ASSUME NEW pieces
  PROVE  ~ Matches(pieces, <<>>)
BY DEF Matches, Range

(* Scrubbing gives output again. *)
LEMMA ScrubbedType ==
  ASSUME NEW s \in Seq(Pieces)
  PROVE  Scrubbed(s) \in Seq(Pieces)
<1> USE ConstantsAssumption
<1>1. Len(s) \in Nat /\ DOMAIN s = 1 .. Len(s)
  OBVIOUS
<1>2. Scrubbed(s) = [i \in 1 .. Len(s) |-> IF s[i] \in Secret THEN Mask ELSE s[i]]
  BY <1>1 DEF Scrubbed
<1>3. Scrubbed(s) \in [1 .. Len(s) -> Pieces]
  BY <1>2
<1> QED BY <1>1, <1>3

(* A command of the job. *)
LEMMA CommandType ==
  ASSUME TypeOK, command <= Len(job.commands)
  PROVE  Cmd \in Commands
<1>1. job.commands \in Seq(Commands) /\ command \in 1 .. Len(job.commands)
  BY ConstantsAssumption DEF TypeOK, Jobs
<1> QED BY <1>1 DEF Cmd

(* Write puts the piece after the ones that were not taken, and only the cell *)
(* of the piece changes.                                                      *)
LEMMA WritesOneCell ==
  ASSUME TypeOK, NEW p \in Pieces, Write(p)
  PROVE  /\ stage \in ShellStages
         /\ UNCHANGED <<job, stage, command, round, view, next, this, buff, file, failure, taken, from,
                        base>>
         /\ len' = len + 1
         /\ torn' = (torn \/ len < view)
         /\ cells' \in Seq(Pieces)
         /\ Len(cells') >= Len(cells) /\ Len(cells') >= len + 1
         /\ cells'[len + 1] = p
         /\ \A i \in 1 .. Len(cells) : i # len + 1 => cells'[i] = cells[i]
         /\ sent' \in Seq(Pieces)
         /\ Len(sent') = Len(sent) + 1
         /\ sent'[Len(sent) + 1] = p
         /\ \A i \in 1 .. Len(sent) : sent'[i] = sent[i]
<1>1. /\ cells \in Seq(Pieces) /\ sent \in Seq(Pieces) /\ len \in 0 .. Len(cells)
      /\ cells' = IF len < Len(cells) THEN [cells EXCEPT ![len + 1] = p] ELSE Append(cells, p)
      /\ sent' = Append(sent, p)
  BY DEF TypeOK, Write
<1> DEFINE Cells ==
             /\ cells' \in Seq(Pieces)
             /\ Len(cells') >= Len(cells) /\ Len(cells') >= len + 1
             /\ cells'[len + 1] = p
             /\ \A i \in 1 .. Len(cells) : i # len + 1 => cells'[i] = cells[i]
             /\ sent' \in Seq(Pieces)
             /\ Len(sent') = Len(sent) + 1
             /\ sent'[Len(sent) + 1] = p
             /\ \A i \in 1 .. Len(sent) : sent'[i] = sent[i]
<1>2. ASSUME len < Len(cells)
      PROVE  Cells
  BY <1>1, <1>2
<1>3. ASSUME ~ (len < Len(cells))
      PROVE  Cells
  <2>1. len = Len(cells) /\ cells' = Append(cells, p)
    BY <1>1, <1>3
  <2> QED BY <1>1, <2>1
<1>4. stage \in ShellStages
  BY DEF TypeOK, Write, Stages, ShellStages, CommandStages, RoundStages
<1>5. /\ UNCHANGED <<job, stage, command, round, view, next, this, buff, file, failure, taken, from,
                     base>>
      /\ len' = len + 1
      /\ torn' = (torn \/ len < view)
  BY DEF Write, output, history
<1> QED BY <1>2, <1>3, <1>4, <1>5

(* The steps that leave the output where it is. *)
Quiet ==
  /\ UNCHANGED <<job, buffer, view, next, buff, from>>
  /\ stage \notin Copying /\ stage' \notin Copying

LEMMA QuietSteps ==
  ASSUME TypeOK, Connect \/ Finish \/ Type \/ TimedOut \/ Check \/ Pause \/ Scrub
  PROVE  Quiet
BY DEF Quiet, Connect, Finish, Type, TimedOut, Check, Pause, Scrub, Leave, Copying, output, history

(* Copying goes on with the same slice. *)
LEMMA CopySteps ==
  ASSUME TypeOK, CopyCell
  PROVE  /\ UNCHANGED <<job, stage, cells, len, sent, torn, taken, view, from, base>>
         /\ next \in 1 .. view /\ view \in 0 .. Len(cells) /\ cells[next] \in Pieces
         /\ next' = next + 1
         /\ stage \in Copying
         /\ stage = "copyThis" =>
              /\ buff' = buff
              /\ this' \in Seq(Pieces)
              /\ Len(this') = Len(this) + 1
              /\ this'[Len(this) + 1] = cells[next]
              /\ \A k \in 1 .. Len(this) : this'[k] = this[k]
         /\ stage # "copyThis" =>
              /\ this' = this
              /\ buff' \in Seq(Pieces)
              /\ Len(buff') = Len(buff) + 1
              /\ buff'[Len(buff) + 1] = cells[next]
              /\ \A k \in 1 .. Len(buff) : buff'[k] = buff[k]
<1>1. /\ UNCHANGED <<job, stage, cells, len, sent, torn, taken, view, from, base>>
      /\ next' = next + 1
      /\ next \in 1 .. view /\ view \in 0 .. Len(cells)
      /\ cells \in Seq(Pieces) /\ this \in Seq(Pieces) /\ buff \in Seq(Pieces)
  BY DEF TypeOK, CopyCell, buffer, history
<1>2. cells[next] \in Pieces
  BY <1>1
<1>3. \/ stage \in {"clearing", "copyBuff"} /\ buff' = Append(buff, cells[next]) /\ this' = this
      \/ stage = "copyThis" /\ this' = Append(this, cells[next]) /\ buff' = buff
  BY DEF CopyCell
<1>4. ASSUME NEW s \in Seq(Pieces), NEW t, t = Append(s, cells[next])
      PROVE  /\ t \in Seq(Pieces)
             /\ Len(t) = Len(s) + 1
             /\ t[Len(s) + 1] = cells[next]
             /\ \A k \in 1 .. Len(s) : t[k] = s[k]
  BY <1>2, <1>4
<1>5. CASE stage = "copyThis"
  <2>1. this' = Append(this, cells[next]) /\ buff' = buff
    BY <1>3, <1>5
  <2>2. /\ this' \in Seq(Pieces) /\ Len(this') = Len(this) + 1
        /\ this'[Len(this) + 1] = cells[next]
        /\ \A k \in 1 .. Len(this) : this'[k] = this[k]
    BY <1>1, <1>4, <2>1
  <2> QED BY <1>1, <1>2, <1>5, <2>1, <2>2 DEF Copying
<1>6. CASE stage # "copyThis"
  <2>1. stage \in {"clearing", "copyBuff"} /\ buff' = Append(buff, cells[next]) /\ this' = this
    BY <1>3, <1>6
  <2>2. /\ buff' \in Seq(Pieces) /\ Len(buff') = Len(buff) + 1
        /\ buff'[Len(buff) + 1] = cells[next]
        /\ \A k \in 1 .. Len(buff) : buff'[k] = buff[k]
    BY <1>1, <1>4, <2>1
  <2> QED BY <1>1, <1>2, <1>6, <2>1, <2>2 DEF Copying
<1> QED BY <1>5, <1>6

-----------------------------------------------------------------------------
(* The invariant is inductive: one lemma for each part. *)

LEMMA InitIInv == Init => IInv
<1> SUFFICES ASSUME Init PROVE IInv
  OBVIOUS
<1>1. /\ job \in JobSet /\ Len(job.commands) \in Nat
      /\ <<>> \in Seq(Pieces) /\ Len(<<>>) = 0
  BY ConstantsAssumption DEF Init, Jobs
<1>2. TypeOK
  <2>1. command \in 1 .. Len(job.commands) + 1 /\ round \in Nat
    BY <1>1 DEF Init
  <2>2. len \in 0 .. Len(cells) /\ view \in 0 .. Len(cells) /\ next \in 1 .. view + 1
    BY <1>1 DEF Init
  <2>3. taken \in 0 .. Len(sent) /\ from \in 0 .. Len(sent) /\ base \in 0 .. Len(buff)
    BY <1>1 DEF Init
  <2> QED BY <1>1, <2>1, <2>2, <2>3 DEF Init, TypeOK, Stages, Failures
<1>3. Control /\ AllIsKept /\ RestIsPending /\ CellsAreLatest
  BY <1>1 DEF Init, Control, AllIsKept, RestIsPending, CellsAreLatest, Left, Copying, ShellStages,
     CommandStages, RoundStages
<1>4. SliceIsRecent /\ SliceIsExact /\ BuffIsRecent /\ BuffIsExact
  BY <1>1 DEF Init, SliceIsRecent, SliceIsExact, BuffIsRecent, BuffIsExact, Copying
<1>5. ThisIsExact /\ RoundsAreLeft /\ NothingMatched /\ FailureIsJustified /\ FileIsScrubbed
  BY DEF Init, ThisIsExact, RoundsAreLeft, NothingMatched, FailureIsJustified, FileIsScrubbed,
     RoundStages
<1> QED BY <1>2, <1>3, <1>4, <1>5 DEF IInv

LEMMA TypeStep == IInv /\ [Next]_vars => TypeOK'
<1> SUFFICES ASSUME IInv, [Next]_vars PROVE TypeOK'
  OBVIOUS
<1>1. /\ TypeOK /\ Control
      /\ job.commands \in Seq(Commands) /\ <<>> \in Seq(Pieces) /\ Len(<<>>) = 0
      /\ Len(job.commands) \in Nat
  BY ConstantsAssumption DEF IInv, TypeOK, Jobs
<1>2. ASSUME NEW p \in Pieces, Write(p)
      PROVE  TypeOK'
  <2>1. /\ cells' \in Seq(Pieces) /\ Len(cells') >= Len(cells) /\ Len(cells') >= len + 1
        /\ sent' \in Seq(Pieces) /\ Len(sent') = Len(sent) + 1
    BY <1>1, <1>2, WritesOneCell
  <2>2. /\ UNCHANGED <<job, stage, command, round, view, next, this, buff, file, failure, taken, from,
                       base>>
        /\ len' = len + 1 /\ torn' \in BOOLEAN
    BY <1>1, <1>2 DEF Write, output, history, TypeOK
  <2>3. Len(cells) \in Nat /\ Len(cells') \in Nat /\ Len(sent) \in Nat
    BY <1>1, <2>1 DEF TypeOK
  <2>4. /\ len' \in 0 .. Len(cells') /\ view' \in 0 .. Len(cells') /\ from' \in 0 .. Len(sent')
        /\ taken' \in 0 .. Len(sent')
    BY <1>1, <2>1, <2>2, <2>3 DEF TypeOK
  <2> QED BY <1>1, <2>1, <2>2, <2>4 DEF TypeOK
<1>3. CASE Connect
  BY <1>1, <1>3 DEF Connect, Leave, TypeOK, Stages, Failures, buffer, output, history
<1>4. CASE Settle
  BY <1>1, <1>4 DEF Settle, Empty, TypeOK, Stages, output
<1>5. CASE Clear \/ Read
  <2>1. /\ stage' \in {"clearing", "copyThis"} /\ view' = len /\ len' = 0 /\ next' = 1
        /\ taken' = Len(sent)
        /\ UNCHANGED <<job, command, round, cells, this, buff, file, failure, sent, from, base, torn>>
    BY <1>5 DEF Clear, Read, Take, Empty, history
  <2>2. /\ taken' \in 0 .. Len(sent) /\ len' \in 0 .. Len(cells') /\ view' \in 0 .. Len(cells') /\ next' \in 1 .. view' + 1
    BY <1>1, <2>1 DEF TypeOK
  <2> QED BY <1>1, <2>1, <2>2 DEF TypeOK, Stages
<1>6. CASE Finish
  BY <1>1, <1>6 DEF Finish, Leave, TypeOK, Stages, Failures, buffer, output, history
<1>7. CASE CopyCell
  <2>1. /\ UNCHANGED <<command, round, file, failure>>
        /\ this' \in Seq(Pieces) /\ buff' \in Seq(Pieces) /\ Len(buff') >= Len(buff)
        /\ next' \in 1 .. view' + 1
    BY <1>1, <1>7, CopySteps DEF CopyCell, TypeOK
  <2>2. Len(buff) \in Nat /\ Len(buff') \in Nat
    BY <1>1, <2>1 DEF TypeOK
  <2>3. base' \in 0 .. Len(buff')
    <3>1. base' = base /\ base \in 0 .. Len(buff)
      BY <1>1, <1>7, CopySteps DEF TypeOK
    <3> QED BY <2>1, <2>2, <3>1
  <2> QED BY <1>1, <1>7, <2>1, <2>3, CopySteps DEF TypeOK
<1>8. CASE CopyEnds
  <2>1. /\ stage' \in Stages /\ next' = 1 /\ view' \in {0, view}
        /\ UNCHANGED <<job, command, round, cells, len, this, buff, file, failure, sent, taken, from,
                       base, torn>>
    BY <1>8 DEF CopyEnds, Stages, buffer, history
  <2>2. view' \in 0 .. Len(cells) /\ next' \in 1 .. view' + 1
    <3>1. view \in 0 .. Len(cells) /\ Len(cells) \in Nat
      BY <1>1 DEF TypeOK
    <3>2. view' = 0 \/ view' = view
      BY <2>1
    <3>3. view' \in Nat /\ view' <= Len(cells)
      BY <3>1, <3>2
    <3>4. next' = 1
      BY <2>1
    <3>5. view' \in 0 .. Len(cells)
      BY <3>1, <3>3
    <3>6. next' \in 1 .. view' + 1
      <4>1. \A v \in Nat : 1 \in 1 .. v + 1
        OBVIOUS
      <4>2. 1 \in 1 .. view' + 1
        BY <3>3, <4>1
      <4> QED BY <3>4, <4>2
    <3> QED BY <3>5, <3>6
  <2> QED BY <1>1, <2>1, <2>2 DEF TypeOK
<1>9. CASE Type
  <2>1. /\ stage' \in Stages /\ failure' \in Failures \cup {failure}
        /\ command' \in {command, command + 1} /\ stage \in CommandStages
        /\ round' = 0 /\ this' = <<>> /\ base' = Len(buff)
        /\ UNCHANGED <<job, cells, len, view, next, buff, file, sent, taken, from, torn>>
    BY <1>9 DEF Type, Leave, CommandStages, Stages, Failures, buffer
  <2>2. command' \in 1 .. Len(job.commands) + 1
    BY <1>1, <2>1 DEF TypeOK, Control
  <2>3. base' \in 0 .. Len(buff')
    BY <1>1, <2>1 DEF TypeOK
  <2> QED BY <1>1, <2>1, <2>2, <2>3 DEF TypeOK
<1>10. CASE TimedOut \/ Check
  <2>1. /\ stage' \in Stages /\ failure' \in Failures \cup {failure}
        /\ command' \in {command, command + 1} /\ stage \in CommandStages
        /\ UNCHANGED <<job, round, cells, len, view, next, this, buff, file, sent, taken, from, base,
                       torn>>
    <3>1. CASE TimedOut
      BY <3>1 DEF TimedOut, Leave, CommandStages, RoundStages, Stages, Failures, buffer, output, history
    <3>2. CASE Check
      BY <3>2 DEF Check, Leave, CommandStages, RoundStages, Stages, Failures, buffer, output, history
    <3> QED BY <1>10, <3>1, <3>2
  <2>2. command' \in 1 .. Len(job.commands) + 1
    BY <1>1, <2>1 DEF TypeOK, Control
  <2> QED BY <1>1, <2>1, <2>2 DEF TypeOK
<1>12. CASE Pause
  BY <1>1, <1>12 DEF Pause, TypeOK, Stages, buffer, output, history
<1>13. CASE Fetch
  <2>1. buff = <<>> /\ base = 0
    BY <1>1, <1>13 DEF Fetch, Control, TypeOK
  <2>2. \A p \in Pieces : <<p>> \in Seq(Pieces)
    OBVIOUS
  <2>3. buff' = <<>> \/ \E p \in Pieces : buff' = <<p>>
    BY <1>13, <2>1 DEF Fetch
  <2>4. buff' \in Seq(Pieces)
    BY <1>1, <2>2, <2>3
  <2>5. Len(buff') \in Nat
    BY <2>4
  <2> QED BY <1>1, <1>13, <2>1, <2>4, <2>5 DEF Fetch, Leave, TypeOK, Stages, Failures, buffer, history
<1>14. CASE Scrub
  <2>1. file' \in Seq(Pieces)
    BY <1>1, <1>14, ScrubbedType DEF Scrub, TypeOK
  <2> QED BY <1>1, <1>14, <2>1 DEF Scrub, TypeOK, Stages, Failures, buffer, output, history
<1>15. CASE UNCHANGED vars
  BY <1>1, <1>15 DEF vars, TypeOK, buffer, output, history
<1> QED BY <1>2, <1>3, <1>4, <1>5, <1>6, <1>7, <1>8, <1>9, <1>10, <1>12, <1>13, <1>14,
       <1>15 DEF Next

LEMMA ControlStep == IInv /\ [Next]_vars => Control'
<1> SUFFICES ASSUME IInv, [Next]_vars PROVE Control'
  OBVIOUS
<1> USE DEF Control, ShellStages, CommandStages, RoundStages
<1>1. TypeOK /\ Control
  BY DEF IInv
<1>2. ASSUME NEW p \in Pieces, Write(p)
      PROVE  Control'
  BY <1>1, <1>2 DEF Write, output
<1>3. CASE Connect \/ Settle \/ Finish \/ Fetch
  BY <1>1, <1>3 DEF Connect, Settle, Finish, Fetch, Leave, buffer, output
<1>4. CASE Clear \/ Read
  BY <1>1, <1>4 DEF Clear, Read
<1>5. CASE CopyCell \/ CopyEnds
  BY <1>1, <1>5 DEF CopyCell, CopyEnds
<1>6. CASE Type \/ TimedOut \/ Check
  BY <1>1, <1>6 DEF Type, TimedOut, Check, Leave, output
<1>7. CASE Pause \/ Scrub
  BY <1>1, <1>7 DEF Pause, Scrub, output
<1>8. CASE UNCHANGED vars
  BY <1>1, <1>8 DEF vars, output
<1> QED BY <1>2, <1>3, <1>4, <1>5, <1>6, <1>7, <1>8 DEF Next

LEMMA AllIsKeptStep == IInv /\ [Next]_vars => AllIsKept'
<1> SUFFICES ASSUME IInv, [Next]_vars, ~ job'.files PROVE AllIsKept'
  BY DEF AllIsKept
<1> USE DEF AllIsKept, Left, First, Copying
<1>1. /\ TypeOK /\ Control /\ (~ job.files => AllIsKept)
      /\ Len(buff) \in Nat /\ Len(sent) \in Nat /\ len \in Nat /\ view \in Nat /\ next \in Nat
      /\ from \in Nat
  BY DEF IInv, TypeOK
<1>2. ASSUME NEW p \in Pieces, Write(p)
      PROVE  AllIsKept'
  <2>1. /\ UNCHANGED <<job, stage, view, next, buff, from>>
        /\ len' = len + 1 /\ Len(sent') = Len(sent) + 1
    BY <1>1, <1>2, WritesOneCell
  <2>2. Left' = Left /\ Left \in Int
    BY <1>1, <2>1
  <2>3. Len(buff) + Left + len = Len(sent) - from
    BY <1>1, <2>1
  <2>4. Len(buff') = Len(buff) /\ from' = from
    BY <2>1
  <2>5. Len(buff') + Left' + len' = Len(sent') - from'
    <3> HIDE DEF Left, AllIsKept
    <3> QED BY <1>1, <2>1, <2>2, <2>3, <2>4
  <2> QED BY <2>5
<1>3. CASE Settle
  <2>1. Len(buff) = 0 /\ len' = 0 /\ from' = Len(sent)
    BY <1>1, <1>3 DEF Settle, Empty, Control
  <2> QED BY <1>1, <1>3, <2>1 DEF Settle, output
<1>4. CASE Clear \/ Read
  BY <1>1, <1>4 DEF Clear, Read, Take, Empty, history
<1>5. CASE CopyCell
  <2>1. /\ UNCHANGED <<job, stage, len, sent, view, from>> /\ next \in 1 .. view
        /\ next' = next + 1 /\ stage \in Copying
        /\ stage = "copyThis" => buff' = buff
        /\ stage # "copyThis" => Len(buff') = Len(buff) + 1
    BY <1>1, <1>5, CopySteps
  <2>2. Len(buff) + Left + len = Len(sent) - from
    BY <1>1, <2>1
  <2>3. CASE stage = "copyThis"
    BY <2>1, <2>2, <2>3
  <2>4. CASE stage # "copyThis"
    <3>1. Left' = Left - 1 /\ Left \in Int
      BY <1>1, <2>1, <2>4
    <3> HIDE DEF Left
    <3> QED BY <1>1, <2>1, <2>2, <2>4, <3>1
  <2> QED BY <2>3, <2>4
<1>6. CASE CopyEnds
  <2>1. /\ UNCHANGED <<job, len, sent, buff, from>> /\ next > view /\ next' = 1
        /\ \/ stage = "clearing" /\ stage' = "type"
           \/ stage = "copyThis" /\ stage' = "copyBuff" /\ view' = view
           \/ stage = "copyBuff" /\ stage' = "check"
    BY <1>6 DEF CopyEnds, buffer, history
  <2>2. next = view + 1 /\ Left' = Left
    <3>1. next <= view + 1
      BY <1>1 DEF TypeOK
    <3>2. next = view + 1
      BY <1>1, <2>1, <3>1
    <3> QED BY <1>1, <2>1, <3>2
  <2> HIDE DEF Left
  <2> QED BY <1>1, <2>1, <2>2
<1>7. CASE Fetch
  BY <1>1, <1>7 DEF Fetch, Control
<1>8. CASE Connect \/ Finish \/ Type \/ TimedOut \/ Check \/ Pause \/ Scrub
  BY <1>1, <1>8, QuietSteps DEF Quiet, buffer
<1>9. CASE UNCHANGED vars
  BY <1>1, <1>9 DEF vars, buffer, output, history
<1> QED BY <1>2, <1>3, <1>4, <1>5, <1>6, <1>7, <1>8, <1>9 DEF Next

LEMMA RestIsPendingStep == IInv /\ [Next]_vars => RestIsPending'
<1> SUFFICES ASSUME IInv, [Next]_vars PROVE RestIsPending'
  OBVIOUS
<1> USE DEF RestIsPending
<1>1. TypeOK /\ RestIsPending /\ Len(sent) \in Nat /\ len \in Nat /\ taken \in Nat
  BY DEF IInv, TypeOK
<1>2. ASSUME NEW p \in Pieces, Write(p)
      PROVE  RestIsPending'
  BY <1>1, <1>2, WritesOneCell
<1>3. CASE Settle \/ Clear \/ Read
  BY <1>1, <1>3 DEF Settle, Clear, Read, Take, Empty
<1>4. CASE CopyCell \/ CopyEnds \/ Fetch
  BY <1>1, <1>4 DEF CopyCell, CopyEnds, Fetch, buffer
<1>5. CASE Connect \/ Finish \/ Type \/ TimedOut \/ Check \/ Pause \/ Scrub
  BY <1>1, <1>5, QuietSteps DEF Quiet, buffer
<1>6. CASE UNCHANGED vars
  BY <1>1, <1>6 DEF vars, buffer
<1> QED BY <1>2, <1>3, <1>4, <1>5, <1>6 DEF Next

LEMMA CellsAreLatestStep == IInv /\ [Next]_vars => CellsAreLatest'
<1> SUFFICES ASSUME IInv, [Next]_vars PROVE CellsAreLatest'
  OBVIOUS
<1> USE DEF CellsAreLatest
<1>1. TypeOK /\ Control /\ AllIsKept /\ CellsAreLatest
  BY DEF IInv
<1>2. ASSUME NEW p \in Pieces, Write(p)
      PROVE  CellsAreLatest'
  <2>1. len \in 0 .. Len(sent) /\ len <= Len(cells) /\ Len(cells) \in Nat /\ Len(sent) \in Nat
    <3>1. stage \in ShellStages
      BY <1>1, <1>2, WritesOneCell
    <3>2. Left \in Nat /\ Len(buff) \in Nat /\ from \in 0 .. Len(sent) /\ Len(sent) \in Nat
          /\ len \in 0 .. Len(cells) /\ Len(cells) \in Nat
      BY <1>1 DEF TypeOK, Left, First
    <3> QED BY <1>1, <3>1, <3>2 DEF Control, AllIsKept
  <2>2. len' = len + 1 /\ Len(sent') = Len(sent) + 1
    BY <1>1, <1>2, WritesOneCell
  <2>3. ASSUME NEW i \in 1 .. len + 1
        PROVE  cells'[i] = sent'[Len(sent') - len' + i]
    <3>1. Len(sent') - len' + i = Len(sent) - len + i
      BY <2>1, <2>2
    <3>2. CASE i = len + 1
      <4>1. Len(sent) - len + i = Len(sent) + 1
        BY <2>1, <3>2
      <4> QED BY <1>1, <1>2, <3>1, <3>2, <4>1, WritesOneCell
    <3>3. CASE i # len + 1
      <4>1. i \in 1 .. len /\ i \in 1 .. Len(cells) /\ Len(sent) - len + i \in 1 .. Len(sent)
        BY <2>1, <3>3
      <4>2. cells'[i] = cells[i] /\ sent'[Len(sent) - len + i] = sent[Len(sent) - len + i]
        BY <1>1, <1>2, <3>3, <4>1, WritesOneCell
      <4> QED BY <1>1, <3>1, <4>1, <4>2
    <3> QED BY <3>2, <3>3
  <2> QED BY <2>2, <2>3
<1>3. CASE Settle \/ Clear \/ Read
  BY <1>3 DEF Settle, Clear, Read, Take, Empty
<1>4. CASE CopyCell \/ CopyEnds
  BY <1>1, <1>4 DEF CopyCell, CopyEnds, buffer
<1>5. CASE Fetch
  BY <1>1, <1>5 DEF Fetch, buffer
<1>6. CASE Connect \/ Finish \/ Type \/ TimedOut \/ Check \/ Pause \/ Scrub
  BY <1>1, <1>6, QuietSteps DEF Quiet, buffer
<1>7. CASE UNCHANGED vars
  BY <1>1, <1>7 DEF vars, buffer
<1> QED BY <1>2, <1>3, <1>4, <1>5, <1>6, <1>7 DEF Next

(* While a slice is in use, how much of the output is in the three places.    *)
LEMMA SliceBounds ==
  ASSUME IInv, stage \in Copying
  PROVE  /\ ~ job.files
         /\ Len(buff) \in Nat /\ from \in Nat /\ len \in Nat /\ view \in Nat
         /\ First \in 1 .. view + 1 /\ next \in 1 .. view + 1
         /\ Len(sent) \in Nat /\ Len(cells) \in Nat /\ view <= Len(cells)
         /\ Len(sent) = from + Len(buff) + (view + 1 - First) + len
<1>1. TypeOK /\ Control /\ AllIsKept
  BY DEF IInv
<1>2. ~ job.files
  BY <1>1 DEF Control, Copying, ShellStages, CommandStages, RoundStages
<1>3. /\ Len(buff) \in Nat /\ from \in Nat /\ len \in Nat /\ view \in Nat
      /\ First \in 1 .. view + 1 /\ next \in 1 .. view + 1
      /\ Len(sent) \in Nat /\ Len(cells) \in Nat /\ view <= Len(cells)
  BY <1>1 DEF TypeOK, First
<1> QED BY <1>1, <1>2, <1>3 DEF AllIsKept, Left

LEMMA SliceIsRecentStep == IInv /\ [Next]_vars => SliceIsRecent'
<1> SUFFICES ASSUME IInv, [Next]_vars, stage' \in Copying,
                    NEW i \in First' .. view'
             PROVE  \E j \in Len(buff') + i - First' + 1 .. Len(sent') - from' :
                      cells'[i] = sent'[from' + j]
  BY DEF SliceIsRecent
<1> DEFINE Goal == \E j \in Len(buff') + i - First' + 1 .. Len(sent') - from' :
                     cells'[i] = sent'[from' + j]
<1>1. TypeOK /\ Control /\ AllIsKept /\ CellsAreLatest /\ SliceIsRecent
  BY DEF IInv
<1>2. ASSUME NEW p \in Pieces, Write(p)
      PROVE  Goal
  <2>1. /\ stage' = stage /\ view' = view /\ buff' = buff /\ from' = from /\ First' = First
        /\ Len(sent') = Len(sent) + 1
        /\ cells'[len + 1] = p /\ sent'[Len(sent) + 1] = p
    BY <1>1, <1>2, WritesOneCell DEF First
  <2>2. stage \in Copying /\ i \in First .. view
    BY <2>1
  <2>3. /\ Len(buff) \in Nat /\ from \in Nat /\ len \in Nat /\ view \in Nat
        /\ First \in 1 .. view + 1
        /\ Len(sent) \in Nat /\ Len(cells) \in Nat /\ view <= Len(cells)
        /\ Len(sent) = from + Len(buff) + (view + 1 - First) + len
    BY <2>2, SliceBounds
  <2>4. CASE i = len + 1
    <3> DEFINE j == Len(sent) + 1 - from
    <3>1. j \in Len(buff') + i - First' + 1 .. Len(sent') - from'
      <4>1. j \in Len(buff) + i - First + 1 .. Len(sent) + 1 - from
        BY <2>2, <2>3
      <4> QED BY <2>1, <2>2, <2>3, <4>1
    <3>2. from' + j = Len(sent) + 1
      BY <2>1, <2>3
    <3>3. cells'[i] = sent'[from' + j]
      BY <2>1, <2>4, <3>2
    <3> QED BY <3>1, <3>3
  <2>5. CASE i # len + 1
    <3>1. PICK j \in Len(buff) + i - First + 1 .. Len(sent) - from : cells[i] = sent[from + j]
      BY <1>1, <2>2 DEF SliceIsRecent
    <3>2. i \in 1 .. Len(cells) /\ from + j \in 1 .. Len(sent)
      BY <2>2, <2>3, <3>1
    <3>3. cells'[i] = cells[i] /\ sent'[from + j] = sent[from + j]
      BY <1>1, <1>2, <2>5, <3>2, WritesOneCell
    <3>4. j \in Len(buff') + i - First' + 1 .. Len(sent') - from'
      <4>1. j \in Len(buff) + i - First + 1 .. Len(sent) + 1 - from
        BY <2>2, <2>3, <3>1
      <4> QED BY <2>1, <2>2, <2>3, <4>1
    <3>5. cells'[i] = sent'[from' + j]
      BY <2>1, <3>1, <3>3
    <3> QED BY <3>4, <3>5
  <2> QED BY <2>4, <2>5
<1>3. CASE Clear \/ Read
  <2>1. /\ view' = len /\ next' = 1 /\ stage \notin Copying /\ ~ job.files
        /\ UNCHANGED <<cells, buff, sent, from>>
    BY <1>1, <1>3 DEF Clear, Read, Take, Copying, history, Control, ShellStages, CommandStages,
       RoundStages
  <2>2. First' = 1 /\ i \in 1 .. len
    BY <2>1 DEF First
  <2>3. /\ Len(buff) \in Nat /\ from \in Nat /\ len \in Nat /\ Len(sent) \in Nat
        /\ Len(buff) + len = Len(sent) - from
    BY <1>1, <2>1 DEF AllIsKept, Left, TypeOK
  <2>4. cells[i] = sent[Len(sent) - len + i]
    BY <1>1, <2>2 DEF CellsAreLatest
  <2>5. Len(sent) - len + i = from + (Len(buff) + i)
    BY <2>2, <2>3
  <2>6. Len(buff) + i \in Len(buff') + i - First' + 1 .. Len(sent') - from'
    BY <2>1, <2>2, <2>3
  <2>7. cells'[i] = sent'[from' + (Len(buff) + i)]
    BY <2>1, <2>4, <2>5
  <2> QED BY <2>6, <2>7
<1>4. CASE CopyCell
  <2>1. /\ UNCHANGED <<stage, cells, sent, view, from>>
        /\ stage \in Copying /\ next' = next + 1
        /\ stage = "copyThis" => buff' = buff
        /\ stage # "copyThis" => Len(buff') = Len(buff) + 1
    BY <1>1, <1>4, CopySteps
  <2>2. /\ Len(buff) \in Nat /\ view \in Nat /\ next \in Nat
    BY <2>1, SliceBounds
  <2>3. /\ First' >= First /\ First \in Nat /\ First' \in Nat
        /\ Len(buff') - First' = Len(buff) - First
    BY <2>1, <2>2 DEF First
  <2>4. i \in First .. view /\ Len(buff') \in Nat
    BY <2>1, <2>2, <2>3
  <2>5. PICK j \in Len(buff) + i - First + 1 .. Len(sent) - from : cells[i] = sent[from + j]
    BY <1>1, <2>1, <2>4 DEF SliceIsRecent
  <2>6. Len(buff') + i - First' + 1 = Len(buff) + i - First + 1
    <3> HIDE DEF First
    <3>1. i \in Int
      BY <2>2, <2>3, <2>4
    <3>2. \A a, b, c, d \in Int : a - b = c - d => a + i - b + 1 = c + i - d + 1
      BY <3>1
    <3> QED BY <2>2, <2>3, <2>4, <3>2, SMTT(30)
  <2>7. /\ j \in Len(buff') + i - First' + 1 .. Len(sent') - from'
        /\ cells'[i] = sent'[from' + j]
    <3>1. UNCHANGED <<cells, sent, from>>
      BY <2>1
    <3> HIDE DEF First
    <3> QED BY <2>5, <2>6, <3>1
  <2> QED BY <2>7
<1>5. CASE CopyEnds
  <2>1. /\ stage = "copyThis" /\ stage' = "copyBuff" /\ next' = 1
        /\ UNCHANGED <<cells, sent, view, buff, from>>
    BY <1>5 DEF CopyEnds, Copying, buffer, history
  <2>2. First = 1 /\ First' = 1 /\ stage \in Copying
    BY <2>1 DEF First, Copying
  <2> QED BY <1>1, <2>1, <2>2 DEF SliceIsRecent
<1>6. CASE Settle \/ Fetch
  BY <1>6 DEF Settle, Fetch, Leave, Copying
<1>7. CASE Connect \/ Finish \/ Type \/ TimedOut \/ Check \/ Pause \/ Scrub
  BY <1>1, <1>7, QuietSteps DEF Quiet
<1>8. CASE UNCHANGED vars
  BY <1>1, <1>8 DEF vars, buffer, output, history, SliceIsRecent, First
<1> QED BY <1>2, <1>3, <1>4, <1>5, <1>6, <1>7, <1>8 DEF Next

LEMMA SliceIsExactStep == IInv /\ [Next]_vars => SliceIsExact'
<1> SUFFICES ASSUME IInv, [Next]_vars, stage' \in Copying, ~ torn',
                    NEW i \in First' .. view'
             PROVE  cells'[i] = sent'[from' + Len(buff') + i - First' + 1]
  BY DEF SliceIsExact
<1> DEFINE Goal == cells'[i] = sent'[from' + Len(buff') + i - First' + 1]
<1>1. TypeOK /\ Control /\ AllIsKept /\ CellsAreLatest /\ SliceIsExact
  BY DEF IInv
<1>2. ASSUME NEW p \in Pieces, Write(p)
      PROVE  Goal
  <2>1. /\ stage' = stage /\ view' = view /\ buff' = buff /\ from' = from /\ First' = First
        /\ ~ torn /\ ~ (len < view)
    BY <1>1, <1>2, WritesOneCell DEF First
  <2>2. stage \in Copying /\ i \in First .. view
    BY <2>1
  <2>3. /\ Len(buff) \in Nat /\ from \in Nat /\ len \in Nat /\ view \in Nat
        /\ First \in 1 .. view + 1
        /\ Len(sent) \in Nat /\ Len(cells) \in Nat /\ view <= Len(cells)
        /\ Len(sent) = from + Len(buff) + (view + 1 - First) + len
    BY <2>2, SliceBounds
  <2>4. cells[i] = sent[from + Len(buff) + i - First + 1]
    BY <1>1, <2>1, <2>2 DEF SliceIsExact
  <2>5. /\ i \in 1 .. Len(cells) /\ i # len + 1
        /\ from + Len(buff) + i - First + 1 \in 1 .. Len(sent)
    BY <2>1, <2>2, <2>3
  <2>6. /\ cells'[i] = cells[i]
        /\ sent'[from + Len(buff) + i - First + 1] = sent[from + Len(buff) + i - First + 1]
    BY <1>1, <1>2, <2>5, WritesOneCell
  <2> QED BY <2>1, <2>4, <2>6
<1>3. CASE Clear \/ Read
  <2>1. /\ view' = len /\ next' = 1 /\ stage \notin Copying /\ ~ job.files
        /\ UNCHANGED <<cells, buff, sent, from>>
    BY <1>1, <1>3 DEF Clear, Read, Take, Copying, history, Control, ShellStages, CommandStages,
       RoundStages
  <2>2. First' = 1 /\ i \in 1 .. len
    BY <2>1 DEF First
  <2>3. /\ Len(buff) \in Nat /\ from \in Nat /\ len \in Nat /\ Len(sent) \in Nat
        /\ Len(buff) + len = Len(sent) - from
    BY <1>1, <2>1 DEF AllIsKept, Left, TypeOK
  <2>4. cells[i] = sent[Len(sent) - len + i]
    BY <1>1, <2>2 DEF CellsAreLatest
  <2>5. Len(sent) - len + i = from + Len(buff) + i - 1 + 1
    BY <2>2, <2>3
  <2> QED BY <2>1, <2>2, <2>4, <2>5
<1>4. CASE CopyCell
  <2>1. /\ stage' = stage /\ cells' = cells /\ sent' = sent /\ view' = view /\ from' = from
        /\ torn' = torn /\ stage \in Copying /\ next' = next + 1
        /\ stage = "copyThis" => buff' = buff
        /\ stage # "copyThis" => Len(buff') = Len(buff) + 1
    BY <1>1, <1>4, CopySteps
  <2>2. /\ Len(buff) \in Nat /\ view \in Nat /\ next \in Nat /\ from \in Nat
    BY <2>1, SliceBounds
  <2>3. /\ First' >= First /\ First \in Nat /\ First' \in Nat
        /\ Len(buff') - First' = Len(buff) - First
    BY <2>1, <2>2 DEF First
  <2>4. i \in First .. view /\ Len(buff') \in Nat
    BY <2>1, <2>2, <2>3
  <2>5. cells[i] = sent[from + Len(buff) + i - First + 1]
    BY <1>1, <2>1, <2>4 DEF SliceIsExact
  <2>6. from + Len(buff') + i - First' + 1 = from + Len(buff) + i - First + 1
    BY <2>2, <2>3, <2>4
  <2> QED BY <2>1, <2>5, <2>6
<1>5. CASE CopyEnds
  <2>1. /\ stage = "copyThis" /\ stage' = "copyBuff" /\ next' = 1
        /\ UNCHANGED <<cells, sent, view, buff, from, torn>>
    BY <1>5 DEF CopyEnds, Copying, buffer, history
  <2>2. First = 1 /\ First' = 1 /\ stage \in Copying
    BY <2>1 DEF First, Copying
  <2> QED BY <1>1, <2>1, <2>2 DEF SliceIsExact
<1>6. CASE Settle \/ Fetch
  BY <1>6 DEF Settle, Fetch, Leave, Copying
<1>7. CASE Connect \/ Finish \/ Type \/ TimedOut \/ Check \/ Pause \/ Scrub
  BY <1>1, <1>7, QuietSteps DEF Quiet
<1>8. CASE UNCHANGED vars
  BY <1>1, <1>8 DEF vars, buffer, output, history, SliceIsExact, First
<1> QED BY <1>2, <1>3, <1>4, <1>5, <1>6, <1>7, <1>8 DEF Next

(* A copied cell goes to the place in buff that its piece is due at. *)
LEMMA CopyToBuff ==
  ASSUME IInv, CopyCell, stage # "copyThis"
  PROVE  /\ ~ job.files
         /\ Len(buff') = Len(buff) + 1 /\ Len(buff) \in Nat
         /\ \A k \in 1 .. Len(buff) : buff'[k] = buff[k]
         /\ \E j \in Len(buff) + 1 .. Len(sent) - from : buff'[Len(buff) + 1] = sent[from + j]
         /\ ~ torn => buff'[Len(buff) + 1] = sent[from + Len(buff) + 1]
<1>1. TypeOK /\ SliceIsRecent /\ SliceIsExact
  BY DEF IInv
<1>2. /\ stage \in Copying /\ First = next /\ next \in First .. view
      /\ Len(buff') = Len(buff) + 1
      /\ buff'[Len(buff) + 1] = cells[next]
      /\ \A k \in 1 .. Len(buff) : buff'[k] = buff[k]
  <2>1. next \in 1 .. view /\ view \in 0 .. Len(cells) /\ stage \in Copying
    BY <1>1, CopySteps
  <2>2. First = next /\ next \in First .. view
    BY <2>1, SliceBounds DEF First
  <2> QED BY <1>1, <2>1, <2>2, CopySteps
<1>3. ~ job.files /\ Len(buff) \in Nat /\ next \in Nat /\ from \in Nat
  BY <1>2, SliceBounds
<1>4. PICK j \in Len(buff) + next - First + 1 .. Len(sent) - from : cells[next] = sent[from + j]
  BY <1>1, <1>2 DEF SliceIsRecent
<1>5. Len(buff) + next - First + 1 = Len(buff) + 1
  BY <1>2, <1>3
<1>6. ASSUME ~ torn
      PROVE  buff'[Len(buff) + 1] = sent[from + Len(buff) + 1]
  <2>1. cells[next] = sent[from + Len(buff) + next - First + 1]
    BY <1>1, <1>2, <1>6 DEF SliceIsExact
  <2>2. from + Len(buff) + next - First + 1 = from + Len(buff) + 1
    BY <1>2, <1>3
  <2> QED BY <1>2, <2>1, <2>2
<1> QED BY <1>2, <1>3, <1>4, <1>5, <1>6

LEMMA BuffIsRecentStep == IInv /\ [Next]_vars => BuffIsRecent'
<1> SUFFICES ASSUME IInv, [Next]_vars, ~ job'.files, NEW k \in 1 .. Len(buff')
             PROVE  \E j \in k .. Len(sent') - from' : buff'[k] = sent'[from' + j]
  BY DEF BuffIsRecent
<1> DEFINE Goal == \E j \in k .. Len(sent') - from' : buff'[k] = sent'[from' + j]
<1>1. TypeOK /\ Control /\ BuffIsRecent /\ Len(sent) \in Nat /\ from \in Nat
  BY DEF IInv, TypeOK
<1>2. ASSUME NEW p \in Pieces, Write(p)
      PROVE  Goal
  <2>1. /\ job' = job /\ buff' = buff /\ from' = from
        /\ Len(sent') = Len(sent) + 1
    BY <1>1, <1>2, WritesOneCell
  <2>2. PICK j \in k .. Len(sent) - from : buff[k] = sent[from + j]
    BY <1>1, <2>1 DEF BuffIsRecent
  <2>3. from + j \in 1 .. Len(sent) /\ j \in k .. Len(sent) + 1 - from
    BY <1>1, <2>2, <2>1
  <2>4. sent'[from + j] = sent[from + j]
    BY <1>1, <1>2, <2>3, WritesOneCell
  <2>5. j \in k .. Len(sent') - from'
    BY <1>1, <2>1, <2>3
  <2> QED BY <2>1, <2>2, <2>4, <2>5
<1>3. CASE CopyCell
  <2>1. job' = job /\ sent' = sent /\ from' = from /\ (stage = "copyThis" => buff' = buff)
    BY <1>1, <1>3, CopySteps
  <2>2. CASE stage = "copyThis"
    BY <1>1, <2>1, <2>2 DEF BuffIsRecent
  <2>3. CASE stage # "copyThis"
    <3>1. CASE k = Len(buff) + 1
      BY <1>3, <2>1, <2>3, <3>1, CopyToBuff
    <3>2. CASE k # Len(buff) + 1
      <4>1. k \in 1 .. Len(buff) /\ buff'[k] = buff[k]
        BY <1>3, <2>3, <3>2, CopyToBuff
      <4> QED BY <1>1, <2>1, <4>1 DEF BuffIsRecent
    <3> QED BY <3>1, <3>2
  <2> QED BY <2>2, <2>3
<1>4. CASE Clear \/ Read \/ CopyEnds
  BY <1>1, <1>4 DEF Clear, Read, Take, CopyEnds, BuffIsRecent, buffer, history
<1>5. CASE Settle
  BY <1>1, <1>5 DEF Settle, output, Control
<1>6. CASE Fetch
  BY <1>1, <1>6 DEF Fetch, Control
<1>7. CASE Connect \/ Finish \/ Type \/ TimedOut \/ Check \/ Pause \/ Scrub
  BY <1>1, <1>7, QuietSteps DEF Quiet, BuffIsRecent, buffer
<1>8. CASE UNCHANGED vars
  BY <1>1, <1>8 DEF vars, buffer, output, history, BuffIsRecent
<1> QED BY <1>2, <1>3, <1>4, <1>5, <1>6, <1>7, <1>8 DEF Next

LEMMA BuffIsExactStep == IInv /\ [Next]_vars => BuffIsExact'
<1> SUFFICES ASSUME IInv, [Next]_vars, ~ job'.files, ~ torn', NEW k \in 1 .. Len(buff')
             PROVE  buff'[k] = sent'[from' + k]
  BY DEF BuffIsExact
<1>1. TypeOK /\ Control /\ AllIsKept /\ BuffIsExact /\ Len(sent) \in Nat /\ from \in Nat
      /\ Len(buff) \in Nat
  BY DEF IInv, TypeOK
<1>2. ASSUME NEW p \in Pieces, Write(p)
      PROVE  buff'[k] = sent'[from' + k]
  <2>1. /\ job' = job /\ buff' = buff /\ from' = from /\ ~ torn
    BY <1>1, <1>2, WritesOneCell
  <2>2. buff[k] = sent[from + k]
    BY <1>1, <2>1 DEF BuffIsExact
  <2>3. Len(buff) <= Len(sent) - from
    <3>1. Left \in Nat /\ len \in Nat
      BY <1>1 DEF Left, First, TypeOK
    <3> QED BY <1>1, <2>1, <3>1 DEF AllIsKept
  <2>4. from + k \in 1 .. Len(sent)
    BY <1>1, <2>1, <2>3
  <2>5. sent'[from + k] = sent[from + k]
    BY <1>1, <1>2, <2>4, WritesOneCell
  <2> QED BY <2>1, <2>2, <2>5
<1>3. CASE CopyCell
  <2>1. job' = job /\ sent' = sent /\ from' = from /\ torn' = torn
        /\ (stage = "copyThis" => buff' = buff)
    BY <1>1, <1>3, CopySteps
  <2>2. CASE stage = "copyThis"
    BY <1>1, <2>1, <2>2 DEF BuffIsExact
  <2>3. CASE stage # "copyThis"
    <3>1. CASE k = Len(buff) + 1
      <4>1. buff'[Len(buff) + 1] = sent[from + Len(buff) + 1]
        BY <1>3, <2>1, <2>3, CopyToBuff
      <4>2. from + Len(buff) + 1 = from' + k
        BY <1>1, <2>1, <3>1
      <4> QED BY <2>1, <3>1, <4>1, <4>2
    <3>2. CASE k # Len(buff) + 1
      <4>1. k \in 1 .. Len(buff) /\ buff'[k] = buff[k]
        BY <1>3, <2>3, <3>2, CopyToBuff
      <4> QED BY <1>1, <2>1, <4>1 DEF BuffIsExact
    <3> QED BY <3>1, <3>2
  <2> QED BY <2>2, <2>3
<1>4. CASE Clear \/ Read \/ CopyEnds
  BY <1>1, <1>4 DEF Clear, Read, Take, CopyEnds, BuffIsExact, buffer, history
<1>5. CASE Settle
  BY <1>1, <1>5 DEF Settle, output, Control
<1>6. CASE Fetch
  BY <1>1, <1>6 DEF Fetch, Control
<1>7. CASE Connect \/ Finish \/ Type \/ TimedOut \/ Check \/ Pause \/ Scrub
  BY <1>1, <1>7, QuietSteps DEF Quiet, BuffIsExact, buffer
<1>8. CASE UNCHANGED vars
  BY <1>1, <1>8 DEF vars, buffer, output, history, BuffIsExact
<1> QED BY <1>2, <1>3, <1>4, <1>5, <1>6, <1>7, <1>8 DEF Next

LEMMA ThisIsExactStep == IInv /\ [Next]_vars => ThisIsExact'
<1> SUFFICES ASSUME IInv, [Next]_vars, stage' \in RoundStages
             PROVE  /\ Len(this') = Len(buff') - base' + Ahead'
                    /\ ~ torn' => \A k \in 1 .. Len(this') : this'[k] = sent'[from' + base' + k]
  BY DEF ThisIsExact
<1> DEFINE Goal == /\ Len(this') = Len(buff') - base' + Ahead'
                   /\ ~ torn' => \A k \in 1 .. Len(this') : this'[k] = sent'[from' + base' + k]
<1>1. /\ TypeOK /\ Control /\ AllIsKept /\ ThisIsExact
      /\ Len(sent) \in Nat /\ from \in Nat /\ base \in Nat /\ Len(buff) \in Nat /\ Len(this) \in Nat
      /\ view \in Nat /\ next \in 1 .. view + 1 /\ len \in Nat
  BY DEF IInv, TypeOK
<1>2. ASSUME NEW p \in Pieces, Write(p)
      PROVE  Goal
  <2>1. /\ stage' = stage /\ job' = job /\ view' = view /\ next' = next
        /\ this' = this /\ buff' = buff /\ from' = from /\ base' = base
        /\ ~ torn' => ~ torn
    BY <1>1, <1>2, WritesOneCell
  <2>2. Ahead' = Ahead /\ stage \in RoundStages
    BY <2>1 DEF Ahead
  <2>3. Len(this) = Len(buff) - base + Ahead
    BY <1>1, <2>2 DEF ThisIsExact
  <2>4. base + Len(this) <= Len(sent) - from
    <3>1. ~ job.files
      BY <1>1, <2>2 DEF Control, ShellStages, CommandStages
    <3>2. Left \in Nat /\ Ahead \in Nat /\ Ahead <= Left
      BY <1>1 DEF Left, First, Ahead, Copying
    <3> QED BY <1>1, <2>3, <3>1, <3>2 DEF AllIsKept
  <2>5. ASSUME ~ torn', NEW k \in 1 .. Len(this)
        PROVE  this'[k] = sent'[from' + base' + k]
    <3>1. this[k] = sent[from + base + k]
      BY <1>1, <2>1, <2>2, <2>5 DEF ThisIsExact
    <3>2. from + base + k \in 1 .. Len(sent)
      BY <1>1, <2>4
    <3>3. sent'[from + base + k] = sent[from + base + k]
      BY <1>1, <1>2, <3>2, WritesOneCell
    <3> QED BY <2>1, <3>1, <3>3
  <2>6. Len(this') = Len(buff') - base' + Ahead'
    BY <2>1, <2>2, <2>3
  <2> QED BY <2>1, <2>5, <2>6
<1>3. CASE CopyCell
  <2>1. /\ stage' = stage /\ sent' = sent /\ view' = view /\ from' = from /\ base' = base
        /\ torn' = torn /\ next' = next + 1 /\ next \in 1 .. view /\ stage \in RoundStages
    BY <1>1, <1>3, CopySteps
  <2>2. Len(this) = Len(buff) - base + Ahead
    BY <1>1, <2>1 DEF ThisIsExact
  <2>3. CASE stage = "copyThis"
    <3>1. /\ buff' = buff /\ Len(this') = Len(this) + 1
          /\ this'[Len(this) + 1] = cells[next]
          /\ \A k \in 1 .. Len(this) : this'[k] = this[k]
      BY <1>1, <1>3, <2>3, CopySteps
    <3>2. Ahead = next - 1 /\ Ahead' = next
      BY <1>1, <2>1, <2>3 DEF Ahead
    <3>3. Len(this') = Len(buff') - base' + Ahead'
      BY <1>1, <2>1, <2>2, <3>1, <3>2
    <3>4. ASSUME ~ torn, NEW k \in 1 .. Len(this) + 1
          PROVE  this'[k] = sent[from + base + k]
      <4>1. CASE k = Len(this) + 1
        <5>1. SliceIsExact /\ stage \in Copying /\ First = 1 /\ next \in First .. view
          BY <2>1, <2>3 DEF IInv, Copying, First
        <5>2. cells[next] = sent[from + Len(buff) + next - First + 1]
          BY <3>4, <5>1 DEF SliceIsExact
        <5>3. from + Len(buff) + next - First + 1 = from + base + k
          BY <1>1, <2>2, <3>2, <4>1, <5>1
        <5> QED BY <3>1, <4>1, <5>2, <5>3
      <4>2. CASE k # Len(this) + 1
        <5>1. k \in 1 .. Len(this)
          BY <1>1, <4>2
        <5> QED BY <1>1, <2>1, <3>1, <3>4, <5>1 DEF ThisIsExact
      <4> QED BY <4>1, <4>2
    <3> QED BY <2>1, <3>1, <3>3, <3>4
  <2>4. CASE stage # "copyThis"
    <3>1. this' = this /\ Len(buff') = Len(buff) + 1 /\ stage = "copyBuff"
      BY <1>1, <1>3, <2>1, <2>4, CopySteps DEF CopyCell, RoundStages
    <3>2. Ahead = view + 1 - next /\ Ahead' = view - next
      BY <1>1, <2>1, <3>1 DEF Ahead
    <3>3. Len(this') = Len(buff') - base' + Ahead'
      BY <1>1, <2>1, <2>2, <3>1, <3>2
    <3>4. ~ torn => \A k \in 1 .. Len(this) : this[k] = sent[from + base + k]
      BY <1>1, <2>1 DEF ThisIsExact
    <3> QED BY <2>1, <3>1, <3>3, <3>4
  <2> QED BY <2>3, <2>4
<1>4. CASE CopyEnds
  <2>1. /\ stage \in {"copyThis", "copyBuff"} /\ next = view + 1
        /\ UNCHANGED <<sent, from, base, torn, this, buff>>
        /\ Ahead' = Ahead
    BY <1>1, <1>4 DEF CopyEnds, RoundStages, buffer, history, Ahead
  <2>2. /\ Len(this) = Len(buff) - base + Ahead
        /\ ~ torn => \A k \in 1 .. Len(this) : this[k] = sent[from + base + k]
    BY <1>1, <2>1 DEF ThisIsExact, RoundStages
  <2> QED BY <2>1, <2>2
<1>5. CASE Type
  <2>1. stage' = "read" /\ this' = <<>> /\ base' = Len(buff) /\ buff' = buff
    BY <1>5 DEF Type, Leave, RoundStages
  <2>2. Len(this') = 0 /\ Ahead' = 0
    BY <2>1 DEF Ahead
  <2> QED BY <1>1, <2>1, <2>2
<1>6. CASE Read
  <2>1. /\ stage = "read" /\ stage' = "copyThis" /\ next' = 1
        /\ UNCHANGED <<sent, from, base, torn, this, buff>>
    BY <1>6 DEF Read, Take, history
  <2>2. Ahead = 0 /\ Ahead' = 0
    BY <2>1 DEF Ahead
  <2>3. /\ Len(this) = Len(buff) - base + Ahead
        /\ ~ torn => \A k \in 1 .. Len(this) : this[k] = sent[from + base + k]
    BY <1>1, <2>1 DEF ThisIsExact, RoundStages
  <2> QED BY <2>1, <2>2, <2>3
<1>7. CASE Check \/ Pause
  <2>1. /\ stage \in {"check", "pause"} /\ stage' \in {"pause", "read"}
        /\ UNCHANGED <<sent, from, base, torn, this, buff>>
    BY <1>7 DEF Check, Pause, Leave, RoundStages, buffer, output, history
  <2>2. Ahead = 0 /\ Ahead' = 0
    BY <2>1 DEF Ahead
  <2>3. /\ Len(this) = Len(buff) - base + Ahead
        /\ ~ torn => \A k \in 1 .. Len(this) : this[k] = sent[from + base + k]
    BY <1>1, <2>1 DEF ThisIsExact, RoundStages
  <2> QED BY <2>1, <2>2, <2>3
<1>8. CASE Connect \/ Settle \/ Clear \/ Finish \/ TimedOut \/ Fetch \/ Scrub
  BY <1>8 DEF Connect, Settle, Clear, Finish, TimedOut, Fetch, Scrub, Leave, RoundStages
<1>9. CASE UNCHANGED vars
  <2>1. /\ stage' = stage /\ Ahead' = Ahead
        /\ UNCHANGED <<sent, from, base, torn, this, buff>>
    BY <1>9 DEF vars, buffer, output, history, Ahead
  <2> QED BY <1>1, <2>1 DEF ThisIsExact
<1> QED BY <1>2, <1>3, <1>4, <1>5, <1>6, <1>7, <1>8, <1>9 DEF Next

(* Between rounds the pieces since the command was typed are those that the   *)
(* patterns were matched with.                                                *)
LEMMA SentIsThis ==
  ASSUME IInv, stage \in {"read", "check", "pause"}, ~ torn
  PROVE  Range(Sent) = Range(this)
<1>1. /\ TypeOK /\ Control /\ AllIsKept /\ RestIsPending /\ ThisIsExact /\ ~ job.files
      /\ Left = 0 /\ Ahead = 0 /\ stage \in RoundStages
  BY DEF IInv, Left, Ahead, Copying, Control, ShellStages, CommandStages, RoundStages
<1>2. /\ Len(sent) \in Nat /\ from \in Nat /\ base \in 0 .. Len(buff) /\ Len(buff) \in Nat
      /\ Len(this) = Len(buff) - base /\ len \in Nat /\ taken \in Nat
      /\ sent \in Seq(Pieces) /\ this \in Seq(Pieces)
  BY <1>1 DEF TypeOK, ThisIsExact
<1>3. from + Len(buff) <= Len(sent) /\ taken = from + Len(buff)
  BY <1>1, <1>2 DEF AllIsKept, RestIsPending
<1> DEFINE lo == from + base + 1
           hi == from + Len(buff)
<1>4. \A i \in lo .. hi : i \in 1 .. Len(sent)
  BY <1>2, <1>3
<1>5. /\ lo \in Int /\ hi \in Int /\ hi - lo + 1 = Len(this)
  BY <1>2
<1>6. /\ DOMAIN Sent = 1 .. Len(this)
      /\ \A k \in 1 .. Len(this) : Sent[k] = sent[from + base + k]
  <2>1. Sent = SubSeq(sent, lo, hi)
    BY <1>3 DEF Sent
  <2>2. SubSeq(sent, lo, hi) = [k \in 1 .. (1 + hi - lo) |-> sent[k + lo - 1]]
    BY <1>5
  <2>3. 1 + hi - lo = Len(this) /\ Len(this) \in Nat
    BY <1>2
  <2>4. \A k \in 1 .. Len(this) : k + lo - 1 = from + base + k
    BY <1>2
  <2>5. Sent = [k \in 1 .. Len(this) |-> sent[k + lo - 1]]
    BY <2>1, <2>2, <2>3
  <2> HIDE DEF lo
  <2> QED BY <2>4, <2>5
<1>7. DOMAIN this = 1 .. Len(this) /\ \A k \in 1 .. Len(this) : this[k] = sent[from + base + k]
  BY <1>1, <1>2 DEF ThisIsExact
<1> QED BY <1>6, <1>7 DEF Range

LEMMA RoundsAreLeftStep == IInv /\ [Next]_vars => RoundsAreLeft'
<1> SUFFICES ASSUME IInv, [Next]_vars PROVE RoundsAreLeft'
  OBVIOUS
<1> USE DEF RoundsAreLeft, RoundStages
<1>1. TypeOK /\ Control /\ RoundsAreLeft /\ round \in Nat
  BY DEF IInv, TypeOK
<1>2. (stage \in CommandStages) => Cmd.timeout \in Nat
  BY <1>1, CommandType DEF Control, Commands
<1>3. ASSUME NEW p \in Pieces, Write(p)
      PROVE  RoundsAreLeft'
  BY <1>1, <1>3, WritesOneCell DEF Cmd
<1>4. CASE CopyCell \/ CopyEnds
  BY <1>1, <1>4 DEF CopyCell, CopyEnds, Cmd
<1>5. CASE Type
  <2>1. stage' = "read" => round' = 0 /\ Cmd.timeout # 0 /\ Cmd' = Cmd
    BY <1>5 DEF Type, Leave, Cmd
  <2>2. stage' \notin RoundStages \ {"read"}
    BY <1>5 DEF Type, Leave
  <2> QED BY <1>2, <1>5, <2>1, <2>2 DEF Type, CommandStages
<1>6. CASE Read
  BY <1>1, <1>6 DEF Read, Cmd
<1>7. CASE Check
  BY <1>1, <1>7 DEF Check, Leave, Cmd
<1>8. CASE Pause
  BY <1>1, <1>2, <1>8 DEF Pause, Cmd, CommandStages
<1>9. CASE Connect \/ Settle \/ Clear \/ Finish \/ TimedOut \/ Fetch \/ Scrub
  BY <1>9 DEF Connect, Settle, Clear, Finish, TimedOut, Fetch, Scrub, Leave
<1>10. CASE UNCHANGED vars
  BY <1>1, <1>10 DEF vars, Cmd
<1> QED BY <1>3, <1>4, <1>5, <1>6, <1>7, <1>8, <1>9, <1>10 DEF Next

LEMMA NothingMatchedStep == IInv /\ [Next]_vars => NothingMatched'
<1> SUFFICES ASSUME IInv, [Next]_vars, stage' \in {"read", "pause"}
             PROVE  ~ Matches(Cmd'.expect, this') /\ ~ Matches(Cmd'.expectNot, this')
  BY DEF NothingMatched, Matches
<1> DEFINE Goal == ~ Matches(Cmd'.expect, this') /\ ~ Matches(Cmd'.expectNot, this')
<1>1. TypeOK /\ NothingMatched
  BY DEF IInv
<1>2. ASSUME NEW p \in Pieces, Write(p)
      PROVE  Goal
  BY <1>1, <1>2, WritesOneCell DEF NothingMatched, Cmd
<1>3. CASE Type
  BY <1>3, NothingMatchesEmpty DEF Type
<1>4. CASE Check
  BY <1>4 DEF Check, Leave, output, Cmd
<1>5. CASE Pause
  BY <1>1, <1>5 DEF Pause, output, NothingMatched, Cmd
<1>6. CASE Connect \/ Settle \/ Clear \/ Finish \/ CopyCell \/ CopyEnds
  BY <1>6 DEF Connect, Settle, Clear, Finish, CopyCell, CopyEnds, Leave
<1>7. CASE Read \/ TimedOut \/ Fetch \/ Scrub
  BY <1>7 DEF Read, TimedOut, Fetch, Scrub, Leave
<1>8. CASE UNCHANGED vars
  BY <1>1, <1>8 DEF vars, output, NothingMatched, Cmd
<1> QED BY <1>2, <1>3, <1>4, <1>5, <1>6, <1>7, <1>8 DEF Next

(* A job is left with a verdict that is true of its last command's output.    *)
LEMMA FailureIsJustifiedStep == IInv /\ [Next]_vars => FailureIsJustified'
<1> SUFFICES ASSUME IInv, [Next]_vars, ~ torn'
             PROVE  /\ failure' = "unmatched" =>
                         ~ Matches(Cmd'.expect, Sent') /\ round' = Cmd'.timeout
                    /\ failure' = "unexpected" => Matches(Cmd'.expectNot, Sent')
  BY DEF FailureIsJustified, Matches
<1> DEFINE Goal == /\ failure' = "unmatched" =>
                        ~ Matches(Cmd'.expect, Sent') /\ round' = Cmd'.timeout
                   /\ failure' = "unexpected" => Matches(Cmd'.expectNot, Sent')
<1>1. TypeOK /\ Control /\ FailureIsJustified /\ NothingMatched /\ RoundsAreLeft /\ round \in Nat
  BY DEF IInv, TypeOK
<1>2. ASSUME stage' \notin {"scrub", "done"}, stage \notin {"fetch"}
      PROVE  Goal
  BY <1>2, ControlStep DEF Control
<1>3. CASE TimedOut
  <2>1. CASE Cmd.expect = {}
    BY <1>2, <1>3, <2>1 DEF TimedOut
  <2>2. CASE Cmd.expect # {}
    <3>1. /\ failure' = "unmatched" /\ stage = "read" /\ round >= Cmd.timeout /\ round' = round
          /\ Cmd' = Cmd /\ Sent' = Sent /\ ~ torn
      BY <1>3, <2>2 DEF TimedOut, Leave, Cmd, Sent, buffer, output, history
    <3>2. ~ Matches(Cmd.expect, Sent)
      BY <1>1, <3>1, SentIsThis, MatchesMonotone DEF NothingMatched
    <3>3. round = Cmd.timeout
      <4>1. Cmd.timeout \in Nat
        BY <1>1, <3>1, CommandType DEF Control, CommandStages, RoundStages, Commands
      <4> QED BY <1>1, <3>1, <4>1 DEF RoundsAreLeft
    <3> QED BY <3>1, <3>2, <3>3
  <2> QED BY <2>1, <2>2
<1>4. CASE Check
  <2>1. CASE Matches(Cmd.expectNot, this)
    <3>1. /\ failure' = "unexpected" /\ stage = "check"
          /\ Cmd' = Cmd /\ Sent' = Sent /\ ~ torn
      BY <1>4, <2>1 DEF Check, Leave, Cmd, Sent, buffer, output, history
    <3>2. Matches(Cmd.expectNot, Sent)
      BY <2>1, <3>1, SentIsThis, MatchesMonotone
    <3> QED BY <3>1, <3>2
  <2>2. CASE ~ Matches(Cmd.expectNot, this)
    BY <1>2, <1>4, <2>2 DEF Check
  <2> QED BY <2>1, <2>2
<1>5. CASE Connect \/ Finish \/ Type \/ Fetch
  <2>1. failure' \in {"none", "session", "write", "pattern", "file"}
    BY <1>1, <1>5 DEF Connect, Finish, Type, Fetch, Leave, Control
  <2> QED BY <2>1
<1>6. CASE Scrub
  <2>1. /\ failure' \in {failure, "scrubber"} /\ round' = round /\ ~ torn
        /\ Cmd' = Cmd /\ Sent' = Sent
    BY <1>6 DEF Scrub, Cmd, Sent, buffer, output, history
  <2> QED BY <1>1, <2>1 DEF FailureIsJustified
<1>7. ASSUME NEW p \in Pieces, Write(p)
      PROVE  Goal
  BY <1>1, <1>2, <1>7, WritesOneCell DEF ShellStages, CommandStages, RoundStages
<1>8. CASE Settle \/ Clear \/ CopyCell \/ CopyEnds \/ Read \/ Pause
  <2>1. stage' \notin {"scrub", "done"} /\ stage # "fetch"
    BY <1>8 DEF Settle, Clear, CopyCell, CopyEnds, Read, Pause
  <2> QED BY <1>2, <2>1
<1>9. CASE UNCHANGED vars
  BY <1>1, <1>9 DEF vars, buffer, output, history, FailureIsJustified, Cmd, Sent
<1> QED BY <1>3, <1>4, <1>5, <1>6, <1>7, <1>8, <1>9 DEF Next

LEMMA FileIsScrubbedStep == IInv /\ [Next]_vars => FileIsScrubbed'
<1> SUFFICES ASSUME IInv, [Next]_vars, stage' = "done" PROVE FileIsScrubbed'
  BY DEF FileIsScrubbed
<1>1. FileIsScrubbed
  BY DEF IInv
<1>2. CASE Scrub
  BY <1>2 DEF Scrub, FileIsScrubbed, Scrubbed, output
<1>3. CASE UNCHANGED vars
  BY <1>1, <1>3 DEF vars, FileIsScrubbed, Scrubbed, output
<1>4. CASE Connect \/ Settle \/ Clear \/ Finish \/ CopyCell \/ CopyEnds \/ Type
  BY <1>4 DEF Connect, Settle, Clear, Finish, CopyCell, CopyEnds, Type, Leave
<1>5. CASE Read \/ TimedOut \/ Check \/ Pause \/ Fetch
  BY <1>5 DEF Read, TimedOut, Check, Pause, Fetch, Leave
<1>6. CASE \E p \in Pieces : Write(p)
  BY <1>6 DEF Write
<1> QED BY <1>2, <1>3, <1>4, <1>5, <1>6 DEF Next

LEMMA IInvNext == IInv /\ [Next]_vars => IInv'
BY TypeStep, ControlStep, AllIsKeptStep, RestIsPendingStep, CellsAreLatestStep, SliceIsRecentStep, SliceIsExactStep,
   BuffIsRecentStep, BuffIsExactStep, ThisIsExactStep, RoundsAreLeftStep, NothingMatchedStep,
   FailureIsJustifiedStep, FileIsScrubbedStep DEF IInv

(* The invariant holds in every state. *)
LEMMA Invariance == Spec => []IInv
BY InitIInv, IInvNext, PTL DEF Spec

-----------------------------------------------------------------------------
(* The theorems. *)

(* Whatever the device writes and when, the copies stay within the array and  *)
(* runCommands within the commands of the job.                                *)
THEOREM TypeCorrect == Spec => []TypeOK
<1>1. IInv => TypeOK
  BY DEF IInv
<1> QED BY <1>1, Invariance, PTL

(* How many cells are uncopied, and which they are. *)
LEMMA UncopiedIsLeft ==
  ASSUME IInv
  PROVE  /\ Uncopied \in Seq(Pieces)
         /\ Len(Uncopied) = Left
         /\ \A k \in 1 .. Left : Uncopied[k] = cells[First + k - 1]
<1>1. TypeOK
  BY DEF IInv
<1>2. CASE stage \in Copying
  <2>1. Uncopied = SubSeq(cells, First, view)
    BY <1>2 DEF Uncopied, First, Copying
  <2>2. /\ First \in 1 .. view + 1 /\ view \in Nat /\ view <= Len(cells) /\ Len(cells) \in Nat
        /\ cells \in Seq(Pieces)
    BY <1>1, <1>2, SliceBounds DEF TypeOK
  <2>3. \A i \in First .. view : cells[i] \in Pieces
    BY <2>2
  <2>4. /\ SubSeq(cells, First, view) \in Seq(Pieces)
        /\ Len(SubSeq(cells, First, view)) = IF First <= view THEN view - First + 1 ELSE 0
        /\ \A k \in 1 .. view - First + 1 : SubSeq(cells, First, view)[k] = cells[First + k - 1]
    BY <2>2, <2>3, SubSeqProperties
  <2>5. Left = view + 1 - First
    BY <1>2 DEF Left
  <2>6. Left = view - First + 1
    BY <2>2, <2>5
  <2> QED BY <2>1, <2>2, <2>4, <2>6
<1>3. CASE stage \notin Copying
  <2>1. Uncopied = <<>> /\ Left = 0
    BY <1>3 DEF Uncopied, Left, Copying
  <2> QED BY <2>1
<1> QED BY <1>2, <1>3

(* How much was taken, and where it is. *)
LEMMA TakenIsBuffAndLeft ==
  ASSUME IInv, ~ job.files
  PROVE  /\ Len(buff) \in Nat /\ Left \in Nat /\ from \in Nat /\ taken \in Nat /\ Len(sent) \in Nat
         /\ Len(buff) + Left = taken - from
         /\ taken <= Len(sent)
<1>1. /\ TypeOK /\ AllIsKept /\ RestIsPending
  BY DEF IInv
<1>2. /\ Len(buff) \in Nat /\ from \in Nat /\ taken \in Nat /\ Len(sent) \in Nat /\ len \in Nat
      /\ taken <= Len(sent)
  BY <1>1 DEF TypeOK
<1>3. Left \in Nat
  BY <1>1 DEF Left, First, TypeOK
<1> QED BY <1>1, <1>2, <1>3 DEF AllIsKept, RestIsPending

(* buff and what is on the way to it have as many pieces as were taken since  *)
(* the shell was cleared, none older than the one it stands for, even when    *)
(* the reader of the session writes over a slice that is being copied.        *)
THEOREM NothingTakenLost == Spec => []NoTakenPieceLost
<1>1. IInv => NoTakenPieceLost
  <2> SUFFICES ASSUME IInv PROVE NoTakenPieceLost
    OBVIOUS
  <2> QED BY UncopiedIsLeft, TakenIsBuffAndLeft DEF IInv, NoTakenPieceLost, BuffIsRecent
<1> QED BY <1>1, Invariance, PTL

(* s is a followed by b, element by element. *)
IsRow(S, s, a, b) ==
  /\ s \in Seq(S)
  /\ Len(s) = Len(a) + Len(b)
  /\ \A k \in 1 .. Len(a) : s[k] = a[k]
  /\ \A k \in 1 .. Len(b) : s[Len(a) + k] = b[k]

LEMMA ConcatIsRow ==
  ASSUME NEW S, NEW a \in Seq(S), NEW b \in Seq(S)
  PROVE  IsRow(S, a \o b, a, b)
<1> DEFINE s == a \o b
<1>1. Len(a) \in Nat /\ Len(b) \in Nat
  OBVIOUS
<1>2. /\ s \in Seq(S) /\ Len(s) = Len(a) + Len(b)
      /\ \A i \in 1 .. Len(a) + Len(b) : s[i] = IF i <= Len(a) THEN a[i] ELSE b[i - Len(a)]
  BY ConcatProperties
<1> HIDE DEF s
<1>3. ASSUME NEW k \in 1 .. Len(a)
      PROVE  s[k] = a[k]
  BY <1>1, <1>2
<1>4. ASSUME NEW k \in 1 .. Len(b)
      PROVE  s[Len(a) + k] = b[k]
  <2>1. /\ Len(a) + k \in 1 .. Len(a) + Len(b)
        /\ Len(a) + k > Len(a) /\ Len(a) + k - Len(a) = k
    BY <1>1
  <2> QED BY <1>1, <1>2, <2>1
<1>5. IsRow(S, s, a, b)
  BY <1>2, <1>3, <1>4 DEF IsRow
<1> QED BY <1>5 DEF s

(* If no slice was torn the output is exactly what was taken, and what leaves *)
(* the worker is that, scrubbed, or nothing and a failure.                    *)
THEOREM OutputIsWhatWasTaken == Spec => []OutputIsExact
<1>1. ASSUME IInv, ~ job.files, ~ torn
      PROVE  buff \o Uncopied = TakenOutput
  <2> DEFINE all == buff \o Uncopied
  <2>1. TypeOK /\ SliceIsExact /\ BuffIsExact
    BY <1>1 DEF IInv
  <2>2. /\ buff \in Seq(Pieces) /\ sent \in Seq(Pieces)
        /\ Len(buff) \in Nat /\ from \in Nat /\ taken \in Nat /\ Len(sent) \in Nat
        /\ Len(buff) + Left = taken - from /\ taken <= Len(sent)
    BY <1>1, <2>1, TakenIsBuffAndLeft DEF TypeOK
  <2>3. /\ Uncopied \in Seq(Pieces) /\ Len(Uncopied) = Left /\ Left \in Nat
        /\ \A k \in 1 .. Left : Uncopied[k] = cells[First + k - 1]
    BY <1>1, UncopiedIsLeft, TakenIsBuffAndLeft
  <2>4. /\ TakenOutput \in Seq(Pieces) /\ Len(TakenOutput) = taken - from
        /\ \A k \in 1 .. taken - from : TakenOutput[k] = sent[from + k]
    <3>1. \A i \in from + 1 .. taken : sent[i] \in Pieces
      BY <2>2
    <3>2. /\ TakenOutput \in Seq(Pieces)
          /\ Len(TakenOutput) = IF from + 1 <= taken THEN taken - (from + 1) + 1 ELSE 0
          /\ \A k \in 1 .. taken - (from + 1) + 1 : TakenOutput[k] = sent[from + 1 + k - 1]
      BY <2>2, <3>1, SubSeqProperties DEF TakenOutput
    <3>3. taken - from \in Nat
      BY <2>2, <2>3
    <3>4. Len(TakenOutput) = taken - from
      BY <2>2, <3>2, <3>3
    <3>5. ASSUME NEW k \in 1 .. taken - from
          PROVE  TakenOutput[k] = sent[from + k]
      <4>1. k \in 1 .. taken - (from + 1) + 1 /\ from + 1 + k - 1 = from + k
        BY <2>2
      <4> QED BY <3>2, <4>1
    <3> QED BY <3>2, <3>4, <3>5
  <2>5. IsRow(Pieces, all, buff, Uncopied)
    BY <2>2, <2>3, ConcatIsRow
  <2> HIDE DEF all
  <2>6. ASSUME NEW n \in 1 .. taken - from
        PROVE  all[n] = sent[from + n]
    <3>1. CASE n <= Len(buff)
      <4>1. n \in 1 .. Len(buff)
        BY <2>2, <3>1
      <4> QED BY <1>1, <2>1, <2>5, <4>1 DEF BuffIsExact, IsRow
    <3>2. CASE n > Len(buff)
      <4> DEFINE k == n - Len(buff)
                 i == First + k - 1
      <4>1. k \in 1 .. Left /\ Len(buff) + k = n
        BY <2>2, <2>3, <3>2
      <4>2. stage \in Copying /\ Left = view + 1 - First
        BY <4>1 DEF Left
      <4>3. First \in Nat /\ view \in Nat
        BY <1>1, <4>2, SliceBounds
      <4>4. i \in First .. view /\ from + Len(buff) + i - First + 1 = from + n
        BY <2>2, <4>1, <4>2, <4>3
      <4>5. cells[i] = sent[from + Len(buff) + i - First + 1]
        BY <1>1, <2>1, <4>2, <4>4 DEF SliceIsExact
      <4>6. all[n] = cells[i]
        BY <2>3, <2>5, <4>1 DEF IsRow
      <4> QED BY <4>4, <4>5, <4>6
    <3> QED BY <2>2, <3>1, <3>2
  <2>7. all \in Seq(Pieces) /\ Len(all) = taken - from
    BY <2>2, <2>3, <2>5 DEF IsRow
  <2>8. all = TakenOutput
    BY <2>2, <2>4, <2>6, <2>7, SeqEqual
  <2> QED BY <2>8 DEF all
<1>2. IInv => OutputIsExact
  <2> SUFFICES ASSUME IInv, ~ job.files, ~ torn
               PROVE  /\ buff \o Uncopied = TakenOutput
                      /\ stage = "done" =>
                           \/ file = IF job.scrub THEN Scrubbed(TakenOutput) ELSE TakenOutput
                           \/ file = <<>> /\ failure # "none"
    BY DEF OutputIsExact
  <2>1. buff \o Uncopied = TakenOutput
    BY <1>1
  <2>2. ASSUME stage = "done"
        PROVE  buff = TakenOutput
    <3>1. Uncopied = <<>>
      BY <2>2 DEF Uncopied
    <3>2. buff \in Seq(Pieces)
      BY DEF IInv, TypeOK
    <3> QED BY <2>1, <3>1, <3>2
  <2> QED BY <2>1, <2>2 DEF IInv, FileIsScrubbed
<1> QED BY <1>2, Invariance, PTL

(* A failure is reported only of taken output that justifies it.              *)
THEOREM FailuresAreJustified == Spec => []FailureIsJustified
<1>1. IInv => FailureIsJustified
  BY DEF IInv
<1> QED BY <1>1, Invariance, PTL

(* A command is passed only by an output that justifies it.                   *)
THEOREM PassesAreJustified == Spec => PassIsJustified
<1> DEFINE Pass == command' # command /\ Cmd.timeout # 0 /\ ~ torn =>
                     /\ Cmd.expect # {} => Matches(Cmd.expect, Sent)
                     /\ ~ Matches(Cmd.expectNot, Sent)
<1>1. IInv /\ [Next]_vars => [Pass]_vars
  <2> SUFFICES ASSUME IInv, Next, command' # command, Cmd.timeout # 0, ~ torn
               PROVE  /\ Cmd.expect # {} => Matches(Cmd.expect, Sent)
                      /\ ~ Matches(Cmd.expectNot, Sent)
    OBVIOUS
  <2>1. CASE TimedOut
    <3>1. stage = "read" /\ Cmd.expect = {}
      BY <2>1 DEF TimedOut
    <3> QED BY <3>1, SentIsThis, MatchesMonotone DEF IInv, NothingMatched
  <2>2. CASE Check
    <3>1. stage = "check" /\ Matches(Cmd.expect, this) /\ ~ Matches(Cmd.expectNot, this)
      BY <2>2 DEF Check
    <3> QED BY <3>1, SentIsThis, MatchesMonotone
  <2>3. CASE Type
    BY <2>3 DEF Type
  <2>4. CASE \E p \in Pieces : Write(p)
    BY <2>4 DEF Write
  <2>5. CASE Connect \/ Settle \/ Clear \/ Finish \/ CopyCell \/ CopyEnds
    BY <2>5 DEF Connect, Settle, Clear, Finish, CopyCell, CopyEnds
  <2>6. CASE Read \/ Pause \/ Fetch \/ Scrub
    BY <2>6 DEF Read, Pause, Fetch, Scrub
  <2> QED BY <2>1, <2>2, <2>3, <2>4, <2>5, <2>6 DEF Next
<1> QED BY <1>1, Invariance, PTL DEF Spec, PassIsJustified

=============================================================================
