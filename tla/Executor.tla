------------------------------- MODULE Executor -------------------------------
(***************************************************************************)
(* One execution on a device, worker/executor.go and worker/session.go:    *)
(* runExecution, runJob, runCommands with its loop over the expected       *)
(* output, fetchFile and scrubBytes, and the buffer that the SSH library   *)
(* writes the output of the shell to (threadSafeByteBuffer).               *)
(*                                                                         *)
(* The buffer gives out its own array: bytesAndReset returns a slice of it *)
(* and the next Write starts again at its first cell.  The executor copies *)
(* the slice without the lock, cell by cell as far as the writer can see.  *)
(*                                                                         *)
(* A cell stands for a piece of output, a pattern for the pieces it        *)
(* matches.  The device writes what it likes at any time.                  *)
(***************************************************************************)
EXTENDS Integers, Sequences, FiniteSets, Functions

CONSTANTS
  Pieces,   \* the pieces of output
  Secret,   \* the pieces that the scrubbers search for
  Mask,     \* what they put in place of one
  JobSet,   \* the jobs (see Jobs)
  MaxOutput \* bound on the output of the device

(* CommandSetCommand: the pieces that its patterns match, its timeout in      *)
(* seconds, and whether all its patterns compile.                             *)
Commands ==
  [expect : SUBSET Pieces, expectNot : SUBSET Pieces, timeout : Nat, compiles : BOOLEAN]

(* Job: a file set, or commands; whether it has scrubbers. *)
Jobs == [files : BOOLEAN, commands : Seq(Commands), scrub : BOOLEAN]

ASSUME ConstantsAssumption ==
  /\ JobSet \subseteq Jobs
  /\ Secret \subseteq Pieces
  /\ Mask \in Pieces \ Secret
  /\ MaxOutput \in Nat

VARIABLES
  job,     \* the job
  stage,   \* where runExecution is (see Stages)
  command, \* number of the command
  round,   \* the variable i of CommandLoop
  cells,   \* the array of the buffer
  len,     \* how many cells hold output that was not taken
  view,    \* how many cells the slice has that bytesAndReset returned
  next,    \* the cell to copy next
  this,    \* thisCommandBytes
  buff,    \* buff
  file,    \* result.file
  failure, \* result.failure
  sent,    \* history: the output of the device
  taken,   \* history: how much of it there was at the last bytesAndReset
  from,    \* history: how much of it there was when the shell was cleared
  base,    \* history: how much of buff there was when the command was typed
  torn     \* history: whether output was written over cells of a slice in use

buffer == <<cells, len, sent, torn, taken>>
output == <<view, next, this, buff>>
history == <<from, base>>
vars == <<job, stage, command, round, buffer, output, file, failure, history>>

Stages ==
  {"connect", "settle",                             \* before the first command
   "clear", "clearing", "type",                     \* of a command
   "read", "copyThis", "copyBuff", "check", "pause", \* of a round of CommandLoop
   "fetch", "scrub", "done"}

Failures ==
  {"none", "session", "write", "pattern", "unexpected", "unmatched", "file", "scrubber"}

TypeOK ==
  /\ job \in JobSet
  /\ stage \in Stages
  /\ command \in 1 .. Len(job.commands) + 1
  /\ round \in Nat
  /\ cells \in Seq(Pieces)
  /\ len \in 0 .. Len(cells)
  /\ view \in 0 .. Len(cells)
  /\ next \in 1 .. view + 1
  /\ this \in Seq(Pieces)
  /\ buff \in Seq(Pieces)
  /\ file \in Seq(Pieces)
  /\ failure \in Failures
  /\ sent \in Seq(Pieces)
  /\ taken \in 0 .. Len(sent)
  /\ from \in 0 .. Len(sent)
  /\ base \in 0 .. Len(buff)
  /\ torn \in BOOLEAN

Cmd == job.commands[command]

Matches(pieces, seq) == pieces \cap Range(seq) # {}

Scrubbed(seq) == [i \in DOMAIN seq |-> IF seq[i] \in Secret THEN Mask ELSE seq[i]]

-----------------------------------------------------------------------------
(* threadSafeByteBuffer. *)

Empty == len' = 0 /\ taken' = Len(sent)

(* bytesAndReset. *)
Take ==
  /\ view' = len
  /\ Empty
  /\ next' = 1
  /\ UNCHANGED <<cells, sent, torn>>

(* Write: a piece of output of the device arrives. *)
Write(p) ==
  /\ stage \notin {"connect", "fetch", "scrub", "done"}
  /\ Len(sent) < MaxOutput
  /\ cells' = IF len < Len(cells) THEN [cells EXCEPT ![len + 1] = p] ELSE Append(cells, p)
  /\ len' = len + 1
  /\ sent' = Append(sent, p)
  /\ torn' = (torn \/ len < view)
  /\ UNCHANGED <<job, stage, command, round, output, file, failure, taken, history>>

-----------------------------------------------------------------------------

Init ==
  /\ job \in JobSet
  /\ stage = "connect"
  /\ command = 1
  /\ round = 0
  /\ cells = <<>>
  /\ len = 0
  /\ view = 0
  /\ next = 1
  /\ this = <<>>
  /\ buff = <<>>
  /\ file = <<>>
  /\ failure = "none"
  /\ sent = <<>>
  /\ taken = 0
  /\ from = 0
  /\ base = 0
  /\ torn = FALSE

(* The execution goes on to the scrubbers, with a failure or without. *)
Leave(f) ==
  /\ stage' = "scrub"
  /\ failure' = f

(* newSession, authenticate and shell; all can fail. *)
Connect ==
  /\ stage = "connect"
  /\ \/ stage' = (IF job.files THEN "fetch" ELSE "settle") /\ UNCHANGED failure
     \/ Leave("session")
  /\ UNCHANGED <<job, command, round, buffer, output, file, history>>

(* After a second the output so far is dropped. *)
Settle ==
  /\ stage = "settle"
  /\ stage' = "clear"
  /\ Empty
  /\ from' = Len(sent)
  /\ UNCHANGED <<job, command, round, cells, sent, torn, output, file, failure, base>>

Clear_Dropping ==
  /\ stage = "clear"
  /\ command <= Len(job.commands)
  /\ stage' = "type"
  /\ Empty
  /\ UNCHANGED <<job, command, round, cells, sent, torn, output, file, failure, history>>

(* Before a command the pending output is taken. *)
Clear ==
  /\ stage = "clear"
  /\ command <= Len(job.commands)
  /\ stage' = "clearing"
  /\ Take
  /\ UNCHANGED <<job, command, round, this, buff, file, failure, history>>

(* All commands were run. *)
Finish ==
  /\ stage = "clear"
  /\ command > Len(job.commands)
  /\ Leave("none")
  /\ UNCHANGED <<job, command, round, buffer, output, file, history>>

(* append(buff, ...) and append(thisCommandBytes, ...): cell by cell. *)
CopyCell ==
  /\ next <= view
  /\ \/ /\ stage \in {"clearing", "copyBuff"}
        /\ buff' = Append(buff, cells[next])
        /\ UNCHANGED this
     \/ /\ stage = "copyThis"
        /\ this' = Append(this, cells[next])
        /\ UNCHANGED buff
  /\ next' = next + 1
  /\ UNCHANGED <<job, stage, command, round, buffer, view, file, failure, history>>

CopyEnds_KeepingNext ==
  /\ next > view
  /\ \/ stage = "clearing" /\ stage' = "type" /\ view' = 0
     \/ stage = "copyThis" /\ stage' = "copyBuff" /\ UNCHANGED view
     \/ stage = "copyBuff" /\ stage' = "check" /\ view' = 0
  /\ UNCHANGED <<job, command, round, buffer, next, this, buff, file, failure, history>>

(* All of the slice was copied; after thisCommandBytes comes buff. *)
CopyEnds ==
  /\ next > view
  /\ \/ stage = "clearing" /\ stage' = "type" /\ view' = 0
     \/ stage = "copyThis" /\ stage' = "copyBuff" /\ UNCHANGED view
     \/ stage = "copyBuff" /\ stage' = "check" /\ view' = 0
  /\ next' = 1
  /\ UNCHANGED <<job, command, round, buffer, this, buff, file, failure, history>>

(* The command is typed, and its enter.  Without a timeout the next one       *)
(* follows.                                                                   *)
Type ==
  /\ stage = "type"
  /\ \/ Leave("write") /\ UNCHANGED command
     \/ /\ Cmd.timeout = 0
        /\ stage' = "clear"
        /\ command' = command + 1
        /\ UNCHANGED failure
     \/ /\ Cmd.timeout # 0 /\ ~ Cmd.compiles
        /\ Leave("pattern") /\ UNCHANGED command
     \/ /\ Cmd.timeout # 0 /\ Cmd.compiles
        /\ stage' = "read"
        /\ UNCHANGED <<command, failure>>
  /\ round' = 0
  /\ this' = <<>>
  /\ base' = Len(buff)
  /\ UNCHANGED <<job, buffer, view, next, buff, file, from>>

(* The output since the last round is taken. *)
Read ==
  /\ stage = "read"
  /\ round < Cmd.timeout
  /\ stage' = "copyThis"
  /\ Take
  /\ UNCHANGED <<job, command, round, this, buff, file, failure, history>>

(* The rounds are over and nothing matched. *)
TimedOut ==
  /\ stage = "read"
  /\ round >= Cmd.timeout
  /\ IF Cmd.expect # {} THEN Leave("unmatched") /\ UNCHANGED command
     ELSE stage' = "clear" /\ command' = command + 1 /\ UNCHANGED failure
  /\ UNCHANGED <<job, round, buffer, output, file, history>>

Check_ExpectFirst ==
  /\ stage = "check"
  /\ IF Matches(Cmd.expect, this)
     THEN stage' = "clear" /\ command' = command + 1 /\ UNCHANGED failure
     ELSE /\ IF Matches(Cmd.expectNot, this) THEN Leave("unexpected")
             ELSE stage' = "pause" /\ UNCHANGED failure
          /\ UNCHANGED command
  /\ UNCHANGED <<job, round, buffer, output, file, history>>

Check_ButLastRound ==
  /\ stage = "check"
  /\ IF Matches(Cmd.expectNot, this) THEN Leave("unexpected") /\ UNCHANGED command
     ELSE IF Matches(Cmd.expect, this) /\ round + 1 < Cmd.timeout
     THEN stage' = "clear" /\ command' = command + 1 /\ UNCHANGED failure
     ELSE stage' = "pause" /\ UNCHANGED <<command, failure>>
  /\ UNCHANGED <<job, round, buffer, output, file, history>>

(* What was not to be expected ends the job, what was ends the command. *)
Check ==
  /\ stage = "check"
  /\ IF Matches(Cmd.expectNot, this) THEN Leave("unexpected") /\ UNCHANGED command
     ELSE IF Matches(Cmd.expect, this)
     THEN stage' = "clear" /\ command' = command + 1 /\ UNCHANGED failure
     ELSE stage' = "pause" /\ UNCHANGED <<command, failure>>
  /\ UNCHANGED <<job, round, buffer, output, file, history>>

(* The second of a round passes. *)
Pause ==
  /\ stage = "pause"
  /\ stage' = "read"
  /\ round' = round + 1
  /\ UNCHANGED <<job, command, buffer, output, file, failure, history>>

(* fetchFile: the contents of all files, or an error and nothing. *)
Fetch ==
  /\ stage = "fetch"
  /\ \/ Leave("file") /\ UNCHANGED buff
     \/ Leave("none") /\ buff' \in {<<>>} \cup {<<p>> : p \in Pieces}
  /\ UNCHANGED <<job, command, round, buffer, view, next, this, file, history>>

Scrub_OfSuccess ==
  /\ stage = "scrub"
  /\ stage' = "done"
  /\ \/ file' = (IF job.scrub /\ failure = "none" THEN Scrubbed(buff) ELSE buff)
        /\ UNCHANGED failure
     \/ /\ job.scrub /\ buff # <<>>
        /\ file' = <<>>
        /\ failure' = IF failure = "none" THEN "scrubber" ELSE failure
  /\ UNCHANGED <<job, command, round, buffer, output, history>>

(* scrubBytes, also after a failure.  If a scrubber fails nothing is left of  *)
(* the output.                                                                *)
Scrub ==
  /\ stage = "scrub"
  /\ stage' = "done"
  /\ \/ file' = (IF job.scrub THEN Scrubbed(buff) ELSE buff) /\ UNCHANGED failure
     \/ /\ job.scrub /\ buff # <<>>
        /\ file' = <<>>
        /\ failure' = IF failure = "none" THEN "scrubber" ELSE failure
  /\ UNCHANGED <<job, command, round, buffer, output, history>>

Next ==
  \/ \E p \in Pieces : Write(p)
  \/ Connect
  \/ Settle
  \/ Clear
  \/ Finish
  \/ CopyCell
  \/ CopyEnds
  \/ Type
  \/ Read
  \/ TimedOut
  \/ Check
  \/ Pause
  \/ Fetch
  \/ Scrub

Spec == Init /\ [][Next]_vars

-----------------------------------------------------------------------------
(* Properties. *)

(* The part of the current slice that buff does not have yet. *)
Uncopied ==
  CASE stage \in {"clearing", "copyBuff"} -> SubSeq(cells, next, view)
    [] stage = "copyThis" -> SubSeq(cells, 1, view)
    [] OTHER -> <<>>

(* Whatever the reader of the session overwrites, there is a piece in buff,   *)
(* or on the way to it, for every piece that came between the clearing of the *)
(* shell and the last bytesAndReset, and never an older one in its place.     *)
(* What comes after the last bytesAndReset is dropped with the shell: that of *)
(* a last command without a timeout (executor.go:119-120), and that after the *)
(* last round of any other.                                                   *)
NoTakenPieceLost ==
  ~ job.files =>
    /\ Len(buff) + Len(Uncopied) = taken - from
    /\ \A k \in 1 .. Len(buff) : \E j \in k .. Len(sent) - from : buff[k] = sent[from + j]

(* What bytesAndReset gave out since the shell was cleared: the first part of *)
(* what the device sent.                                                      *)
TakenOutput == SubSeq(sent, from + 1, taken)

(* As long as nothing arrives between bytesAndReset and the end of the        *)
(* copies, the output of the job is what was taken, in order and once, and    *)
(* what leaves the worker is that, scrubbed if there are scrubbers after a    *)
(* failure as well (executor.go:57-59), or nothing and a failure.             *)
OutputIsExact ==
  ~ job.files /\ ~ torn =>
    /\ buff \o Uncopied = TakenOutput
    /\ stage = "done" =>
         \/ file = IF job.scrub THEN Scrubbed(TakenOutput) ELSE TakenOutput
         \/ file = <<>> /\ failure # "none"

(* What came between the taking of the pending output for the command and the *)
(* last bytesAndReset.                                                        *)
Sent == SubSeq(sent, from + base + 1, taken)

(* A verdict is true of what had come when the last round took the output, if *)
(* no slice was torn: a command that never matched had its pattern nowhere in *)
(* it and all of its rounds were made, and one that failed had what was not   *)
(* to be expected.  That is less than docs/jobs.md:33-37 promises: the last   *)
(* round reads one second before the timeout is over, and what comes then is  *)
(* not looked at.                                                             *)
FailureIsJustified ==
  ~ torn =>
    /\ failure = "unmatched" => ~ Matches(Cmd.expect, Sent) /\ round = Cmd.timeout
    /\ failure = "unexpected" => Matches(Cmd.expectNot, Sent)

(* A command with expectations is passed only by an output that has what was  *)
(* expected and nothing that was not (docs/jobs.md:22-24), as far as the      *)
(* rounds looked at it.                                                       *)
PassIsJustified ==
  [][command' # command /\ Cmd.timeout # 0 /\ ~ torn =>
       /\ Cmd.expect # {} => Matches(Cmd.expect, Sent)
       /\ ~ Matches(Cmd.expectNot, Sent)]_vars

=============================================================================
