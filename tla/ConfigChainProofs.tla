--------------------------- MODULE ConfigChainProofs ---------------------------
(***************************************************************************)
(* Proofs about ConfigChain: nothing that is stored is written to any      *)
(* more, a nil dereference is the doing of a device that sets commands,    *)
(* the scheduler's lists have every job of every device, the stores have   *)
(* what the settings describe together, and an error means that something  *)
(* in the configuration is wrong.                                          *)
(*                                                                         *)
(* The loops add to the heap and write to what was added last.  So for the *)
(* first three it is the addresses that matter, not what the heap has      *)
(* there: a device that is being made points to nothing that a store       *)
(* points to (Separate).                                                   *)
(*                                                                         *)
(* For the others the heap matters.  What a job points to is compared with *)
(* what the settings applied so far build (Made).  Both change alike       *)
(* with one more settings: BuiltAppend says how what is built changes and  *)
(* AppliedSeen how the job does.  Template values are put in in any order, *)
(* which makes no difference when no value contains a variable             *)
(* (ResolvePlain).  What is built is what the documentation describes      *)
(* where IsClear says that the two agree (BuiltIsDescribed).               *)
(***************************************************************************)
EXTENDS ConfigChain, SequenceLemmas, FiniteSetTheorems, SequenceTheorems, TLAPS

-----------------------------------------------------------------------------
(* What the code makes of a chain of settings, in closed form.  Where the     *)
(* documentation and the code agree it is what the chain describes            *)
(* (BuiltIsDescribed).                                                        *)

(* A template variable in settings i gets its value when a device's settings  *)
(* are applied, the first of the chain at or after i that leave it a value.   *)
Final(text, chain, i, devicesFrom) ==
  LET passes == {m \in DOMAIN chain : m >= i /\ m >= devicesFrom /\
                   text \in Keys /\ ValueOf(SubSeq(chain, 1, m), text) # Nothing} IN
  IF passes = {} THEN text ELSE ValueOf(SubSeq(chain, 1, Min(passes)), text)

(* A command or scrubber of settings i when all values are in. *)
FinalCell(cell, chain, i, devicesFrom) ==
  [cell EXCEPT !.text = Final(@, chain, i, devicesFrom),
               !.expect = [m \in DOMAIN @ |-> Final(@[m], chain, i, devicesFrom)]]

(* The job that is built of a chain, and whether it is none. *)
Built(chain, devicesFrom) ==
  [kind |-> KindOf(chain),
   schedule |-> MostSpecific([i \in DOMAIN chain |-> chain[i].schedule], Nothing),
   values |-> [k \in Keys |-> ValueOf(chain, k)],
   commands |-> IF KindOf(chain) # "command" THEN <<>> ELSE FlattenSeq(
     [i \in DOMAIN chain |->
       [j \in DOMAIN chain[i].commands |->
         FinalCell(CommandOf(chain, i, j), chain, i, devicesFrom)]]),
   scrubbers |-> FlattenSeq(
     [i \in DOMAIN chain |->
       [j \in DOMAIN chain[i].scrubbers |->
         FinalCell(NewScrubber(chain[i].scrubbers[j]), chain, i, devicesFrom)]]),
   files |-> [f \in Files |-> IF KindOf(chain) # "file" THEN 0
     ELSE Cardinality({i \in DOMAIN chain : f \in chain[i].file})]]

Faulty(chain, devicesFrom) == Inconsistent(chain) \/ Unsound(Built(chain, devicesFrom))

(* The settings that the code applies to job n, and those for device d. *)
FromStore(n) == IF conf.jobs[n] = Nothing THEN <<>> ELSE Given(JobLayers(n))

Chain(d, n) == FromStore(n) \o FromDevice(d, n)

ConfigIsFaulty ==
  \/ \E n \in Listed(conf.jobs) :
       GenericIsMissing(JobLayers(n)) \/ Faulty(JobLayers(n), 1 + Len(JobLayers(n)))
  \/ \E d \in Listed(conf.devices) :
       \/ GenericIsMissing(DeviceLayers(d))
       \/ \E i \in DOMAIN DeviceLayers(d) : DeviceLayers(d)[i].protocol = [port |-> Nothing]
       \/ \E n \in Listed(conf.devices[d].jobs) : Faulty(Chain(d, n), 1 + Len(FromStore(n)))

-----------------------------------------------------------------------------
(* Texts with template variables.                                             *)

(* The function that Resolve is defined by exists. *)
Replaced(left, i, text, values, order) ==
  IF i = 0 THEN text
  ELSE IF left[i - 1] = order[i] THEN values[order[i]] ELSE left[i - 1]

LEMMA LeftExists ==
  ASSUME NEW text, NEW values, NEW order, NEW n \in Nat
  PROVE  \E left : left = [i \in 0 .. n |-> Replaced(left, i, text, values, order)]
<1> DEFINE Is(left, m) == left = [i \in 0 .. m |-> Replaced(left, i, text, values, order)]
           S == {m \in Nat : \E left : Is(left, m)}
<1>1. 0 \in S
  <2> DEFINE left == [i \in 0 .. 0 |-> text]
  <2>1. left = [i \in 0 .. 0 |-> Replaced(left, i, text, values, order)]
    BY DEF Replaced
  <2> HIDE DEF left
  <2> QED BY <2>1
<1>2. ASSUME NEW m \in Nat, m \in S
      PROVE  m + 1 \in S
  <2>1. PICK left : Is(left, m)
    BY <1>2
  <2> DEFINE more == [i \in 0 .. (m + 1) |->
                       IF i = m + 1 THEN Replaced(left, m + 1, text, values, order) ELSE left[i]]
  <2>2. ASSUME NEW i \in 0 .. (m + 1)
        PROVE  more[i] = Replaced(more, i, text, values, order)
    <3>1. i # 0 => i - 1 \in 0 .. (m + 1) /\ i - 1 # m + 1
      BY <2>2
    <3>2. i # 0 => more[i - 1] = left[i - 1]
      BY <3>1
    <3>3. Replaced(more, i, text, values, order) = Replaced(left, i, text, values, order)
      BY <3>2 DEF Replaced
    <3>4. CASE i = m + 1
      BY <3>3, <3>4
    <3>5. CASE i # m + 1
      <4>1. i \in 0 .. m
        BY <3>5
      <4>2. left[i] = Replaced(left, i, text, values, order)
        BY <2>1, <4>1
      <4> QED BY <3>3, <3>5, <4>2
    <3> QED BY <3>4, <3>5
  <2>3. more = [i \in 0 .. (m + 1) |-> more[i]]
    OBVIOUS
  <2> HIDE DEF more
  <2>4. Is(more, m + 1)
    BY <2>2, <2>3
  <2> QED BY <2>4
<1>3. Nat \subseteq S
  <2> HIDE DEF S
  <2> QED BY <1>1, <1>2, SetInduction
<1> QED BY <1>3

(* What is left of a text is the text or a value. *)
LEMMA ResolveType ==
  ASSUME NEW T, NEW text \in T, NEW values, NEW order, Len(order) \in Nat,
         \A i \in 1 .. Len(order) : values[order[i]] \in T
  PROVE  Resolve(text, values, order) \in T
<1> DEFINE n == Len(order)
           Is(left) == left = [i \in 0 .. n |-> Replaced(left, i, text, values, order)]
           f == CHOOSE left : Is(left)
           S == {m \in Nat : m \in 0 .. n => f[m] \in T}
<1>1. Is(f)
  <2>1. \E left : Is(left)
    BY LeftExists
  <2> QED BY <2>1
<1>2. \A m \in 0 .. n : f[m] = Replaced(f, m, text, values, order)
  BY <1>1
<1>3. Resolve(text, values, order) = f[n]
  BY DEF Resolve, Replaced
<1> HIDE DEF f
<1>4. 0 \in S
  BY <1>2 DEF Replaced
<1>5. ASSUME NEW m \in Nat, m \in S
      PROVE  m + 1 \in S
  <2>1. CASE m + 1 \in 0 .. n
    <3>1. m \in 0 .. n /\ m + 1 \in 1 .. n /\ (m + 1) - 1 = m /\ m + 1 # 0
      BY <2>1
    <3>2. f[m] \in T /\ values[order[m + 1]] \in T
      BY <1>5, <3>1
    <3>3. f[m + 1] = Replaced(f, m + 1, text, values, order)
      BY <1>2, <2>1
    <3> QED BY <3>1, <3>2, <3>3 DEF Replaced
  <2>2. CASE m + 1 \notin 0 .. n
    BY <2>2
  <2> QED BY <2>1, <2>2
<1>6. Nat \subseteq S
  <2> HIDE DEF S
  <2> QED BY <1>4, <1>5, SetInduction
<1>7. n \in 0 .. n
  OBVIOUS
<1> QED BY <1>3, <1>6, <1>7

-----------------------------------------------------------------------------
(* Types.                                                                     *)

LEMMA OverType ==
  ASSUME NEW S, NEW new \in S \cup {Nothing}, NEW old \in S \cup {Nothing}
  PROVE  /\ Over(new, old) \in S \cup {Nothing}
         /\ old \in S => Over(new, old) \in S
  BY DEF Over

(* An order of a finite set is a list of its elements. *)
LEMMA OrderType ==
  ASSUME NEW S, IsFiniteSet(S), NEW order \in SetToSeqs(S)
  PROVE  order \in Seq(S) /\ Len(order) \in Nat
<1>1. Cardinality(S) \in Nat
  BY FS_CardinalityType
<1>2. order \in [1 .. Cardinality(S) -> S]
  BY DEF SetToSeqs
<1> QED BY <1>1, <1>2

(* A command or a scrubber is a record of four parts. *)
Types == {"", "simple", "regex", "other"}

LEMMA RecordShape ==
  ASSUME NEW A, NEW B, NEW C, NEW D
  PROVE  /\ \A a \in A, b \in B, c \in C, d \in D :
              [type |-> a, text |-> b, expect |-> c, timeout |-> d] \in
                [type : A, text : B, expect : C, timeout : D]
         /\ \A r \in [type : A, text : B, expect : C, timeout : D] :
              /\ r.type \in A /\ r.text \in B /\ r.expect \in C /\ r.timeout \in D
              /\ r = [type |-> r.type, text |-> r.text, expect |-> r.expect,
                      timeout |-> r.timeout]
  OBVIOUS

LEMMA CellShape ==
  /\ \A a \in Types, b \in Texts \cup {Nothing}, c \in Seq(Texts), d \in Nat :
       [type |-> a, text |-> b, expect |-> c, timeout |-> d] \in Cells
  /\ \A r \in Cells :
       /\ r.type \in Types /\ r.text \in Texts \cup {Nothing} /\ r.expect \in Seq(Texts)
       /\ r.timeout \in Nat
       /\ r = [type |-> r.type, text |-> r.text, expect |-> r.expect, timeout |-> r.timeout]
<1>1. Cells = [type : Types, text : Texts \cup {Nothing}, expect : Seq(Texts), timeout : Nat]
  BY DEF Cells, Types
<1> QED BY <1>1, RecordShape

LEMMA CellExcept ==
  ASSUME NEW r \in Cells, NEW x, NEW y
  PROVE  [r EXCEPT !.text = x, !.expect = y] =
           [type |-> r.type, text |-> x, expect |-> y, timeout |-> r.timeout]
<1> DEFINE e == [r EXCEPT !.text = x, !.expect = y]
<1>1. r = [type |-> r.type, text |-> r.text, expect |-> r.expect, timeout |-> r.timeout]
  BY CellShape
<1>2. DOMAIN e = {"type", "text", "expect", "timeout"}
  BY <1>1
<1>3. e.type = r.type /\ e.text = x /\ e.expect = y /\ e.timeout = r.timeout
  BY <1>1
<1>4. e = [i \in DOMAIN e |-> e[i]]
  OBVIOUS
<1> HIDE DEF e
<1>5. e = [type |-> e.type, text |-> e.text, expect |-> e.expect, timeout |-> e.timeout]
  BY <1>2, <1>4
<1>6. e = [type |-> r.type, text |-> x, expect |-> y, timeout |-> r.timeout]
  BY <1>3, <1>5
<1> QED BY <1>6 DEF e

LEMMA CommandType ==
  ASSUME NEW c \in Cells, NEW settings \in CommandConfs
  PROVE  ApplyCommand(c, settings) \in Cells
<1>1. /\ c.text \in Texts \cup {Nothing} /\ c.expect \in Seq(Texts) /\ c.timeout \in Nat
      /\ c.type \in Types
      /\ settings.command \in Texts \cup {Nothing} /\ settings.expect \in Seq(Texts)
      /\ settings.timeout \in Nat \cup {Nothing}
  BY CellShape DEF CommandConfs
<1>2. Over(settings.command, c.text) \in Texts \cup {Nothing} /\ Over(settings.timeout, c.timeout) \in Nat
  BY <1>1, OverType
<1>3. c.expect \o settings.expect \in Seq(Texts)
  BY <1>1
<1> QED BY <1>1, <1>2, <1>3, CellShape DEF ApplyCommand

LEMMA NewCommandType == NewCommand \in Cells /\ NewCommand # Nothing
<1>1. <<>> \in Seq(Texts) /\ 120 \in Nat
  OBVIOUS
<1>2. NewCommand \in Cells
  BY <1>1 DEF NewCommand, Cells
<1> QED BY <1>2, NothingAssumption

(* The generic command is one, unless it was dropped. *)
LEMMA GenericType ==
  ASSUME NEW A, NEW job \in JobsAt(A), NEW settings \in JobConfs
  PROVE  /\ Generic(job, settings) \in Cells \cup {Nothing}
         /\ job.kind = "" \/ job.generic # Nothing <=> Generic(job, settings) # Nothing
<1> DEFINE generic == IF job.kind = "" THEN NewCommand ELSE job.generic
<1>1. /\ generic \in Cells \cup {Nothing}
      /\ job.kind = "" \/ job.generic # Nothing <=> generic # Nothing
  BY NewCommandType DEF JobsAt
<1>2. Generic(job, settings) =
        IF settings.command_generic = Nothing \/ generic = Nothing THEN generic
        ELSE ApplyCommand(generic, settings.command_generic)
  BY DEF Generic
<1> HIDE DEF generic
<1>3. settings.command_generic \in CommandConfs \cup {Nothing}
  BY DEF JobConfs
<1>4. CASE settings.command_generic = Nothing \/ generic = Nothing
  BY <1>1, <1>2, <1>4
<1>5. CASE ~ (settings.command_generic = Nothing \/ generic = Nothing)
  <2>1. Generic(job, settings) \in Cells
    BY <1>1, <1>2, <1>3, <1>5, CommandType
  <2> QED BY <1>1, <1>5, <2>1, NothingAssumption
<1> QED BY <1>4, <1>5

(* Where settings are applied without an error, ... *)
Applies(job, settings) == ~ ApplyFails(job, settings) /\ ~ ApplyPanics(job, settings)

(* ... the kind of a job stays what it is, and new commands have a generic    *)
(* one under them.                                                            *)
LEMMA KindType ==
  ASSUME NEW A, NEW job \in JobsAt(A), NEW settings \in JobConfs, ~ ApplyFails(job, settings)
  PROVE  /\ Kind(job, settings) \in {"command", "file"}
         /\ job.kind # "" => Kind(job, settings) = job.kind
<1>1. job.kind \in {"", "command", "file"} /\ settings.type \in {"", "command", "file"}
  BY DEF JobsAt, ApplyFails
<1>2. settings.type # "" => job.kind \in {"", settings.type}
  BY DEF ApplyFails
<1> QED BY <1>1, <1>2 DEF Kind

LEMMA NewCommandsType ==
  ASSUME NEW A, NEW job \in JobsAt(A), NEW settings \in JobConfs, Applies(job, settings)
  PROVE  /\ NewCommands(job, settings) \in Seq(Cells)
         /\ Len(NewCommands(job, settings)) \in Nat
<1>1. /\ settings.commands \in Seq(CommandConfs) /\ Len(settings.commands) \in Nat
      /\ DOMAIN settings.commands = 1 .. Len(settings.commands)
  <2>1. settings.commands \in Seq(CommandConfs)
    BY DEF JobConfs
  <2> QED BY <2>1
<1>2. CASE Kind(job, settings) # "command"
  BY <1>2 DEF NewCommands
<1>3. CASE Kind(job, settings) = "command"
  <2>1. NewCommands(job, settings) =
          [i \in DOMAIN settings.commands |->
            ApplyCommand(Generic(job, settings), settings.commands[i])]
    BY <1>3 DEF NewCommands
  <2>2. ASSUME NEW i \in DOMAIN settings.commands
        PROVE  ApplyCommand(Generic(job, settings), settings.commands[i]) \in Cells
    <3>1. job.kind = "" \/ job.generic # Nothing
      <4>1. job.kind = "" \/ job.kind = "command"
        BY <1>3, KindType DEF Applies
      <4>2. settings.commands # <<>>
        BY <1>1, <2>2
      <4> QED BY <1>3, <4>1, <4>2 DEF Applies, ApplyPanics, SetsCommands
    <3>2. Generic(job, settings) \in Cells
      BY <3>1, GenericType
    <3>3. settings.commands[i] \in CommandConfs
      BY <1>1
    <3> QED BY <3>2, <3>3, CommandType
  <2> QED BY <1>1, <2>1, <2>2
<1> QED BY <1>2, <1>3

LEMMA NewScrubbersType ==
  ASSUME NEW settings \in JobConfs
  PROVE  /\ NewScrubbers(settings) \in Seq(Cells)
         /\ Len(NewScrubbers(settings)) = Len(settings.scrubbers)
         /\ Len(settings.scrubbers) \in Nat
<1>1. /\ settings.scrubbers \in Seq(ScrubberConfs) /\ Len(settings.scrubbers) \in Nat
      /\ DOMAIN settings.scrubbers = 1 .. Len(settings.scrubbers)
  <2>1. settings.scrubbers \in Seq(ScrubberConfs)
    BY DEF JobConfs
  <2> QED BY <2>1
<1>2. \A i \in DOMAIN settings.scrubbers : NewScrubber(settings.scrubbers[i]) \in Cells
  <2>1. \A i \in DOMAIN settings.scrubbers : settings.scrubbers[i] \in ScrubberConfs
    BY <1>1
  <2>2. \A scrubber \in ScrubberConfs : NewScrubber(scrubber) \in Cells
    <3>1. <<>> \in Seq(Texts) /\ 0 \in Nat
      OBVIOUS
    <3> QED BY <3>1 DEF NewScrubber, ScrubberConfs, Cells
  <2> QED BY <2>1, <2>2
<1> QED BY <1>1, <1>2 DEF NewScrubbers

(* Addresses of a heap are addresses of the heap when it has grown. *)
LEMMA Grows ==
  ASSUME NEW m \in Nat, NEW n \in Nat, m <= n
  PROVE  /\ JobsAt(1 .. m) \subseteq JobsAt(1 .. n)
         /\ DevicesAt(1 .. m) \subseteq DevicesAt(1 .. n)
         /\ \A j \in JobsAt(1 .. m) : j # Nothing
         /\ \A d \in DevicesAt(1 .. m) : d # Nothing
<1>1. Seq(1 .. m) \subseteq Seq(1 .. n) /\ Seq(1 .. m) \subseteq Seq(Nat)
  <2>1. 1 .. m \subseteq 1 .. n /\ 1 .. m \subseteq Nat
    OBVIOUS
  <2> QED BY <2>1
<1>2. JobsAt(1 .. m) \subseteq JobsAt(1 .. n) /\ JobsAt(1 .. m) \subseteq JobsAt(Nat)
  BY <1>1 DEF JobsAt
<1>3. DevicesAt(1 .. m) \subseteq DevicesAt(1 .. n) /\ DevicesAt(1 .. m) \subseteq DevicesAt(Nat)
  BY <1>2 DEF DevicesAt, Maps
<1> QED BY <1>2, <1>3, NothingAssumption

LEMMA FreshType ==
  ASSUME NEW from \in Nat, NEW n \in Nat, NEW m \in Nat, from + n <= m
  PROVE  /\ Fresh(from, n) \in Seq(1 .. m)
         /\ \A a \in Range(Fresh(from, n)) : a > from
         /\ Len(Fresh(from, n)) = n
<1>1. \A i \in 1 .. n : from + i \in 1 .. m /\ from + i > from
  OBVIOUS
<1>2. Fresh(from, n) = [i \in 1 .. n |-> from + i]
  BY DEF Fresh
<1> QED BY <1>1, <1>2 DEF Range

LEMMA NewTypes ==
  ASSUME NEW A
  PROVE  NewJob \in JobsAt(A) /\ NewDevice \in DevicesAt(A)
<1>1. <<>> \in Seq(A) /\ <<>> \in Seq(Files) /\ <<>> \in Seq(Tags)
  OBVIOUS
<1>2. NewJob \in JobsAt(A)
  BY <1>1 DEF NewJob, JobsAt
<1>3. NewDevice \in DevicesAt(A)
  BY <1>1 DEF NewDevice, DevicesAt, Maps
<1> QED BY <1>2, <1>3

(* Applied settings point to the commands and the scrubbers they add. *)
LEMMA AppliedType ==
  ASSUME heap \in Seq(Cells), NEW job \in JobsAt(Addresses), NEW settings \in JobConfs,
         Applies(job, settings), NEW files \in SetToSeqs(settings.file),
         NEW n \in Nat, n = Len(heap) + Len(AddedCells(job, settings))
  PROVE  /\ AddedCells(job, settings) \in Seq(Cells)
         /\ Len(heap \o AddedCells(job, settings)) = n
         /\ Len(heap) \in Nat /\ Len(heap) <= n
         /\ Applied(job, settings, files) \in JobsAt(1 .. n)
         /\ Range(Parts(Applied(job, settings, files))) \subseteq
              Range(Parts(job)) \cup {a \in 1 .. n : a > Len(heap)}
<1> DEFINE added == NewCommands(job, settings)
           more == NewScrubbers(settings)
           commands == Fresh(Len(heap), Len(added))
           scrubbers == Fresh(Len(heap) + Len(added), Len(settings.scrubbers))
           applied == Applied(job, settings, files)
<1>1. /\ added \in Seq(Cells) /\ more \in Seq(Cells)
      /\ Len(added) \in Nat /\ Len(settings.scrubbers) \in Nat /\ Len(heap) \in Nat
      /\ Len(more) = Len(settings.scrubbers)
  BY NewCommandsType, NewScrubbersType
<1>2. /\ AddedCells(job, settings) \in Seq(Cells)
      /\ Len(AddedCells(job, settings)) = Len(added) + Len(settings.scrubbers)
  BY <1>1, SMTT(30) DEF AddedCells
<1>3. Len(heap \o AddedCells(job, settings)) = n /\ Len(heap) <= n
  <2>1. Len(AddedCells(job, settings)) \in Nat
    BY <1>2
  <2>2. Len(heap \o AddedCells(job, settings)) = Len(heap) + Len(AddedCells(job, settings))
    BY <1>2
  <2> QED BY <1>1, <2>1, <2>2
<1>4. /\ commands \in Seq(1 .. n) /\ scrubbers \in Seq(1 .. n)
      /\ \A a \in Range(commands) \cup Range(scrubbers) : a > Len(heap)
  <2>1. Len(heap) + Len(added) <= n /\ (Len(heap) + Len(added)) + Len(settings.scrubbers) <= n
        /\ Len(heap) + Len(added) \in Nat
    <3>1. n = Len(heap) + (Len(added) + Len(settings.scrubbers))
      BY <1>2
    <3>2. \A x, y, z \in Nat : n = x + (y + z) =>
            x + y <= n /\ (x + y) + z <= n /\ x + y \in Nat
      OBVIOUS
    <3> HIDE DEF added
    <3> QED BY <1>1, <3>1, <3>2
  <2>2. commands \in Seq(1 .. n) /\ \A a \in Range(commands) : a > Len(heap)
    BY <1>1, <2>1, FreshType
  <2>3. scrubbers \in Seq(1 .. n) /\ \A a \in Range(scrubbers) : a > Len(heap) + Len(added)
    BY <1>1, <2>1, FreshType
  <2>4. \A a \in Range(scrubbers) : a \in Nat
    BY <2>3 DEF Range
  <2> QED BY <1>1, <2>2, <2>3, <2>4
<1>5. job \in JobsAt(1 .. n)
  BY <1>1, <1>3, Grows DEF Addresses
<1>6. /\ applied.kind = Kind(job, settings)
      /\ applied.schedule = Over(settings.schedule, job.schedule)
      /\ applied.generic = IF Kind(job, settings) = "command" THEN Generic(job, settings) ELSE Nothing
      /\ applied.commands = job.commands \o commands
      /\ applied.files = IF Kind(job, settings) = "file" THEN job.files \o files ELSE <<>>
      /\ applied.scrubbers = job.scrubbers \o scrubbers
      /\ applied.template_values =
           [k \in Keys |-> Over(settings.template_values[k], job.template_values[k])]
      /\ applied = [kind |-> applied.kind, schedule |-> applied.schedule,
                    generic |-> applied.generic, commands |-> applied.commands,
                    files |-> applied.files, scrubbers |-> applied.scrubbers,
                    template_values |-> applied.template_values]
  BY DEF Applied
<1> HIDE DEF applied, commands, scrubbers, added, more
<1>7. /\ job.commands \in Seq(1 .. n) /\ job.scrubbers \in Seq(1 .. n) /\ job.files \in Seq(Files)
      /\ job.schedule \in Schedules \cup {Nothing}
      /\ job.template_values \in [Keys -> Texts \cup {Nothing}]
  BY <1>5 DEF JobsAt
<1>8. /\ settings.schedule \in Schedules \cup {Nothing}
      /\ settings.template_values \in [Keys -> Texts \cup {Nothing}]
      /\ files \in Seq(Files)
  <2>1. settings.file \subseteq Files /\ IsFiniteSet(settings.file)
    BY JobConfigAssumption, FS_Subset DEF JobConfs
  <2>2. files \in Seq(settings.file)
    BY <2>1, OrderType
  <2>3. files \in Seq(Files)
    BY <2>1, <2>2
  <2> QED BY <2>3 DEF JobConfs, Applies, ApplyFails
<1>9. /\ applied.kind \in {"command", "file"}
      /\ applied.generic \in Cells \cup {Nothing}
    BY <1>6, KindType, GenericType DEF Applies
<1>10. applied.schedule \in Schedules \cup {Nothing}
  BY <1>6, <1>7, <1>8 DEF Over
<1>11. applied.template_values \in [Keys -> Texts \cup {Nothing}]
  <2>1. \A k \in Keys : Over(settings.template_values[k], job.template_values[k]) \in Texts \cup {Nothing}
    BY <1>7, <1>8, OverType
  <2> QED BY <1>6, <2>1
<1>12. applied.commands \in Seq(1 .. n) /\ applied.scrubbers \in Seq(1 .. n)
  BY <1>4, <1>6, <1>7
<1>13. applied.files \in Seq(Files)
  BY <1>6, <1>7, <1>8
<1>14. applied \in JobsAt(1 .. n)
  BY <1>6, <1>9, <1>10, <1>11, <1>12, <1>13 DEF JobsAt
<1>15. /\ Range(applied.commands) = Range(job.commands) \cup Range(commands)
       /\ Range(applied.scrubbers) = Range(job.scrubbers) \cup Range(scrubbers)
       /\ Range(Parts(applied)) = Range(applied.commands) \cup Range(applied.scrubbers)
       /\ Range(Parts(job)) = Range(job.commands) \cup Range(job.scrubbers)
  <2>1. /\ Range(applied.commands) = Range(job.commands) \cup Range(commands)
        /\ Range(applied.scrubbers) = Range(job.scrubbers) \cup Range(scrubbers)
    BY <1>4, <1>6, <1>7, RangeConcatenation
  <2>2. /\ Range(applied.commands \o applied.scrubbers) =
             Range(applied.commands) \cup Range(applied.scrubbers)
        /\ Range(job.commands \o job.scrubbers) = Range(job.commands) \cup Range(job.scrubbers)
    BY <1>7, <1>12, RangeConcatenation
  <2> QED BY <2>1, <2>2 DEF Parts
<1>16. Range(commands) \subseteq 1 .. n /\ Range(scrubbers) \subseteq 1 .. n
  BY <1>4 DEF Range
<1>17. Range(Parts(applied)) \subseteq Range(Parts(job)) \cup {a \in 1 .. n : a > Len(heap)}
  BY <1>4, <1>15, <1>16
<1> QED BY <1>1, <1>2, <1>3, <1>14, <1>17 DEF applied

(* A deep copy points to the copies of the commands and scrubbers. *)
CopiedType(job) ==
  /\ CopiedCells(job) \in Seq(Cells)
  /\ heap \o CopiedCells(job) \in Seq(Cells)
  /\ Len(heap) \in Nat /\ Len(heap) <= Len(heap \o CopiedCells(job))
  /\ DeepCopied(job) \in JobsAt(1 .. Len(heap \o CopiedCells(job)))
  /\ Range(Parts(DeepCopied(job))) \cap Addresses = {}

LEMMA CopiedHasType ==
  ASSUME heap \in Seq(Cells), NEW job \in Jobs
  PROVE  CopiedType(job)
<1> DEFINE commands == Fresh(Len(heap), Len(job.commands))
           scrubbers == Fresh(Len(heap) + Len(job.commands), Len(job.scrubbers))
           n == Len(heap \o CopiedCells(job))
<1>1. job.commands \in Seq(Addresses) /\ job.scrubbers \in Seq(Addresses)
  BY DEF Jobs, JobsAt
<1>2. /\ Len(heap) \in Nat /\ Len(job.commands) \in Nat /\ Len(job.scrubbers) \in Nat
      /\ Parts(job) \in Seq(Addresses)
      /\ Len(Parts(job)) = Len(job.commands) + Len(job.scrubbers)
  BY <1>1 DEF Parts
<1>3. CopiedCells(job) \in Seq(Cells) /\ Len(CopiedCells(job)) = Len(Parts(job))
  <2> DEFINE parts == Parts(job)
  <2>1. parts \in Seq(Addresses)
    BY <1>2
  <2> HIDE DEF parts
  <2>2. Len(parts) \in Nat /\ DOMAIN parts = 1 .. Len(parts)
    BY <2>1
  <2>3. \A i \in DOMAIN parts : heap[parts[i]] \in Cells
    <3>1. \A i \in DOMAIN parts : parts[i] \in 1 .. Len(heap)
      BY <2>1 DEF Addresses
    <3>2. \A a \in 1 .. Len(heap) : heap[a] \in Cells
      OBVIOUS
    <3> QED BY <3>1, <3>2
  <2> QED BY <2>2, <2>3 DEF CopiedCells, parts
<1>4. /\ heap \o CopiedCells(job) \in Seq(Cells)
      /\ n = Len(heap) + (Len(job.commands) + Len(job.scrubbers))
  <2> DEFINE cells == CopiedCells(job)
  <2>1. cells \in Seq(Cells)
    BY <1>3
  <2>2. Len(cells) = Len(job.commands) + Len(job.scrubbers)
    BY <1>2, <1>3
  <2> HIDE DEF cells
  <2>3. heap \o cells \in Seq(Cells) /\ Len(heap \o cells) = Len(heap) + Len(cells)
    BY <2>1, ConcatProperties
  <2> QED BY <2>2, <2>3 DEF cells
<1>5. /\ n \in Nat /\ Len(heap) <= n /\ Len(heap) + Len(job.commands) \in Nat
      /\ Len(heap) + Len(job.commands) <= n
      /\ (Len(heap) + Len(job.commands)) + Len(job.scrubbers) <= n
  <2>1. \A x, y, z \in Nat :
          /\ x + (y + z) \in Nat /\ x <= x + (y + z) /\ x + y \in Nat /\ x + y <= x + (y + z)
          /\ (x + y) + z <= x + (y + z)
    OBVIOUS
  <2> HIDE DEF n
  <2> QED BY <1>2, <1>4, <2>1
<1> HIDE DEF n
<1>6. commands \in Seq(1 .. n) /\ \A a \in Range(commands) : a > Len(heap)
  BY <1>2, <1>5, FreshType
<1>7. scrubbers \in Seq(1 .. n) /\ \A a \in Range(scrubbers) : a > Len(heap)
  <2>1. scrubbers \in Seq(1 .. n) /\ \A a \in Range(scrubbers) : a > Len(heap) + Len(job.commands)
    BY <1>2, <1>5, FreshType
  <2>2. \A a \in Range(scrubbers) : a \in Nat
    <3>1. Range(scrubbers) \in SUBSET (1 .. n)
      BY <2>1, RangeOfSeq
    <3> HIDE DEF scrubbers
    <3> QED BY <3>1
  <2> QED BY <1>2, <2>1, <2>2
<1>8. /\ DeepCopied(job).commands = commands /\ DeepCopied(job).scrubbers = scrubbers
      /\ DeepCopied(job) = [job EXCEPT !.generic = Nothing, !.commands = commands, !.scrubbers = scrubbers]
  BY DEF DeepCopied, Jobs, JobsAt
<1> HIDE DEF commands, scrubbers
<1>9. DeepCopied(job) \in JobsAt(1 .. n)
  BY <1>6, <1>7, <1>8 DEF Jobs, JobsAt
<1>10. Range(Parts(DeepCopied(job))) = Range(commands) \cup Range(scrubbers)
  <2>1. Range(commands \o scrubbers) = Range(commands) \cup Range(scrubbers)
    BY <1>6, <1>7, RangeConcatenation
  <2> QED BY <1>8, <2>1 DEF Parts
<1>11. Range(Parts(DeepCopied(job))) \cap Addresses = {}
  <2>1. \A a \in Addresses : a <= Len(heap) /\ a \in Nat
    BY <1>2 DEF Addresses
  <2>2. \A a \in Addresses : a \notin Range(commands) /\ a \notin Range(scrubbers)
    BY <1>2, <1>6, <1>7, <2>1
  <2> QED BY <1>10, <2>2
<1> QED BY <1>2, <1>3, <1>4, <1>5, <1>9, <1>11 DEF CopiedType, n

-----------------------------------------------------------------------------
(* The inductive invariant.                                                   *)

(* What is visited in which phase. *)
StagesFit ==
  /\ phase = "jobs" => cur.stage \in {"idle", "layer"}
  /\ phase = "devices" => cur.stage \in {"idle", "copy", "layer", "jobs"}
  /\ phase = "lists" => cur.stage \in {"idle", "tags"}
  /\ phase \in {"data store", "started", "failed"} => cur.stage = "idle"
  /\ cur.stage = "idle" => cur = Idle

(* The entries that are left are of the present map, and not stored yet. *)
TodoIsLeft ==
  /\ phase = "jobs" => todo \subseteq Listed(conf.jobs) \ Listed(jobs) /\ Listed(devices) = {}
  /\ phase = "devices" => todo \subseteq Listed(conf.devices) \ Listed(devices)
  /\ phase = "lists" => todo \subseteq Listed(devices)

(* A job that newLocalJobStore visits. *)
JobVisited ==
  phase = "jobs" /\ cur.stage = "layer" =>
    /\ cur.name \in Names /\ cur.name \notin todo /\ jobs[cur.name] = Nothing
    /\ cur.layers \in Seq(JobConfs)
    /\ cur.job.kind = "command" => cur.job.generic # Nothing
    /\ cur.device = NewDevice

(* The tags of a list of layers. *)
TagsIn(layers) == UNION {Range(layers[i].tags) : i \in DOMAIN layers}

(* A device that newLocalDeviceStore visits: of which layers it will be, *)
(* which of its jobs it has and which tags.                              *)
DeviceVisited ==
  phase = "devices" /\ cur.stage # "idle" =>
    /\ cur.name \in Listed(conf.devices) /\ cur.name \notin todo /\ devices[cur.name] = Nothing
    /\ Listed(conf.devices[cur.name].jobs) =
         Listed(cur.device.jobs) \cup (IF cur.stage = "copy" THEN cur.due ELSE {})
    /\ cur.stage = "copy" => cur.layers = DeviceLayers(cur.name) /\ cur.device.tags = <<>>
    /\ cur.stage # "copy" =>
         /\ cur.layers \in Seq(DeviceConfs \ {Nothing})
         /\ Range(cur.layers) \subseteq Range(DeviceLayers(cur.name))
         /\ Range(cur.device.tags) \cup TagsIn(cur.layers) = ConfiguredTags(cur.name)
    /\ cur.stage = "jobs" =>
         /\ cur.layers # <<>>
         /\ cur.due \subseteq Listed(Head(cur.layers).jobs) \cap Listed(cur.device.jobs)
         /\ Range(Head(cur.layers).tags) \subseteq Range(cur.device.tags)

(* A set of commands of a device's job without its generic command was copied *)
(* from the job store.                                                        *)
CopiesKnown ==
  \A n \in Listed(cur.device.jobs) :
    cur.device.jobs[n].kind = "command" /\ cur.device.jobs[n].generic = Nothing =>
      jobs[n] # Nothing /\ jobs[n].kind = "command"

(* A stored device has the jobs and the tags that are configured. *)
DevicesAreWhole ==
  \A d \in Listed(devices) :
    /\ conf.devices[d] # Nothing
    /\ Listed(devices[d].jobs) = Listed(conf.devices[d].jobs)
    /\ Range(devices[d].tags) = ConfiguredTags(d)

(* Unless there was an error, every device is stored or still to be. *)
NoneDropped ==
  /\ phase = "devices" /\ ~ errs =>
       Listed(conf.devices) \subseteq
         Listed(devices) \cup todo \cup (IF cur.stage = "idle" THEN {} ELSE {cur.name})
  /\ phase \in {"data store", "lists", "started"} => Listed(conf.devices) \subseteq Listed(devices)

(* The pairs that a list of the scheduler has so far. *)
IsListed(d, n, t) ==
  /\ d \in Listed(devices) \ todo
  /\ n \in Listed(devices[d].jobs)
  /\ ~ (cur.stage = "tags" /\ cur.name = d /\ n \in cur.due)
  /\ t \in Range(TagsOf(d))

ListsSoFar ==
  /\ phase \notin {"lists", "started"} => \A t \in Tags : lists[t] = <<>>
  /\ phase \in {"lists", "started"} =>
       \A t \in Tags, d, n \in Names : <<d, n>> \in Range(lists[t]) <=> IsListed(d, n, t)
  /\ phase = "started" => todo = {}
  /\ phase = "lists" /\ cur.stage = "tags" =>
       cur.name \in Listed(devices) \ todo /\ cur.due \subseteq Listed(devices[cur.name].jobs)

(* What a device that is being made points to is its own. *)
IsStored(ad) ==
  \/ \E n \in Listed(jobs) : ad \in Range(Parts(jobs[n]))
  \/ \E d \in Listed(devices) : \E n \in Listed(devices[d].jobs) :
       ad \in Range(Parts(devices[d].jobs[n]))

Separate ==
  \A n \in Listed(cur.device.jobs) : \A ad \in Range(Parts(cur.device.jobs[n])) : ~ IsStored(ad)

Shape ==
  /\ StagesFit /\ TodoIsLeft /\ JobVisited /\ DeviceVisited /\ CopiesKnown /\ DevicesAreWhole
  /\ NoneDropped /\ ListsSoFar /\ Separate /\ PanicIsByDeviceCommands

IInv == TypeOK /\ Shape

-----------------------------------------------------------------------------
(* Every step keeps the types.                                                *)

LEMMA JobLayersType ==
  ASSUME conf \in Configurations, NEW n \in Listed(conf.jobs)
  PROVE  /\ JobLayers(n) \in Seq(JobConfs \cup {Nothing}) /\ JobLayers(n) # <<>>
         /\ ~ GenericIsMissing(JobLayers(n)) => JobLayers(n) \in Seq(JobConfs)
<1> DEFINE own == conf.jobs[n]
<1>1. /\ conf.jobs \in [Names -> JobConfs \cup {Nothing}]
      /\ conf.job_generics \in [Names -> JobConfs \cup {Nothing}]
      /\ Default \in Names
      /\ own \in JobConfs
      /\ own.generic \in Names \cup {Nothing}
  BY ConstantsAssumption DEF Configurations, Maps, Listed, JobConfs
<1> HIDE DEF own
<1>2. \/ JobLayers(n) = <<own>>
      \/ \E x \in JobConfs \cup {Nothing} : JobLayers(n) = <<x, own>>
  BY <1>1 DEF JobLayers, own
<1>3. CASE JobLayers(n) = <<own>>
  BY <1>1, <1>3
<1>4. ASSUME NEW x \in JobConfs \cup {Nothing}, JobLayers(n) = <<x, own>>
      PROVE  /\ JobLayers(n) \in Seq(JobConfs \cup {Nothing}) /\ JobLayers(n) # <<>>
             /\ ~ GenericIsMissing(JobLayers(n)) => JobLayers(n) \in Seq(JobConfs)
  <2>1. JobLayers(n) \in Seq(JobConfs \cup {Nothing}) /\ JobLayers(n) # <<>>
    BY <1>1, <1>4
  <2>2. x # Nothing => JobLayers(n) \in Seq(JobConfs)
    BY <1>1, <1>4
  <2>3. ~ GenericIsMissing(JobLayers(n)) => x # Nothing
    BY <1>4 DEF GenericIsMissing
  <2> QED BY <2>1, <2>2, <2>3
<1> QED BY <1>2, <1>3, <1>4

LEMMA DeviceLayersType ==
  ASSUME conf \in Configurations, NEW d \in Listed(conf.devices)
  PROVE  /\ DeviceLayers(d) \in Seq(DeviceConfs \cup {Nothing}) /\ DeviceLayers(d) # <<>>
         /\ ~ GenericIsMissing(DeviceLayers(d)) => DeviceLayers(d) \in Seq(DeviceConfs \ {Nothing})
<1> DEFINE own == conf.devices[d]
<1>1. /\ conf.devices \in [Names -> DeviceConfs \cup {Nothing}]
      /\ conf.device_generics \in [Names -> DeviceConfs \cup {Nothing}]
      /\ Default \in Names
      /\ own \in DeviceConfs /\ own # Nothing
      /\ own.generic \in Names \cup {Nothing}
  BY ConstantsAssumption DEF Configurations, Maps, Listed, DeviceConfs
<1> HIDE DEF own
<1>2. \/ DeviceLayers(d) = <<own>>
      \/ \E x \in DeviceConfs \cup {Nothing} : DeviceLayers(d) = <<x, own>>
  BY <1>1 DEF DeviceLayers, own
<1>3. CASE DeviceLayers(d) = <<own>>
  BY <1>1, <1>3
<1>4. ASSUME NEW x \in DeviceConfs \cup {Nothing}, DeviceLayers(d) = <<x, own>>
      PROVE  /\ DeviceLayers(d) \in Seq(DeviceConfs \cup {Nothing}) /\ DeviceLayers(d) # <<>>
             /\ ~ GenericIsMissing(DeviceLayers(d)) => DeviceLayers(d) \in Seq(DeviceConfs \ {Nothing})
  <2>1. DeviceLayers(d) \in Seq(DeviceConfs \cup {Nothing}) /\ DeviceLayers(d) # <<>>
    BY <1>1, <1>4
  <2>2. x # Nothing => DeviceLayers(d) \in Seq(DeviceConfs \ {Nothing})
    BY <1>1, <1>4
  <2>3. ~ GenericIsMissing(DeviceLayers(d)) => x # Nothing
    BY <1>4 DEF GenericIsMissing
  <2> QED BY <2>1, <2>2, <2>3
<1> QED BY <1>2, <1>3, <1>4

LEMMA IdleType == Idle \in Visits
<1>1. NewJob \in Jobs /\ NewDevice \in Devices
  BY NewTypes DEF Jobs, Devices
<1>2. <<>> \in Seq(JobConfs \cup {Nothing})
  OBVIOUS
<1> QED BY <1>1, <1>2 DEF Idle, Visits

(* A device with one more job, or another one. *)
LEMMA WithJobType ==
  ASSUME NEW A, NEW device \in DevicesAt(A), NEW n \in Names, NEW job \in JobsAt(A)
  PROVE  /\ [device EXCEPT !.jobs[n] = job] \in DevicesAt(A)
         /\ [device EXCEPT !.jobs[n] = job].jobs = [device.jobs EXCEPT ![n] = job]
         /\ [device EXCEPT !.jobs[n] = job].tags = device.tags
<1>1. device.jobs \in [Names -> JobsAt(A) \cup {Nothing}]
  BY DEF DevicesAt, Maps
<1>2. [device.jobs EXCEPT ![n] = job] \in [Names -> JobsAt(A) \cup {Nothing}]
  BY <1>1
<1> QED BY <1>2 DEF DevicesAt, Maps

(* What has types with a heap has them with a longer one. *)
LEMMA TypesGrow ==
  ASSUME TypeOK, heap' \in Seq(Cells), Len(heap) <= Len(heap')
  PROVE  /\ Jobs \subseteq Jobs' /\ Devices \subseteq Devices'
         /\ Visits \subseteq Visits' /\ Maps(Jobs) \subseteq Maps(Jobs')
         /\ Maps(Devices) \subseteq Maps(Devices')
<1>1. Len(heap) \in Nat /\ Len(heap') \in Nat
  <2>1. heap \in Seq(Cells)
    BY DEF TypeOK
  <2> QED BY <2>1
<1>2. Jobs \subseteq Jobs' /\ Devices \subseteq Devices'
  BY <1>1, Grows DEF Jobs, Devices, Addresses
<1>3. Visits \subseteq Visits'
  BY <1>2 DEF Visits
<1> QED BY <1>2, <1>3 DEF Maps

LEMMA TypeSkip ==
  ASSUME TypeOK, Skip, todo' \subseteq Names
  PROVE  TypeOK'
<1>1. Visits' = Visits /\ Jobs' = Jobs /\ Devices' = Devices
  BY DEF Skip, Visits, Jobs, Devices, Addresses
<1>2. cur' \in Visits'
  BY <1>1, IdleType DEF Skip
<1> QED BY <1>1, <1>2 DEF TypeOK, Skip

LEMMA TypeJobs ==
  ASSUME TypeOK, StagesFit, TodoIsLeft, JobVisited,
         NEW n \in Names, BeginJob(n) \/ ApplyJobLayer \/ StoreJob \/ JobStoreDone
  PROVE  TypeOK'
<1>1. CASE BeginJob(n)
  <2>1. todo' \subseteq Names
    BY <1>1 DEF BeginJob, TypeOK
  <2>2. CASE GenericIsMissing(JobLayers(n))
    BY <1>1, <2>1, <2>2, TypeSkip DEF BeginJob
  <2>3. CASE ~ GenericIsMissing(JobLayers(n))
    <3>1. /\ cur' = [Idle EXCEPT !.stage = "layer", !.name = n, !.layers = JobLayers(n)]
          /\ UNCHANGED <<conf, phase, heap, jobs, devices, errs, lists>>
      BY <1>1, <2>3 DEF BeginJob
    <3>2. Visits' = Visits /\ Jobs' = Jobs /\ Devices' = Devices
      BY <3>1 DEF Visits, Jobs, Devices, Addresses
    <3>3. JobLayers(n) \in Seq(JobConfs \cup {Nothing})
      BY <1>1, JobLayersType DEF BeginJob, TodoIsLeft, TypeOK
    <3>4. cur' \in Visits
      BY <3>1, <3>3, IdleType DEF Visits
    <3> QED BY <2>1, <3>1, <3>2, <3>4 DEF TypeOK
  <2> QED BY <2>2, <2>3
<1>2. CASE ApplyJobLayer
  <2> DEFINE settings == Head(cur.layers)
  <2>1. phase = "jobs" /\ cur.stage = "layer" /\ cur.layers # <<>> /\ todo' = todo
    BY <1>2 DEF ApplyJobLayer
  <2>2. CASE ApplyFails(cur.job, settings)
    BY <1>2, <2>1, <2>2, TypeSkip DEF ApplyJobLayer, TypeOK
  <2>3. CASE ~ ApplyFails(cur.job, settings)
    <3>1. PICK files \in SetToSeqs(settings.file) :
            cur' = [cur EXCEPT !.job = Applied(cur.job, settings, files), !.layers = Tail(cur.layers)]
      BY <1>2, <2>3 DEF ApplyJobLayer
    <3>2. /\ heap' = heap \o AddedCells(cur.job, settings)
          /\ UNCHANGED <<conf, phase, jobs, devices, errs, lists>>
      BY <1>2, <2>3 DEF ApplyJobLayer
    <3>3. /\ cur.job \in Jobs /\ cur.layers \in Seq(JobConfs) /\ settings \in JobConfs
          /\ Tail(cur.layers) \in Seq(JobConfs)
      BY <2>1 DEF TypeOK, Visits, JobVisited
    <3>4. Applies(cur.job, settings)
      BY <2>1, <2>3 DEF Applies, ApplyPanics, JobVisited
    <3>5. /\ AddedCells(cur.job, settings) \in Seq(Cells)
          /\ Len(heap') = Len(heap) + Len(AddedCells(cur.job, settings))
          /\ Len(heap') \in Nat
          /\ heap' \in Seq(Cells)
      <4>1. AddedCells(cur.job, settings) \in Seq(Cells)
        BY <3>3, <3>4, NewCommandsType, NewScrubbersType DEF AddedCells, Jobs
      <4>2. heap \in Seq(Cells)
        BY DEF TypeOK
      <4> QED BY <3>2, <4>1, <4>2
    <3>6. /\ Len(heap) <= Len(heap')
          /\ Applied(cur.job, settings, files) \in Jobs'
      BY <3>3, <3>4, <3>5, AppliedType DEF TypeOK, Jobs, Addresses
    <3>7. cur' \in Visits'
      <4>1. cur \in Visits'
        BY <3>5, <3>6, TypesGrow DEF TypeOK
      <4>2. Tail(cur.layers) \in Seq(JobConfs \cup {Nothing})
        BY <3>3
      <4> QED BY <3>1, <3>6, <4>1, <4>2 DEF Visits
    <3> QED BY <2>1, <3>2, <3>5, <3>6, <3>7, TypesGrow DEF TypeOK
  <2> QED BY <2>2, <2>3
<1>3. CASE StoreJob
  <2>1. phase = "jobs" /\ cur.stage = "layer" /\ todo' = todo
    BY <1>3 DEF StoreJob
  <2>2. CASE ~ Valid(cur.job)
    BY <1>3, <2>1, <2>2, TypeSkip DEF StoreJob, TypeOK
  <2>3. CASE Valid(cur.job)
    <3>1. /\ jobs' = [jobs EXCEPT ![cur.name] = cur.job]
          /\ cur' = Idle
          /\ UNCHANGED <<conf, phase, heap, devices, errs, lists>>
      BY <1>3, <2>3 DEF StoreJob
    <3>2. Visits' = Visits /\ Jobs' = Jobs /\ Devices' = Devices
      BY <3>1 DEF Visits, Jobs, Devices, Addresses
    <3>3. cur.job \in Jobs
      BY DEF TypeOK, Visits
    <3>4. jobs' \in Maps(Jobs)
      BY <3>1, <3>3 DEF TypeOK, Maps
    <3> QED BY <2>1, <3>1, <3>2, <3>4, IdleType DEF TypeOK
  <2> QED BY <2>2, <2>3
<1>4. CASE JobStoreDone
  <2>1. Visits' = Visits /\ Jobs' = Jobs /\ Devices' = Devices
    BY <1>4 DEF JobStoreDone, Visits, Jobs, Devices, Addresses
  <2>2. todo' \subseteq Names
    BY <1>4 DEF JobStoreDone, TypeOK, Listed
  <2> QED BY <1>4, <2>1, <2>2 DEF JobStoreDone, TypeOK
<1> QED BY <1>1, <1>2, <1>3, <1>4

LEMMA TypeDevices ==
  ASSUME TypeOK, StagesFit, TodoIsLeft, DeviceVisited, NEW n \in Names,
         \/ BeginDevice(n) \/ CopyJob(n) \/ JobsCopied
         \/ ApplyDeviceLayer \/ DeviceLayerDone \/ StoreDevice \/ DeviceStoreDone
  PROVE  TypeOK'
<1>1. /\ heap \in Seq(Cells) /\ cur \in Visits /\ jobs \in Maps(Jobs) /\ devices \in Maps(Devices)
      /\ cur.device \in Devices
  BY DEF TypeOK, Visits
<1>2. heap' = heap => Visits' = Visits /\ Jobs' = Jobs /\ Devices' = Devices
  BY DEF Visits, Jobs, Devices, Addresses
<1>3. CASE BeginDevice(n)
  <2>1. /\ todo' \subseteq Names
        /\ cur' = [Idle EXCEPT !.stage = "copy", !.name = n, !.layers = DeviceLayers(n),
                               !.due = Listed(conf.devices[n].jobs)]
        /\ UNCHANGED <<conf, phase, heap, jobs, devices, errs, lists>>
    BY <1>3 DEF BeginDevice, TypeOK
  <2>2. DeviceLayers(n) \in Seq(DeviceConfs \cup {Nothing})
    BY <1>3, DeviceLayersType DEF BeginDevice, TodoIsLeft, TypeOK
  <2>3. Listed(conf.devices[n].jobs) \subseteq Names
    BY DEF Listed
  <2>4. cur' \in Visits
    BY <2>1, <2>2, <2>3, IdleType DEF Visits
  <2> QED BY <1>2, <2>1, <2>4 DEF TypeOK
<1>4. CASE CopyJob(n)
  <2>1. UNCHANGED <<conf, phase, todo, jobs, devices, errs, lists>>
    BY <1>4 DEF CopyJob
  <2>2. CASE jobs[n] = Nothing
    <3>1. cur' = [cur EXCEPT !.device.jobs[n] = NewJob, !.due = @ \ {n}] /\ heap' = heap
      BY <1>4, <2>2 DEF CopyJob
    <3>2. [cur.device EXCEPT !.jobs[n] = NewJob] \in Devices
      BY <1>1, NewTypes, WithJobType DEF Devices
    <3>3. cur' \in Visits
      BY <1>1, <3>1, <3>2 DEF Visits
    <3> QED BY <1>2, <2>1, <3>1, <3>3 DEF TypeOK
  <2>3. CASE jobs[n] # Nothing
    <3> DEFINE job == jobs[n]
    <3>1. /\ cur' = [cur EXCEPT !.device.jobs[n] = DeepCopied(job), !.due = @ \ {n}]
          /\ heap' = heap \o CopiedCells(job)
      BY <1>4, <2>3 DEF CopyJob
    <3>2. job \in Jobs
      BY <1>1, <2>3 DEF Maps
    <3> HIDE DEF job
    <3>3. CopiedType(job)
      BY <1>1, <3>2, CopiedHasType
    <3>4. heap' \in Seq(Cells) /\ Len(heap) <= Len(heap') /\ DeepCopied(job) \in Jobs'
      BY <3>1, <3>3 DEF CopiedType, Jobs, Addresses
    <3>5. cur \in Visits' /\ cur.device \in Devices'
      BY <1>1, <3>4, TypesGrow
    <3>6. [cur.device EXCEPT !.jobs[n] = DeepCopied(job)] \in Devices'
      BY <3>4, <3>5, WithJobType DEF Jobs, Devices
    <3>7. cur' \in Visits'
      BY <3>1, <3>5, <3>6 DEF Visits
    <3> QED BY <2>1, <3>4, <3>7, TypesGrow DEF TypeOK
  <2> QED BY <2>2, <2>3
<1>5. CASE JobsCopied
  <2>1. todo' = todo
    BY <1>5 DEF JobsCopied
  <2>2. CASE GenericIsMissing(cur.layers)
    BY <1>5, <2>1, <2>2, TypeSkip DEF JobsCopied, TypeOK
  <2>3. CASE ~ GenericIsMissing(cur.layers)
    <3>1. /\ cur' = [cur EXCEPT !.stage = "layer"]
          /\ UNCHANGED <<conf, phase, heap, jobs, devices, errs, lists>>
      BY <1>5, <2>3 DEF JobsCopied
    <3>2. cur' \in Visits
      BY <1>1, <3>1 DEF Visits
    <3> QED BY <1>2, <2>1, <3>1, <3>2 DEF TypeOK
  <2> QED BY <2>2, <2>3
<1>6. CASE ApplyDeviceLayer
  <2> DEFINE settings == Head(cur.layers)
  <2>1. todo' = todo /\ phase = "devices" /\ cur.stage = "layer" /\ cur.layers # <<>>
    BY <1>6 DEF ApplyDeviceLayer
  <2>2. CASE settings.protocol # Nothing /\ settings.protocol.port = Nothing
    BY <1>6, <2>1, <2>2, TypeSkip DEF ApplyDeviceLayer, TypeOK
  <2>3. CASE ~ (settings.protocol # Nothing /\ settings.protocol.port = Nothing)
    <3> DEFINE port == IF settings.protocol = Nothing THEN cur.device.port ELSE settings.protocol.port
               user == Over(settings.user, cur.device.user)
               tags == cur.device.tags \o settings.tags
               due == Listed(settings.jobs) \cap Listed(cur.device.jobs)
               device == [cur.device EXCEPT !.port = port, !.user = user, !.tags = tags]
    <3>1. /\ cur' = [cur EXCEPT !.stage = "jobs", !.device = device, !.due = due]
          /\ UNCHANGED <<conf, phase, heap, jobs, devices, errs, lists>>
      BY <1>6, <2>3 DEF ApplyDeviceLayer
    <3>2. settings \in DeviceConfs
      BY <2>1 DEF DeviceVisited
    <3>3. /\ settings.protocol \in [port : Nat \cup {Nothing}] \cup {Nothing}
          /\ settings.user \in Users \cup {Nothing} /\ settings.tags \in Seq(Tags \ {Untagged})
          /\ cur.device.port \in Nat /\ cur.device.user \in Users \cup {Nothing}
          /\ cur.device.tags \in Seq(Tags)
      BY <1>1, <3>2 DEF DeviceConfs, Devices, DevicesAt
    <3>4. port \in Nat
      BY <2>3, <3>3
    <3>5. user \in Users \cup {Nothing}
      BY <3>3 DEF Over
    <3>6. tags \in Seq(Tags)
      <4>1. settings.tags \in Seq(Tags)
        BY <3>3
      <4> QED BY <3>3, <4>1
    <3> HIDE DEF port, user, tags
    <3>7. device \in Devices
      BY <1>1, <3>4, <3>5, <3>6 DEF Devices, DevicesAt
    <3>8. due \subseteq Names
      BY DEF Listed
    <3> HIDE DEF device, due
    <3>9. cur' \in Visits
      BY <1>1, <3>1, <3>7, <3>8 DEF Visits
    <3> QED BY <1>2, <2>1, <3>1, <3>9 DEF TypeOK
  <2> QED BY <2>2, <2>3
<1>7. CASE DeviceLayerDone
  <2>1. /\ cur' = [cur EXCEPT !.stage = "layer", !.layers = Tail(cur.layers)]
        /\ UNCHANGED <<conf, phase, todo, heap, jobs, devices, errs, lists>>
        /\ phase = "devices" /\ cur.stage = "jobs"
    BY <1>7 DEF DeviceLayerDone
  <2>2. cur.layers \in Seq(DeviceConfs \ {Nothing}) /\ cur.layers # <<>>
    BY <2>1 DEF DeviceVisited
  <2>3. Tail(cur.layers) \in Seq(DeviceConfs \ {Nothing})
    BY <2>2
  <2>4. Tail(cur.layers) \in Seq(DeviceConfs \cup {Nothing})
    BY <2>3
  <2>5. cur' \in Visits
    BY <1>1, <2>1, <2>4 DEF Visits
  <2> QED BY <1>2, <2>1, <2>5 DEF TypeOK
<1>8. CASE StoreDevice
  <2>1. phase = "devices" /\ cur.stage = "layer" /\ todo' = todo
    BY <1>8 DEF StoreDevice
  <2>2. CASE \E m \in Listed(cur.device.jobs) : ~ Valid(cur.device.jobs[m])
    BY <1>8, <2>1, <2>2, TypeSkip DEF StoreDevice, TypeOK
  <2>3. CASE ~ \E m \in Listed(cur.device.jobs) : ~ Valid(cur.device.jobs[m])
    <3>1. /\ devices' = [devices EXCEPT ![cur.name] = cur.device]
          /\ cur' = Idle
          /\ UNCHANGED <<conf, phase, heap, jobs, errs, lists>>
      BY <1>8, <2>3 DEF StoreDevice
    <3>2. devices' \in Maps(Devices)
      BY <1>1, <3>1 DEF Maps
    <3> QED BY <1>2, <2>1, <3>1, <3>2, IdleType DEF TypeOK
  <2> QED BY <2>2, <2>3
<1>9. CASE DeviceStoreDone
  BY <1>2, <1>9 DEF DeviceStoreDone, TypeOK
<1> QED BY <1>3, <1>4, <1>5, <1>6, <1>7, <1>8, <1>9

LEMMA ResolvedType ==
  ASSUME NEW cell \in Cells, NEW values \in [Keys -> Texts \cup {Nothing}],
         NEW order \in SetToSeqs({k \in Keys : values[k] # Nothing})
  PROVE  Resolved(cell, values, order) \in Cells
<1> DEFINE given == {k \in Keys : values[k] # Nothing}
<1>1. order \in Seq(given) /\ Len(order) \in Nat
  <2>1. IsFiniteSet(given)
    BY JobConfigAssumption, FS_Subset
  <2> HIDE DEF given
  <2> QED BY <2>1, OrderType DEF given
<1>2. \A i \in 1 .. Len(order) : values[order[i]] \in Texts
  <2>1. \A i \in 1 .. Len(order) : order[i] \in given
    BY <1>1
  <2> QED BY <2>1
<1>3. \A text \in Texts : Resolve(text, values, order) \in Texts
  BY <1>1, <1>2, ResolveType
<1>4. \A text \in Texts \cup {Nothing} : Resolve(text, values, order) \in Texts \cup {Nothing}
  <2>1. \A i \in 1 .. Len(order) : values[order[i]] \in Texts \cup {Nothing}
    BY <1>2
  <2> QED BY <1>1, <2>1, ResolveType
<1> DEFINE expect == [i \in DOMAIN cell.expect |-> Resolve(cell.expect[i], values, order)]
<1>5. expect \in Seq(Texts)
  <2>1. cell.expect \in Seq(Texts)
    BY DEF Cells
  <2>2. /\ Len(cell.expect) \in Nat /\ DOMAIN cell.expect = 1 .. Len(cell.expect)
        /\ \A i \in DOMAIN cell.expect : cell.expect[i] \in Texts
    BY <2>1
  <2>3. \A i \in DOMAIN cell.expect : Resolve(cell.expect[i], values, order) \in Texts
    BY <1>3, <2>2
  <2> QED BY <2>2, <2>3
<1>6. Resolve(cell.text, values, order) \in Texts \cup {Nothing}
  BY <1>4 DEF Cells
<1>7. Resolved(cell, values, order) =
        [cell EXCEPT !.text = Resolve(cell.text, values, order), !.expect = expect]
  BY DEF Resolved
<1> HIDE DEF expect
<1> QED BY <1>5, <1>6, <1>7 DEF Cells

(* What ApplyConfig and ApplyTemplateValues make of a job of a device. *)
DeviceJobApplied(n, applied) ==
  LET job == cur.device.jobs[n] IN
  /\ job \in Jobs /\ applied \in Jobs'
  /\ cur' = [cur EXCEPT !.device.jobs[n] = applied, !.due = cur.due \ {n}]
  /\ heap' \in Seq(Cells) /\ Len(heap) \in Nat /\ Len(heap) <= Len(heap')
  /\ \A a \in Addresses : a \notin Range(Parts(applied)) => heap'[a] = heap[a]
  /\ Range(Parts(applied)) \subseteq Range(Parts(job)) \cup {a \in Addresses' : a > Len(heap)}
  /\ applied.kind = "command" /\ applied.generic = Nothing =>
       job.kind = "command" /\ job.generic = Nothing
  /\ UNCHANGED <<conf, phase, todo, jobs, devices, errs, lists>>

LEMMA DeviceJobIsApplied ==
  ASSUME TypeOK, DeviceVisited, NEW n \in Names, ApplyDeviceJob(n),
         ~ ApplyPanics(cur.device.jobs[n], Head(cur.layers).jobs[n]),
         ~ ApplyFails(cur.device.jobs[n], Head(cur.layers).jobs[n])
  PROVE  \E applied : DeviceJobApplied(n, applied)
<1> DEFINE settings == Head(cur.layers).jobs[n]
           job == cur.device.jobs[n]
           added == AddedCells(job, settings)
           cells == heap \o added
           given(values) == {k \in Keys : values[k] # Nothing}
<1>1. PICK files \in SetToSeqs(settings.file) :
        LET applied == Applied(job, settings, files) IN
        \E order \in SetToSeqs(given(applied.template_values)) :
          /\ heap' = [a \in DOMAIN cells |->
               IF a \in Range(Parts(applied)) THEN Resolved(cells[a], applied.template_values, order)
               ELSE cells[a]]
          /\ cur' = [cur EXCEPT !.device.jobs[n] = applied, !.due = @ \ {n}]
          /\ UNCHANGED <<conf, phase, jobs, devices, errs, lists>>
  BY DEF ApplyDeviceJob
<1> DEFINE applied == Applied(job, settings, files)
           values == applied.template_values
<1>2. PICK order \in SetToSeqs(given(values)) :
        /\ heap' = [a \in DOMAIN cells |->
             IF a \in Range(Parts(applied)) THEN Resolved(cells[a], values, order) ELSE cells[a]]
        /\ cur' = [cur EXCEPT !.device.jobs[n] = applied, !.due = @ \ {n}]
        /\ UNCHANGED <<conf, phase, jobs, devices, errs, lists>>
  BY <1>1
<1>3. /\ phase = "devices" /\ cur.stage = "jobs" /\ n \in cur.due /\ todo' = todo
      /\ Applies(job, settings)
  BY DEF ApplyDeviceJob, Applies
<1>4. job \in Jobs /\ settings \in JobConfs
  <2>1. /\ cur.layers \in Seq(DeviceConfs \ {Nothing}) /\ cur.layers # <<>>
        /\ n \in Listed(Head(cur.layers).jobs) /\ n \in Listed(cur.device.jobs)
    BY <1>3 DEF DeviceVisited
  <2>2. Head(cur.layers) \in DeviceConfs
    BY <2>1
  <2>3. settings \in JobConfs
    BY <2>1, <2>2 DEF DeviceConfs, Maps, Listed
  <2>4. job \in Jobs
    BY <2>1 DEF TypeOK, Visits, Devices, DevicesAt, Maps, Listed, Jobs
  <2> QED BY <2>3, <2>4
<1> HIDE DEF settings, job
<1>5. heap \in Seq(Cells)
  BY DEF TypeOK
<1>6. added \in Seq(Cells)
  BY <1>3, <1>4, NewCommandsType, NewScrubbersType DEF AddedCells, Jobs
<1>7. /\ cells \in Seq(Cells) /\ Len(cells) = Len(heap) + Len(added)
      /\ \A a \in 1 .. Len(heap) : cells[a] = heap[a]
      /\ Len(heap) \in Nat /\ Len(cells) \in Nat /\ Len(added) \in Nat
  <2> HIDE DEF added
  <2>1. Len(heap) \in Nat /\ Len(added) \in Nat
    BY <1>5, <1>6
  <2>2. cells \in Seq(Cells) /\ Len(cells) = Len(heap) + Len(added)
    BY <1>5, <1>6, ConcatProperties
  <2>3. \A a \in 1 .. Len(heap) : cells[a] = heap[a]
    BY <1>5, <1>6
  <2> QED BY <2>1, <2>2, <2>3
<1> HIDE DEF added
<1>8. /\ Len(heap) <= Len(cells)
      /\ applied \in JobsAt(1 .. Len(cells))
      /\ Range(Parts(applied)) \subseteq Range(Parts(job)) \cup {a \in 1 .. Len(cells) : a > Len(heap)}
  BY <1>3, <1>4, <1>5, <1>7, AppliedType DEF Jobs, added
<1>9. DOMAIN cells = 1 .. Len(cells) /\ \A a \in 1 .. Len(cells) : cells[a] \in Cells
  <2> HIDE DEF cells
  <2> QED BY <1>7
<1> HIDE DEF cells
<1>10. heap' \in Seq(Cells) /\ Len(heap') = Len(cells)
  <2>1. values \in [Keys -> Texts \cup {Nothing}]
    BY <1>8 DEF JobsAt
  <2>2. \A a \in 1 .. Len(cells) : Resolved(cells[a], values, order) \in Cells
    BY <1>9, <2>1, ResolvedType
  <2> HIDE DEF values, applied
  <2>3. \A a \in 1 .. Len(cells) : heap'[a] \in Cells
    BY <1>2, <1>9, <2>2
  <2>4. heap' = [a \in 1 .. Len(cells) |-> heap'[a]]
    BY <1>2, <1>9
  <2> QED BY <1>7, <2>3, <2>4
<1>11. \A a \in Addresses : a \notin Range(Parts(applied)) => heap'[a] = heap[a]
  <2>1. \A a \in Addresses : a \in 1 .. Len(cells)
    BY <1>7, <1>8 DEF Addresses
  <2> HIDE DEF values, applied
  <2> QED BY <1>2, <1>7, <1>9, <2>1 DEF Addresses
<1>12. applied.kind = "command" /\ applied.generic = Nothing =>
         job.kind = "command" /\ job.generic = Nothing
  <2>1. applied.kind = Kind(job, settings) /\
        (Kind(job, settings) = "command" => applied.generic = Generic(job, settings))
    BY DEF Applied
  <2>2. /\ job.kind = "" \/ job.generic # Nothing <=> Generic(job, settings) # Nothing
        /\ job.kind # "" => Kind(job, settings) = job.kind
    BY <1>3, <1>4, GenericType, KindType DEF Jobs, Applies
  <2> HIDE DEF applied
  <2> QED BY <2>1, <2>2
<1>13. /\ applied \in Jobs' /\ Len(heap) <= Len(heap')
       /\ Range(Parts(applied)) \subseteq Range(Parts(job)) \cup {a \in Addresses' : a > Len(heap)}
  BY <1>8, <1>10 DEF Jobs, Addresses
<1> HIDE DEF applied
<1>14. cur' = [cur EXCEPT !.device.jobs[n] = applied, !.due = cur.due \ {n}]
  BY <1>2
<1> QED BY <1>2, <1>3, <1>4, <1>7, <1>10, <1>11, <1>12, <1>13, <1>14 DEF DeviceJobApplied, job

LEMMA TypeDeviceJob ==
  ASSUME TypeOK, DeviceVisited, NEW n \in Names, ApplyDeviceJob(n)
  PROVE  TypeOK'
<1> DEFINE settings == Head(cur.layers).jobs[n]
           job == cur.device.jobs[n]
<1>1. CASE ApplyPanics(job, settings)
  <2>1. phase' = "panicked" /\ UNCHANGED <<conf, cur, heap, jobs, devices, errs, lists, todo>>
    BY <1>1 DEF ApplyDeviceJob
  <2>2. Visits' = Visits /\ Jobs' = Jobs /\ Devices' = Devices
    BY <2>1 DEF Visits, Jobs, Devices, Addresses
  <2> QED BY <2>1, <2>2 DEF TypeOK
<1>2. CASE ~ ApplyPanics(job, settings) /\ ApplyFails(job, settings)
  <2>1. Skip /\ todo' = todo
    BY <1>2 DEF ApplyDeviceJob
  <2> QED BY <2>1, TypeSkip DEF TypeOK
<1>3. CASE ~ ApplyPanics(job, settings) /\ ~ ApplyFails(job, settings)
  <2>1. PICK applied : DeviceJobApplied(n, applied)
    BY <1>3, DeviceJobIsApplied
  <2>2. /\ cur' = [cur EXCEPT !.device.jobs[n] = applied, !.due = cur.due \ {n}]
        /\ heap' \in Seq(Cells) /\ Len(heap) <= Len(heap') /\ applied \in Jobs'
        /\ UNCHANGED <<conf, phase, todo, jobs, devices, errs, lists>>
    BY <2>1 DEF DeviceJobApplied
  <2>3. cur \in Visits' /\ cur.device \in Devices'
    <3>1. cur \in Visits /\ cur.device \in Devices
      BY DEF TypeOK, Visits
    <3> QED BY <2>2, <3>1, TypesGrow
  <2>4. [cur.device EXCEPT !.jobs[n] = applied] \in Devices'
    BY <2>2, <2>3, WithJobType DEF Jobs, Devices
  <2>5. cur' \in Visits'
    BY <2>2, <2>3, <2>4 DEF Visits
  <2> QED BY <2>2, <2>5, TypesGrow DEF TypeOK
<1> QED BY <1>1, <1>2, <1>3

(* A pair goes to a list as often as the device has the tag. *)
Times(t, tags) == Cardinality({i \in DOMAIN tags : tags[i] = t})

LEMMA TimesType ==
  ASSUME NEW S, NEW tags \in Seq(S), NEW t
  PROVE  Times(t, tags) \in Nat /\ (Times(t, tags) # 0 <=> t \in Range(tags))
<1> DEFINE at == {i \in DOMAIN tags : tags[i] = t}
<1>1. IsFiniteSet(at)
  <2>1. DOMAIN tags = 1 .. Len(tags) /\ Len(tags) \in Int
    OBVIOUS
  <2>2. IsFiniteSet(1 .. Len(tags))
    BY <2>1, FS_Interval
  <2> QED BY <2>1, <2>2, FS_Subset
<1>2. Cardinality(at) \in Nat /\ (Cardinality(at) = 0 <=> at = {})
  <2> HIDE DEF at
  <2> QED BY <1>1, FS_CardinalityType, FS_EmptySet
<1>3. at = {} <=> t \notin Range(tags)
  BY DEF Range
<1> QED BY <1>2, <1>3 DEF Times

LEMMA TagsOfType ==
  ASSUME TypeOK, NEW d \in Listed(devices)
  PROVE  TagsOf(d) \in Seq(Tags)
<1>1. devices[d].tags \in Seq(Tags)
  BY DEF TypeOK, Maps, Devices, DevicesAt, Listed
<1>2. <<Untagged>> \in Seq(Tags)
  BY ConstantsAssumption
<1> QED BY <1>1, <1>2 DEF TagsOf

LEMMA ListsAdded ==
  ASSUME TypeOK, ListsSoFar, NEW n \in Names, AddDeviceJob(n), NEW t \in Tags
  PROVE  /\ lists' = [u \in Tags |-> lists'[u]]
         /\ lists'[t] \in Seq(Names \X Names)
         /\ Range(lists'[t]) =
              Range(lists[t]) \cup (IF t \in Range(TagsOf(cur.name)) THEN {<<cur.name, n>>} ELSE {})
<1> DEFINE k == Times(t, TagsOf(cur.name))
           new == [i \in 1 .. k |-> <<cur.name, n>>]
<1>1. cur.name \in Listed(devices) /\ cur.name \in Names
  BY DEF AddDeviceJob, ListsSoFar, Listed
<1>2. k \in Nat /\ (k # 0 <=> t \in Range(TagsOf(cur.name)))
  BY <1>1, TagsOfType, TimesType
<1>3. lists' = [u \in Tags |-> lists[u] \o [i \in 1 .. Times(u, TagsOf(cur.name)) |-> <<cur.name, n>>]]
  BY DEF AddDeviceJob, Times
<1>4. lists'[t] = lists[t] \o new
  BY <1>3
<1> HIDE DEF k
<1>5. lists[t] \in Seq(Names \X Names)
  BY DEF TypeOK
<1>6. new \in Seq(Names \X Names)
  BY <1>1, <1>2
<1>7. Range(new) = IF k # 0 THEN {<<cur.name, n>>} ELSE {}
  <2>1. CASE k = 0
    BY <2>1 DEF Range
  <2>2. CASE k # 0
    <3>1. 1 \in 1 .. k
      BY <1>2, <2>2
    <3> QED BY <2>2, <3>1 DEF Range
  <2> QED BY <2>1, <2>2
<1> HIDE DEF new
<1>8. lists'[t] \in Seq(Names \X Names)
  BY <1>4, <1>5, <1>6
<1>9. Range(lists'[t]) = Range(lists[t]) \cup Range(new)
  BY <1>4, <1>5, <1>6, RangeConcatenation
<1> QED BY <1>2, <1>3, <1>7, <1>8, <1>9

LEMMA TypeLists ==
  ASSUME TypeOK, ListsSoFar, NEW n \in Names,
         \/ OpenDataStore \/ BeginLists(n) \/ AddDeviceJob(n) \/ DeviceAdded \/ Started
         \/ UNCHANGED vars
  PROVE  TypeOK'
<1>1. UNCHANGED <<conf, heap, jobs, devices, errs>>
  BY DEF OpenDataStore, BeginLists, AddDeviceJob, DeviceAdded, Started, vars
<1>2. Visits' = Visits /\ Jobs' = Jobs /\ Devices' = Devices
  BY <1>1 DEF Visits, Jobs, Devices, Addresses
<1>3. CASE OpenDataStore
  BY <1>2, <1>3 DEF OpenDataStore, TypeOK, Listed
<1>4. CASE BeginLists(n)
  <2>1. /\ cur' = [Idle EXCEPT !.stage = "tags", !.name = n, !.due = Listed(devices[n].jobs)]
        /\ UNCHANGED <<phase, lists>> /\ todo' \subseteq Names
    BY <1>4 DEF BeginLists, TypeOK
  <2>2. Listed(devices[n].jobs) \subseteq Names
    BY DEF Listed
  <2>3. cur' \in Visits
    BY <2>1, <2>2, IdleType DEF Visits
  <2> QED BY <1>1, <1>2, <2>1, <2>3 DEF TypeOK
<1>5. CASE AddDeviceJob(n)
  <2>1. cur' = [cur EXCEPT !.due = cur.due \ {n}] /\ UNCHANGED <<phase, todo>>
    BY <1>5 DEF AddDeviceJob
  <2>2. cur' \in Visits
    BY <2>1 DEF TypeOK, Visits
  <2>3. lists' \in [Tags -> Seq(Names \X Names)]
    <3>1. CASE Tags = {}
      BY <3>1, ConstantsAssumption
    <3>2. \A t \in Tags : lists' = [u \in Tags |-> lists'[u]] /\ lists'[t] \in Seq(Names \X Names)
      BY <1>5, ListsAdded
    <3> QED BY <3>1, <3>2
  <2> QED BY <1>1, <1>2, <2>1, <2>2, <2>3 DEF TypeOK
<1>6. CASE DeviceAdded
  BY <1>2, <1>6, IdleType DEF DeviceAdded, TypeOK
<1>7. CASE Started
  BY <1>2, <1>7 DEF Started, TypeOK
<1>8. CASE UNCHANGED vars
  BY <1>2, <1>8 DEF vars, TypeOK
<1> QED BY <1>3, <1>4, <1>5, <1>6, <1>7, <1>8

-----------------------------------------------------------------------------
(* Every step keeps the rest of the invariant.                                *)

(* Nobody is visited. *)
LEMMA IdleFacts ==
  /\ Idle.stage = "idle" /\ Idle.device = NewDevice /\ Idle.job = NewJob /\ Idle.due = {}
  /\ Listed(NewDevice.jobs) = {} /\ NewDevice.tags = <<>>
  /\ NewJob.kind = "" /\ Parts(NewJob) = <<>> /\ Range(Parts(NewJob)) = {}
<1>1. Idle.stage = "idle" /\ Idle.device = NewDevice /\ Idle.job = NewJob /\ Idle.due = {}
  BY DEF Idle
<1>2. Listed(NewDevice.jobs) = {} /\ NewDevice.tags = <<>>
  BY DEF Listed, NewDevice
<1>3. NewJob.kind = "" /\ Parts(NewJob) = <<>>
  BY DEF NewJob, Parts
<1>4. Range(<<>>) = {}
  BY DEF Range
<1> QED BY <1>1, <1>2, <1>3, <1>4

(* What is stored is something, and it points into the heap. *)
LEMMA StoredType ==
  ASSUME TypeOK
  PROVE  /\ \A ad : IsStored(ad) => ad \in Addresses
         /\ \A job \in Jobs : job # Nothing /\ Range(Parts(job)) \subseteq Addresses
         /\ \A device \in Devices : device # Nothing
<1>1. Len(heap) \in Nat
  <2>1. heap \in Seq(Cells)
    BY DEF TypeOK
  <2> QED BY <2>1
<1>2. \A job \in Jobs : job # Nothing
  BY <1>1, Grows DEF Jobs, Addresses
<1>3. \A device \in Devices : device # Nothing
  BY <1>1, Grows DEF Devices, Addresses
<1>4. ASSUME NEW job \in Jobs
      PROVE  Range(Parts(job)) \subseteq Addresses
  <2>1. job.commands \in Seq(Addresses) /\ job.scrubbers \in Seq(Addresses)
    BY DEF Jobs, JobsAt
  <2>2. Parts(job) \in Seq(Addresses)
    BY <2>1 DEF Parts
  <2> QED BY <2>2, RangeOfSeq
<1>5. ASSUME NEW ad, IsStored(ad)
      PROVE  ad \in Addresses
  <2>1. ASSUME NEW n \in Listed(jobs)
        PROVE  jobs[n] \in Jobs
    BY <2>1 DEF TypeOK, Maps, Listed
  <2>2. ASSUME NEW d \in Listed(devices), NEW n \in Listed(devices[d].jobs)
        PROVE  devices[d].jobs[n] \in Jobs
    <3>1. devices[d] \in Devices
      BY DEF TypeOK, Maps, Listed
    <3> QED BY <3>1 DEF Devices, DevicesAt, Maps, Listed, Jobs
  <2> QED BY <1>4, <1>5, <2>1, <2>2 DEF IsStored
<1> QED BY <1>2, <1>3, <1>4, <1>5

LEMMA ShapeSkip ==
  ASSUME TypeOK, Shape, Skip, phase \in {"jobs", "devices"}, NEW n \in Names,
         todo' = todo \/ (todo' = todo \ {n} /\ cur.stage = "idle")
  PROVE  Shape'
<1>1. /\ errs' = TRUE /\ cur' = Idle /\ todo' \subseteq todo
      /\ UNCHANGED <<conf, phase, heap, jobs, devices, lists>>
  BY DEF Skip
<1>2. cur'.stage = "idle" /\ Listed(cur'.device.jobs) = {}
  BY <1>1, IdleFacts
<1>3. StagesFit' /\ TodoIsLeft'
  BY <1>1, <1>2 DEF Shape, StagesFit, TodoIsLeft, Listed
<1>4. JobVisited' /\ DeviceVisited'
  BY <1>2 DEF JobVisited, DeviceVisited
<1>5. CopiesKnown' /\ Separate'
  BY <1>2 DEF CopiesKnown, Separate
<1>6. DevicesAreWhole'
  BY <1>1 DEF Shape, DevicesAreWhole, Listed, ConfiguredTags, DeviceLayers
<1>7. NoneDropped'
  BY <1>1 DEF Shape, NoneDropped
<1>8. ListsSoFar'
  BY <1>1 DEF Shape, ListsSoFar
<1>9. PanicIsByDeviceCommands'
  BY <1>1 DEF PanicIsByDeviceCommands
<1> QED BY <1>3, <1>4, <1>5, <1>6, <1>7, <1>8, <1>9 DEF Shape

LEMMA ShapeJobs ==
  ASSUME TypeOK, Shape, NEW n \in Names,
         BeginJob(n) \/ ApplyJobLayer \/ StoreJob \/ JobStoreDone
  PROVE  Shape'
<1>1. /\ phase = "jobs" /\ UNCHANGED <<conf, devices, lists>>
      /\ Listed(devices) = {}
  BY DEF BeginJob, ApplyJobLayer, StoreJob, JobStoreDone, Skip, Shape, TodoIsLeft
<1>2. DevicesAreWhole'
  BY <1>1 DEF Shape, DevicesAreWhole, Listed, ConfiguredTags, DeviceLayers
<1>3. phase' \in {"jobs", "devices", "failed"} => ListsSoFar' /\ PanicIsByDeviceCommands'
  BY <1>1 DEF Shape, ListsSoFar, PanicIsByDeviceCommands
<1>4. CASE BeginJob(n)
  <2>1. cur.stage = "idle" /\ n \in todo /\ todo' = todo \ {n}
    BY <1>4 DEF BeginJob
  <2>2. CASE GenericIsMissing(JobLayers(n))
    BY <1>1, <1>4, <2>1, <2>2, ShapeSkip DEF BeginJob
  <2>3. CASE ~ GenericIsMissing(JobLayers(n))
    <3>1. /\ cur' = [Idle EXCEPT !.stage = "layer", !.name = n, !.layers = JobLayers(n)]
          /\ UNCHANGED <<phase, heap, jobs, errs>>
      BY <1>4, <2>3 DEF BeginJob
    <3>2. /\ cur'.stage = "layer" /\ cur'.name = n /\ cur'.layers = JobLayers(n)
          /\ cur'.job = NewJob /\ cur'.device = NewDevice
      BY <3>1 DEF Idle
    <3>3. n \in Listed(conf.jobs) /\ jobs[n] = Nothing
      BY <1>1, <2>1 DEF Shape, TodoIsLeft, Listed
    <3>4. JobLayers(n) \in Seq(JobConfs)
      BY <2>3, <3>3, JobLayersType DEF TypeOK
    <3>5. StagesFit' /\ TodoIsLeft'
      BY <1>1, <2>1, <3>1, <3>2 DEF Shape, StagesFit, TodoIsLeft, Listed
    <3>6. JobVisited'
      <4>1. cur'.job.kind # "command"
        BY <3>2, IdleFacts
      <4>2. n \notin todo' /\ jobs'[n] = Nothing
        BY <2>1, <3>1, <3>3
      <4> QED BY <3>2, <3>4, <4>1, <4>2 DEF JobVisited
    <3>7. DeviceVisited' /\ NoneDropped'
      BY <1>1, <3>1 DEF DeviceVisited, NoneDropped
    <3>8. CopiesKnown' /\ Separate'
      BY <3>2, IdleFacts DEF CopiesKnown, Separate
    <3> QED BY <1>1, <1>2, <1>3, <3>1, <3>5, <3>6, <3>7, <3>8 DEF Shape
  <2> QED BY <2>2, <2>3
<1>5. CASE ApplyJobLayer
  <2> DEFINE settings == Head(cur.layers)
  <2>1. cur.stage = "layer" /\ cur.layers # <<>> /\ todo' = todo
    BY <1>5 DEF ApplyJobLayer
  <2>2. CASE ApplyFails(cur.job, settings)
    BY <1>1, <1>5, <2>1, <2>2, ShapeSkip DEF ApplyJobLayer
  <2>3. CASE ~ ApplyFails(cur.job, settings)
    <3>1. PICK files \in SetToSeqs(settings.file) :
            cur' = [cur EXCEPT !.job = Applied(cur.job, settings, files), !.layers = Tail(cur.layers)]
      BY <1>5, <2>3 DEF ApplyJobLayer
    <3>2. UNCHANGED <<phase, jobs, errs>>
      BY <1>5, <2>3 DEF ApplyJobLayer
    <3> DEFINE applied == Applied(cur.job, settings, files)
    <3>3. /\ cur.job \in Jobs /\ cur.layers \in Seq(JobConfs) /\ settings \in JobConfs
          /\ Tail(cur.layers) \in Seq(JobConfs)
          /\ cur.name \in Names /\ cur.name \notin todo /\ jobs[cur.name] = Nothing
          /\ cur.job.kind = "command" => cur.job.generic # Nothing
          /\ cur.device = NewDevice
      BY <1>1, <2>1 DEF TypeOK, Visits, Shape, JobVisited
    <3>4. applied.kind = "command" => applied.generic # Nothing
      <4>1. /\ applied.kind = Kind(cur.job, settings)
            /\ applied.kind = "command" => applied.generic = Generic(cur.job, settings)
        BY DEF Applied
      <4>2. /\ cur.job.kind = "" \/ cur.job.generic # Nothing <=> Generic(cur.job, settings) # Nothing
            /\ cur.job.kind # "" => Kind(cur.job, settings) = cur.job.kind
        BY <2>3, <3>3, GenericType, KindType DEF Jobs
      <4> HIDE DEF applied
      <4> QED BY <3>3, <4>1, <4>2
    <3> HIDE DEF applied
    <3>5. /\ cur'.stage = "layer" /\ cur'.name = cur.name /\ cur'.layers = Tail(cur.layers)
          /\ cur'.job = applied /\ cur'.device = NewDevice
      BY <2>1, <3>1, <3>3 DEF TypeOK, Visits, applied
    <3>6. StagesFit' /\ TodoIsLeft'
      BY <1>1, <2>1, <3>2, <3>5 DEF Shape, StagesFit, TodoIsLeft, Listed
    <3>7. JobVisited'
      <4>1. cur'.job.kind = "command" => cur'.job.generic # Nothing
        BY <3>4, <3>5
      <4> QED BY <2>1, <3>2, <3>3, <3>5, <4>1 DEF JobVisited
    <3>8. DeviceVisited' /\ NoneDropped'
      BY <1>1, <3>2 DEF DeviceVisited, NoneDropped
    <3>9. CopiesKnown' /\ Separate'
      BY <3>5, IdleFacts DEF CopiesKnown, Separate
    <3> QED BY <1>1, <1>2, <1>3, <3>2, <3>6, <3>7, <3>8, <3>9 DEF Shape
  <2> QED BY <2>2, <2>3
<1>6. CASE StoreJob
  <2>1. cur.stage = "layer" /\ todo' = todo
    BY <1>6 DEF StoreJob
  <2>2. CASE ~ Valid(cur.job)
    BY <1>1, <1>6, <2>1, <2>2, ShapeSkip DEF StoreJob
  <2>3. CASE Valid(cur.job)
    <3>1. /\ jobs' = [jobs EXCEPT ![cur.name] = cur.job]
          /\ cur' = Idle
          /\ UNCHANGED <<phase, heap, errs>>
      BY <1>6, <2>3 DEF StoreJob
    <3>2. cur'.stage = "idle" /\ Listed(cur'.device.jobs) = {}
      BY <3>1, IdleFacts
    <3>3. StagesFit'
      BY <1>1, <3>1, <3>2 DEF StagesFit
    <3>4. TodoIsLeft'
      <4>1. cur.name \notin todo /\ todo \subseteq Listed(conf.jobs) \ Listed(jobs)
        BY <1>1, <2>1 DEF Shape, JobVisited, TodoIsLeft
      <4>2. Listed(jobs') \subseteq Listed(jobs) \cup {cur.name}
        BY <3>1 DEF TypeOK, Maps, Listed
      <4> QED BY <1>1, <2>1, <3>1, <4>1, <4>2 DEF TodoIsLeft, Listed
    <3>5. JobVisited' /\ DeviceVisited' /\ CopiesKnown' /\ Separate'
      BY <3>2 DEF JobVisited, DeviceVisited, CopiesKnown, Separate
    <3>6. NoneDropped'
      BY <1>1, <3>1 DEF NoneDropped
    <3> QED BY <1>1, <1>2, <1>3, <3>1, <3>3, <3>4, <3>5, <3>6 DEF Shape
  <2> QED BY <2>2, <2>3
<1>7. CASE JobStoreDone
  <2>1. /\ cur.stage = "idle" /\ UNCHANGED <<cur, heap, jobs, errs>>
        /\ \/ phase' = "failed" /\ errs /\ todo' = todo
           \/ phase' = "devices" /\ todo' = Listed(conf.devices)
    BY <1>7 DEF JobStoreDone
  <2>2. cur = Idle
    BY <2>1 DEF Shape, StagesFit
  <2>3. StagesFit'
    BY <2>1, <2>2 DEF StagesFit
  <2>4. TodoIsLeft' /\ NoneDropped'
    BY <1>1, <2>1 DEF TodoIsLeft, NoneDropped, Listed
  <2>5. JobVisited' /\ DeviceVisited'
    BY <2>1 DEF JobVisited, DeviceVisited
  <2>6. CopiesKnown' /\ Separate'
    BY <2>1, <2>2, IdleFacts DEF CopiesKnown, Separate
  <2> QED BY <1>2, <1>3, <2>1, <2>3, <2>4, <2>5, <2>6 DEF Shape
<1> QED BY <1>4, <1>5, <1>6, <1>7

(* Only the visit of the device, its entry or its place in the map changes. *)
LEMMA ShapeDevices ==
  ASSUME TypeOK, Shape, NEW n \in Names,
         \/ BeginDevice(n) \/ CopyJob(n) \/ JobsCopied
         \/ ApplyDeviceLayer \/ DeviceLayerDone \/ StoreDevice \/ DeviceStoreDone
  PROVE  Shape'
<1>1. /\ phase = "devices" /\ UNCHANGED <<conf, jobs, lists>>
  BY DEF BeginDevice, CopyJob, JobsCopied, ApplyDeviceLayer, DeviceLayerDone, StoreDevice,
         DeviceStoreDone, Skip
<1>2. \A d : ConfiguredTags(d)' = ConfiguredTags(d) /\ DeviceLayers(d)' = DeviceLayers(d)
  BY <1>1 DEF ConfiguredTags, DeviceLayers
<1>3. phase' \in {"devices", "data store", "failed"} =>
        JobVisited' /\ ListsSoFar' /\ PanicIsByDeviceCommands'
  BY <1>1 DEF Shape, JobVisited, ListsSoFar, PanicIsByDeviceCommands
<1>4. devices' = devices => DevicesAreWhole' /\ \A ad : IsStored(ad)' = IsStored(ad)
  BY <1>1, <1>2 DEF Shape, DevicesAreWhole, Listed, IsStored, Parts
<1>5. cur \in Visits /\ cur.device \in Devices /\ cur.device.jobs \in Maps(Jobs)
      /\ cur.device.tags \in Seq(Tags)
  BY DEF TypeOK, Visits, Devices, DevicesAt, Jobs
<1>6. CASE BeginDevice(n)
  <2>1. /\ cur.stage = "idle" /\ n \in todo /\ todo' = todo \ {n}
        /\ cur' = [Idle EXCEPT !.stage = "copy", !.name = n, !.layers = DeviceLayers(n),
                               !.due = Listed(conf.devices[n].jobs)]
        /\ UNCHANGED <<phase, heap, devices, errs>>
    BY <1>6 DEF BeginDevice
  <2>2. /\ cur'.stage = "copy" /\ cur'.name = n /\ cur'.layers = DeviceLayers(n)
        /\ cur'.due = Listed(conf.devices[n].jobs) /\ cur'.device = NewDevice
    BY <2>1 DEF Idle
  <2>3. n \in Listed(conf.devices) /\ devices[n] = Nothing
    BY <1>1, <2>1 DEF Shape, TodoIsLeft, Listed
  <2>4. StagesFit' /\ TodoIsLeft'
    BY <1>1, <2>1, <2>2 DEF Shape, StagesFit, TodoIsLeft, Listed
  <2>5. DeviceVisited'
    <3>1. Listed(cur'.device.jobs) = {} /\ cur'.device.tags = <<>>
      BY <2>2, IdleFacts
    <3>2. Listed(conf.devices)' = Listed(conf.devices) /\ n \notin todo' /\ devices'[n] = Nothing
          /\ Listed(conf.devices[n].jobs)' = Listed(conf.devices[n].jobs)
      BY <1>1, <2>1, <2>3 DEF Listed
    <3> QED BY <1>1, <1>2, <2>2, <2>3, <3>1, <3>2 DEF DeviceVisited, Listed
  <2>6. CopiesKnown' /\ Separate'
    BY <2>2, IdleFacts DEF CopiesKnown, Separate
  <2>7. NoneDropped'
    BY <1>1, <2>1, <2>2 DEF Shape, NoneDropped, Listed
  <2> QED BY <1>1, <1>3, <1>4, <2>1, <2>4, <2>5, <2>6, <2>7 DEF Shape
<1>7. CASE CopyJob(n)
  <2>1. UNCHANGED <<phase, todo, devices, errs>> /\ cur.stage = "copy" /\ n \in cur.due
    BY <1>7 DEF CopyJob
  <2>2. PICK job : /\ cur' = [cur EXCEPT !.device.jobs[n] = job, !.due = cur.due \ {n}]
                   /\ job # Nothing
                   /\ job.kind = "command" => jobs[n] # Nothing /\ jobs[n].kind = "command"
                   /\ \A ad \in Range(Parts(job)) : ~ IsStored(ad)
    <3>1. CASE jobs[n] = Nothing
      <4>1. cur' = [cur EXCEPT !.device.jobs[n] = NewJob, !.due = cur.due \ {n}]
        BY <1>7, <3>1 DEF CopyJob
      <4>2. NewJob # Nothing
        BY NewTypes, StoredType DEF Jobs
      <4> QED BY <4>1, <4>2, IdleFacts
    <3>2. CASE jobs[n] # Nothing
      <4>1. cur' = [cur EXCEPT !.device.jobs[n] = DeepCopied(jobs[n]), !.due = cur.due \ {n}]
        BY <1>7, <3>2 DEF CopyJob
      <4>2. jobs[n] \in Jobs
        BY <3>2 DEF TypeOK, Maps
      <4>3. CopiedType(jobs[n])
        <5>1. heap \in Seq(Cells)
          BY DEF TypeOK
        <5> QED BY <4>2, <5>1, CopiedHasType
      <4>4. DeepCopied(jobs[n]) # Nothing
        <5>1. heap \o CopiedCells(jobs[n]) \in Seq(Cells)
          BY <4>3 DEF CopiedType
        <5>2. Len(heap \o CopiedCells(jobs[n])) \in Nat
          BY <5>1
        <5> QED BY <4>3, <5>2, Grows DEF CopiedType
      <4>5. DeepCopied(jobs[n]).kind = jobs[n].kind
        BY <4>2 DEF DeepCopied, Jobs, JobsAt
      <4>6. \A ad \in Range(Parts(DeepCopied(jobs[n]))) : ~ IsStored(ad)
        BY <4>3, StoredType DEF CopiedType
      <4> QED BY <3>2, <4>1, <4>4, <4>5, <4>6
    <3> QED BY <3>1, <3>2
  <2>3. /\ cur'.stage = "copy" /\ cur'.name = cur.name /\ cur'.layers = cur.layers
        /\ cur'.due = cur.due \ {n}
        /\ cur'.device.jobs = [cur.device.jobs EXCEPT ![n] = job]
        /\ cur'.device.tags = cur.device.tags
    BY <1>5, <2>1, <2>2 DEF Visits, Devices, DevicesAt
  <2>4. /\ Listed(cur'.device.jobs) = Listed(cur.device.jobs) \cup {n}
        /\ cur'.device.jobs[n] = job
        /\ \A m \in Names \ {n} : cur'.device.jobs[m] = cur.device.jobs[m]
    BY <1>5, <2>2, <2>3 DEF Maps, Listed
  <2>5. StagesFit' /\ TodoIsLeft' /\ NoneDropped'
    BY <1>1, <2>1, <2>3 DEF Shape, StagesFit, TodoIsLeft, NoneDropped, Listed
  <2>6. DeviceVisited'
    <3>1. /\ cur.name \in Listed(conf.devices) /\ cur.name \notin todo /\ devices[cur.name] = Nothing
          /\ Listed(conf.devices[cur.name].jobs) = Listed(cur.device.jobs) \cup cur.due
          /\ cur.layers = DeviceLayers(cur.name) /\ cur.device.tags = <<>>
      BY <1>1, <2>1 DEF Shape, DeviceVisited
    <3>2. Listed(conf.devices)' = Listed(conf.devices)
          /\ Listed(conf.devices[cur.name].jobs)' = Listed(conf'.devices[cur'.name].jobs)
          /\ Listed(conf'.devices[cur'.name].jobs) = Listed(conf.devices[cur.name].jobs)
      BY <1>1, <2>3 DEF Listed
    <3>3. Listed(conf'.devices[cur'.name].jobs) = Listed(cur'.device.jobs) \cup cur'.due
      BY <2>1, <2>3, <2>4, <3>1, <3>2
    <3> QED BY <1>2, <2>1, <2>3, <3>1, <3>2, <3>3 DEF DeviceVisited, Listed
  <2>7. CopiesKnown'
    BY <1>1, <2>2, <2>4 DEF Shape, CopiesKnown, Listed
  <2>8. Separate'
    <3>1. ASSUME NEW m \in Listed(cur'.device.jobs), NEW ad \in Range(Parts(cur'.device.jobs[m]))
          PROVE  ~ IsStored(ad)
      BY <2>2, <2>4, <3>1 DEF Shape, Separate, Listed
    <3> QED BY <1>4, <2>1, <3>1 DEF Separate, Listed, Parts
  <2> QED BY <1>1, <1>3, <1>4, <2>1, <2>5, <2>6, <2>7, <2>8 DEF Shape
<1>8. CASE JobsCopied
  <2>1. cur.stage = "copy" /\ cur.due = {} /\ todo' = todo
    BY <1>8 DEF JobsCopied
  <2>2. CASE GenericIsMissing(cur.layers)
    BY <1>1, <1>8, <2>1, <2>2, ShapeSkip DEF JobsCopied
  <2>3. CASE ~ GenericIsMissing(cur.layers)
    <3>1. /\ cur' = [cur EXCEPT !.stage = "layer"]
          /\ UNCHANGED <<phase, heap, devices, errs>>
      BY <1>8, <2>3 DEF JobsCopied
    <3>2. /\ cur'.stage = "layer" /\ cur'.name = cur.name /\ cur'.layers = cur.layers
          /\ cur'.device = cur.device
      BY <1>5, <3>1 DEF Visits
    <3>3. /\ cur.name \in Listed(conf.devices) /\ cur.name \notin todo /\ devices[cur.name] = Nothing
          /\ Listed(conf.devices[cur.name].jobs) = Listed(cur.device.jobs)
          /\ cur.layers = DeviceLayers(cur.name) /\ cur.device.tags = <<>>
      BY <1>1, <2>1 DEF Shape, DeviceVisited
    <3>4. cur.layers \in Seq(DeviceConfs \ {Nothing})
      BY <2>3, <3>3, DeviceLayersType DEF TypeOK
    <3>5. StagesFit' /\ TodoIsLeft' /\ NoneDropped'
      BY <1>1, <2>1, <3>1, <3>2 DEF Shape, StagesFit, TodoIsLeft, NoneDropped, Listed
    <3>6. DeviceVisited'
      <4>1. Range(cur.device.tags) \cup TagsIn(cur.layers) = ConfiguredTags(cur.name)
        <5>1. Range(<<>>) = {}
          BY DEF Range
        <5>2. TagsIn(cur.layers) = ConfiguredTags(cur.name)
          BY <3>3 DEF TagsIn, ConfiguredTags
        <5> QED BY <3>3, <5>1, <5>2
      <4> QED BY <1>1, <1>2, <2>1, <3>1, <3>2, <3>3, <3>4, <4>1 DEF DeviceVisited, Listed, TagsIn
    <3>7. CopiesKnown' /\ Separate'
      BY <1>1, <1>4, <3>1, <3>2 DEF Shape, CopiesKnown, Separate, Listed, Parts
    <3> QED BY <1>1, <1>3, <1>4, <3>1, <3>5, <3>6, <3>7 DEF Shape
  <2> QED BY <2>2, <2>3
<1>9. CASE ApplyDeviceLayer
  <2> DEFINE settings == Head(cur.layers)
  <2>1. todo' = todo /\ cur.stage = "layer" /\ cur.layers # <<>>
    BY <1>9 DEF ApplyDeviceLayer
  <2>2. CASE settings.protocol # Nothing /\ settings.protocol.port = Nothing
    BY <1>1, <1>9, <2>1, <2>2, ShapeSkip DEF ApplyDeviceLayer
  <2>3. CASE ~ (settings.protocol # Nothing /\ settings.protocol.port = Nothing)
    <3> DEFINE tags == cur.device.tags \o settings.tags
    <3>1. UNCHANGED <<phase, heap, devices, errs>>
      BY <1>9, <2>3 DEF ApplyDeviceLayer
    <3>2. /\ cur'.stage = "jobs" /\ cur'.name = cur.name /\ cur'.layers = cur.layers
          /\ cur'.due = Listed(settings.jobs) \cap Listed(cur.device.jobs)
          /\ cur'.device.jobs = cur.device.jobs
          /\ cur'.device.tags = tags
      <4> DEFINE port == IF settings.protocol = Nothing THEN cur.device.port ELSE settings.protocol.port
                 user == Over(settings.user, cur.device.user)
                 device == [cur.device EXCEPT !.port = port, !.user = user, !.tags = tags]
                 due == Listed(settings.jobs) \cap Listed(cur.device.jobs)
      <4>1. cur' = [cur EXCEPT !.stage = "jobs", !.device = device, !.due = due]
        BY <1>9, <2>3 DEF ApplyDeviceLayer
      <4> HIDE DEF port, user, tags, due
      <4>2. device.jobs = cur.device.jobs /\ device.tags = tags
        BY <1>5 DEF Devices, DevicesAt
      <4> HIDE DEF device
      <4>3. /\ cur'.stage = "jobs" /\ cur'.name = cur.name /\ cur'.layers = cur.layers
            /\ cur'.due = due /\ cur'.device = device
        BY <1>5, <4>1 DEF Visits
      <4> QED BY <4>2, <4>3 DEF due
    <3>3. /\ cur.name \in Listed(conf.devices) /\ cur.name \notin todo /\ devices[cur.name] = Nothing
          /\ cur.layers \in Seq(DeviceConfs \ {Nothing})
          /\ Range(cur.layers) \subseteq Range(DeviceLayers(cur.name))
          /\ Listed(conf.devices[cur.name].jobs) = Listed(cur.device.jobs)
          /\ Range(cur.device.tags) \cup TagsIn(cur.layers) = ConfiguredTags(cur.name)
      BY <1>1, <2>1 DEF Shape, DeviceVisited
    <3>4. settings \in DeviceConfs /\ 1 \in DOMAIN cur.layers /\ settings = cur.layers[1]
      BY <2>1, <3>3
    <3>5. Range(tags) = Range(cur.device.tags) \cup Range(settings.tags)
      <4>1. settings.tags \in Seq(Tags)
        <5>1. settings.tags \in Seq(Tags \ {Untagged})
          BY <3>4 DEF DeviceConfs
        <5> QED BY <5>1
      <4> HIDE DEF settings
      <4> QED BY <1>5, <4>1, RangeConcatenation
    <3>6. Range(settings.tags) \subseteq TagsIn(cur.layers)
      BY <3>4 DEF TagsIn
    <3> HIDE DEF tags
    <3>7. StagesFit' /\ TodoIsLeft' /\ NoneDropped'
      BY <1>1, <2>1, <3>1, <3>2 DEF Shape, StagesFit, TodoIsLeft, NoneDropped, Listed
    <3>8. DeviceVisited'
      <4>1. Range(cur'.device.tags) \cup TagsIn(cur.layers) = ConfiguredTags(cur.name)
            /\ Range(settings.tags) \subseteq Range(cur'.device.tags)
        BY <3>2, <3>3, <3>5, <3>6
      <4>2. cur'.due \subseteq Listed(settings.jobs) \cap Listed(cur'.device.jobs)
        BY <3>2
      <4> QED BY <1>1, <1>2, <2>1, <3>1, <3>2, <3>3, <4>1, <4>2 DEF DeviceVisited, Listed, TagsIn
    <3>9. CopiesKnown' /\ Separate'
      BY <1>1, <1>4, <3>1, <3>2 DEF Shape, CopiesKnown, Separate, Listed, Parts
    <3> QED BY <1>1, <1>3, <1>4, <3>1, <3>7, <3>8, <3>9 DEF Shape
  <2> QED BY <2>2, <2>3
<1>10. CASE DeviceLayerDone
  <2>1. /\ cur' = [cur EXCEPT !.stage = "layer", !.layers = Tail(cur.layers)]
        /\ UNCHANGED <<phase, todo, heap, devices, errs>>
        /\ cur.stage = "jobs"
    BY <1>10 DEF DeviceLayerDone
  <2>2. /\ cur'.stage = "layer" /\ cur'.name = cur.name /\ cur'.layers = Tail(cur.layers)
        /\ cur'.device = cur.device
    BY <1>5, <2>1 DEF Visits
  <2>3. /\ cur.name \in Listed(conf.devices) /\ cur.name \notin todo /\ devices[cur.name] = Nothing
        /\ cur.layers \in Seq(DeviceConfs \ {Nothing}) /\ cur.layers # <<>>
        /\ Range(cur.layers) \subseteq Range(DeviceLayers(cur.name))
        /\ Listed(conf.devices[cur.name].jobs) = Listed(cur.device.jobs)
        /\ Range(cur.device.tags) \cup TagsIn(cur.layers) = ConfiguredTags(cur.name)
        /\ Range(Head(cur.layers).tags) \subseteq Range(cur.device.tags)
    BY <1>1, <2>1 DEF Shape, DeviceVisited
  <2>4. /\ Tail(cur.layers) \in Seq(DeviceConfs \ {Nothing})
        /\ Range(cur.layers) = {Head(cur.layers)} \cup Range(Tail(cur.layers))
    BY <2>3, RangeOfTail
  <2>5. TagsIn(cur.layers) = Range(Head(cur.layers).tags) \cup TagsIn(Tail(cur.layers))
    <3>1. \A layers : TagsIn(layers) = UNION {Range(layer.tags) : layer \in Range(layers)}
      BY DEF TagsIn, Range
    <3> QED BY <2>4, <3>1
  <2>6. StagesFit' /\ TodoIsLeft' /\ NoneDropped'
    BY <1>1, <2>1, <2>2 DEF Shape, StagesFit, TodoIsLeft, NoneDropped, Listed
  <2>7. DeviceVisited'
    <3>1. Range(cur.device.tags) \cup TagsIn(Tail(cur.layers)) = ConfiguredTags(cur.name)
          /\ Range(Tail(cur.layers)) \subseteq Range(DeviceLayers(cur.name))
      BY <2>3, <2>4, <2>5
    <3> QED BY <1>1, <1>2, <2>1, <2>2, <2>3, <2>4, <3>1 DEF DeviceVisited, Listed, TagsIn
  <2>8. CopiesKnown' /\ Separate'
    BY <1>1, <1>4, <2>1, <2>2 DEF Shape, CopiesKnown, Separate, Listed, Parts
  <2> QED BY <1>1, <1>3, <1>4, <2>1, <2>6, <2>7, <2>8 DEF Shape
<1>11. CASE StoreDevice
  <2>1. cur.stage = "layer" /\ cur.layers = <<>> /\ todo' = todo
    BY <1>11 DEF StoreDevice
  <2>2. CASE \E m \in Listed(cur.device.jobs) : ~ Valid(cur.device.jobs[m])
    BY <1>1, <1>11, <2>1, <2>2, ShapeSkip DEF StoreDevice
  <2>3. CASE ~ \E m \in Listed(cur.device.jobs) : ~ Valid(cur.device.jobs[m])
    <3>1. /\ devices' = [devices EXCEPT ![cur.name] = cur.device]
          /\ cur' = Idle
          /\ UNCHANGED <<phase, heap, errs>>
      BY <1>11, <2>3 DEF StoreDevice
    <3>2. /\ cur.name \in Listed(conf.devices) /\ cur.name \notin todo
          /\ Listed(conf.devices[cur.name].jobs) = Listed(cur.device.jobs)
          /\ Range(cur.device.tags) = ConfiguredTags(cur.name)
      <4>1. TagsIn(<<>>) = {}
        BY DEF TagsIn
      <4> QED BY <1>1, <2>1, <4>1 DEF Shape, DeviceVisited
    <3>3. cur.name \in Names /\ conf.devices[cur.name] # Nothing /\ cur.device # Nothing
      BY <1>5, <3>2, StoredType DEF Listed
    <3>4. /\ Listed(devices') = Listed(devices) \cup {cur.name}
          /\ devices'[cur.name] = cur.device
          /\ \A d \in Names \ {cur.name} : devices'[d] = devices[d]
      BY <3>1, <3>3 DEF TypeOK, Maps, Listed
    <3>5. cur'.stage = "idle" /\ Listed(cur'.device.jobs) = {}
      BY <3>1, IdleFacts
    <3>6. StagesFit'
      BY <1>1, <3>1, <3>5 DEF StagesFit
    <3>7. TodoIsLeft'
      BY <1>1, <2>1, <3>1, <3>2, <3>4 DEF Shape, TodoIsLeft, Listed
    <3>8. DeviceVisited' /\ CopiesKnown' /\ Separate'
      BY <3>5 DEF DeviceVisited, CopiesKnown, Separate
    <3>9. NoneDropped'
      BY <1>1, <2>1, <3>1, <3>4, <3>5 DEF Shape, NoneDropped, Listed
    <3>10. DevicesAreWhole'
      <4>1. ASSUME NEW d \in Listed(devices')
            PROVE  /\ conf.devices[d] # Nothing
                   /\ Listed(devices'[d].jobs) = Listed(conf.devices[d].jobs)
                   /\ Range(devices'[d].tags) = ConfiguredTags(d)
        <5>1. CASE d = cur.name
          BY <3>2, <3>3, <3>4, <5>1
        <5>2. CASE d # cur.name
          <6>1. d \in Listed(devices) /\ devices'[d] = devices[d]
            BY <3>4, <5>2 DEF Listed
          <6> QED BY <6>1 DEF Shape, DevicesAreWhole
        <5> QED BY <5>1, <5>2
      <4> QED BY <1>1, <1>2, <4>1 DEF DevicesAreWhole, Listed
    <3> QED BY <1>1, <1>3, <3>1, <3>6, <3>7, <3>8, <3>9, <3>10 DEF Shape
  <2> QED BY <2>2, <2>3
<1>12. CASE DeviceStoreDone
  <2>1. /\ cur.stage = "idle" /\ todo = {} /\ UNCHANGED <<todo, cur, heap, devices, errs>>
        /\ phase' = IF errs THEN "failed" ELSE "data store"
    BY <1>12 DEF DeviceStoreDone
  <2>2. cur = Idle
    BY <2>1 DEF Shape, StagesFit
  <2>3. StagesFit' /\ TodoIsLeft'
    BY <2>1, <2>2 DEF StagesFit, TodoIsLeft
  <2>4. DeviceVisited'
    BY <2>1 DEF DeviceVisited
  <2>5. CopiesKnown' /\ Separate'
    BY <2>1, <2>2, IdleFacts DEF CopiesKnown, Separate
  <2>6. NoneDropped'
    BY <1>1, <2>1 DEF Shape, NoneDropped, Listed
  <2> QED BY <1>3, <1>4, <2>1, <2>3, <2>4, <2>5, <2>6 DEF Shape
<1> QED BY <1>6, <1>7, <1>8, <1>9, <1>10, <1>11, <1>12

(* A job of a device is configured: it points to what it did, and to new      *)
(* commands and scrubbers.                                                    *)
LEMMA ShapeDeviceJob ==
  ASSUME TypeOK, Shape, NEW n \in Names, ApplyDeviceJob(n)
  PROVE  Shape'
<1> DEFINE settings == Head(cur.layers).jobs[n]
           job == cur.device.jobs[n]
<1>1. phase = "devices" /\ cur.stage = "jobs" /\ n \in cur.due /\ todo' = todo
  BY DEF ApplyDeviceJob
<1>2. /\ cur.name \in Listed(conf.devices) /\ cur.name \notin todo /\ devices[cur.name] = Nothing
      /\ cur.layers \in Seq(DeviceConfs \ {Nothing}) /\ cur.layers # <<>>
      /\ Range(cur.layers) \subseteq Range(DeviceLayers(cur.name))
      /\ Listed(conf.devices[cur.name].jobs) = Listed(cur.device.jobs)
      /\ Range(cur.device.tags) \cup TagsIn(cur.layers) = ConfiguredTags(cur.name)
      /\ cur.due \subseteq Listed(Head(cur.layers).jobs) \cap Listed(cur.device.jobs)
      /\ Range(Head(cur.layers).tags) \subseteq Range(cur.device.tags)
  BY <1>1 DEF Shape, DeviceVisited
<1>3. CASE ApplyPanics(job, settings)
  <2>1. phase' = "panicked" /\ UNCHANGED <<conf, cur, heap, jobs, devices, errs, lists, todo>>
    BY <1>1, <1>3 DEF ApplyDeviceJob
  <2>2. PanicIsByDeviceCommands'
    <3> DEFINE layer == Head(cur.layers)
    <3>1. layer \in Range(DeviceLayers(cur.name)) \ {Nothing}
      <4>1. layer \in Range(cur.layers) /\ layer # Nothing
        BY <1>2, RangeOfTail
      <4> QED BY <1>2, <4>1
    <3>2. layer.jobs[n] # Nothing /\ SetsCommands(layer.jobs[n])
      BY <1>1, <1>2, <1>3 DEF ApplyPanics, Listed
    <3>3. n \in Listed(jobs) /\ jobs[n].kind = "command" /\ n \in Listed(conf.devices[cur.name].jobs)
      <4>1. n \in Listed(cur.device.jobs) /\ job.kind = "command" /\ job.generic = Nothing
        BY <1>1, <1>2, <1>3 DEF ApplyPanics
      <4> QED BY <1>2, <4>1 DEF Shape, CopiesKnown, Listed
    <3>4. \E d \in Listed(conf.devices) : \E m \in Listed(conf.devices[d].jobs) \cap Listed(jobs) :
            /\ jobs[m].kind = "command"
            /\ \E l \in Range(DeviceLayers(d)) \ {Nothing} :
                 l.jobs[m] # Nothing /\ SetsCommands(l.jobs[m])
      <4> HIDE DEF layer
      <4> QED BY <1>2, <3>1, <3>2, <3>3
    <3>5. \A d : DeviceLayers(d)' = DeviceLayers(d)
      BY <2>1 DEF DeviceLayers
    <3> QED BY <2>1, <3>4, <3>5 DEF PanicIsByDeviceCommands, Listed
  <2>3. StagesFit' /\ TodoIsLeft' /\ JobVisited' /\ DeviceVisited' /\ NoneDropped'
    BY <1>1, <2>1 DEF Shape, StagesFit, TodoIsLeft, JobVisited, DeviceVisited, NoneDropped
  <2>4. CopiesKnown' /\ Separate' /\ DevicesAreWhole'
    BY <2>1, SMTT(30) DEF Shape, CopiesKnown, Separate, DevicesAreWhole, Listed, IsStored, Parts,
                          ConfiguredTags, DeviceLayers
  <2>5. ListsSoFar'
    BY <1>1, <2>1 DEF Shape, ListsSoFar
  <2> QED BY <2>2, <2>3, <2>4, <2>5 DEF Shape
<1>4. CASE ~ ApplyPanics(job, settings) /\ ApplyFails(job, settings)
  <2>1. Skip
    BY <1>4 DEF ApplyDeviceJob
  <2> QED BY <1>1, <2>1, ShapeSkip
<1>5. CASE ~ ApplyPanics(job, settings) /\ ~ ApplyFails(job, settings)
  <2>1. PICK applied : DeviceJobApplied(n, applied)
    BY <1>5, DeviceJobIsApplied DEF Shape
  <2>2. /\ cur' = [cur EXCEPT !.device.jobs[n] = applied, !.due = cur.due \ {n}]
        /\ applied \in Jobs' /\ applied # Nothing
        /\ Range(Parts(applied)) \subseteq Range(Parts(job)) \cup {a \in Addresses' : a > Len(heap)}
        /\ applied.kind = "command" /\ applied.generic = Nothing =>
             job.kind = "command" /\ job.generic = Nothing
        /\ UNCHANGED <<conf, phase, todo, jobs, devices, errs, lists>>
    <3>1. applied # Nothing
      <4>1. applied \in JobsAt(1 .. Len(heap')) /\ heap' \in Seq(Cells)
        BY <2>1 DEF DeviceJobApplied, Jobs, Addresses
      <4>2. Len(heap') \in Nat
        BY <4>1
      <4> QED BY <4>1, <4>2, Grows
    <3> QED BY <2>1, <3>1 DEF DeviceJobApplied
  <2>3. /\ cur'.stage = "jobs" /\ cur'.name = cur.name /\ cur'.layers = cur.layers
        /\ cur'.due = cur.due \ {n}
        /\ cur'.device.jobs = [cur.device.jobs EXCEPT ![n] = applied]
        /\ cur'.device.tags = cur.device.tags
    <3>1. cur \in Visits /\ cur.device \in Devices
      BY DEF TypeOK, Visits
    <3> QED BY <1>1, <2>2, <3>1 DEF Visits, Devices, DevicesAt
  <2>4. /\ Listed(cur'.device.jobs) = Listed(cur.device.jobs)
        /\ n \in Listed(cur.device.jobs)
        /\ cur'.device.jobs[n] = applied
        /\ \A m \in Names \ {n} : cur'.device.jobs[m] = cur.device.jobs[m]
    <3>1. n \in Listed(cur.device.jobs)
      BY <1>1, <1>2
    <3>2. cur.device.jobs \in Maps(Jobs)
      BY DEF TypeOK, Visits, Devices, DevicesAt, Jobs
    <3> QED BY <2>2, <2>3, <3>1, <3>2 DEF Maps, Listed
  <2>5. /\ \A d : ConfiguredTags(d)' = ConfiguredTags(d) /\ DeviceLayers(d)' = DeviceLayers(d)
        /\ \A ad : IsStored(ad)' = IsStored(ad)
    BY <2>2 DEF ConfiguredTags, DeviceLayers, IsStored, Listed, Parts
  <2>6. StagesFit' /\ TodoIsLeft' /\ JobVisited' /\ NoneDropped'
    BY <1>1, <2>2, <2>3 DEF Shape, StagesFit, TodoIsLeft, JobVisited, NoneDropped, Listed
  <2>7. DeviceVisited'
    BY <1>1, <1>2, <2>2, <2>3, <2>4, <2>5 DEF DeviceVisited, Listed, TagsIn
  <2>8. CopiesKnown'
    BY <2>2, <2>4 DEF Shape, CopiesKnown, Listed
  <2>9. Separate'
    <3>1. ASSUME NEW m \in Listed(cur'.device.jobs), NEW ad \in Range(Parts(cur'.device.jobs[m]))
          PROVE  ~ IsStored(ad)
      <4>1. CASE m = n
        <5>1. CASE ad \in Range(Parts(job))
          BY <2>4, <5>1 DEF Shape, Separate
        <5>2. CASE ad \in {a \in Addresses' : a > Len(heap)}
          <6>1. ad \notin Addresses
            <7>1. Len(heap) \in Nat /\ heap' \in Seq(Cells)
              BY <2>1 DEF DeviceJobApplied
            <7>2. ad \in Nat /\ ad > Len(heap)
              <8>1. ad \in 1 .. Len(heap') /\ ad > Len(heap) /\ Len(heap') \in Nat
                BY <5>2, <7>1 DEF Addresses
              <8> QED BY <8>1
            <7> QED BY <7>1, <7>2 DEF Addresses
          <6> QED BY <6>1, StoredType
        <5> QED BY <2>2, <2>4, <3>1, <4>1, <5>1, <5>2
      <4>2. CASE m # n
        BY <2>4, <3>1, <4>2 DEF Shape, Separate, Listed
      <4> QED BY <4>1, <4>2
    <3> QED BY <2>5, <3>1 DEF Separate, Listed, Parts
  <2>10. DevicesAreWhole'
    BY <2>2, <2>5 DEF Shape, DevicesAreWhole, Listed
  <2>11. ListsSoFar' /\ PanicIsByDeviceCommands'
    BY <1>1, <2>2 DEF Shape, ListsSoFar, PanicIsByDeviceCommands
  <2> QED BY <2>6, <2>7, <2>8, <2>9, <2>10, <2>11 DEF Shape
<1> QED BY <1>3, <1>4, <1>5

LEMMA ShapeLists ==
  ASSUME TypeOK, Shape, NEW n \in Names,
         OpenDataStore \/ BeginLists(n) \/ AddDeviceJob(n) \/ DeviceAdded \/ Started
  PROVE  Shape'
<1>1. /\ phase \in {"data store", "lists"} /\ phase' \in {"failed", "lists", "started"}
      /\ UNCHANGED <<conf, heap, jobs, devices, errs>>
  BY DEF OpenDataStore, BeginLists, AddDeviceJob, DeviceAdded, Started
<1>2. /\ JobVisited' /\ DeviceVisited' /\ PanicIsByDeviceCommands'
  BY <1>1 DEF JobVisited, DeviceVisited, PanicIsByDeviceCommands
<1>3. NoneDropped' /\ DevicesAreWhole'
  <2>1. \A d : ConfiguredTags(d)' = ConfiguredTags(d)
    <3>1. conf' = conf
      BY <1>1
    <3>2. \A d : DeviceLayers(d)' = DeviceLayers(d)
      BY <3>1 DEF DeviceLayers
    <3> HIDE DEF DeviceLayers
    <3> QED BY <3>2 DEF ConfiguredTags
  <2>2. DevicesAreWhole'
    <3>1. DevicesAreWhole /\ conf' = conf /\ devices' = devices
      BY <1>1 DEF Shape
    <3> QED BY <2>1, <3>1 DEF DevicesAreWhole, Listed
  <2>3. Listed(conf.devices) \subseteq Listed(devices)
    BY <1>1 DEF Shape, NoneDropped
  <2>4. NoneDropped'
    BY <1>1, <2>3 DEF NoneDropped, Listed
  <2> QED BY <2>2, <2>4
<1>4. \A d, t : /\ TagsOf(d)' = TagsOf(d)
                /\ Listed(devices)' = Listed(devices)
                /\ Listed(devices[d].jobs)' = Listed(devices[d].jobs)
  BY <1>1 DEF TagsOf, Listed
<1>5. CASE OpenDataStore
  <2>1. /\ phase = "data store" /\ UNCHANGED <<cur, lists>>
        /\ \/ phase' = "failed"
           \/ phase' = "lists" /\ todo' = Listed(devices)
    BY <1>5 DEF OpenDataStore
  <2>2. cur.stage = "idle" /\ cur = Idle /\ \A t \in Tags : lists[t] = <<>>
    BY <2>1 DEF Shape, StagesFit, ListsSoFar
  <2>3. StagesFit' /\ TodoIsLeft'
    BY <1>4, <2>1, <2>2 DEF StagesFit, TodoIsLeft
  <2>4. CopiesKnown' /\ Separate'
    BY <2>1, <2>2, IdleFacts DEF CopiesKnown, Separate
  <2>5. ListsSoFar'
    <3>1. CASE phase' = "failed"
      BY <2>1, <2>2, <3>1 DEF ListsSoFar
    <3>2. CASE phase' = "lists" /\ todo' = Listed(devices)
      <4>1. \A t \in Tags, d, m \in Names : ~ IsListed(d, m, t)'
        BY <1>4, <3>2 DEF IsListed
      <4>2. \A t \in Tags : Range(lists'[t]) = {}
        <5>1. Range(<<>>) = {}
          BY DEF Range
        <5> QED BY <2>1, <2>2, <5>1
      <4> QED BY <2>1, <2>2, <3>2, <4>1, <4>2 DEF ListsSoFar
    <3> QED BY <2>1, <3>1, <3>2
  <2> QED BY <1>2, <1>3, <2>3, <2>4, <2>5 DEF Shape
<1>6. CASE BeginLists(n)
  <2>1. /\ phase = "lists" /\ phase' = "lists" /\ cur.stage = "idle"
        /\ n \in todo /\ todo' = todo \ {n} /\ lists' = lists
        /\ cur' = [Idle EXCEPT !.stage = "tags", !.name = n, !.due = Listed(devices[n].jobs)]
    BY <1>6 DEF BeginLists
  <2>2. /\ cur'.stage = "tags" /\ cur'.name = n /\ cur'.due = Listed(devices[n].jobs)
        /\ cur'.device = NewDevice
    BY <2>1 DEF Idle
  <2>3. StagesFit' /\ TodoIsLeft'
    BY <1>4, <2>1, <2>2 DEF Shape, StagesFit, TodoIsLeft
  <2>4. CopiesKnown' /\ Separate'
    BY <2>2, IdleFacts DEF CopiesKnown, Separate
  <2>5. n \in Listed(devices) /\ \A d \in todo : d \in Listed(devices)
    BY <2>1 DEF Shape, TodoIsLeft
  <2>6. ASSUME NEW t \in Tags, NEW d \in Names, NEW m \in Names
        PROVE  IsListed(d, m, t)' <=> IsListed(d, m, t)
    <3>1. CASE d = n
      BY <1>4, <2>1, <2>2, <3>1 DEF IsListed
    <3>2. CASE d # n
      BY <1>4, <2>1, <2>2, <3>2 DEF IsListed
    <3> QED BY <3>1, <3>2
  <2>7. ListsSoFar'
    BY <1>4, <2>1, <2>2, <2>5, <2>6 DEF Shape, ListsSoFar
  <2> QED BY <1>2, <1>3, <2>3, <2>4, <2>7 DEF Shape
<1>7. CASE AddDeviceJob(n)
  <2>1. /\ phase = "lists" /\ phase' = "lists" /\ cur.stage = "tags" /\ n \in cur.due
        /\ todo' = todo /\ cur' = [cur EXCEPT !.due = cur.due \ {n}]
    BY <1>7 DEF AddDeviceJob
  <2>2. /\ cur'.stage = "tags" /\ cur'.name = cur.name /\ cur'.due = cur.due \ {n}
        /\ cur'.device = cur.device
    BY <2>1 DEF TypeOK, Visits
  <2>3. cur.name \in Listed(devices) \ todo /\ cur.due \subseteq Listed(devices[cur.name].jobs)
    BY <2>1 DEF Shape, ListsSoFar
  <2>4. StagesFit' /\ TodoIsLeft'
    BY <1>4, <2>1, <2>2 DEF Shape, StagesFit, TodoIsLeft
  <2>5. CopiesKnown' /\ Separate'
    BY <1>1, <2>2 DEF Shape, CopiesKnown, Separate, IsStored, Listed, Parts
  <2>6. ASSUME NEW t \in Tags, NEW d \in Names, NEW m \in Names
        PROVE  <<d, m>> \in Range(lists'[t]) <=> IsListed(d, m, t)'
    <3>1. Range(lists'[t]) =
            Range(lists[t]) \cup (IF t \in Range(TagsOf(cur.name)) THEN {<<cur.name, n>>} ELSE {})
      BY <1>7, ListsAdded DEF Shape
    <3>2. <<d, m>> \in Range(lists[t]) <=> IsListed(d, m, t)
      BY <2>1 DEF Shape, ListsSoFar
    <3>3. CASE d = cur.name /\ m = n
      <4>1. <<d, m>> \in Range(lists'[t]) <=> t \in Range(TagsOf(d))
        BY <2>1, <3>1, <3>2, <3>3 DEF IsListed
      <4>2. IsListed(d, m, t)' <=> t \in Range(TagsOf(d))
        BY <1>4, <2>1, <2>2, <2>3, <3>3 DEF IsListed
      <4> QED BY <4>1, <4>2
    <3>4. CASE ~ (d = cur.name /\ m = n)
      <4>1. <<d, m>> \in Range(lists'[t]) <=> <<d, m>> \in Range(lists[t])
        BY <3>1, <3>4
      <4>2. IsListed(d, m, t)' <=> IsListed(d, m, t)
        BY <1>4, <2>1, <2>2, <3>4 DEF IsListed
      <4> QED BY <3>2, <4>1, <4>2
    <3> QED BY <3>3, <3>4
  <2>7. ListsSoFar'
    BY <1>4, <2>1, <2>2, <2>3, <2>6 DEF ListsSoFar
  <2> QED BY <1>2, <1>3, <2>4, <2>5, <2>7 DEF Shape
<1>8. CASE DeviceAdded
  <2>1. /\ phase = "lists" /\ phase' = "lists" /\ cur.stage = "tags" /\ cur.due = {}
        /\ cur' = Idle /\ UNCHANGED <<todo, lists>>
    BY <1>8 DEF DeviceAdded
  <2>2. cur'.stage = "idle"
    BY <2>1, IdleFacts
  <2>3. StagesFit' /\ TodoIsLeft'
    BY <1>4, <2>1, <2>2 DEF Shape, StagesFit, TodoIsLeft
  <2>4. CopiesKnown' /\ Separate'
    BY <2>1, IdleFacts DEF CopiesKnown, Separate
  <2>5. \A t \in Tags, d, m \in Names : IsListed(d, m, t)' <=> IsListed(d, m, t)
    BY <1>4, <2>1, <2>2 DEF IsListed
  <2>6. ListsSoFar'
    BY <2>1, <2>2, <2>5 DEF Shape, ListsSoFar
  <2> QED BY <1>2, <1>3, <2>3, <2>4, <2>6 DEF Shape
<1>9. CASE Started
  <2>1. /\ phase = "lists" /\ phase' = "started" /\ cur.stage = "idle" /\ todo = {}
        /\ UNCHANGED <<todo, cur, lists>>
    BY <1>9 DEF Started
  <2>2. StagesFit' /\ TodoIsLeft'
    BY <2>1 DEF Shape, StagesFit, TodoIsLeft
  <2>3. CopiesKnown' /\ Separate'
    BY <1>1, <2>1 DEF Shape, CopiesKnown, Separate, IsStored, Listed, Parts
  <2>4. \A t \in Tags, d, m \in Names : IsListed(d, m, t)' <=> IsListed(d, m, t)
    BY <1>4, <2>1 DEF IsListed
  <2>5. ListsSoFar'
    BY <2>1, <2>4 DEF Shape, ListsSoFar
  <2> QED BY <1>2, <1>3, <2>2, <2>3, <2>5 DEF Shape
<1> QED BY <1>5, <1>6, <1>7, <1>8, <1>9

LEMMA ShapeStutters ==
  ASSUME Shape, UNCHANGED vars
  PROVE  Shape'
<1>1. UNCHANGED <<conf, phase, todo, cur, heap, jobs, devices, errs, lists>>
  BY DEF vars
<1>2. /\ \A d : DeviceLayers(d)' = DeviceLayers(d)
      /\ \A d : ConfiguredTags(d)' = ConfiguredTags(d) /\ TagsOf(d)' = TagsOf(d)
      /\ \A ad : IsStored(ad)' = IsStored(ad)
  BY <1>1 DEF DeviceLayers, ConfiguredTags, TagsOf, IsStored, Listed, Parts
<1>3. StagesFit' /\ TodoIsLeft' /\ JobVisited' /\ NoneDropped' /\ CopiesKnown' /\ Separate'
  BY <1>1, <1>2 DEF Shape, StagesFit, TodoIsLeft, JobVisited, NoneDropped, CopiesKnown, Separate,
                    Listed, Parts
<1>4. DeviceVisited' /\ DevicesAreWhole'
  BY <1>1, <1>2 DEF Shape, DeviceVisited, DevicesAreWhole, Listed, TagsIn
<1>5. ListsSoFar' /\ PanicIsByDeviceCommands'
  <2>1. \A d, n, t : IsListed(d, n, t)' <=> IsListed(d, n, t)
    BY <1>1, <1>2 DEF IsListed, Listed
  <2> QED BY <1>1, <1>2, <2>1 DEF Shape, ListsSoFar, PanicIsByDeviceCommands, Listed
<1> QED BY <1>3, <1>4, <1>5 DEF Shape

-----------------------------------------------------------------------------
(* The invariant is one.                                                      *)

LEMMA IInvInit == Init => IInv
<1> SUFFICES ASSUME Init PROVE IInv
  OBVIOUS
<1> USE ConstantsAssumption
<1>1. TypeOK
  <2>1. heap \in Seq(Cells) /\ \A t \in Tags : lists[t] \in Seq(Names \X Names)
    BY DEF Init
  <2>2. cur \in Visits
    BY IdleType DEF Init
  <2> QED BY <2>1, <2>2 DEF Init, TypeOK, Listed, Maps
<1>2. /\ phase = "jobs" /\ cur = Idle /\ cur.stage = "idle" /\ Listed(cur.device.jobs) = {}
      /\ Listed(jobs) = {} /\ Listed(devices) = {} /\ todo = Listed(conf.jobs)
      /\ \A t \in Tags : lists[t] = <<>>
  BY IdleFacts DEF Init, Listed
<1>3. StagesFit /\ TodoIsLeft /\ JobVisited /\ DeviceVisited
  BY <1>2 DEF StagesFit, TodoIsLeft, JobVisited, DeviceVisited
<1>4. CopiesKnown /\ DevicesAreWhole /\ NoneDropped /\ Separate
  BY <1>2 DEF CopiesKnown, DevicesAreWhole, NoneDropped, Separate
<1>5. ListsSoFar /\ PanicIsByDeviceCommands
  BY <1>2 DEF ListsSoFar, PanicIsByDeviceCommands
<1> QED BY <1>1, <1>3, <1>4, <1>5 DEF IInv, Shape

LEMMA IInvNext == IInv /\ [Next]_vars => IInv'
<1> SUFFICES ASSUME IInv, [Next]_vars PROVE IInv'
  OBVIOUS
<1>1. TypeOK /\ Shape
  BY DEF IInv
<1>2. StagesFit /\ TodoIsLeft /\ JobVisited /\ DeviceVisited /\ ListsSoFar
  BY <1>1 DEF Shape
<1>3. CASE \E n \in Names : BeginJob(n)
  BY <1>1, <1>2, <1>3, TypeJobs, ShapeJobs DEF IInv
<1>4. CASE ApplyJobLayer \/ StoreJob \/ JobStoreDone
  <2>1. Default \in Names
    BY ConstantsAssumption
  <2> QED BY <1>1, <1>2, <1>4, <2>1, TypeJobs, ShapeJobs DEF IInv
<1>5. CASE \E n \in Names : BeginDevice(n) \/ CopyJob(n)
  BY <1>1, <1>2, <1>5, TypeDevices, ShapeDevices DEF IInv
<1>6. CASE JobsCopied \/ ApplyDeviceLayer \/ DeviceLayerDone \/ StoreDevice \/ DeviceStoreDone
  <2>1. Default \in Names
    BY ConstantsAssumption
  <2> QED BY <1>1, <1>2, <1>6, <2>1, TypeDevices, ShapeDevices DEF IInv
<1>7. CASE \E n \in Names : ApplyDeviceJob(n)
  BY <1>1, <1>2, <1>7, TypeDeviceJob, ShapeDeviceJob DEF IInv
<1>8. CASE \E n \in Names : BeginLists(n) \/ AddDeviceJob(n)
  BY <1>1, <1>2, <1>8, TypeLists, ShapeLists DEF IInv
<1>9. CASE OpenDataStore \/ DeviceAdded \/ Started
  <2>1. Default \in Names
    BY ConstantsAssumption
  <2> QED BY <1>1, <1>2, <1>9, <2>1, TypeLists, ShapeLists DEF IInv
<1>10. CASE UNCHANGED vars
  <2>1. Default \in Names
    BY ConstantsAssumption
  <2> QED BY <1>1, <1>2, <1>10, <2>1, TypeLists, ShapeStutters DEF IInv
<1> QED BY <1>3, <1>4, <1>5, <1>6, <1>7, <1>8, <1>9, <1>10 DEF Next, Returned

LEMMA IInvHolds == Spec => []IInv
  BY IInvInit, IInvNext, PTL DEF Spec

-----------------------------------------------------------------------------
(* What follows.                                                              *)

(* The variables keep their types: no job points outside the heap. *)
THEOREM TypeCorrect == Spec => []TypeOK
<1>1. IInv => TypeOK
  BY DEF IInv
<1> QED BY <1>1, IInvHolds, PTL

(* The nil dereference of CommandSet.ApplyConfig needs a device, or its       *)
(* generic, that sets commands for a job of the job store.                    *)
THEOREM PanicsAreByDeviceCommands == Spec => []PanicIsByDeviceCommands
<1>1. IInv => PanicIsByDeviceCommands
  BY DEF IInv, Shape
<1> QED BY <1>1, IInvHolds, PTL

(* A controller that has started hands out every job of every device, under   *)
(* the tags of the device and of its generic.                                 *)
THEOREM AllJobsAreListed == Spec => []EveryJobIsListed
<1>1. ASSUME IInv, phase = "started", NEW t \in Tags, NEW d \in Names, NEW n \in Names
      PROVE  <<d, n>> \in Range(lists[t]) <=>
               /\ conf.devices[d] # Nothing
               /\ conf.devices[d].jobs[n] # Nothing
               /\ t \in ConfiguredTags(d) \/ (t = Untagged /\ ConfiguredTags(d) = {})
  <2>1. /\ <<d, n>> \in Range(lists[t]) <=> IsListed(d, n, t)
        /\ todo = {} /\ cur.stage = "idle"
        /\ Listed(conf.devices) \subseteq Listed(devices)
    BY <1>1 DEF IInv, Shape, ListsSoFar, StagesFit, NoneDropped
  <2>2. IsListed(d, n, t) <=>
          d \in Listed(devices) /\ n \in Listed(devices[d].jobs) /\ t \in Range(TagsOf(d))
    BY <2>1 DEF IsListed
  <2>3. d \in Listed(devices) =>
          /\ conf.devices[d] # Nothing
          /\ Listed(devices[d].jobs) = Listed(conf.devices[d].jobs)
          /\ Range(devices[d].tags) = ConfiguredTags(d)
    BY <1>1 DEF IInv, Shape, DevicesAreWhole
  <2>4. d \in Listed(devices) =>
          (t \in Range(TagsOf(d)) <=>
             t \in ConfiguredTags(d) \/ (t = Untagged /\ ConfiguredTags(d) = {}))
    <3> SUFFICES ASSUME d \in Listed(devices)
                 PROVE  t \in Range(TagsOf(d)) <=>
                          t \in ConfiguredTags(d) \/ (t = Untagged /\ ConfiguredTags(d) = {})
      OBVIOUS
    <3>1. devices[d].tags \in Seq(Tags)
      BY <1>1 DEF IInv, TypeOK, Maps, Devices, DevicesAt, Listed
    <3>2. CASE devices[d].tags = <<>>
      <4>1. TagsOf(d) = <<Untagged>>
        BY <3>2 DEF TagsOf
      <4>2. Range(<<Untagged>>) = {Untagged} /\ Range(<<>>) = {}
        <5>1. DOMAIN <<Untagged>> = {1} /\ <<Untagged>>[1] = Untagged
          OBVIOUS
        <5> QED BY <5>1 DEF Range
      <4> QED BY <2>3, <3>2, <4>1, <4>2
    <3>3. CASE devices[d].tags # <<>>
      <4>1. TagsOf(d) = devices[d].tags
        BY <3>3 DEF TagsOf
      <4>2. Range(devices[d].tags) # {}
        BY <3>1, <3>3, RangeOfTail
      <4> QED BY <2>3, <4>1, <4>2
    <3> QED BY <3>2, <3>3
  <2>5. /\ conf.devices[d] # Nothing <=> d \in Listed(conf.devices)
        /\ conf.devices[d].jobs[n] # Nothing <=> n \in Listed(conf.devices[d].jobs)
    BY DEF Listed
  <2> QED BY <2>1, <2>2, <2>3, <2>4, <2>5
<1>2. IInv => EveryJobIsListed
  BY <1>1 DEF EveryJobIsListed
<1> QED BY <1>2, IInvHolds, PTL

(* What a stored job points to is among its parts. *)
LEMMA PartsType ==
  ASSUME NEW job \in Jobs
  PROVE  /\ \A i \in DOMAIN job.commands : job.commands[i] \in Range(Parts(job))
         /\ \A i \in DOMAIN job.scrubbers : job.scrubbers[i] \in Range(Parts(job))
<1>1. job.commands \in Seq(Addresses) /\ job.scrubbers \in Seq(Addresses)
  BY DEF Jobs, JobsAt
<1>2. Range(Parts(job)) = Range(job.commands) \cup Range(job.scrubbers)
  BY <1>1, RangeConcatenation DEF Parts
<1> QED BY <1>2 DEF Range

(* No step writes to where a stored job points. *)
LEMMA HeapIsKept ==
  ASSUME IInv, [Next]_vars, NEW ad, IsStored(ad)
  PROVE  heap'[ad] = heap[ad]
<1>1. TypeOK /\ Shape
  BY DEF IInv
<1>2. heap \in Seq(Cells) /\ ad \in 1 .. Len(heap)
  BY <1>1, StoredType DEF TypeOK, Addresses
<1>3. \A more \in Seq(Cells) : (heap \o more)[ad] = heap[ad]
  BY <1>2
<1>4. CASE heap' = heap
  BY <1>4
<1>5. ASSUME NEW n \in Names, CopyJob(n)
      PROVE  heap'[ad] = heap[ad]
  <2>1. CASE jobs[n] = Nothing
    BY <1>5, <2>1 DEF CopyJob
  <2>2. CASE jobs[n] # Nothing
    <3>1. jobs[n] \in Jobs
      BY <1>1, <2>2 DEF TypeOK, Maps
    <3>2. heap' = heap \o CopiedCells(jobs[n]) /\ CopiedCells(jobs[n]) \in Seq(Cells)
      BY <1>2, <1>5, <2>2, <3>1, CopiedHasType DEF CopyJob, CopiedType
    <3> QED BY <1>3, <3>2
  <2> QED BY <2>1, <2>2
<1>6. CASE ApplyJobLayer
  <2>1. CASE ApplyFails(cur.job, Head(cur.layers))
    BY <1>6, <2>1 DEF ApplyJobLayer, Skip
  <2>2. CASE ~ ApplyFails(cur.job, Head(cur.layers))
    <3> DEFINE settings == Head(cur.layers)
    <3>1. /\ phase = "jobs" /\ cur.stage = "layer" /\ cur.layers # <<>>
          /\ heap' = heap \o AddedCells(cur.job, settings)
      BY <1>6, <2>2 DEF ApplyJobLayer
    <3>2. /\ cur.job \in Jobs /\ cur.layers \in Seq(JobConfs)
          /\ cur.job.kind = "command" => cur.job.generic # Nothing
      BY <1>1, <3>1 DEF TypeOK, Visits, Shape, JobVisited
    <3>3. settings \in JobConfs /\ Applies(cur.job, settings)
      BY <2>2, <3>1, <3>2 DEF Applies, ApplyPanics
    <3> HIDE DEF settings
    <3>4. AddedCells(cur.job, settings) \in Seq(Cells)
      BY <3>2, <3>3, NewCommandsType, NewScrubbersType DEF AddedCells, Jobs
    <3> QED BY <1>3, <3>1, <3>4
  <2> QED BY <2>1, <2>2
<1>7. ASSUME NEW n \in Names, ApplyDeviceJob(n)
      PROVE  heap'[ad] = heap[ad]
  <2> DEFINE settings == Head(cur.layers).jobs[n]
             job == cur.device.jobs[n]
  <2>1. CASE ApplyPanics(job, settings) \/ ApplyFails(job, settings)
    BY <1>7, <2>1 DEF ApplyDeviceJob, Skip
  <2>2. CASE ~ ApplyPanics(job, settings) /\ ~ ApplyFails(job, settings)
    <3>1. PICK applied : DeviceJobApplied(n, applied)
      BY <1>1, <1>7, <2>2, DeviceJobIsApplied DEF Shape
    <3>2. /\ Range(Parts(applied)) \subseteq Range(Parts(job)) \cup {a \in Addresses' : a > Len(heap)}
          /\ \A a \in Addresses : a \notin Range(Parts(applied)) => heap'[a] = heap[a]
          /\ Len(heap) \in Nat
      BY <3>1 DEF DeviceJobApplied
    <3>3. n \in Listed(cur.device.jobs)
      BY <1>1, <1>7 DEF ApplyDeviceJob, Shape, DeviceVisited
    <3>4. ad \notin Range(Parts(job))
      BY <1>1, <3>3 DEF Shape, Separate
    <3>5. ~ (ad > Len(heap))
      BY <1>2, <3>2
    <3> QED BY <1>2, <3>2, <3>4, <3>5 DEF Addresses
  <2> QED BY <2>1, <2>2
<1>8. \A n \in Names :
        BeginJob(n) \/ BeginDevice(n) \/ BeginLists(n) \/ AddDeviceJob(n) => heap' = heap
  BY DEF BeginJob, Skip, BeginDevice, BeginLists, AddDeviceJob
<1>9. StoreJob \/ JobStoreDone \/ JobsCopied \/ ApplyDeviceLayer \/ DeviceLayerDone \/ StoreDevice
        \/ DeviceStoreDone => heap' = heap
  BY DEF StoreJob, JobStoreDone, Skip, JobsCopied, ApplyDeviceLayer, DeviceLayerDone, StoreDevice,
         DeviceStoreDone
<1>10. OpenDataStore \/ DeviceAdded \/ Started \/ Returned \/ UNCHANGED vars => heap' = heap
  BY DEF OpenDataStore, DeviceAdded, Started, Returned, vars
<1> QED BY <1>4, <1>5, <1>6, <1>7, <1>8, <1>9, <1>10 DEF Next

(* The entries of the stores are written once. *)
LEMMA EntriesAreKept ==
  ASSUME IInv, [Next]_vars
  PROVE  /\ \A n \in Listed(jobs) : jobs'[n] = jobs[n]
         /\ \A d \in Listed(devices) : devices'[d] = devices[d]
<1>1. TypeOK /\ Shape
  BY DEF IInv
<1>2. CASE StoreJob
  <2>1. devices' = devices /\ (jobs' = jobs \/ jobs' = [jobs EXCEPT ![cur.name] = cur.job])
    BY <1>2 DEF StoreJob, Skip
  <2>2. cur.name \notin Listed(jobs)
    BY <1>1, <1>2 DEF StoreJob, Shape, JobVisited, Listed
  <2>3. \A n \in Listed(jobs) : jobs'[n] = jobs[n]
    BY <1>1, <2>1, <2>2 DEF TypeOK, Maps, Listed
  <2> QED BY <2>1, <2>3
<1>3. CASE StoreDevice
  <2>1. jobs' = jobs /\ (devices' = devices \/ devices' = [devices EXCEPT ![cur.name] = cur.device])
    BY <1>3 DEF StoreDevice, Skip
  <2>2. cur.name \notin Listed(devices)
    BY <1>1, <1>3 DEF StoreDevice, Shape, DeviceVisited, Listed
  <2>3. \A d \in Listed(devices) : devices'[d] = devices[d]
    BY <1>1, <2>1, <2>2 DEF TypeOK, Maps, Listed
  <2> QED BY <2>1, <2>3
<1>4. \A n \in Names :
        BeginJob(n) \/ BeginDevice(n) \/ CopyJob(n) \/ BeginLists(n) \/ AddDeviceJob(n)
          => UNCHANGED <<jobs, devices>>
  BY DEF BeginJob, Skip, BeginDevice, CopyJob, BeginLists, AddDeviceJob
<1>5. \A n \in Names : ApplyDeviceJob(n) => UNCHANGED <<jobs, devices>>
  BY DEF ApplyDeviceJob, Skip
<1>6. ApplyJobLayer \/ JobStoreDone \/ JobsCopied \/ ApplyDeviceLayer \/ DeviceLayerDone
        \/ DeviceStoreDone => UNCHANGED <<jobs, devices>>
  BY DEF ApplyJobLayer, JobStoreDone, Skip, JobsCopied, ApplyDeviceLayer, DeviceLayerDone,
         DeviceStoreDone
<1>7. OpenDataStore \/ DeviceAdded \/ Started \/ Returned \/ UNCHANGED vars
        => UNCHANGED <<jobs, devices>>
  BY DEF OpenDataStore, DeviceAdded, Started, Returned, vars
<1>8. CASE UNCHANGED <<jobs, devices>>
  BY <1>8
<1> QED BY <1>2, <1>3, <1>4, <1>5, <1>6, <1>7, <1>8 DEF Next

(* A job as those see it who follow its pointers to the given cells. *)
Seen(job, cells) ==
  [kind |-> job.kind,
   schedule |-> job.schedule,
   values |-> job.template_values,
   commands |-> [i \in DOMAIN job.commands |-> cells[job.commands[i]]],
   scrubbers |-> [i \in DOMAIN job.scrubbers |-> cells[job.scrubbers[i]]],
   files |-> [f \in Files |-> Cardinality({i \in DOMAIN job.files : job.files[i] = f})]]

(* Nothing changes a stored job: not the devices that are made of copies of   *)
(* it, not the template values that are written into commands in place.       *)
StoresKept ==
  /\ \A n \in Listed(jobs) : Contents(jobs[n])' = Contents(jobs[n])
  /\ \A d \in Listed(devices) : \A n \in Listed(devices[d].jobs) :
       Contents(devices[d].jobs[n])' = Contents(devices[d].jobs[n])

THEOREM StoresStayUntouched == Spec => StoresUntouched
<1>1. ASSUME IInv, [Next]_vars
      PROVE  StoresKept
  <2>1. TypeOK
    BY <1>1 DEF IInv
  <2>2. ASSUME NEW job \in Jobs, \A ad \in Range(Parts(job)) : heap'[ad] = heap[ad]
        PROVE  Seen(job, heap') = Seen(job, heap)
    <3>1. [i \in DOMAIN job.commands |-> heap'[job.commands[i]]] =
            [i \in DOMAIN job.commands |-> heap[job.commands[i]]]
      BY <2>2, PartsType
    <3>2. [i \in DOMAIN job.scrubbers |-> heap'[job.scrubbers[i]]] =
            [i \in DOMAIN job.scrubbers |-> heap[job.scrubbers[i]]]
      BY <2>2, PartsType
    <3> QED BY <3>1, <3>2 DEF Seen
  <2>3. ASSUME NEW n \in Listed(jobs)
        PROVE  Contents(jobs[n])' = Contents(jobs[n])
    <3>1. jobs'[n] = jobs[n] /\ jobs[n] \in Jobs
      BY <1>1, <2>1, EntriesAreKept DEF TypeOK, Maps, Listed
    <3>2. \A ad \in Range(Parts(jobs[n])) : heap'[ad] = heap[ad]
      <4>1. \A ad \in Range(Parts(jobs[n])) : IsStored(ad)
        BY DEF IsStored
      <4> QED BY <1>1, <4>1, HeapIsKept
    <3>3. Contents(jobs[n])' = Seen(jobs'[n], heap') /\ Contents(jobs[n]) = Seen(jobs[n], heap)
      BY DEF Contents, Seen
    <3>4. Seen(jobs[n], heap') = Seen(jobs[n], heap)
      BY <2>2, <3>1, <3>2
    <3> QED BY <3>1, <3>3, <3>4
  <2>4. ASSUME NEW d \in Listed(devices), NEW n \in Listed(devices[d].jobs)
        PROVE  Contents(devices[d].jobs[n])' = Contents(devices[d].jobs[n])
    <3>1. devices'[d] = devices[d] /\ devices[d] \in Devices
      BY <1>1, <2>1, EntriesAreKept DEF TypeOK, Maps, Listed
    <3>2. devices[d].jobs[n] \in Jobs
      BY <3>1 DEF Devices, DevicesAt, Maps, Listed, Jobs
    <3>3. \A ad \in Range(Parts(devices[d].jobs[n])) : heap'[ad] = heap[ad]
      <4>1. \A ad \in Range(Parts(devices[d].jobs[n])) : IsStored(ad)
        BY DEF IsStored
      <4> QED BY <1>1, <4>1, HeapIsKept
    <3>4. /\ Contents(devices[d].jobs[n])' = Seen(devices'[d].jobs[n], heap')
          /\ Contents(devices[d].jobs[n]) = Seen(devices[d].jobs[n], heap)
      BY DEF Contents, Seen
    <3>5. Seen(devices[d].jobs[n], heap') = Seen(devices[d].jobs[n], heap)
      BY <2>2, <3>2, <3>3
    <3> QED BY <3>1, <3>4, <3>5
  <2> QED BY <2>3, <2>4 DEF StoresKept
<1>2. IInv /\ [Next]_vars => [StoresKept]_vars
  BY <1>1
<1>3. StoresUntouched <=> [][StoresKept]_vars
  BY PTL DEF StoresUntouched, StoresKept
<1> QED BY <1>2, <1>3, IInvHolds, PTL DEF Spec

-----------------------------------------------------------------------------
(* Lists: the last and the first that fits.                                   *)

(* A value at the end goes over what the list has. *)
LEMMA MostSpecificAppend ==
  ASSUME NEW S, NEW list \in Seq(S), NEW x \in S, NEW default
  PROVE  /\ MostSpecific(Append(list, x), default) = Over(x, MostSpecific(list, default))
         /\ MostSpecific(<<>>, default) = default
<1> DEFINE n == Len(list)
           more == Append(list, x)
           at == {i \in DOMAIN list : list[i] # Nothing}
           now == {i \in DOMAIN more : more[i] # Nothing}
<1>1. /\ n \in Nat /\ DOMAIN list = 1 .. n /\ DOMAIN more = 1 .. (n + 1)
      /\ \A i \in 1 .. n : more[i] = list[i]
      /\ more[n + 1] = x
  OBVIOUS
<1>2. MostSpecific(list, default) = IF at = {} THEN default ELSE list[Max(at)]
  BY DEF MostSpecific
<1>3. MostSpecific(more, default) = IF now = {} THEN default ELSE more[Max(now)]
  BY DEF MostSpecific
<1>6. MostSpecific(<<>>, default) = default
  BY DEF MostSpecific
<1> HIDE DEF more, n
<1>4. CASE x = Nothing
  <2>1. now = at /\ at \in SUBSET (1 .. n)
    BY <1>1, <1>4
  <2>2. at # {} => Max(at) \in 1 .. n
    <3> HIDE DEF at
    <3> QED BY <1>1, <2>1, Extremes
  <2>3. at # {} => more[Max(at)] = list[Max(at)]
    BY <1>1, <2>2
  <2> HIDE DEF at, now
  <2>4. MostSpecific(more, default) = MostSpecific(list, default)
    BY <1>2, <1>3, <2>1, <2>3
  <2> QED BY <1>4, <1>6, <2>4 DEF Over, more
<1>5. CASE x # Nothing
  <2>1. n + 1 \in now /\ now \in SUBSET (1 .. (n + 1)) /\ n + 1 \in Nat
    BY <1>1, <1>5
  <2> HIDE DEF now
  <2>2. Max(now) \in now /\ \A i \in now : i <= Max(now)
    BY <2>1, Extremes
  <2>3. Max(now) = n + 1
    <3>1. Max(now) \in 1 .. (n + 1) /\ n + 1 <= Max(now)
      BY <2>1, <2>2
    <3> QED BY <1>1, <3>1
  <2>4. MostSpecific(more, default) = x
    BY <1>1, <1>3, <2>1, <2>3
  <2> QED BY <1>5, <1>6, <2>4 DEF Over, more
<1> QED BY <1>4, <1>5, <1>6 DEF more

(* What is given of a list grows as the list does. *)
LEMMA GivenAppend ==
  ASSUME NEW S, NEW list \in Seq(S \cup {Nothing}), NEW x \in S \cup {Nothing}
  PROVE  /\ Given(<<>>) = <<>>
         /\ Given(list) \in Seq(S \ {Nothing})
         /\ Given(Append(list, x)) = IF x = Nothing THEN Given(list) ELSE Append(Given(list), x)
<1> DEFINE V == S \ {Nothing}
           one == [e \in S \cup {Nothing} |-> IF e = Nothing THEN <<>> ELSE <<e>>]
<1>1. \A e \in S \cup {Nothing} : one[e] \in Seq(V)
  <2>1. <<>> \in Seq(V) /\ \A e \in V : <<e>> \in Seq(V)
    <3> HIDE DEF V
    <3> QED OBVIOUS
  <2> QED BY <2>1
<1>2. \A q \in Seq(S \cup {Nothing}) : Given(q) = FlattenSeq(Through(one, q))
  <2>1. ASSUME NEW q \in Seq(S \cup {Nothing})
        PROVE  Given(q) = FlattenSeq(Through(one, q))
    <3>1. \A i \in DOMAIN q : q[i] \in S \cup {Nothing}
      OBVIOUS
    <3>2. Through(one, q) = [i \in DOMAIN q |-> IF q[i] = Nothing THEN <<>> ELSE <<q[i]>>]
      BY <3>1 DEF Through
    <3> QED BY <3>2 DEF Given
  <2> QED BY <2>1
<1>3. one[x] = IF x = Nothing THEN <<>> ELSE <<x>>
  OBVIOUS
<1>4. Given(<<>>) = <<>>
  <2>1. FlattenSeq(<<>>) = <<>>
    BY DEF FlattenSeq
  <2>2. <<>> \in Seq(S \cup {Nothing}) /\ Through(one, <<>>) = <<>>
    BY DEF Through
  <2> QED BY <1>2, <2>1, <2>2
<1>5. x # Nothing => x \in V
  OBVIOUS
<1> HIDE DEF one, V
<1>6. Append(list, x) \in Seq(S \cup {Nothing})
  BY AppendProperties
<1>7. Through(one, list) \in Seq(Seq(V)) /\ one[x] \in Seq(V)
  BY <1>1, ThroughType
<1>11. Through(one, Append(list, x)) = Append(Through(one, list), one[x])
  BY <1>1, ThroughAppend
<1>8. Given(list) \in Seq(V) /\ Given(Append(list, x)) = Given(list) \o one[x]
  BY <1>2, <1>6, <1>7, <1>11, FlattenStep
<1>9. CASE x = Nothing
  BY <1>3, <1>4, <1>8, <1>9, ConcatEmptySeq DEF V
<1>10. CASE x # Nothing
  BY <1>3, <1>4, <1>5, <1>8, <1>10, AppendIsConcat DEF V
<1> QED BY <1>9, <1>10

-----------------------------------------------------------------------------
(* What a chain describes when settings are added to it.                      *)

LEMMA MostSpecificThrough ==
  ASSUME NEW S, NEW f, NEW list \in Seq(S), NEW x \in S, NEW default
  PROVE  MostSpecific(Through(f, Append(list, x)), default) =
           Over(f[x], MostSpecific(Through(f, list), default))
<1> DEFINE R == {f[y] : y \in S}
<1>1. Through(f, list) \in Seq(R) /\ f[x] \in R
  <2>1. \A y \in S : f[y] \in R
    OBVIOUS
  <2> HIDE DEF R
  <2> QED BY <2>1, ThroughType
<1> HIDE DEF R
<1>2. Through(f, Append(list, x)) = Append(Through(f, list), f[x])
  BY ThroughAppend
<1> QED BY <1>1, <1>2, MostSpecificAppend

(* A value is given or is the one before. *)
LEMMA MostSpecificType ==
  ASSUME NEW R, NEW list \in Seq(R \cup {Nothing}), NEW default
  PROVE  MostSpecific(list, default) \in R \cup {default}
<1> DEFINE at == {i \in DOMAIN list : list[i] # Nothing}
<1>1. at \in SUBSET (1 .. Len(list)) /\ Len(list) \in Nat
      /\ \A i \in at : list[i] \in R
  OBVIOUS
<1>2. MostSpecific(list, default) = IF at = {} THEN default ELSE list[Max(at)]
  BY DEF MostSpecific
<1> HIDE DEF at
<1>3. at # {} => Max(at) \in at
  BY <1>1, Extremes
<1> QED BY <1>1, <1>2, <1>3

(* The commands that settings of commands describe. *)
LEMMA MergedAppend ==
  ASSUME NEW all \in Seq(CommandConfs), NEW settings \in CommandConfs
  PROVE  /\ Merged(<<>>) = NewCommand
         /\ Merged(all) \in Cells
         /\ Merged(Append(all, settings)) = ApplyCommand(Merged(all), settings)
<1> DEFINE command == [c \in CommandConfs |-> c.command]
           expect == [c \in CommandConfs |-> c.expect]
           timeout == [c \in CommandConfs |-> c.timeout]
           more == Append(all, settings)
<1>1. \A c \in CommandConfs : /\ c.command \in Texts \cup {Nothing} /\ command[c] = c.command
                              /\ c.expect \in Seq(Texts) /\ expect[c] = c.expect
                              /\ c.timeout \in Nat \cup {Nothing} /\ timeout[c] = c.timeout
  BY DEF CommandConfs
<1>2. ASSUME NEW q \in Seq(CommandConfs)
      PROVE  /\ Merged(q).text = MostSpecific(Through(command, q), Nothing)
             /\ Merged(q).expect = FlattenSeq(Through(expect, q))
             /\ Merged(q).timeout = MostSpecific(Through(timeout, q), 120)
             /\ Merged(q).type = ""
             /\ Merged(q) = [type |-> Merged(q).type, text |-> Merged(q).text,
                             expect |-> Merged(q).expect, timeout |-> Merged(q).timeout]
  <2>1. \A i \in DOMAIN q : q[i] \in CommandConfs
    OBVIOUS
  <2>2. Through(command, q) = [m \in DOMAIN q |-> q[m].command]
    BY <2>1 DEF Through
  <2>3. Through(expect, q) = [m \in DOMAIN q |-> q[m].expect]
    BY <2>1 DEF Through
  <2>4. Through(timeout, q) = [m \in DOMAIN q |-> q[m].timeout]
    BY <2>1 DEF Through
  <2> QED BY <2>2, <2>3, <2>4 DEF Merged
<1> HIDE DEF command, expect, timeout
<1>3. more \in Seq(CommandConfs)
  BY AppendProperties
<1>4. Through(expect, all) \in Seq(Seq(Texts))
  BY <1>1, ThroughType
<1>5. FlattenSeq(Through(expect, all)) \in Seq(Texts)
      /\ FlattenSeq(Through(expect, more)) = FlattenSeq(Through(expect, all)) \o settings.expect
  <2>1. Through(expect, more) = Append(Through(expect, all), settings.expect)
    BY <1>1, ThroughAppend
  <2>2. settings.expect \in Seq(Texts)
    BY <1>1
  <2> QED BY <1>4, <2>1, <2>2, FlattenStep
<1>6. MostSpecific(Through(command, more), Nothing) =
        Over(settings.command, MostSpecific(Through(command, all), Nothing))
  BY <1>1, MostSpecificThrough
<1>7. MostSpecific(Through(timeout, more), 120) =
        Over(settings.timeout, MostSpecific(Through(timeout, all), 120))
  BY <1>1, MostSpecificThrough
<1>8. MostSpecific(Through(command, all), Nothing) \in Texts \cup {Nothing}
  <2>1. Through(command, all) \in Seq(Texts \cup {Nothing})
    BY <1>1, ThroughType
  <2> QED BY <2>1, MostSpecificType
<1>9. MostSpecific(Through(timeout, all), 120) \in Nat
  <2>1. Through(timeout, all) \in Seq(Nat \cup {Nothing})
    BY <1>1, ThroughType
  <2>2. MostSpecific(Through(timeout, all), 120) \in Nat \cup {120}
    BY <2>1, MostSpecificType
  <2> QED BY <2>2
<1>10. Merged(all) \in Cells
  <2>1. /\ Merged(all).type \in Types /\ Merged(all).text \in Texts \cup {Nothing}
        /\ Merged(all).expect \in Seq(Texts) /\ Merged(all).timeout \in Nat
    BY <1>2, <1>5, <1>8, <1>9 DEF Types
  <2>2. [type |-> Merged(all).type, text |-> Merged(all).text, expect |-> Merged(all).expect,
         timeout |-> Merged(all).timeout] \in Cells
    BY <2>1, CellShape
  <2> QED BY <1>2, <2>2
<1>11. Merged(more) = ApplyCommand(Merged(all), settings)
  BY <1>2, <1>3, <1>5, <1>6, <1>7 DEF ApplyCommand
<1>12. Merged(<<>>) = NewCommand
  <2>1. <<>> \in Seq(CommandConfs)
    OBVIOUS
  <2>2. \A f : Through(f, <<>>) = <<>>
    BY DEF Through
  <2>3. FlattenSeq(<<>>) = <<>>
    BY DEF FlattenSeq
  <2>4. \A d : MostSpecific(<<>>, d) = d
    BY DEF MostSpecific
  <2>5. Merged(<<>>).text = Nothing /\ Merged(<<>>).expect = <<>> /\ Merged(<<>>).timeout = 120
    <3>1. /\ Through(command, <<>>) = <<>> /\ Through(expect, <<>>) = <<>>
          /\ Through(timeout, <<>>) = <<>>
      BY <2>2
    <3>2. Merged(<<>>).text = MostSpecific(<<>>, Nothing)
      BY <1>2, <2>1, <3>1
    <3>3. Merged(<<>>).expect = FlattenSeq(<<>>)
      BY <1>2, <2>1, <3>1
    <3>4. Merged(<<>>).timeout = MostSpecific(<<>>, 120)
      BY <1>2, <2>1, <3>1
    <3>5. MostSpecific(<<>>, Nothing) = Nothing
      BY <2>4
    <3>6. MostSpecific(<<>>, 120) = 120
      BY <2>4
    <3>7. Merged(<<>>).expect = <<>>
      BY <2>3, <3>3
    <3> QED BY <3>2, <3>4, <3>5, <3>6, <3>7
  <2> QED BY <1>2, <2>1, <2>5 DEF NewCommand
<1> QED BY <1>10, <1>11, <1>12

(* The generic commands of a chain. *)
GenericsOf(chain) == Given([m \in DOMAIN chain |-> chain[m].command_generic])

LEMMA GenericsAppend ==
  ASSUME NEW chain \in Seq(JobConfs), NEW settings \in JobConfs
  PROVE  /\ GenericsOf(<<>>) = <<>>
         /\ GenericsOf(chain) \in Seq(CommandConfs)
         /\ GenericsOf(Append(chain, settings)) =
              IF settings.command_generic = Nothing THEN GenericsOf(chain)
              ELSE Append(GenericsOf(chain), settings.command_generic)
<1> DEFINE generic == [s \in JobConfs |-> s.command_generic]
<1>1. \A s \in JobConfs : generic[s] \in CommandConfs \cup {Nothing} /\ generic[s] = s.command_generic
  BY DEF JobConfs
<1>2. ASSUME NEW q \in Seq(JobConfs)
      PROVE  GenericsOf(q) = Given(Through(generic, q))
  <2>1. \A i \in DOMAIN q : q[i] \in JobConfs
    OBVIOUS
  <2>2. Through(generic, q) = [m \in DOMAIN q |-> q[m].command_generic]
    BY <2>1 DEF Through
  <2> QED BY <2>2 DEF GenericsOf
<1> HIDE DEF generic
<1>3. Append(chain, settings) \in Seq(JobConfs)
  BY AppendProperties
<1>4. Through(generic, chain) \in Seq(CommandConfs \cup {Nothing})
  BY <1>1, ThroughType
<1>5. Through(generic, Append(chain, settings)) = Append(Through(generic, chain), settings.command_generic)
  BY <1>1, ThroughAppend
<1>6. settings.command_generic \in CommandConfs \cup {Nothing}
  BY <1>1
<1>7. /\ Given(Through(generic, chain)) \in Seq(CommandConfs \ {Nothing})
      /\ Given(Append(Through(generic, chain), settings.command_generic)) =
           IF settings.command_generic = Nothing THEN Given(Through(generic, chain))
           ELSE Append(Given(Through(generic, chain)), settings.command_generic)
  BY <1>4, <1>6, GivenAppend
<1>8. GenericsOf(<<>>) = <<>>
  <2>1. [m \in DOMAIN <<>> |-> <<>>[m].command_generic] = <<>>
    OBVIOUS
  <2>2. Given(<<>>) = <<>>
    BY <1>4, <1>6, GivenAppend
  <2> QED BY <2>1, <2>2 DEF GenericsOf
<1>9. GenericsOf(chain) \in Seq(CommandConfs)
  <2>1. \A q \in Seq(CommandConfs \ {Nothing}) : q \in Seq(CommandConfs)
    OBVIOUS
  <2> QED BY <1>2, <1>7, <2>1
<1> QED BY <1>2, <1>3, <1>5, <1>7, <1>8, <1>9

LEMMA KindAppend ==
  ASSUME NEW chain \in Seq(JobConfs), NEW settings \in JobConfs
  PROVE  /\ KindOf(<<>>) = "command"
         /\ KindOf(Append(chain, settings)) =
              IF settings.type # "" THEN settings.type ELSE KindOf(chain)
<1> DEFINE n == Len(chain)
           more == Append(chain, settings)
           at == {i \in DOMAIN chain : chain[i].type # ""}
           now == {i \in DOMAIN more : more[i].type # ""}
<1>1. /\ n \in Nat /\ DOMAIN chain = 1 .. n /\ DOMAIN more = 1 .. (n + 1)
      /\ \A i \in 1 .. n : more[i] = chain[i]
      /\ more[n + 1] = settings
  OBVIOUS
<1>2. KindOf(chain) = IF at = {} THEN "command" ELSE chain[Max(at)].type
  BY DEF KindOf
<1>3. KindOf(more) = IF now = {} THEN "command" ELSE more[Max(now)].type
  BY DEF KindOf
<1>4. KindOf(<<>>) = "command"
  BY DEF KindOf
<1> HIDE DEF more, n
<1>5. CASE settings.type = ""
  <2>1. now = at /\ at \in SUBSET (1 .. n)
    <3>1. \A i \in 1 .. n : more[i].type = chain[i].type
      BY <1>1
    <3>2. more[n + 1].type = ""
      BY <1>1, <1>5
    <3>3. \A i \in 1 .. (n + 1) : i \in 1 .. n \/ i = n + 1
      BY <1>1
    <3>4. 1 .. n \subseteq 1 .. (n + 1)
      BY <1>1
    <3>5. \A i \in DOMAIN more : i \in now => i \in at
      BY <1>1, <3>1, <3>2, <3>3
    <3>6. \A i \in at : i \in now
      BY <1>1, <3>1, <3>4
    <3> QED BY <1>1, <3>5, <3>6
  <2>2. at # {} => Max(at) \in 1 .. n
    <3> HIDE DEF at
    <3> QED BY <1>1, <2>1, Extremes
  <2>3. at # {} => more[Max(at)] = chain[Max(at)]
    BY <1>1, <2>2
  <2> HIDE DEF at, now
  <2> QED BY <1>2, <1>3, <1>4, <1>5, <2>1, <2>3 DEF more
<1>6. CASE settings.type # ""
  <2>1. n + 1 \in now /\ now \in SUBSET (1 .. (n + 1)) /\ n + 1 \in Nat
    <3>1. n + 1 \in 1 .. (n + 1) /\ n + 1 \in Nat
      BY <1>1
    <3>2. more[n + 1].type # ""
      BY <1>1, <1>6
    <3> QED BY <1>1, <3>1, <3>2
  <2> HIDE DEF now
  <2>2. Max(now) \in now /\ \A i \in now : i <= Max(now)
    BY <2>1, Extremes
  <2>3. Max(now) = n + 1
    <3>1. Max(now) \in 1 .. (n + 1) /\ n + 1 <= Max(now)
      BY <2>1, <2>2
    <3> QED BY <1>1, <3>1
  <2>4. KindOf(more) = settings.type
    BY <1>1, <1>3, <2>1, <2>3
  <2> QED BY <1>4, <1>6, <2>4 DEF more
<1> QED BY <1>5, <1>6

(* The value of a variable, through the settings' values of it. *)
LEMMA ValueType ==
  ASSUME NEW chain \in Seq(JobConfs), NEW k \in Keys
  PROVE  /\ ValueOf(chain, k) = MostSpecific(Through([s \in JobConfs |-> s.template_values[k]], chain), Nothing)
         /\ ValueOf(chain, k) \in Texts \cup {Nothing}
         /\ PlainValues(chain) => ValueOf(chain, k) \notin Keys
<1> DEFINE value == [s \in JobConfs |-> s.template_values[k]]
<1>1. \A s \in JobConfs : value[s] = s.template_values[k] /\ value[s] \in Texts \cup {Nothing}
  BY DEF JobConfs
<1>2. \A i \in DOMAIN chain : chain[i] \in JobConfs
  OBVIOUS
<1>3. ValueOf(chain, k) = MostSpecific(Through(value, chain), Nothing)
  <2>1. Through(value, chain) = [i \in DOMAIN chain |-> chain[i].template_values[k]]
    BY <1>2 DEF Through
  <2> QED BY <2>1 DEF ValueOf
<1> HIDE DEF value
<1>4. MostSpecific(Through(value, chain), Nothing) \in Texts \cup {Nothing}
  <2>1. Through(value, chain) \in Seq(Texts \cup {Nothing})
    BY <1>1, ThroughType
  <2> QED BY <2>1, MostSpecificType
<1>5. ASSUME PlainValues(chain)
      PROVE  ValueOf(chain, k) \notin Keys
  <2>1. Nothing \notin Keys
    BY JobConfigAssumption
  <2> DEFINE R == (Texts \cup {Nothing}) \ Keys
  <2>2. Through(value, chain) \in Seq(R \cup {Nothing})
    <3>1. \A i \in DOMAIN chain : value[chain[i]] \in R \cup {Nothing}
      BY <1>1, <1>2, <1>5 DEF PlainValues
    <3>2. DOMAIN chain = 1 .. Len(chain) /\ Len(chain) \in Nat
      OBVIOUS
    <3> HIDE DEF R
    <3> QED BY <3>1, <3>2 DEF Through
  <2>3. MostSpecific(Through(value, chain), Nothing) \in R \cup {Nothing}
    <3> HIDE DEF R
    <3> QED BY <2>2, MostSpecificType
  <2> QED BY <1>3, <2>1, <2>3
<1> QED BY <1>3, <1>4, <1>5 DEF value

LEMMA ValueAppend ==
  ASSUME NEW chain \in Seq(JobConfs), NEW settings \in JobConfs, NEW k \in Keys
  PROVE  /\ ValueOf(<<>>, k) = Nothing
         /\ ValueOf(Append(chain, settings), k) =
              Over(settings.template_values[k], ValueOf(chain, k))
<1> DEFINE value == [s \in JobConfs |-> s.template_values[k]]
<1>1. value[settings] = settings.template_values[k]
  OBVIOUS
<1>2. \A q \in Seq(JobConfs) : ValueOf(q, k) = MostSpecific(Through(value, q), Nothing)
  BY ValueType
<1> HIDE DEF value
<1>3. Append(chain, settings) \in Seq(JobConfs)
  BY AppendProperties
<1>4. MostSpecific(Through(value, Append(chain, settings)), Nothing) =
        Over(value[settings], MostSpecific(Through(value, chain), Nothing))
  BY MostSpecificThrough
<1>5. ValueOf(<<>>, k) = Nothing
  BY DEF ValueOf, MostSpecific
<1> QED BY <1>1, <1>2, <1>3, <1>4, <1>5

-----------------------------------------------------------------------------
(* Template variables and their values.                                       *)

(* Values that contain no variable can be put in in any order. *)
LEMMA ResolvePlain ==
  ASSUME NEW values, NEW text, \A k \in Keys : values[k] \notin Keys,
         NEW order \in SetToSeqs({k \in Keys : values[k] # Nothing})
  PROVE  Resolve(text, values, order) = Value(text, values)
<1> DEFINE given == {k \in Keys : values[k] # Nothing}
           n == Len(order)
           Is(left) == left = [i \in 0 .. n |-> Replaced(left, i, text, values, order)]
           f == CHOOSE left : Is(left)
<1>1. /\ n \in Nat
      /\ \A i \in 1 .. n : order[i] \in given
      /\ \A i, j \in 1 .. n : i # j => order[i] # order[j]
      /\ \A x \in given : \E i \in 1 .. n : order[i] = x
  <2>1. IsFiniteSet(given)
    BY JobConfigAssumption, FS_Subset
  <2>2. order \in SetToSeqs(given)
    OBVIOUS
  <2> HIDE DEF given
  <2>3. /\ order \in Seq(given) /\ Len(order) \in Nat
        /\ \A i, j \in 1 .. Len(order) : i # j => order[i] # order[j]
        /\ \A x \in given : \E i \in 1 .. Len(order) : order[i] = x
    BY <2>1, <2>2, OrderHasAll
  <2>4. \A i \in 1 .. Len(order) : order[i] \in given
    BY <2>3
  <2> QED BY <2>3, <2>4
<1>2. Is(f)
  <2>1. \E left : Is(left)
    BY SMTT(30), <1>1, LeftExists
  <2> QED BY <2>1
<1>3. \A m \in 0 .. n : f[m] = Replaced(f, m, text, values, order)
  BY <1>2
<1>4. Resolve(text, values, order) = f[n]
  BY DEF Resolve, Replaced
<1>5. \A x \in given : x \in Keys /\ values[x] \notin Keys /\ values[x] # Nothing
  OBVIOUS
<1>6. text \in given <=> text \in Keys /\ values[text] # Nothing
  OBVIOUS
<1> HIDE DEF f, n, given
<1>7. f[0] = text
  BY <1>1, <1>3 DEF Replaced
<1>8. ASSUME NEW m \in Nat, m + 1 \in 0 .. n
      PROVE  /\ m \in 0 .. n /\ m + 1 \in 1 .. n
             /\ f[m + 1] = IF f[m] = order[m + 1] THEN values[order[m + 1]] ELSE f[m]
  <2>1. m \in 0 .. n /\ m + 1 \in 1 .. n /\ (m + 1) - 1 = m /\ m + 1 # 0
    BY <1>1, <1>8
  <2>2. f[m + 1] = Replaced(f, m + 1, text, values, order)
    BY <1>3, <1>8
  <2> QED BY <2>1, <2>2 DEF Replaced
<1>9. CASE text \notin given
  <2> DEFINE T == {m \in Nat : m \in 0 .. n => f[m] = text}
  <2>1. 0 \in T
    BY <1>7
  <2>2. ASSUME NEW m \in Nat, m \in T
        PROVE  m + 1 \in T
    <3>1. m + 1 \in 0 .. n => f[m] = text /\ order[m + 1] # text
      BY <1>1, <1>8, <1>9, <2>2
    <3> QED BY <1>8, <3>1
  <2>3. Nat \subseteq T
    <3> HIDE DEF T
    <3> QED BY <2>1, <2>2, SetInduction
  <2>4. n \in 0 .. n
    BY <1>1
  <2>5. f[n] = text
    BY <1>1, <2>3, <2>4
  <2> QED BY <1>4, <1>6, <1>9, <2>5 DEF Value
<1>10. CASE text \in given
  <2>1. PICK p \in 1 .. n : order[p] = text
    BY <1>1, <1>10
  <2> DEFINE T == {m \in Nat : m \in 0 .. n => f[m] = IF m < p THEN text ELSE values[text]}
  <2>2. 0 \in T
    BY <1>7, <2>1
  <2>3. ASSUME NEW m \in Nat, m \in T
        PROVE  m + 1 \in T
    <3> SUFFICES ASSUME m + 1 \in 0 .. n
                 PROVE  f[m + 1] = IF m + 1 < p THEN text ELSE values[text]
      OBVIOUS
    <3>1. /\ f[m] = IF m < p THEN text ELSE values[text]
          /\ m + 1 \in 1 .. n
          /\ f[m + 1] = IF f[m] = order[m + 1] THEN values[order[m + 1]] ELSE f[m]
      BY <1>8, <2>3
    <3>2. CASE m + 1 < p
      <4>1. m < p /\ m + 1 # p
        BY <2>1, <3>2
      <4>2. order[m + 1] # text
        BY <1>1, <2>1, <3>1, <4>1
      <4> QED BY <3>1, <3>2, <4>1, <4>2
    <3>3. CASE m + 1 = p
      <4>1. m < p
        BY <3>3
      <4> QED BY <2>1, <3>1, <3>3, <4>1
    <3>4. CASE m + 1 > p
      <4>1. ~ (m < p) /\ ~ (m + 1 < p)
        BY <2>1, <3>4
      <4>2. order[m + 1] \in Keys /\ values[text] \notin Keys
        BY <1>1, <1>5, <1>10, <3>1
      <4> QED BY <3>1, <4>1, <4>2
    <3> QED BY <2>1, <3>2, <3>3, <3>4
  <2>4. Nat \subseteq T
    <3> HIDE DEF T
    <3> QED BY <2>2, <2>3, SetInduction
  <2>5. n \in 0 .. n /\ ~ (n < p)
    BY <1>1, <2>1
  <2>6. f[n] = values[text]
    BY <1>1, <2>4, <2>5
  <2> QED BY <1>4, <1>6, <1>10, <2>6 DEF Value
<1> QED BY <1>9, <1>10

Fill(values) == [cell \in Cells |-> Filled(cell, values)]

LEMMA ResolvedPlain ==
  ASSUME NEW values, NEW cell \in Cells, \A k \in Keys : values[k] \notin Keys,
         NEW order \in SetToSeqs({k \in Keys : values[k] # Nothing})
  PROVE  Resolved(cell, values, order) = Filled(cell, values)
<1>1. \A text : Resolve(text, values, order) = Value(text, values)
  BY ResolvePlain
<1>2. Resolved(cell, values, order) =
        [cell EXCEPT !.text = Resolve(cell.text, values, order),
                     !.expect = [i \in DOMAIN cell.expect |-> Resolve(cell.expect[i], values, order)]]
  BY DEF Resolved
<1>3. Filled(cell, values) =
        [cell EXCEPT !.text = Value(cell.text, values),
                     !.expect = [i \in DOMAIN cell.expect |-> Value(cell.expect[i], values)]]
  BY DEF Filled
<1> QED BY <1>1, <1>2, <1>3

LEMMA FilledType ==
  ASSUME NEW values \in [Keys -> Texts \cup {Nothing}], NEW cell \in Cells
  PROVE  /\ Filled(cell, values) \in Cells
         /\ Filled(cell, Unset) = cell
<1>1. cell.text \in Texts \cup {Nothing} /\ cell.expect \in Seq(Texts) /\ cell.timeout \in Nat
      /\ cell.type \in Types
      /\ cell = [type |-> cell.type, text |-> cell.text, expect |-> cell.expect,
                 timeout |-> cell.timeout]
  BY CellShape
<1>2. /\ DOMAIN cell.expect = 1 .. Len(cell.expect) /\ Len(cell.expect) \in Nat
      /\ \A m \in DOMAIN cell.expect : cell.expect[m] \in Texts
      /\ cell.expect = [m \in DOMAIN cell.expect |-> cell.expect[m]]
  BY <1>1
<1>3. \A text \in Texts : Value(text, values) \in Texts
  BY DEF Value
<1>4. Value(cell.text, values) \in Texts \cup {Nothing}
  BY <1>1 DEF Value
<1> DEFINE old == cell.expect
           expect(vals) == [m \in DOMAIN old |-> Value(old[m], vals)]
<1>5. expect(values) \in Seq(Texts)
  <2>1. /\ DOMAIN old = 1 .. Len(old) /\ Len(old) \in Nat
        /\ \A m \in DOMAIN old : old[m] \in Texts
    BY <1>2
  <2> HIDE DEF old
  <2>2. \A m \in DOMAIN old : Value(old[m], values) \in Texts
    BY <1>3, <2>1
  <2> QED BY <2>1, <2>2
<1>6. \A vals : Filled(cell, vals) =
        [type |-> cell.type, text |-> Value(cell.text, vals), expect |-> expect(vals),
         timeout |-> cell.timeout]
  <2>1. \A vals : Filled(cell, vals) =
          [cell EXCEPT !.text = Value(cell.text, vals), !.expect = expect(vals)]
    BY DEF Filled
  <2> HIDE DEF expect
  <2>2. \A x, y : [cell EXCEPT !.text = x, !.expect = y] =
          [type |-> cell.type, text |-> x, expect |-> y, timeout |-> cell.timeout]
    BY CellExcept
  <2> QED BY <2>1, <2>2
<1>7. \A text : Value(text, Unset) = text
  BY DEF Value, Unset
<1>8. expect(Unset) = old
  <2>1. old \in Seq(Texts)
    BY <1>1
  <2> HIDE DEF old
  <2>3. old = [m \in DOMAIN old |-> old[m]]
    BY <2>1
  <2>2. \A m \in DOMAIN old : Value(old[m], Unset) = old[m]
    BY <1>7
  <2> QED BY <2>2, <2>3
<1> HIDE DEF expect
<1>9. Filled(cell, values) \in Cells
  <2>1. [type |-> cell.type, text |-> Value(cell.text, values), expect |-> expect(values),
         timeout |-> cell.timeout] \in Cells
    BY <1>1, <1>4, <1>5, CellShape
  <2> QED BY <1>6, <2>1
<1>10. Filled(cell, Unset) = cell
  BY <1>1, <1>6, <1>7, <1>8
<1> QED BY <1>9, <1>10

(* The values that the last settings of a chain put in. *)
ValuesAt(chain, from) ==
  IF Len(chain) >= from THEN [k \in Keys |-> ValueOf(chain, k)] ELSE Unset

LEMMA ValuesAtType ==
  ASSUME NEW chain \in Seq(JobConfs), NEW from
  PROVE  /\ ValuesAt(chain, from) \in [Keys -> Texts \cup {Nothing}]
         /\ PlainValues(chain) => \A k \in Keys : ValuesAt(chain, from)[k] \notin Keys
<1>1. \A k \in Keys : /\ ValueOf(chain, k) \in Texts \cup {Nothing}
                      /\ PlainValues(chain) => ValueOf(chain, k) \notin Keys
  BY ValueType
<1>2. Nothing \notin Keys
  BY JobConfigAssumption
<1> QED BY <1>1, <1>2 DEF ValuesAt, Unset

(* The settings that may put a value in the place of a text of settings i. *)
Passes(text, chain, i, from) ==
  {m \in DOMAIN chain : m >= i /\ m >= from /\ text \in Keys /\ ValueOf(SubSeq(chain, 1, m), text) # Nothing}

LEMMA PlainPrefix ==
  ASSUME NEW chain \in Seq(JobConfs), NEW m \in 0 .. Len(chain), PlainValues(chain)
  PROVE  PlainValues(SubSeq(chain, 1, m))
<1> DEFINE p == SubSeq(chain, 1, m)
<1>1. Len(chain) \in Nat /\ DOMAIN chain = 1 .. Len(chain)
  OBVIOUS
<1>2. p \in Seq(JobConfs) /\ Len(p) = m /\ \A i \in 1 .. m : p[i] = chain[i]
  BY PrefixFacts
<1> HIDE DEF p
<1>3. DOMAIN p = 1 .. m
  BY <1>2
<1>4. \A i \in 1 .. m : i \in DOMAIN chain
  BY <1>1
<1>5. PlainValues(p)
  BY <1>2, <1>3, <1>4 DEF PlainValues
<1> QED BY <1>5 DEF p

(* A text gets a value once, and only where values are put in. *)
LEMMA FinalType ==
  ASSUME NEW chain \in Seq(JobConfs), NEW i \in Nat, NEW from \in Nat, NEW text
  PROVE  LET passes == Passes(text, chain, i, from)
             final == Final(text, chain, i, from) IN
         /\ passes \in SUBSET (1 .. Len(chain)) /\ Len(chain) \in Nat
         /\ passes = {} => final = text
         /\ passes # {} => /\ final = ValueOf(SubSeq(chain, 1, Min(passes)), text)
                           /\ Min(passes) \in passes /\ \A m \in passes : Min(passes) <= m
                           /\ final \in Texts
                           /\ PlainValues(chain) => final \notin Keys
         /\ Len(chain) < i \/ Len(chain) < from => passes = {}
<1> DEFINE passes == Passes(text, chain, i, from)
           final == Final(text, chain, i, from)
           first == Min(passes)
<1>1. Len(chain) \in Nat /\ DOMAIN chain = 1 .. Len(chain)
  OBVIOUS
<1>2. final = IF passes = {} THEN text ELSE ValueOf(SubSeq(chain, 1, first), text)
  BY DEF Final, Passes
<1>3. passes \in SUBSET (1 .. Len(chain))
      /\ \A m \in passes : m >= i /\ m >= from /\ text \in Keys /\ ValueOf(SubSeq(chain, 1, m), text) # Nothing
  BY <1>1 DEF Passes
<1>4. Len(chain) < i \/ Len(chain) < from => passes = {}
  <2> HIDE DEF passes
  <2> QED BY <1>1, <1>3
<1> HIDE DEF passes, final
<1>5. ASSUME passes # {}
      PROVE  /\ first \in passes /\ \A m \in passes : first <= m
             /\ final \in Texts
             /\ PlainValues(chain) => final \notin Keys
  <2>1. first \in passes /\ \A m \in passes : first <= m
    BY <1>1, <1>3, <1>5, Extremes
  <2> HIDE DEF first
  <2>2. first \in 0 .. Len(chain) /\ text \in Keys /\ ValueOf(SubSeq(chain, 1, first), text) # Nothing
    BY <1>1, <1>3, <2>1
  <2> DEFINE p == SubSeq(chain, 1, first)
  <2>3. p \in Seq(JobConfs)
    BY <2>2, PrefixFacts
  <2>4. PlainValues(chain) => PlainValues(p)
    BY <2>2, PlainPrefix
  <2>5. final = ValueOf(p, text) /\ ValueOf(p, text) # Nothing
    BY <1>2, <1>5, <2>2
  <2> HIDE DEF p
  <2>6. ValueOf(p, text) \in Texts \cup {Nothing} /\ (PlainValues(p) => ValueOf(p, text) \notin Keys)
    BY <2>2, <2>3, ValueType
  <2> QED BY <2>1, <2>4, <2>5, <2>6
<1> QED BY <1>1, <1>2, <1>3, <1>4, <1>5 DEF passes, final

(* More settings put their values in what the ones before them have left. *)
LEMMA FinalAppend ==
  ASSUME NEW chain \in Seq(JobConfs), NEW settings \in JobConfs, NEW from \in Nat,
         NEW i \in Nat, i <= Len(chain) + 1, NEW text,
         PlainValues(chain) \/ Len(chain) + 1 < from
  PROVE  LET more == Append(chain, settings) IN
         Final(text, more, i, from) = Value(Final(text, chain, i, from), ValuesAt(more, from))
<1> DEFINE n == Len(chain)
           more == Append(chain, settings)
           before == Passes(text, chain, i, from)
           passes == Passes(text, more, i, from)
           old == Final(text, chain, i, from)
           new == Final(text, more, i, from)
           last == n + 1 >= from /\ text \in Keys /\ ValueOf(more, text) # Nothing
<1>1. /\ n \in Nat /\ more \in Seq(JobConfs) /\ Len(more) = n + 1
      /\ DOMAIN more = 1 .. (n + 1) /\ DOMAIN chain = 1 .. n
  OBVIOUS
<1>2. /\ \A m \in 1 .. n : SubSeq(more, 1, m) = SubSeq(chain, 1, m)
      /\ SubSeq(more, 1, n + 1) = more
  <2>1. \A m \in 1 .. n : m \in 0 .. Len(chain)
    BY <1>1
  <2>2. \A m \in 1 .. n : SubSeq(more, 1, m) = SubSeq(chain, 1, m)
    BY <2>1, PrefixOfAppend
  <2>3. SubSeq(more, 1, Len(more)) = more
    BY <1>1, PrefixFacts
  <2> QED BY <1>1, <2>2, <2>3
<1> HIDE DEF more
<1>3. passes = before \cup (IF last THEN {n + 1} ELSE {})
  <2>1. \A m \in 1 .. (n + 1) : m \in 1 .. n \/ m = n + 1
    BY <1>1
  <2>2. n + 1 \in 1 .. (n + 1) /\ n + 1 >= i /\ \A m \in 1 .. n : m \in 1 .. (n + 1)
    BY <1>1
  <2>3. n + 1 \in passes <=> last
    BY <1>1, <1>2, <2>2 DEF Passes
  <2>4. \A m \in 1 .. n : m \in passes <=> m \in before
    BY <1>1, <1>2, <2>2 DEF Passes
  <2>5. passes \subseteq 1 .. (n + 1) /\ before \subseteq 1 .. n
    BY <1>1 DEF Passes
  <2> HIDE DEF passes, before, last
  <2>6. CASE last
    BY <2>1, <2>2, <2>3, <2>4, <2>5, <2>6
  <2>7. CASE ~ last
    BY <2>1, <2>2, <2>3, <2>4, <2>5, <2>7
  <2> QED BY <2>6, <2>7
<1>4. /\ before = {} => old = text
      /\ before # {} => /\ old = ValueOf(SubSeq(chain, 1, Min(before)), text)
                        /\ Min(before) \in before /\ \A m \in before : Min(before) <= m
                        /\ PlainValues(chain) => old \notin Keys
      /\ n < from => before = {}
      /\ before \in SUBSET (1 .. n)
  BY FinalType
<1>5. /\ passes = {} => new = text
      /\ passes # {} => /\ new = ValueOf(SubSeq(more, 1, Min(passes)), text)
                        /\ Min(passes) \in passes /\ \A m \in passes : Min(passes) <= m
  BY <1>1, FinalType
<1>6. /\ n + 1 >= from => \A k \in Keys : ValuesAt(more, from)[k] = ValueOf(more, k)
      /\ n + 1 < from => \A k \in Keys : ValuesAt(more, from)[k] = Nothing
  BY <1>1 DEF ValuesAt, Unset
<1> HIDE DEF passes, before, old, new
<1>7. CASE before = {}
  <2>1. CASE last
    <3>1. passes = {n + 1}
      BY <1>3, <1>7, <2>1
    <3>2. new = ValueOf(more, text)
      BY <1>2, <1>5, <3>1
    <3>3. Value(text, ValuesAt(more, from)) = ValueOf(more, text)
      BY <1>6, <2>1 DEF Value
    <3> QED BY <1>4, <1>7, <3>2, <3>3 DEF old, new, more
  <2>2. CASE ~ last
    <3>1. new = text
      BY <1>3, <1>5, <1>7, <2>2
    <3>2. Value(text, ValuesAt(more, from)) = text
      <4>1. text \in Keys => ValuesAt(more, from)[text] = Nothing
        BY <1>1, <1>6, <2>2
      <4> QED BY <4>1 DEF Value
    <3> QED BY <1>4, <1>7, <3>1, <3>2 DEF old, new, more
  <2> QED BY <2>1, <2>2
<1>8. CASE before # {}
  <2>1. n >= from
    <3>1. ~ (n < from)
      BY <1>4, <1>8
    <3> HIDE DEF n
    <3> QED BY <1>1, <3>1
  <2>2. old \notin Keys
    BY <1>1, <1>4, <1>8, <2>1
  <2>3. Min(passes) = Min(before)
    <3> DEFINE x == Min(passes)
               y == Min(before)
    <3>1. passes # {} /\ before \subseteq passes /\ \A m \in passes : m \in before \/ m = n + 1
      BY <1>3, <1>8
    <3>2. /\ x \in passes /\ \A m \in passes : x <= m
          /\ y \in before /\ \A m \in before : y <= m
      BY <1>4, <1>5, <1>8, <3>1
    <3> HIDE DEF x, y
    <3>3. y \in 1 .. n /\ x <= y /\ (x \in before \/ x = n + 1)
      BY <1>4, <3>1, <3>2
    <3>4. x \in before
      BY <1>1, <3>3
    <3>5. y <= x /\ x \in 1 .. n
      BY <1>4, <3>2, <3>4
    <3> QED BY <3>3, <3>5 DEF x, y
  <2>4. Min(before) \in 1 .. n /\ passes # {}
    BY <1>3, <1>4, <1>8
  <2>5. new = old
    BY <1>2, <1>4, <1>5, <1>8, <2>3, <2>4
  <2>6. Value(old, ValuesAt(more, from)) = old
    BY <2>2 DEF Value
  <2> QED BY <2>5, <2>6 DEF old, new, more
<1> QED BY <1>7, <1>8

LEMMA FinalCellType ==
  ASSUME NEW chain \in Seq(JobConfs), NEW i \in Nat, NEW from \in Nat, NEW cell \in Cells
  PROVE  /\ FinalCell(cell, chain, i, from) \in Cells
         /\ Len(chain) < i \/ Len(chain) < from => FinalCell(cell, chain, i, from) = cell
<1> DEFINE old == cell.expect
           expect == [m \in DOMAIN old |-> Final(old[m], chain, i, from)]
<1>1. cell.text \in Texts \cup {Nothing} /\ old \in Seq(Texts) /\ cell.timeout \in Nat
      /\ cell.type \in Types
      /\ cell = [type |-> cell.type, text |-> cell.text, expect |-> old, timeout |-> cell.timeout]
  BY CellShape
<1>2. FinalCell(cell, chain, i, from) =
        [type |-> cell.type, text |-> Final(cell.text, chain, i, from),
         expect |-> expect, timeout |-> cell.timeout]
  <2>1. FinalCell(cell, chain, i, from) =
          [cell EXCEPT !.text = Final(cell.text, chain, i, from), !.expect = expect]
    BY DEF FinalCell
  <2> HIDE DEF expect, old
  <2>2. \A x, y : [cell EXCEPT !.text = x, !.expect = y] =
          [type |-> cell.type, text |-> x, expect |-> y, timeout |-> cell.timeout]
    BY CellExcept
  <2> QED BY <2>1, <2>2
<1> HIDE DEF old
<1>3. \A text \in Texts : Final(text, chain, i, from) \in Texts
  BY FinalType
<1>4. Final(cell.text, chain, i, from) \in Texts \cup {Nothing}
  <2>1. Final(cell.text, chain, i, from) \in Texts \/ Final(cell.text, chain, i, from) = cell.text
    BY FinalType
  <2> QED BY <1>1, <2>1
<1>5. /\ DOMAIN old = 1 .. Len(old) /\ Len(old) \in Nat
      /\ \A m \in DOMAIN old : old[m] \in Texts
      /\ old = [m \in DOMAIN old |-> old[m]]
  BY <1>1
<1>6. expect \in Seq(Texts)
  <2>1. \A m \in DOMAIN old : Final(old[m], chain, i, from) \in Texts
    BY <1>3, <1>5
  <2> QED BY <1>5, <2>1
<1>7. ASSUME Len(chain) < i \/ Len(chain) < from
      PROVE  expect = old /\ Final(cell.text, chain, i, from) = cell.text
  <2>1. \A text : Final(text, chain, i, from) = text
    BY <1>7, FinalType
  <2>2. expect = old
    BY <1>5, <2>1
  <2> QED BY <2>1, <2>2
<1> HIDE DEF expect
<1>8. FinalCell(cell, chain, i, from) \in Cells
  <2>1. [type |-> cell.type, text |-> Final(cell.text, chain, i, from), expect |-> expect,
         timeout |-> cell.timeout] \in Cells
    BY <1>1, <1>4, <1>6, CellShape
  <2> QED BY <1>2, <2>1
<1> QED BY <1>1, <1>2, <1>7, <1>8

(* The same of a command or a scrubber. *)
LEMMA FinalCellAppend ==
  ASSUME NEW chain \in Seq(JobConfs), NEW settings \in JobConfs, NEW from \in Nat,
         NEW i \in Nat, i <= Len(chain) + 1, NEW cell \in Cells,
         PlainValues(chain) \/ Len(chain) + 1 < from
  PROVE  FinalCell(cell, Append(chain, settings), i, from) =
           Filled(FinalCell(cell, chain, i, from), ValuesAt(Append(chain, settings), from))
<1> DEFINE more == Append(chain, settings)
           values == ValuesAt(more, from)
           old == cell.expect
           mid == FinalCell(cell, chain, i, from)
           expect == [m \in DOMAIN old |-> Final(old[m], chain, i, from)]
           now == [m \in DOMAIN old |-> Final(old[m], more, i, from)]
           filled == [m \in DOMAIN expect |-> Value(expect[m], values)]
<1>1. \A text : Final(text, more, i, from) = Value(Final(text, chain, i, from), values)
  BY FinalAppend
<1>2. cell = [type |-> cell.type, text |-> cell.text, expect |-> old, timeout |-> cell.timeout]
  BY DEF Cells
<1>3. mid = [cell EXCEPT !.text = Final(cell.text, chain, i, from), !.expect = expect]
  BY DEF FinalCell
<1>4. FinalCell(cell, more, i, from) =
        [cell EXCEPT !.text = Final(cell.text, more, i, from), !.expect = now]
  BY DEF FinalCell
<1>5. Filled(mid, values) =
        [mid EXCEPT !.text = Value(mid.text, values),
                    !.expect = [m \in DOMAIN mid.expect |-> Value(mid.expect[m], values)]]
  BY DEF Filled
<1> HIDE DEF more, values, mid, old
<1>6. now = filled
  <2>1. DOMAIN expect = DOMAIN old /\ \A m \in DOMAIN old : expect[m] = Final(old[m], chain, i, from)
    OBVIOUS
  <2> HIDE DEF expect
  <2> QED BY <1>1, <2>1
<1> HIDE DEF expect, now
<1>7. mid = [type |-> cell.type, text |-> Final(cell.text, chain, i, from),
             expect |-> expect, timeout |-> cell.timeout]
  BY <1>2, <1>3
<1>8. Filled(mid, values) =
        [type |-> cell.type, text |-> Value(Final(cell.text, chain, i, from), values),
         expect |-> filled,
         timeout |-> cell.timeout]
  <2> DEFINE text == Final(cell.text, chain, i, from)
  <2>1. mid.type = cell.type /\ mid.text = text /\ mid.expect = expect /\ mid.timeout = cell.timeout
    BY <1>7
  <2>2. Filled(mid, values) = [mid EXCEPT !.text = Value(text, values), !.expect = filled]
    BY <1>5, <2>1
  <2> HIDE DEF text, filled
  <2>3. mid = [type |-> cell.type, text |-> text, expect |-> expect, timeout |-> cell.timeout]
    BY <1>7 DEF text
  <2> QED BY <2>2, <2>3 DEF text
<1>9. FinalCell(cell, more, i, from) =
        [type |-> cell.type, text |-> Final(cell.text, more, i, from),
         expect |-> now, timeout |-> cell.timeout]
  BY <1>2, <1>4
<1> QED BY <1>1, <1>6, <1>8, <1>9 DEF more, values, mid

LEMMA ListType ==
  ASSUME NEW S, NEW n \in Nat, NEW list \in [1 .. n -> S]
  PROVE  list \in Seq(S) /\ Len(list) = n
  OBVIOUS

ListsOf(S) == Seq(Seq(S))

LEMMA ListsType ==
  ASSUME NEW S
  PROVE  /\ \A q \in ListsOf(S) : /\ DOMAIN q = 1 .. Len(q) /\ Len(q) \in Nat
                                  /\ \A i \in 1 .. Len(q) : q[i] \in Seq(S)
         /\ \A n \in Nat : \A q \in [1 .. n -> Seq(S)] : q \in ListsOf(S) /\ Len(q) = n
         /\ \A q \in ListsOf(S), s \in Seq(S) :
              /\ Append(q, s) \in ListsOf(S) /\ Len(Append(q, s)) = Len(q) + 1
              /\ \A i \in 1 .. Len(q) : Append(q, s)[i] = q[i]
              /\ Append(q, s)[Len(q) + 1] = s
         /\ \A q, r \in ListsOf(S) : Len(q) = Len(r) /\ (\A i \in 1 .. Len(q) : q[i] = r[i]) => q = r
<1> DEFINE R == Seq(S)
<1> HIDE DEF R
<1>1. \A q \in Seq(R) : DOMAIN q = 1 .. Len(q) /\ Len(q) \in Nat /\ \A i \in 1 .. Len(q) : q[i] \in R
  OBVIOUS
<1>2. \A n \in Nat : \A q \in [1 .. n -> R] : q \in Seq(R) /\ Len(q) = n
  BY ListType
<1>3. \A q \in Seq(R), s \in R :
        /\ Append(q, s) \in Seq(R) /\ Len(Append(q, s)) = Len(q) + 1
        /\ \A i \in 1 .. Len(q) : Append(q, s)[i] = q[i]
        /\ Append(q, s)[Len(q) + 1] = s
  BY AppendProperties
<1>4. \A q, r \in Seq(R) : Len(q) = Len(r) /\ (\A i \in 1 .. Len(q) : q[i] = r[i]) => q = r
  BY SeqEqual
<1> QED BY <1>1, <1>2, <1>3, <1>4 DEF R, ListsOf

LEMMA CellLists ==
  /\ \A q \in ListsOf(Cells) : /\ DOMAIN q = 1 .. Len(q) /\ Len(q) \in Nat
                               /\ \A i \in 1 .. Len(q) : q[i] \in Seq(Cells)
  /\ \A q \in Seq(Cells) : /\ DOMAIN q = 1 .. Len(q) /\ Len(q) \in Nat
                           /\ \A i \in DOMAIN q : q[i] \in Cells
  /\ \A n \in Nat : \A q \in [1 .. n -> Seq(Cells)] : q \in ListsOf(Cells) /\ Len(q) = n
  /\ \A n \in Nat : \A q \in [1 .. n -> Cells] : q \in Seq(Cells) /\ Len(q) = n
  /\ \A q \in ListsOf(Cells), s \in Seq(Cells) :
       /\ Append(q, s) \in ListsOf(Cells) /\ Len(Append(q, s)) = Len(q) + 1
       /\ \A i \in 1 .. Len(q) : Append(q, s)[i] = q[i]
       /\ Append(q, s)[Len(q) + 1] = s
  /\ \A f : (\A x \in Cells : f[x] \in Cells) =>
       \A q \in Seq(Cells) : Through(f, q) \in Seq(Cells)
<1>1. \A q \in ListsOf(Cells) : /\ DOMAIN q = 1 .. Len(q) /\ Len(q) \in Nat
                                /\ \A i \in 1 .. Len(q) : q[i] \in Seq(Cells)
  BY ListsType
<1>2. \A q \in Seq(Cells) : /\ DOMAIN q = 1 .. Len(q) /\ Len(q) \in Nat
                            /\ \A i \in DOMAIN q : q[i] \in Cells
  OBVIOUS
<1>3. \A n \in Nat : \A q \in [1 .. n -> Seq(Cells)] : q \in ListsOf(Cells) /\ Len(q) = n
  BY ListsType
<1>4. \A n \in Nat : \A q \in [1 .. n -> Cells] : q \in Seq(Cells) /\ Len(q) = n
  BY ListType
<1>5. \A q \in ListsOf(Cells), s \in Seq(Cells) :
        /\ Append(q, s) \in ListsOf(Cells) /\ Len(Append(q, s)) = Len(q) + 1
        /\ \A i \in 1 .. Len(q) : Append(q, s)[i] = q[i]
        /\ Append(q, s)[Len(q) + 1] = s
  BY ListsType
<1>6. ASSUME NEW f, \A x \in Cells : f[x] \in Cells, NEW q \in Seq(Cells)
      PROVE  Through(f, q) \in Seq(Cells)
  BY <1>6, ThroughType
<1> QED BY <1>1, <1>2, <1>3, <1>4, <1>5, <1>6

(* Lists of lists of which each has its elements replaced, with one more. *)
LEMMA FlattenMore ==
  ASSUME NEW f, \A x \in Cells : f[x] \in Cells, NEW old \in ListsOf(Cells), NEW new \in Seq(Cells),
         NEW more \in ListsOf(Cells), Len(more) = Len(old) + 1,
         \A i \in 1 .. Len(old) : more[i] = Through(f, old[i]),
         more[Len(old) + 1] = Through(f, new)
  PROVE  /\ FlattenSeq(old) \in Seq(Cells)
         /\ FlattenSeq(more) = Through(f, FlattenSeq(old) \o new)
<1> DEFINE n == Len(old)
           olds == [i \in DOMAIN old |-> Through(f, old[i])]
           last == Through(f, new)
           flat == FlattenSeq(old)
<1>1. n \in Nat /\ DOMAIN old = 1 .. n /\ \A i \in 1 .. n : old[i] \in Seq(Cells)
  BY ListsType
<1>2. last \in Seq(Cells)
  BY ThroughType
<1>3. \A i \in 1 .. n : Through(f, old[i]) \in Seq(Cells)
  BY <1>1, ThroughType
<1>4. \A i \in 1 .. n : olds[i] = Through(f, old[i])
  BY <1>1
<1>5. olds \in [1 .. n -> Seq(Cells)]
  BY <1>1, <1>3
<1>6. FlattenSeq(olds) = Through(f, flat)
  BY FlattenThrough DEF ListsOf
<1> HIDE DEF last, olds
<1>7. olds \in ListsOf(Cells) /\ Len(olds) = n
  BY <1>1, <1>5, ListsType
<1> DEFINE all == Append(olds, last)
<1>8. FlattenSeq(all) = FlattenSeq(olds) \o last
  BY <1>2, <1>7, FlattenStep DEF ListsOf
<1>9. all = more
  <2>1. /\ all \in ListsOf(Cells) /\ Len(all) = n + 1 /\ all[n + 1] = last
        /\ \A i \in 1 .. n : all[i] = olds[i]
    <3>1. \A q \in ListsOf(Cells), s \in Seq(Cells) :
            /\ Append(q, s) \in ListsOf(Cells) /\ Len(Append(q, s)) = Len(q) + 1
            /\ \A i \in 1 .. Len(q) : Append(q, s)[i] = q[i]
            /\ Append(q, s)[Len(q) + 1] = s
      BY ListsType
    <3> QED BY <1>2, <1>7, <3>1
  <2> HIDE DEF all
  <2>2. \A i \in 1 .. n : more[i] = Through(f, old[i])
    OBVIOUS
  <2>3. more[n + 1] = last
    BY DEF last
  <2>4. Len(more) = n + 1
    OBVIOUS
  <2> HIDE DEF n
  <2>5. \A i \in 1 .. (n + 1) : i \in 1 .. n \/ i = n + 1
    BY <1>1
  <2>6. \A i \in 1 .. Len(all) : all[i] = more[i]
    BY <1>4, <2>1, <2>2, <2>3, <2>5
  <2> QED BY <2>1, <2>4, <2>6, ListsType
<1>10. flat \in Seq(Cells)
  BY FlattenStep DEF ListsOf
<1> HIDE DEF flat
<1>11. Through(f, flat \o new) = Through(f, flat) \o Through(f, new)
  BY <1>10, ThroughConcat
<1> QED BY <1>6, <1>8, <1>9, <1>10, <1>11 DEF last, flat

(* The lists of commands or scrubbers of a chain with the values put in. *)
Finals(given, chain, from) ==
  [i \in DOMAIN given |-> [j \in DOMAIN given[i] |-> FinalCell(given[i][j], chain, i, from)]]

LEMMA FinalsAppend ==
  ASSUME NEW chain \in Seq(JobConfs), NEW settings \in JobConfs, NEW from \in Nat,
         NEW given \in ListsOf(Cells), Len(given) = Len(chain), NEW new \in Seq(Cells),
         PlainValues(chain) \/ Len(chain) + 1 < from
  PROVE  LET more == Append(chain, settings) IN
         /\ Finals(given, chain, from) \in ListsOf(Cells)
         /\ FlattenSeq(Finals(Append(given, new), more, from)) =
              Through(Fill(ValuesAt(more, from)), FlattenSeq(Finals(given, chain, from)) \o new)
<1> DEFINE n == Len(chain)
           more == Append(chain, settings)
           f == Fill(ValuesAt(more, from))
           olds == Finals(given, chain, from)
           all == Append(given, new)
           news == Finals(all, more, from)
<1>1. n \in Nat /\ DOMAIN given = 1 .. n /\ Len(given) = n
  BY CellLists
<1>2. /\ all \in ListsOf(Cells) /\ Len(all) = n + 1 /\ DOMAIN all = 1 .. (n + 1)
      /\ \A i \in 1 .. n : all[i] = given[i]
      /\ all[n + 1] = new
  BY <1>1, CellLists
<1>3. more \in Seq(JobConfs)
  BY AppendProperties
<1>4. \A x \in Cells : f[x] = Filled(x, ValuesAt(more, from)) /\ f[x] \in Cells
  <2>1. ValuesAt(more, from) \in [Keys -> Texts \cup {Nothing}]
    BY <1>3, ValuesAtType
  <2>2. \A x \in Cells : Filled(x, ValuesAt(more, from)) \in Cells
    BY <2>1, FilledType
  <2> QED BY <2>2 DEF Fill
<1>5. \A i \in 1 .. n : /\ given[i] \in Seq(Cells)
                        /\ DOMAIN given[i] = 1 .. Len(given[i]) /\ Len(given[i]) \in Nat
                        /\ \A j \in DOMAIN given[i] : given[i][j] \in Cells
  BY <1>1, CellLists
<1> HIDE DEF f, all, more
<1>6. /\ olds \in ListsOf(Cells) /\ Len(olds) = n
      /\ \A i \in 1 .. n :
           olds[i] = [j \in DOMAIN given[i] |-> FinalCell(given[i][j], chain, i, from)]
  <2>1. \A i \in 1 .. n : \A j \in DOMAIN given[i] : FinalCell(given[i][j], chain, i, from) \in Cells
    BY <1>1, <1>5, FinalCellType
  <2>2. ASSUME NEW i \in 1 .. n
        PROVE  [j \in DOMAIN given[i] |-> FinalCell(given[i][j], chain, i, from)] \in Seq(Cells)
    <3> DEFINE list == given[i]
               final == [j \in DOMAIN list |-> FinalCell(list[j], chain, i, from)]
    <3>1. /\ DOMAIN list = 1 .. Len(list) /\ Len(list) \in Nat
          /\ \A j \in DOMAIN list : FinalCell(list[j], chain, i, from) \in Cells
      BY <1>5, <2>1
    <3> HIDE DEF list
    <3>2. final \in [1 .. Len(list) -> Cells]
      BY <3>1
    <3>3. final \in Seq(Cells)
      <4> HIDE DEF final
      <4> QED BY <3>1, <3>2, CellLists
    <3> QED BY <3>3 DEF list
  <2>3. olds = [i \in 1 .. n |-> [j \in DOMAIN given[i] |-> FinalCell(given[i][j], chain, i, from)]]
    BY <1>1 DEF Finals
  <2> HIDE DEF olds
  <2>4. olds \in [1 .. n -> Seq(Cells)]
    BY <2>2, <2>3
  <2>5. olds \in ListsOf(Cells) /\ Len(olds) = n
    BY <1>1, <2>4, CellLists
  <2> QED BY <2>3, <2>5
<1>7. /\ news = [i \in 1 .. (n + 1) |-> news[i]]
      /\ \A i \in 1 .. (n + 1) : news[i] = [j \in DOMAIN all[i] |-> FinalCell(all[i][j], more, i, from)]
  BY <1>2 DEF Finals
<1> HIDE DEF olds, news
<1>8. ASSUME NEW i \in 1 .. n
      PROVE  news[i] = Through(f, olds[i])
  <2> DEFINE list == given[i]
  <2>1. i \in 1 .. (n + 1) /\ i \in Nat /\ i <= Len(chain) + 1
    BY <1>1
  <2>2. news[i] = [j \in DOMAIN list |-> FinalCell(list[j], more, i, from)]
    BY <1>2, <1>7, <2>1
  <2>3. olds[i] = [j \in DOMAIN list |-> FinalCell(list[j], chain, i, from)]
    BY <1>6
  <2>4. \A j \in DOMAIN list : list[j] \in Cells
    BY <1>5
  <2> HIDE DEF list
  <2>5. ASSUME NEW j \in DOMAIN list
        PROVE  FinalCell(list[j], more, i, from) = f[FinalCell(list[j], chain, i, from)]
    <3>1. FinalCell(list[j], chain, i, from) \in Cells
      BY <2>1, <2>4, FinalCellType
    <3>2. FinalCell(list[j], more, i, from) =
            Filled(FinalCell(list[j], chain, i, from), ValuesAt(more, from))
      BY <2>1, <2>4, FinalCellAppend DEF more
    <3> QED BY <1>4, <3>1, <3>2
  <2>6. Through(f, olds[i]) = [j \in DOMAIN list |-> f[FinalCell(list[j], chain, i, from)]]
    BY <2>3 DEF Through
  <2> QED BY <2>2, <2>5, <2>6
<1>9. news[n + 1] = Through(f, new)
  <2>1. n + 1 \in 1 .. (n + 1) /\ n + 1 \in Nat /\ n + 1 <= Len(chain) + 1 /\ Len(chain) < n + 1
    BY <1>1
  <2>2. news[n + 1] = [j \in DOMAIN new |-> FinalCell(new[j], more, n + 1, from)]
    BY <1>2, <1>7, <2>1
  <2>3. ASSUME NEW j \in DOMAIN new
        PROVE  FinalCell(new[j], more, n + 1, from) = f[new[j]]
    <3>1. new[j] \in Cells
      OBVIOUS
    <3>2. FinalCell(new[j], chain, n + 1, from) = new[j]
      BY <2>1, <3>1, FinalCellType
    <3>3. FinalCell(new[j], more, n + 1, from) =
            Filled(FinalCell(new[j], chain, n + 1, from), ValuesAt(more, from))
      BY <2>1, <3>1, FinalCellAppend DEF more
    <3> QED BY <1>4, <3>1, <3>2, <3>3
  <2> QED BY <2>2, <2>3 DEF Through
<1>10. FlattenSeq(news) = Through(f, FlattenSeq(olds) \o new)
  <2>1. \A x \in Cells : f[x] \in Cells
    BY <1>4
  <2>2. olds \in ListsOf(Cells) /\ Len(olds) = n
    BY <1>6
  <2>3. news \in ListsOf(Cells) /\ Len(news) = Len(olds) + 1
    <3>1. \A q \in Seq(Cells) : Through(f, q) \in Seq(Cells)
      BY <2>1, CellLists
    <3>2. \A i \in 1 .. n : news[i] \in Seq(Cells)
      <4>1. \A i \in 1 .. Len(olds) : olds[i] \in Seq(Cells)
        BY <2>2, CellLists
      <4> HIDE DEF n
      <4> QED BY <1>8, <2>2, <3>1, <4>1
    <3>3. \A i \in 1 .. (n + 1) : i \in 1 .. n \/ i = n + 1
      BY <1>1
    <3>4. \A i \in 1 .. (n + 1) : news[i] \in Seq(Cells)
      BY <1>9, <3>1, <3>2, <3>3
    <3>5. news \in [1 .. (n + 1) -> Seq(Cells)] /\ n + 1 \in Nat
      BY <1>1, <1>7, <3>4
    <3> QED BY <2>2, <3>5, CellLists
  <2>4. \A i \in 1 .. Len(olds) : news[i] = Through(f, olds[i])
    BY <1>8, <2>2
  <2>5. news[Len(olds) + 1] = Through(f, new)
    BY <1>9, <2>2
  <2> HIDE DEF n
  <2> QED BY <2>1, <2>2, <2>3, <2>4, <2>5, FlattenMore
<1> QED BY <1>6, <1>10 DEF f, all, more, olds, news

(* The commands of a chain and its scrubbers, before values are put in. *)
Commands(chain) ==
  [i \in DOMAIN chain |-> [j \in DOMAIN chain[i].commands |-> CommandOf(chain, i, j)]]

Scrubbers(chain) == [i \in DOMAIN chain |-> NewScrubbers(chain[i])]

(* The commands of settings over a generic one. *)
CommandsOver(generic, settings) ==
  [j \in DOMAIN settings.commands |-> ApplyCommand(generic, settings.commands[j])]

(* Commands over the generic commands are commands. *)
LEMMA CommandsOverType ==
  ASSUME NEW generic \in Cells, NEW settings \in JobConfs
  PROVE  CommandsOver(generic, settings) \in Seq(Cells)
<1> DEFINE list == settings.commands
           over == [j \in DOMAIN list |-> ApplyCommand(generic, list[j])]
<1>1. list \in Seq(CommandConfs)
  BY DEF JobConfs
<1> HIDE DEF list
<1>2. DOMAIN list = 1 .. Len(list) /\ Len(list) \in Nat /\ \A j \in DOMAIN list : list[j] \in CommandConfs
  BY <1>1
<1>3. over \in [1 .. Len(list) -> Cells]
  BY <1>2, CommandType
<1>4. over \in Seq(Cells)
  <2> HIDE DEF over
  <2> QED BY <1>2, <1>3, CellLists
<1> QED BY <1>4 DEF CommandsOver, list

(* More settings: their commands come last, over all generic commands, and    *)
(* what has a value by now is filled in everywhere.                           *)
LEMMA CommandsAppend ==
  ASSUME NEW chain \in Seq(JobConfs), NEW settings \in JobConfs
  PROVE  /\ Commands(chain) \in ListsOf(Cells) /\ Len(Commands(chain)) = Len(chain)
         /\ Commands(Append(chain, settings)) =
              Append(Commands(chain),
                     CommandsOver(Merged(GenericsOf(Append(chain, settings))), settings))
<1> DEFINE n == Len(chain)
           more == Append(chain, settings)
           generics(q, i) == Given([m \in 1 .. i |-> q[m].command_generic])
           olds == Commands(chain)
           news == Commands(more)
<1>1. /\ n \in Nat /\ DOMAIN chain = 1 .. n /\ DOMAIN more = 1 .. (n + 1)
      /\ more \in Seq(JobConfs)
      /\ \A i \in 1 .. n : more[i] = chain[i] /\ chain[i] \in JobConfs
      /\ more[n + 1] = settings
  OBVIOUS
<1> HIDE DEF more
<1>2. ASSUME NEW q \in Seq(JobConfs), NEW i \in DOMAIN q
      PROVE  [j \in DOMAIN q[i].commands |-> CommandOf(q, i, j)] =
               CommandsOver(Merged(generics(q, i)), q[i])
             /\ generics(q, i) \in Seq(CommandConfs) /\ Merged(generics(q, i)) \in Cells
  <2> DEFINE list == q[i].commands
             all == generics(q, i)
             given == [m \in 1 .. i |-> q[m].command_generic]
  <2>1. q[i] \in JobConfs /\ i \in 1 .. Len(q) /\ i \in Nat /\ Len(q) \in Nat
        /\ \A m \in 1 .. i : q[m] \in JobConfs
    OBVIOUS
  <2>2. all \in Seq(CommandConfs)
    <3>1. \A m \in 1 .. i : q[m].command_generic \in CommandConfs \cup {Nothing}
      BY <2>1 DEF JobConfs
    <3>2. given \in Seq(CommandConfs \cup {Nothing})
      BY <2>1, <3>1
    <3>3. Nothing \in CommandConfs \cup {Nothing}
      OBVIOUS
    <3> HIDE DEF given
    <3>4. Given(given) \in Seq(CommandConfs \ {Nothing})
      BY <3>2, <3>3, GivenAppend
    <3> QED BY <3>4 DEF given
  <2>3. list \in Seq(CommandConfs)
    BY <2>1 DEF JobConfs
  <2>4. \A j \in DOMAIN list : CommandOf(q, i, j) = Merged(Append(all, list[j]))
    BY DEF CommandOf
  <2> HIDE DEF all, list
  <2>5. \A j \in DOMAIN list : list[j] \in CommandConfs
    BY <2>3
  <2>6. \A j \in DOMAIN list : CommandOf(q, i, j) = ApplyCommand(Merged(all), list[j])
    BY <2>2, <2>4, <2>5, MergedAppend
  <2>7. [j \in DOMAIN list |-> CommandOf(q, i, j)] = [j \in DOMAIN list |-> ApplyCommand(Merged(all), list[j])]
    BY <2>6
  <2>8. Merged(all) \in Cells
    <3>1. NoCommand \in CommandConfs
      BY DEF NoCommand, CommandConfs
    <3> QED BY <2>2, <3>1, MergedAppend
  <2> QED BY <2>2, <2>7, <2>8 DEF all, list, CommandsOver
<1> HIDE DEF generics
<1>3. /\ olds = [i \in 1 .. n |-> CommandsOver(Merged(generics(chain, i)), chain[i])]
      /\ \A i \in 1 .. n : CommandsOver(Merged(generics(chain, i)), chain[i]) \in Seq(Cells)
  <2>1. olds = [i \in 1 .. n |-> CommandsOver(Merged(generics(chain, i)), chain[i])]
    BY <1>1, <1>2 DEF Commands
  <2>2. \A i \in 1 .. n : CommandsOver(Merged(generics(chain, i)), chain[i]) \in Seq(Cells)
    BY <1>1, <1>2, CommandsOverType
  <2> QED BY <2>1, <2>2
<1>4. news = [i \in 1 .. (n + 1) |-> CommandsOver(Merged(generics(more, i)), more[i])]
      /\ Merged(generics(more, n + 1)) \in Cells
  <2>1. news = [i \in 1 .. (n + 1) |-> CommandsOver(Merged(generics(more, i)), more[i])]
    BY <1>1, <1>2 DEF Commands
  <2>2. n + 1 \in DOMAIN more
    BY <1>1
  <2> QED BY <1>1, <1>2, <2>1, <2>2
<1>5. \A i \in 1 .. n : generics(more, i) = generics(chain, i)
  <2> SUFFICES ASSUME NEW i \in 1 .. n
               PROVE  generics(more, i) = generics(chain, i)
    OBVIOUS
  <2>1. \A m \in 1 .. i : m \in 1 .. n
    BY <1>1
  <2>2. \A m \in 1 .. i : more[m].command_generic = chain[m].command_generic
    BY <1>1, <2>1
  <2>3. [m \in 1 .. i |-> more[m].command_generic] = [m \in 1 .. i |-> chain[m].command_generic]
    BY <2>2
  <2> QED BY <2>3 DEF generics
<1>6. generics(more, n + 1) = GenericsOf(more)
  BY <1>1 DEF generics, GenericsOf
<1> DEFINE new == CommandsOver(Merged(GenericsOf(more)), settings)
           all == Append(olds, new)
<1>7. new \in Seq(Cells)
  BY <1>4, <1>6, CommandsOverType
<1> HIDE DEF new, olds
<1>8. olds \in ListsOf(Cells) /\ Len(olds) = n
  <2>1. olds \in [1 .. n -> Seq(Cells)]
    BY <1>3
  <2> QED BY <1>1, <2>1, CellLists
<1>9. /\ all \in ListsOf(Cells) /\ Len(all) = n + 1 /\ all[n + 1] = new
      /\ \A i \in 1 .. n : all[i] = olds[i]
  BY <1>7, <1>8, CellLists
<1> HIDE DEF all, news
<1>10. all = news
  <2>1. DOMAIN all = 1 .. (n + 1) /\ all = [i \in DOMAIN all |-> all[i]]
    BY <1>9, CellLists DEF ListsOf
  <2>2. \A i \in 1 .. (n + 1) : i \in 1 .. n \/ i = n + 1
    BY <1>1
  <2>3. \A i \in 1 .. n : news[i] = olds[i]
    <3>1. \A i \in 1 .. n : i \in 1 .. (n + 1)
      BY <1>1
    <3> QED BY <1>1, <1>3, <1>4, <1>5, <3>1
  <2>4. news[n + 1] = new
    <3>1. n + 1 \in 1 .. (n + 1)
      BY <1>1
    <3> QED BY <1>1, <1>4, <1>6, <3>1 DEF new
  <2>5. \A i \in 1 .. (n + 1) : all[i] = news[i]
    BY <1>9, <2>2, <2>3, <2>4
  <2>6. news = [i \in 1 .. (n + 1) |-> news[i]]
    BY <1>4
  <2> QED BY <2>1, <2>5, <2>6
<1> QED BY <1>8, <1>10 DEF all, new, news, olds, more

(* The same of scrubbers, which have no generic. *)
LEMMA ScrubbersAppend ==
  ASSUME NEW chain \in Seq(JobConfs), NEW settings \in JobConfs
  PROVE  /\ Scrubbers(chain) \in ListsOf(Cells) /\ Len(Scrubbers(chain)) = Len(chain)
         /\ Scrubbers(Append(chain, settings)) = Append(Scrubbers(chain), NewScrubbers(settings))
<1> DEFINE f == [s \in JobConfs |-> NewScrubbers(s)]
<1>1. \A s \in JobConfs : f[s] = NewScrubbers(s) /\ NewScrubbers(s) \in Seq(Cells)
  BY NewScrubbersType
<1>2. ASSUME NEW q \in Seq(JobConfs)
      PROVE  Scrubbers(q) = Through(f, q)
  <2>1. \A i \in DOMAIN q : q[i] \in JobConfs
    OBVIOUS
  <2> QED BY <1>1, <2>1 DEF Scrubbers, Through
<1> HIDE DEF f
<1>3. Append(chain, settings) \in Seq(JobConfs)
  BY AppendProperties
<1>4. Through(f, Append(chain, settings)) = Append(Through(f, chain), f[settings])
  BY ThroughAppend
<1>5. Scrubbers(chain) \in ListsOf(Cells) /\ Len(Scrubbers(chain)) = Len(chain)
  <2>1. Len(chain) \in Nat /\ DOMAIN chain = 1 .. Len(chain) /\ \A i \in 1 .. Len(chain) : chain[i] \in JobConfs
    OBVIOUS
  <2>2. Scrubbers(chain) \in [1 .. Len(chain) -> Seq(Cells)]
    BY <1>1, <2>1 DEF Scrubbers
  <2> HIDE DEF Scrubbers
  <2> QED BY <2>1, <2>2, CellLists
<1> QED BY <1>1, <1>2, <1>3, <1>4, <1>5

(* The most specific schedule counts. *)
LEMMA ScheduleAppend ==
  ASSUME NEW chain \in Seq(JobConfs), NEW settings \in JobConfs
  PROVE  MostSpecific([i \in DOMAIN Append(chain, settings) |-> Append(chain, settings)[i].schedule], Nothing) =
           Over(settings.schedule, MostSpecific([i \in DOMAIN chain |-> chain[i].schedule], Nothing))
<1> DEFINE f == [s \in JobConfs |-> s.schedule]
<1>1. ASSUME NEW q \in Seq(JobConfs)
      PROVE  [i \in DOMAIN q |-> q[i].schedule] = Through(f, q)
  <2>1. \A i \in DOMAIN q : q[i] \in JobConfs
    OBVIOUS
  <2> QED BY <2>1 DEF Through
<1>2. f[settings] = settings.schedule
  OBVIOUS
<1> HIDE DEF f
<1>3. Append(chain, settings) \in Seq(JobConfs)
  BY AppendProperties
<1>4. MostSpecific(Through(f, Append(chain, settings)), Nothing) =
        Over(f[settings], MostSpecific(Through(f, chain), Nothing))
  BY MostSpecificThrough
<1> QED BY <1>1, <1>2, <1>3, <1>4

(* One more place or none. *)
LEMMA CountMore ==
  ASSUME NEW n \in Nat, NEW A \in SUBSET (1 .. n), NEW p \in Nat, p > n, NEW B,
         B = A \cup {p} \/ B = A
  PROVE  /\ Cardinality(A) \in Nat
         /\ Cardinality(B) = Cardinality(A) + (IF p \in B THEN 1 ELSE 0)
<1>1. IsFiniteSet(A) /\ Cardinality(A) \in Nat
  <2>1. IsFiniteSet(1 .. n)
    BY FS_Interval
  <2>2. IsFiniteSet(A)
    BY <2>1, FS_Subset
  <2> QED BY <2>2, FS_CardinalityType
<1>2. p \notin A
  OBVIOUS
<1>3. Cardinality(A \cup {p}) = Cardinality(A) + 1
  BY <1>1, <1>2, FS_AddElement
<1> QED BY <1>1, <1>2, <1>3

(* A file is in the description once for each settings that have it. *)
LEMMA FilesAppend ==
  ASSUME NEW chain \in Seq(JobConfs), NEW settings \in JobConfs, NEW x
  PROVE  Cardinality({i \in DOMAIN Append(chain, settings) : x \in Append(chain, settings)[i].file}) =
           Cardinality({i \in DOMAIN chain : x \in chain[i].file}) +
             (IF x \in settings.file THEN 1 ELSE 0)
<1> DEFINE n == Len(chain)
           more == Append(chain, settings)
           A == {i \in DOMAIN chain : x \in chain[i].file}
           B == {i \in DOMAIN more : x \in more[i].file}
<1>1. /\ n \in Nat /\ DOMAIN chain = 1 .. n /\ DOMAIN more = 1 .. (n + 1)
      /\ \A i \in 1 .. n : more[i] = chain[i]
      /\ more[n + 1] = settings
  OBVIOUS
<1> HIDE DEF more, n
<1>2. /\ A \subseteq 1 .. n
      /\ \A i \in 1 .. (n + 1) : i \in 1 .. n \/ i = n + 1
      /\ n + 1 \in 1 .. (n + 1) /\ n + 1 > n /\ n + 1 \in Nat
      /\ \A i \in 1 .. n : i \in 1 .. (n + 1)
  BY <1>1
<1>3. \A i \in 1 .. n : i \in B <=> i \in A
  BY <1>1, <1>2
<1>4. n + 1 \in B <=> x \in settings.file
  BY <1>1, <1>2
<1>5. B \subseteq 1 .. (n + 1)
  BY <1>1
<1> HIDE DEF A, B
<1>6. B = A \cup {n + 1} \/ B = A
  <2>1. CASE n + 1 \in B
    BY <1>2, <1>3, <1>5, <2>1
  <2>2. CASE n + 1 \notin B
    BY <1>2, <1>3, <1>5, <2>2
  <2> QED BY <2>1, <2>2
<1>7. Cardinality(B) = Cardinality(A) + (IF n + 1 \in B THEN 1 ELSE 0)
  BY <1>1, <1>2, <1>6, CountMore
<1> QED BY <1>4, <1>7 DEF A, B, more

(* What settings make of a job, whatever it points to. *)
After(seen, kind, added, settings, values) ==
  [kind |-> kind,
   schedule |-> Over(settings.schedule, seen.schedule),
   values |-> [k \in Keys |-> Over(settings.template_values[k], seen.values[k])],
   commands |-> Through(Fill(values), seen.commands \o added),
   scrubbers |-> Through(Fill(values), seen.scrubbers \o NewScrubbers(settings)),
   files |-> [x \in Files |-> IF kind # "file" THEN 0
                              ELSE seen.files[x] + (IF x \in settings.file THEN 1 ELSE 0)]]

(* The commands that settings add to what a chain describes. *)
MoreCommands(more, settings) ==
  IF KindOf(more) # "command" THEN <<>> ELSE CommandsOver(Merged(GenericsOf(more)), settings)

(* What a chain with one more settings describes, in terms of what the chain  *)
(* describes.                                                                 *)
LEMMA BuiltAppend ==
  ASSUME NEW chain \in Seq(JobConfs), NEW settings \in JobConfs, NEW from \in Nat,
         PlainValues(chain) \/ Len(chain) + 1 < from,
         chain = <<>> \/ KindOf(Append(chain, settings)) = KindOf(chain)
  PROVE  LET more == Append(chain, settings) IN
         Built(more, from) =
           After(Built(chain, from), KindOf(more), MoreCommands(more, settings), settings,
                 ValuesAt(more, from))
<1> DEFINE more == Append(chain, settings)
           old == Built(chain, from)
           new == Built(more, from)
           f == Fill(ValuesAt(more, from))
           all == CommandsOver(Merged(GenericsOf(more)), settings)
<1>1. more \in Seq(JobConfs)
  BY AppendProperties
<1>2. /\ FlattenSeq(Finals(Commands(more), more, from)) =
           Through(f, FlattenSeq(Finals(Commands(chain), chain, from)) \o all)
      /\ FlattenSeq(Finals(Scrubbers(more), more, from)) =
           Through(f, FlattenSeq(Finals(Scrubbers(chain), chain, from)) \o NewScrubbers(settings))
  <2>1. /\ Commands(chain) \in ListsOf(Cells) /\ Len(Commands(chain)) = Len(chain)
        /\ Commands(more) = Append(Commands(chain), all)
    BY CommandsAppend
  <2>2. /\ Scrubbers(chain) \in ListsOf(Cells) /\ Len(Scrubbers(chain)) = Len(chain)
        /\ Scrubbers(more) = Append(Scrubbers(chain), NewScrubbers(settings))
    BY ScrubbersAppend
  <2>3. NewScrubbers(settings) \in Seq(Cells)
    BY NewScrubbersType
  <2>4. all \in Seq(Cells)
    <3>1. Merged(GenericsOf(more)) \in Cells
      <4>1. GenericsOf(more) \in Seq(CommandConfs)
        BY <1>1, GenericsAppend
      <4>2. NoCommand \in CommandConfs
        BY DEF NoCommand, CommandConfs
      <4> QED BY <4>1, <4>2, MergedAppend
    <3> QED BY <3>1, CommandsOverType
  <2> HIDE DEF all
  <2>5. FlattenSeq(Finals(Append(Commands(chain), all), more, from)) =
          Through(f, FlattenSeq(Finals(Commands(chain), chain, from)) \o all)
    BY <2>1, <2>4, FinalsAppend
  <2>6. FlattenSeq(Finals(Append(Scrubbers(chain), NewScrubbers(settings)), more, from)) =
          Through(f, FlattenSeq(Finals(Scrubbers(chain), chain, from)) \o NewScrubbers(settings))
    BY <2>2, <2>3, FinalsAppend
  <2> QED BY <2>1, <2>2, <2>5, <2>6
<1>3. ASSUME NEW q \in Seq(JobConfs)
      PROVE  /\ Built(q, from).kind = KindOf(q)
             /\ Built(q, from).schedule = MostSpecific([i \in DOMAIN q |-> q[i].schedule], Nothing)
             /\ Built(q, from).values = [k \in Keys |-> ValueOf(q, k)]
             /\ Built(q, from).commands =
                  IF KindOf(q) # "command" THEN <<>> ELSE FlattenSeq(Finals(Commands(q), q, from))
             /\ Built(q, from).scrubbers = FlattenSeq(Finals(Scrubbers(q), q, from))
             /\ Built(q, from).files =
                  [x \in Files |-> IF KindOf(q) # "file" THEN 0
                                   ELSE Cardinality({i \in DOMAIN q : x \in q[i].file})]
             /\ Built(q, from) =
                  [kind |-> Built(q, from).kind, schedule |-> Built(q, from).schedule,
                   values |-> Built(q, from).values, commands |-> Built(q, from).commands,
                   scrubbers |-> Built(q, from).scrubbers, files |-> Built(q, from).files]
  <2>1. Finals(Commands(q), q, from) =
          [i \in DOMAIN q |-> [j \in DOMAIN q[i].commands |-> FinalCell(CommandOf(q, i, j), q, i, from)]]
    BY DEF Finals, Commands
  <2>2. Finals(Scrubbers(q), q, from) =
          [i \in DOMAIN q |-> [j \in DOMAIN q[i].scrubbers |->
                                 FinalCell(NewScrubber(q[i].scrubbers[j]), q, i, from)]]
    BY DEF Finals, Scrubbers, NewScrubbers
  <2> QED BY <2>1, <2>2 DEF Built
<1>4. KindOf(chain) = "command" \/ chain # <<>>
  BY KindAppend
<1> HIDE DEF more, old, new, f, all
<1>5. new.schedule = Over(settings.schedule, old.schedule)
  BY ZenonT(30), <1>1, <1>3, ScheduleAppend DEF new, old, more
<1>6. new.values = [k \in Keys |-> Over(settings.template_values[k], old.values[k])]
  <2>1. \A k \in Keys : ValueOf(more, k) = Over(settings.template_values[k], ValueOf(chain, k))
    BY ValueAppend DEF more
  <2>2. new.values = [k \in Keys |-> ValueOf(more, k)] /\ \A k \in Keys : old.values[k] = ValueOf(chain, k)
    BY <1>1, <1>3 DEF new, old
  <2> QED BY <2>1, <2>2
<1>7. new.scrubbers = Through(f, old.scrubbers \o NewScrubbers(settings))
  BY <1>1, <1>2, <1>3 DEF new, old
<1>8. new.commands = Through(f, old.commands \o MoreCommands(more, settings))
  <2>1. CASE KindOf(more) = "command"
    <3>1. KindOf(chain) = "command"
      BY <1>4, <2>1 DEF more
    <3>2. new.commands = FlattenSeq(Finals(Commands(more), more, from))
          /\ old.commands = FlattenSeq(Finals(Commands(chain), chain, from))
      BY <1>1, <1>3, <2>1, <3>1 DEF new, old
    <3>3. MoreCommands(more, settings) = all
      BY <2>1 DEF MoreCommands, all
    <3> QED BY <1>2, <3>2, <3>3
  <2>2. CASE KindOf(more) # "command"
    <3>1. old.commands = <<>>
      <4>1. CASE chain = <<>>
        <5>1. Commands(chain) = <<>>
          BY <4>1 DEF Commands
        <5>2. Finals(<<>>, chain, from) = <<>>
          BY DEF Finals
        <5>3. FlattenSeq(<<>>) = <<>>
          BY DEF FlattenSeq
        <5> QED BY ZenonT(30), <1>3, <4>1, <5>1, <5>2, <5>3 DEF old
      <4>2. CASE chain # <<>>
        <5>1. KindOf(chain) # "command"
          BY <2>2, <4>2 DEF more
        <5> QED BY <1>3, <5>1 DEF old
      <4> QED BY <4>1, <4>2
    <3>2. new.commands = <<>> /\ MoreCommands(more, settings) = <<>>
      BY <1>1, <1>3, <2>2 DEF new, MoreCommands
    <3>3. Through(f, <<>> \o <<>>) = <<>>
      <4>1. <<>> \o <<>> = <<>>
        OBVIOUS
      <4>2. Through(f, <<>>) = <<>>
        BY DEF Through
      <4> QED BY <4>1, <4>2
    <3> QED BY <3>1, <3>2, <3>3
  <2> QED BY <2>1, <2>2
<1>9. new.files = [x \in Files |-> IF KindOf(more) # "file" THEN 0
                                   ELSE old.files[x] + (IF x \in settings.file THEN 1 ELSE 0)]
  <2> DEFINE count(q, x) == Cardinality({i \in DOMAIN q : x \in q[i].file})
  <2>1. /\ new.files = [x \in Files |-> IF KindOf(more) # "file" THEN 0 ELSE count(more, x)]
        /\ old.files = [x \in Files |-> IF KindOf(chain) # "file" THEN 0 ELSE count(chain, x)]
    BY <1>1, <1>3 DEF new, old
  <2>2. \A x : count(more, x) = count(chain, x) + (IF x \in settings.file THEN 1 ELSE 0)
    BY FilesAppend DEF more
  <2>3. chain = <<>> => \A x : count(chain, x) = 0
    BY FS_EmptySet
  <2> HIDE DEF count
  <2>4. KindOf(more) = "file" => \A x \in Files : old.files[x] = count(chain, x)
    <3>1. chain # <<>> => KindOf(chain) = KindOf(more)
      BY DEF more
    <3>2. CASE chain = <<>>
      BY <2>1, <2>3, <3>2
    <3>3. CASE chain # <<>>
      BY <2>1, <3>1, <3>3
    <3> QED BY <3>2, <3>3
  <2>5. \A x \in Files : (IF KindOf(more) # "file" THEN 0 ELSE count(more, x)) =
                           IF KindOf(more) # "file" THEN 0
                           ELSE old.files[x] + (IF x \in settings.file THEN 1 ELSE 0)
    BY <2>2, <2>4
  <2> QED BY <2>1, <2>5
<1>10. new.kind = KindOf(more)
  BY <1>1, <1>3 DEF new
<1>11. new = [kind |-> new.kind, schedule |-> new.schedule, values |-> new.values,
              commands |-> new.commands, scrubbers |-> new.scrubbers, files |-> new.files]
  BY <1>1, <1>3 DEF new
<1> QED BY <1>5, <1>6, <1>7, <1>8, <1>9, <1>10, <1>11 DEF After, new, old, f, more

-----------------------------------------------------------------------------
(* What is seen through the pointers of a job.                                *)

(* Where new cells are put. *)
LEMMA Placed ==
  ASSUME NEW cells \in Seq(Cells), NEW one \in Seq(Cells), NEW two \in Seq(Cells)
  PROVE  LET all == cells \o (one \o two)
             n == Len(cells) IN
         /\ all \in Seq(Cells)
         /\ Through(all, Fresh(n, Len(one))) = one
         /\ Through(all, Fresh(n + Len(one), Len(two))) = two
         /\ \A i \in 1 .. n : all[i] = cells[i]
<1> DEFINE both == one \o two
           all == cells \o both
           n == Len(cells)
           p == Len(one)
           q == Len(two)
<1>1. /\ n \in Nat /\ p \in Nat /\ q \in Nat
      /\ DOMAIN one = 1 .. p /\ DOMAIN two = 1 .. q
  OBVIOUS
<1>2. both \in Seq(Cells) /\ Len(both) = p + q
  BY ConcatProperties
<1>3. /\ \A i \in 1 .. p : both[i] = one[i]
      /\ \A i \in 1 .. q : both[p + i] = two[i]
  OBVIOUS
<1> HIDE DEF both
<1>4. all \in Seq(Cells) /\ Len(all) = n + (p + q)
  <2>1. all \in Seq(Cells) /\ Len(all) = n + Len(both)
    BY <1>2, ConcatProperties
  <2> HIDE DEF all, n, p, q
  <2> QED BY <1>2, <2>1
<1>5. /\ \A i \in 1 .. n : all[i] = cells[i]
      /\ \A i \in 1 .. (p + q) : all[n + i] = both[i]
  BY <1>2
<1> HIDE DEF all
<1>6. \A i \in 1 .. p : all[n + i] = one[i]
  BY SMTT(30), <1>1, <1>3, <1>5
<1>7. \A i \in 1 .. q : all[(n + p) + i] = two[i]
  <2>1. \A i \in 1 .. q : (n + p) + i = n + (p + i) /\ p + i \in 1 .. (p + q)
    BY <1>1
  <2> QED BY <1>1, <1>3, <1>5, <2>1
<1>8. one = [i \in 1 .. p |-> one[i]] /\ two = [i \in 1 .. q |-> two[i]]
  BY <1>1
<1> HIDE DEF n, p, q
<1>9. Through(all, Fresh(n, p)) = one
  <2>1. DOMAIN Fresh(n, p) = 1 .. p /\ \A i \in 1 .. p : Fresh(n, p)[i] = n + i
    BY DEF Fresh
  <2>2. Through(all, Fresh(n, p)) = [i \in 1 .. p |-> one[i]]
    BY <1>6, <2>1 DEF Through
  <2> QED BY <1>8, <2>2
<1>10. Through(all, Fresh(n + p, q)) = two
  <2>1. DOMAIN Fresh(n + p, q) = 1 .. q /\ \A i \in 1 .. q : Fresh(n + p, q)[i] = (n + p) + i
    BY DEF Fresh
  <2>2. Through(all, Fresh(n + p, q)) = [i \in 1 .. q |-> two[i]]
    BY <1>7, <2>1 DEF Through
  <2> QED BY <1>8, <2>2
<1> QED BY <1>4, <1>5, <1>9, <1>10 DEF all, both, n, p, q

(* What a job points to, in the order of its pointers. *)
LEMMA SeenThrough ==
  ASSUME NEW job, NEW cells
  PROVE  /\ Seen(job, cells).commands = Through(cells, job.commands)
         /\ Seen(job, cells).scrubbers = Through(cells, job.scrubbers)
         /\ Seen(job, cells).kind = job.kind /\ Seen(job, cells).schedule = job.schedule
         /\ Seen(job, cells).values = job.template_values
         /\ \A x \in Files : Seen(job, cells).files[x] =
              Cardinality({i \in DOMAIN job.files : job.files[i] = x})
  BY DEF Seen, Through

(* How often a path is in the list of a file set. *)
LEMMA FilesListed ==
  ASSUME NEW old \in Seq(Files), NEW set \in SUBSET Files, NEW added \in SetToSeqs(set), NEW x
  PROVE  Cardinality({i \in DOMAIN (old \o added) : (old \o added)[i] = x}) =
           Cardinality({i \in DOMAIN old : old[i] = x}) + (IF x \in set THEN 1 ELSE 0)
<1> DEFINE n == Len(old)
           m == Len(added)
           more == old \o added
           A == {i \in DOMAIN old : old[i] = x}
           B == {i \in DOMAIN more : more[i] = x}
<1>0. IsFiniteSet(set)
  BY JobConfigAssumption, FS_Subset
<1>1. /\ added \in Seq(set) /\ m \in Nat /\ DOMAIN added = 1 .. m
      /\ \A i, j \in 1 .. m : i # j => added[i] # added[j]
      /\ \A y \in set : \E i \in 1 .. m : added[i] = y
  BY <1>0, OrderHasAll
<1>2. /\ n \in Nat /\ DOMAIN old = 1 .. n
      /\ \A i \in 1 .. m : added[i] \in set
  BY <1>1
<1>3. added \in Seq(Files)
  BY <1>1
<1>4. DOMAIN more = 1 .. (n + m) /\ (\A i \in 1 .. n : more[i] = old[i])
      /\ (\A i \in 1 .. m : more[n + i] = added[i])
  BY <1>2, <1>3
<1> HIDE DEF more, n, m
<1>5. A \in SUBSET (1 .. n)
  BY <1>2
<1>6. \A i \in 1 .. n : i \in 1 .. (n + m)
  BY <1>1, <1>2
<1>7. \A i \in 1 .. (n + m) : i \in 1 .. n \/ \E j \in 1 .. m : i = n + j
  <2>1. ASSUME NEW i \in 1 .. (n + m), i \notin 1 .. n
        PROVE  i - n \in 1 .. m /\ i = n + (i - n)
    BY <1>1, <1>2, <2>1
  <2> QED BY <2>1
<1>8. \A j \in 1 .. m : n + j \in 1 .. (n + m) /\ n + j \in Nat /\ n + j > n
  BY <1>1, <1>2
<1>9. \A i \in 1 .. n : i \in B <=> i \in A
  BY <1>2, <1>4, <1>6
<1>10. \A j \in 1 .. m : n + j \in B <=> added[j] = x
  BY <1>4, <1>8
<1>11. B \subseteq 1 .. (n + m)
  BY <1>4
<1> HIDE DEF A, B
<1>12. CASE x \in set
  <2>1. PICK j \in 1 .. m : added[j] = x
    BY <1>1, <1>12
  <2>2. \A i \in 1 .. m : n + i \in B => i = j
    BY <1>1, <1>10, <2>1
  <2>3. n + j \in B
    BY <1>10, <2>1
  <2>4. B = A \cup {n + j}
    <3>1. \A i \in B : i \in A \cup {n + j}
      BY <1>7, <1>9, <1>11, <2>2
    <3>2. \A i \in A \cup {n + j} : i \in B
      BY <1>5, <1>9, <2>3
    <3> QED BY <3>1, <3>2
  <2> DEFINE p == n + j
  <2>5. p \in Nat /\ p > n /\ p \in B /\ B = A \cup {p}
    BY <1>8, <2>3, <2>4
  <2> HIDE DEF p
  <2>6. Cardinality(B) = Cardinality(A) + (IF p \in B THEN 1 ELSE 0)
    BY <1>2, <1>5, <2>5, CountMore
  <2>7. Cardinality(B) = Cardinality(A) + (IF x \in set THEN 1 ELSE 0)
    BY <1>12, <2>5, <2>6
  <2> QED BY <2>7 DEF A, B, more
<1>13. CASE x \notin set
  <2>1. \A j \in 1 .. m : n + j \notin B
    BY <1>2, <1>10, <1>13
  <2>2. B = A
    <3>1. \A i \in B : i \in A
      BY <1>7, <1>9, <1>11, <2>1
    <3>2. \A i \in A : i \in B
      BY <1>5, <1>9
    <3> QED BY <3>1, <3>2
  <2>3. Cardinality(A) \in Nat
    <3>1. n + 1 \in Nat /\ n + 1 > n
      BY <1>2
    <3> QED BY <1>2, <1>5, <3>1, CountMore
  <2>4. Cardinality(B) = Cardinality(A) + (IF x \in set THEN 1 ELSE 0)
    BY <1>13, <2>2, <2>3
  <2> QED BY <2>4 DEF A, B, more
<1> QED BY <1>12, <1>13

(* A write to new cells leaves what older pointers point to. *)
LEMMA PointersKept ==
  ASSUME heap \in Seq(Cells), NEW q \in Seq(Addresses), NEW all,
         \A i \in 1 .. Len(heap) : all[i] = heap[i]
  PROVE  Through(all, q) = Through(heap, q)
<1>1. \A i \in DOMAIN q : q[i] \in 1 .. Len(heap)
  BY DEF Addresses
<1> QED BY <1>1 DEF Through

(* Settings applied to a job, seen through its pointers: the new commands and *)
(* scrubbers come last and what has a value is filled in everywhere.          *)
LEMMA AppliedSeen ==
  ASSUME heap \in Seq(Cells), NEW job \in Jobs, NEW settings \in JobConfs, Applies(job, settings),
         NEW files \in SetToSeqs(settings.file), NEW values \in [Keys -> Texts \cup {Nothing}], NEW new,
         \A a \in Range(Parts(Applied(job, settings, files))) :
           new[a] = Filled((heap \o AddedCells(job, settings))[a], values)
  PROVE  Seen(Applied(job, settings, files), new) =
           After(Seen(job, heap), Kind(job, settings), NewCommands(job, settings), settings, values)
<1> DEFINE applied == Applied(job, settings, files)
           seen == Seen(job, heap)
           one == NewCommands(job, settings)
           two == NewScrubbers(settings)
           cells == heap \o (one \o two)
           n == Len(heap)
           f == Fill(values)
           mine == Fresh(n, Len(one))
           mine2 == Fresh(n + Len(one), Len(two))
<1>1. /\ one \in Seq(Cells) /\ Len(one) \in Nat
      /\ two \in Seq(Cells) /\ Len(two) = Len(settings.scrubbers) /\ Len(two) \in Nat
      /\ n \in Nat
  BY NewCommandsType, NewScrubbersType DEF Jobs
<1>2. /\ job.commands \in Seq(Addresses) /\ job.scrubbers \in Seq(Addresses) /\ job.files \in Seq(Files)
  BY DEF Jobs, JobsAt
<1>3. /\ applied.kind = Kind(job, settings)
      /\ applied.schedule = Over(settings.schedule, seen.schedule)
      /\ applied.template_values =
           [k \in Keys |-> Over(settings.template_values[k], seen.values[k])]
      /\ applied.commands = job.commands \o mine
      /\ applied.scrubbers = job.scrubbers \o mine2
      /\ applied.files = IF Kind(job, settings) = "file" THEN job.files \o files ELSE <<>>
  <2>1. /\ applied.kind = Kind(job, settings)
        /\ applied.schedule = Over(settings.schedule, job.schedule)
        /\ applied.template_values =
             [k \in Keys |-> Over(settings.template_values[k], job.template_values[k])]
        /\ applied.commands = job.commands \o Fresh(Len(heap), Len(one))
        /\ applied.scrubbers =
             job.scrubbers \o Fresh(Len(heap) + Len(one), Len(settings.scrubbers))
        /\ applied.files = IF Kind(job, settings) = "file" THEN job.files \o files ELSE <<>>
    BY DEF Applied
  <2>2. seen.schedule = job.schedule /\ seen.values = job.template_values
    BY SeenThrough
  <2> HIDE DEF applied, seen, one, two
  <2> QED BY <1>1, <2>1, <2>2
<1>4. cells = heap \o AddedCells(job, settings)
  BY DEF AddedCells
<1> HIDE DEF one, two
<1>5. /\ cells \in Seq(Cells) /\ Through(cells, mine) = one /\ Through(cells, mine2) = two
      /\ \A i \in 1 .. n : cells[i] = heap[i]
  BY <1>1, Placed
<1>6. mine \in Seq(Nat) /\ mine2 \in Seq(Nat)
  BY <1>1, FreshType DEF Fresh
<1> HIDE DEF cells, mine, mine2
<1>7. job.commands \in Seq(Nat) /\ job.scrubbers \in Seq(Nat)
  BY <1>1, <1>2 DEF Addresses
<1>8. /\ Through(cells, applied.commands) = seen.commands \o one
      /\ Through(cells, applied.scrubbers) = seen.scrubbers \o two
  <2>1. Through(cells, job.commands) = seen.commands /\ Through(cells, job.scrubbers) = seen.scrubbers
    <3>1. \A i \in 1 .. Len(heap) : cells[i] = heap[i]
      BY <1>5
    <3>2. Through(cells, job.commands) = Through(heap, job.commands)
      BY <1>2, <3>1, PointersKept
    <3>3. Through(cells, job.scrubbers) = Through(heap, job.scrubbers)
      BY <1>2, <3>1, PointersKept
    <3> HIDE DEF n
    <3> QED BY <3>2, <3>3, SeenThrough
  <2>2. ASSUME NEW s \in Seq(Nat), NEW t \in Seq(Nat)
        PROVE  Through(cells, s \o t) = Through(cells, s) \o Through(cells, t)
    BY ThroughConcat
  <2> HIDE DEF applied, seen
  <2> QED BY <1>3, <1>5, <1>6, <1>7, <2>1, <2>2
<1>9. /\ applied.commands \in Seq(Nat) /\ applied.scrubbers \in Seq(Nat)
      /\ \A i \in DOMAIN applied.commands : applied.commands[i] \in Range(Parts(applied))
      /\ \A i \in DOMAIN applied.scrubbers : applied.scrubbers[i] \in Range(Parts(applied))
  <2>1. applied.commands \in Seq(Nat)
    <3> HIDE DEF applied
    <3> QED BY <1>3, <1>6, <1>7, ConcatProperties
  <2>2. applied.scrubbers \in Seq(Nat)
    <3> HIDE DEF applied
    <3> QED BY <1>3, <1>6, <1>7, ConcatProperties
  <2> HIDE DEF applied
  <2>3. Range(Parts(applied)) = Range(applied.commands) \cup Range(applied.scrubbers)
    BY <2>1, <2>2, RangeConcatenation DEF Parts
  <2> QED BY <2>1, <2>2, <2>3 DEF Range
<1>10. \A a \in Range(Parts(applied)) : new[a] = Filled(cells[a], values)
  BY <1>4
<1> HIDE DEF applied, seen
<1>11. Range(Parts(applied)) \subseteq 1 .. Len(cells)
  <2>1. Len(cells) \in Nat /\ Len(cells) = Len(heap) + Len(AddedCells(job, settings))
    <3>1. AddedCells(job, settings) \in Seq(Cells)
      BY <1>1, ConcatProperties DEF AddedCells, one, two
    <3> HIDE DEF n
    <3> QED BY <1>4, <1>5, <3>1, ConcatProperties
  <2>2. Range(Parts(job)) \subseteq 1 .. Len(heap)
    <3>1. Range(Parts(job)) = Range(job.commands) \cup Range(job.scrubbers)
      BY <1>2, RangeConcatenation DEF Parts
    <3>2. Range(job.commands) \subseteq Addresses /\ Range(job.scrubbers) \subseteq Addresses
      BY <1>2 DEF Range
    <3> QED BY <3>1, <3>2 DEF Addresses
  <2>3. Range(Parts(applied)) \subseteq Range(Parts(job)) \cup {a \in 1 .. Len(cells) : a > Len(heap)}
    <3> DEFINE m == Len(cells)
    <3>1. m \in Nat /\ m = Len(heap) + Len(AddedCells(job, settings))
      BY <2>1
    <3> HIDE DEF m
    <3>2. job \in JobsAt(Addresses)
      BY DEF Jobs
    <3>3. Range(Parts(Applied(job, settings, files))) \subseteq
            Range(Parts(job)) \cup {a \in 1 .. m : a > Len(heap)}
      BY <3>1, <3>2, AppliedType
    <3> QED BY <3>3 DEF applied, m
  <2>4. Len(heap) <= Len(cells) /\ Len(heap) \in Nat
    <3>1. Len(AddedCells(job, settings)) \in Nat
      BY <1>1, ConcatProperties DEF AddedCells, one, two
    <3> QED BY <1>1, <2>1, <3>1
  <2> QED BY <2>1, <2>2, <2>3, <2>4
<1>12. \A a \in Range(Parts(applied)) : new[a] = f[cells[a]]
  <2>1. \A a \in 1 .. Len(cells) : cells[a] \in Cells
    BY <1>5
  <2> HIDE DEF f
  <2>2. \A c \in Cells : f[c] = Filled(c, values)
    BY DEF f, Fill
  <2> QED BY <1>10, <1>11, <2>1, <2>2
<1> HIDE DEF f
<1>13. ASSUME NEW q \in Seq(Nat), \A i \in DOMAIN q : q[i] \in Range(Parts(applied))
       PROVE  Through(new, q) = Through(f, Through(cells, q))
  BY <1>12, <1>13 DEF Through
<1>14. /\ Through(new, applied.commands) = Through(f, seen.commands \o one)
       /\ Through(new, applied.scrubbers) = Through(f, seen.scrubbers \o two)
  BY <1>8, <1>9, <1>13
<1>15. Seen(applied, new).files =
         [x \in Files |-> IF Kind(job, settings) # "file" THEN 0
                          ELSE seen.files[x] + (IF x \in settings.file THEN 1 ELSE 0)]
  <2>1. settings.file \in SUBSET Files
    BY DEF JobConfs
  <2>2. CASE Kind(job, settings) = "file"
    <3>1. applied.files = job.files \o files
      BY <1>3, <2>2
    <3>2. ASSUME NEW x \in Files
          PROVE  Cardinality({i \in DOMAIN applied.files : applied.files[i] = x}) =
                   seen.files[x] + (IF x \in settings.file THEN 1 ELSE 0)
      <4> DEFINE count(q) == Cardinality({i \in DOMAIN q : q[i] = x})
      <4>1. ASSUME NEW old \in Seq(Files), NEW set \in SUBSET Files, NEW added \in SetToSeqs(set)
            PROVE  count(old \o added) = count(old) + (IF x \in set THEN 1 ELSE 0)
        BY FilesListed
      <4>2. seen.files[x] = count(job.files)
        BY SeenThrough DEF seen
      <4> HIDE DEF count
      <4>3. count(applied.files) = seen.files[x] + (IF x \in settings.file THEN 1 ELSE 0)
        <5>1. files \in SetToSeqs(settings.file) /\ job.files \in Seq(Files)
          BY <1>2
        <5>2. count(job.files \o files) = count(job.files) + (IF x \in settings.file THEN 1 ELSE 0)
          BY <2>1, <4>1, <5>1
        <5> QED BY <3>1, <4>2, <5>2
      <4> QED BY <4>3 DEF count
    <3>3. Seen(applied, new).files =
            [x \in Files |-> Cardinality({i \in DOMAIN applied.files : applied.files[i] = x})]
      BY DEF Seen
    <3> QED BY <2>2, <3>2, <3>3
  <2>3. CASE Kind(job, settings) # "file"
    <3>1. applied.files = <<>>
      BY <1>3, <2>3
    <3>2. \A x : {i \in DOMAIN <<>> : <<>>[i] = x} = {}
      OBVIOUS
    <3>3. Cardinality({}) = 0
      BY FS_EmptySet
    <3>4. Seen(applied, new).files =
            [x \in Files |-> Cardinality({i \in DOMAIN applied.files : applied.files[i] = x})]
      BY DEF Seen
    <3>5. Seen(applied, new).files = [x \in Files |-> 0]
      BY <3>1, <3>2, <3>3, <3>4
    <3> QED BY <2>3, <3>5
  <2> QED BY <2>2, <2>3
<1>16. Seen(applied, new) =
         [kind |-> applied.kind, schedule |-> applied.schedule, values |-> applied.template_values,
          commands |-> Through(new, applied.commands), scrubbers |-> Through(new, applied.scrubbers),
          files |-> Seen(applied, new).files]
  BY DEF Seen, Through
<1> HIDE DEF seen
<1>17. Seen(applied, new) = After(seen, Kind(job, settings), one, settings, values)
  BY <1>3, <1>14, <1>15, <1>16 DEF After, two, f
<1> QED BY <1>17 DEF applied, seen, one

(* A deep copy is seen as what it is a copy of. *)
LEMMA CopiedSeen ==
  ASSUME heap \in Seq(Cells), NEW job \in Jobs
  PROVE  Seen(DeepCopied(job), heap \o CopiedCells(job)) = Seen(job, heap)
<1> DEFINE one == Through(heap, job.commands)
           two == Through(heap, job.scrubbers)
           cells == heap \o (one \o two)
<1>1. job.commands \in Seq(Addresses) /\ job.scrubbers \in Seq(Addresses)
  BY DEF Jobs, JobsAt
<1>2. \A a \in Addresses : heap[a] \in Cells
  BY DEF Addresses
<1>3. /\ one \in Seq(Cells) /\ Len(one) = Len(job.commands)
      /\ two \in Seq(Cells) /\ Len(two) = Len(job.scrubbers)
  BY <1>1, <1>2, ThroughType
<1>4. CopiedCells(job) = one \o two
  <2>1. ASSUME NEW s \in Seq(Addresses), NEW t \in Seq(Addresses)
        PROVE  Through(heap, s \o t) = Through(heap, s) \o Through(heap, t)
    BY ThroughConcat
  <2>2. Through(heap, job.commands \o job.scrubbers) = one \o two
    BY <1>1, <2>1
  <2> QED BY <2>2 DEF CopiedCells, Parts, Through
<1> HIDE DEF one, two
<1>5. /\ Through(cells, Fresh(Len(heap), Len(one))) = one
      /\ Through(cells, Fresh(Len(heap) + Len(one), Len(two))) = two
  <2>1. one \in Seq(Cells) /\ two \in Seq(Cells)
    BY <1>3
  <2> QED BY <2>1, Placed
<1> HIDE DEF cells
<1>6. job \in [kind : {"", "command", "file"}, schedule : Schedules \cup {Nothing},
               generic : Cells \cup {Nothing}, commands : Seq(Addresses), files : Seq(Files),
               scrubbers : Seq(Addresses), template_values : [Keys -> Texts \cup {Nothing}]]
  BY DEF Jobs, JobsAt
<1>7. /\ DeepCopied(job).kind = job.kind /\ DeepCopied(job).schedule = job.schedule
      /\ DeepCopied(job).template_values = job.template_values /\ DeepCopied(job).files = job.files
      /\ DeepCopied(job).commands = Fresh(Len(heap), Len(one))
      /\ DeepCopied(job).scrubbers = Fresh(Len(heap) + Len(one), Len(two))
  BY <1>3, <1>6 DEF DeepCopied
<1>8. \A j, c : Seen(j, c) =
         [kind |-> j.kind, schedule |-> j.schedule, values |-> j.template_values,
          commands |-> Through(c, j.commands), scrubbers |-> Through(c, j.scrubbers),
          files |-> [x \in Files |-> Cardinality({i \in DOMAIN j.files : j.files[i] = x})]]
  BY DEF Seen, Through
<1>9. cells = heap \o CopiedCells(job)
  BY <1>4 DEF cells
<1>10. /\ Seen(DeepCopied(job), cells).commands = Seen(job, heap).commands
       /\ Seen(DeepCopied(job), cells).scrubbers = Seen(job, heap).scrubbers
       /\ Seen(DeepCopied(job), cells).files = Seen(job, heap).files
  <2>1. Seen(DeepCopied(job), cells).files = Seen(job, heap).files
    BY <1>7, <1>8
  <2>2. /\ Seen(DeepCopied(job), cells).commands = one
        /\ Seen(DeepCopied(job), cells).scrubbers = two
    BY <1>5, <1>7, SeenThrough
  <2>3. Seen(job, heap).commands = one /\ Seen(job, heap).scrubbers = two
    BY SeenThrough DEF one, two
  <2> QED BY <2>1, <2>2, <2>3
<1>11. Seen(DeepCopied(job), cells) = Seen(job, heap)
  <2> DEFINE x == Seen(DeepCopied(job), cells)
             y == Seen(job, heap)
  <2>1. /\ x = [kind |-> x.kind, schedule |-> x.schedule, values |-> x.values,
                commands |-> x.commands, scrubbers |-> x.scrubbers, files |-> x.files]
        /\ y = [kind |-> y.kind, schedule |-> y.schedule, values |-> y.values,
                commands |-> y.commands, scrubbers |-> y.scrubbers, files |-> y.files]
    BY DEF Seen
  <2>2. x.kind = y.kind /\ x.schedule = y.schedule /\ x.values = y.values
    BY <1>7, SeenThrough
  <2>3. x.commands = y.commands /\ x.scrubbers = y.scrubbers /\ x.files = y.files
    BY <1>10
  <2> HIDE DEF x, y
  <2>4. x = y
    BY <2>1, <2>2, <2>3
  <2> QED BY <2>4 DEF x, y
<1> QED BY <1>9, <1>11

-----------------------------------------------------------------------------
(* A job that has been made of a chain of settings.                           *)

FirstType(chain) == IF chain[1].type = "" THEN "command" ELSE chain[1].type

(* Nothing in the settings of a chain is bad in itself. *)
Agree(chain) ==
  /\ chain # <<>> => FirstType(chain) # "other"
  /\ \A i \in DOMAIN chain :
       chain[i].type \in {"", FirstType(chain)} /\ chain[i].schedule # BadSchedule

(* The job has been made of a chain of settings. *)
Made(job, cells, chain, from) ==
  /\ Agree(chain)
  /\ job.kind = IF chain = <<>> THEN "" ELSE KindOf(chain)
  /\ chain # <<>> => KindOf(chain) = FirstType(chain)
  /\ job.kind = "command" /\ job.generic # Nothing => job.generic = Merged(GenericsOf(chain))
  /\ PlainValues(chain) \/ Len(chain) < from =>
       Seen(job, cells) = [Built(chain, from) EXCEPT !.kind = job.kind]

(* Values without variables stay so when settings are left out. *)
LEMMA PlainAppend ==
  ASSUME NEW chain \in Seq(JobConfs), NEW settings \in JobConfs, PlainValues(Append(chain, settings))
  PROVE  PlainValues(chain)
<1>1. /\ DOMAIN chain = 1 .. Len(chain) /\ Len(chain) \in Nat
      /\ DOMAIN Append(chain, settings) = 1 .. (Len(chain) + 1)
      /\ \A i \in 1 .. Len(chain) : Append(chain, settings)[i] = chain[i]
  OBVIOUS
<1>2. \A i \in 1 .. Len(chain) : i \in 1 .. (Len(chain) + 1)
  BY <1>1
<1> QED BY <1>1, <1>2 DEF PlainValues

(* One more settings that agree with the others. *)
LEMMA AgreeAppend ==
  ASSUME NEW chain \in Seq(JobConfs), NEW settings \in JobConfs, Agree(chain)
  PROVE  LET more == Append(chain, settings) IN
         /\ more # <<>>
         /\ FirstType(more) =
              IF chain # <<>> THEN FirstType(chain)
              ELSE IF settings.type = "" THEN "command" ELSE settings.type
         /\ Agree(more) <=> /\ FirstType(more) # "other"
                            /\ settings.type \in {"", FirstType(more)}
                            /\ settings.schedule # BadSchedule
<1> DEFINE more == Append(chain, settings)
           n == Len(chain)
<1>1. /\ DOMAIN chain = 1 .. n /\ n \in Nat /\ (n = 0 <=> chain = <<>>)
      /\ DOMAIN more = 1 .. (n + 1) /\ more # <<>>
      /\ \A i \in 1 .. n : more[i] = chain[i]
      /\ more[n + 1] = settings
  OBVIOUS
<1> HIDE DEF more, n
<1>2. /\ \A i \in 1 .. (n + 1) : i \in 1 .. n \/ i = n + 1
      /\ \A i \in 1 .. n : i \in 1 .. (n + 1)
      /\ n + 1 \in 1 .. (n + 1)
      /\ n # 0 => 1 \in 1 .. n
      /\ n = 0 => n + 1 = 1
  BY <1>1
<1>3. FirstType(more) = IF chain # <<>> THEN FirstType(chain)
                        ELSE IF settings.type = "" THEN "command" ELSE settings.type
  <2>1. CASE chain # <<>>
    <3>1. more[1] = chain[1]
      BY <1>1, <1>2, <2>1
    <3> QED BY <2>1, <3>1 DEF FirstType
  <2>2. CASE chain = <<>>
    <3>1. more[1] = settings
      BY <1>1, <1>2, <2>2
    <3> QED BY <2>2, <3>1 DEF FirstType
  <2> QED BY <2>1, <2>2
<1> HIDE DEF FirstType
<1>4. \A i \in 1 .. n : chain[i].type \in {"", FirstType(more)} /\ chain[i].schedule # BadSchedule
  <2>1. ASSUME NEW i \in 1 .. n
        PROVE  chain # <<>>
    BY <1>1
  <2>2. \A i \in 1 .. n : chain[i].type \in {"", FirstType(chain)} /\ chain[i].schedule # BadSchedule
    BY <1>1 DEF Agree
  <2> QED BY <1>3, <2>1, <2>2
<1>5. (\A i \in DOMAIN more : more[i].type \in {"", FirstType(more)} /\ more[i].schedule # BadSchedule)
        <=> settings.type \in {"", FirstType(more)} /\ settings.schedule # BadSchedule
  BY <1>1, <1>2, <1>4
<1>6. Agree(more) <=> /\ FirstType(more) # "other"
                      /\ settings.type \in {"", FirstType(more)}
                      /\ settings.schedule # BadSchedule
  BY <1>1, <1>5 DEF Agree
<1> QED BY <1>1, <1>3, <1>6 DEF more

(* Settings that do not apply to a job disagree with those it is made of. *)
LEMMA FailsDisagree ==
  ASSUME NEW job, NEW cells, NEW chain \in Seq(JobConfs), NEW from, Made(job, cells, chain, from),
         NEW settings \in JobConfs, ApplyFails(job, settings)
  PROVE  ~ Agree(Append(chain, settings))
<1> DEFINE first == FirstType(Append(chain, settings))
<1>1. /\ Agree(Append(chain, settings)) =>
           first # "other" /\ settings.type \in {"", first} /\ settings.schedule # BadSchedule
      /\ chain # <<>> => first = FirstType(chain)
      /\ chain = <<>> => first = IF settings.type = "" THEN "command" ELSE settings.type
  BY AgreeAppend DEF Made
<1>2. /\ chain = <<>> => job.kind = ""
      /\ chain # <<>> => job.kind = FirstType(chain)
  BY DEF Made
<1>3. settings.type \in {"", "command", "file", "other"}
  BY DEF JobConfs
<1>4. \/ settings.type \notin {"", "command", "file"}
      \/ settings.type # "" /\ job.kind \notin {"", settings.type}
      \/ settings.schedule = BadSchedule
  BY DEF ApplyFails
<1> HIDE DEF first
<1> QED BY <1>1, <1>2, <1>3, <1>4

(* Settings that apply: the kind of the job stays what the chain says. *)
LEMMA AppliesAgree ==
  ASSUME NEW A, NEW job \in JobsAt(A), NEW cells, NEW chain \in Seq(JobConfs), NEW from,
         Made(job, cells, chain, from), NEW settings \in JobConfs, Applies(job, settings)
  PROVE  LET more == Append(chain, settings) IN
         /\ Agree(more) /\ more # <<>>
         /\ KindOf(more) = FirstType(more) /\ KindOf(more) = Kind(job, settings)
         /\ chain # <<>> => KindOf(more) = KindOf(chain) /\ job.kind = KindOf(more)
         /\ chain = <<>> => job.kind = ""
<1> DEFINE more == Append(chain, settings)
           first == FirstType(more)
           kind == KindOf(more)
<1>1. /\ Agree(more) <=>
           first # "other" /\ settings.type \in {"", first} /\ settings.schedule # BadSchedule
      /\ chain # <<>> => first = FirstType(chain)
      /\ chain = <<>> => first = IF settings.type = "" THEN "command" ELSE settings.type
      /\ more # <<>>
  BY AgreeAppend DEF Made
<1>2. /\ chain = <<>> => job.kind = ""
      /\ chain # <<>> => job.kind = KindOf(chain) /\ KindOf(chain) = FirstType(chain)
  BY DEF Made
<1>3. /\ KindOf(<<>>) = "command"
      /\ kind = IF settings.type # "" THEN settings.type ELSE KindOf(chain)
  BY KindAppend
<1>4. /\ settings.type \in {"", "command", "file"}
      /\ settings.type # "" => job.kind \in {"", settings.type}
      /\ settings.schedule # BadSchedule
  BY DEF Applies, ApplyFails
<1>5. Kind(job, settings) = IF settings.type # "" THEN settings.type
                            ELSE IF job.kind # "" THEN job.kind ELSE "command"
  <2>1. CASE settings.type # "" /\ job.kind # ""
    <3>1. job.kind = settings.type
      BY <1>4, <2>1
    <3> QED BY <2>1, <3>1 DEF Kind
  <2>2. CASE settings.type # "" /\ job.kind = ""
    BY <2>2 DEF Kind
  <2>3. CASE settings.type = ""
    BY <2>3 DEF Kind
  <2> QED BY <2>1, <2>2, <2>3
<1>6. chain # <<>> => FirstType(chain) # ""
  BY DEF FirstType
<1>7. job.kind \in {"", "command", "file"}
  BY DEF JobsAt
<1> HIDE DEF more, first, kind
<1>8. /\ Agree(more) /\ kind = first /\ kind = Kind(job, settings)
      /\ chain # <<>> => kind = KindOf(chain) /\ job.kind = kind
      /\ chain = <<>> => job.kind = ""
  <2>1. CASE chain = <<>>
    BY <1>1, <1>2, <1>3, <1>4, <1>5, <2>1
  <2>2. CASE chain # <<>>
    BY <1>1, <1>2, <1>3, <1>4, <1>5, <1>6, <1>7, <2>2
  <2> QED BY <2>1, <2>2
<1> QED BY <1>1, <1>8 DEF more, first, kind

(* The generic command of a job, and the commands that are made of it. *)
LEMMA AppliedCommands ==
  ASSUME NEW A, NEW job \in JobsAt(A), NEW cells, NEW chain \in Seq(JobConfs), NEW from,
         Made(job, cells, chain, from), NEW settings \in JobConfs, Applies(job, settings)
  PROVE  LET more == Append(chain, settings) IN
         /\ Kind(job, settings) = "command" /\ Generic(job, settings) # Nothing =>
              Generic(job, settings) = Merged(GenericsOf(more))
         /\ NewCommands(job, settings) = MoreCommands(more, settings)
<1> DEFINE more == Append(chain, settings)
           generic == Generic(job, settings)
           base == IF job.kind = "" THEN NewCommand ELSE job.generic
           over == settings.command_generic
<1>1. /\ KindOf(more) = Kind(job, settings)
      /\ chain # <<>> => job.kind = KindOf(more)
      /\ chain = <<>> => job.kind = ""
  BY AppliesAgree
<1>2. generic = IF over = Nothing \/ base = Nothing THEN base ELSE ApplyCommand(base, over)
  BY DEF Generic
<1>3. job.kind = "" \/ job.generic # Nothing <=> generic # Nothing
  BY GenericType
<1>4. /\ GenericsOf(<<>>) = <<>> /\ GenericsOf(chain) \in Seq(CommandConfs)
      /\ GenericsOf(more) = IF over = Nothing THEN GenericsOf(chain) ELSE Append(GenericsOf(chain), over)
  BY GenericsAppend
<1>5. over \in CommandConfs \cup {Nothing}
  BY DEF JobConfs
<1>6. /\ Merged(<<>>) = NewCommand
      /\ over # Nothing =>
           Merged(Append(GenericsOf(chain), over)) = ApplyCommand(Merged(GenericsOf(chain)), over)
  <2>1. NoCommand \in CommandConfs
    BY DEF NoCommand, CommandConfs
  <2>2. <<>> \in Seq(CommandConfs)
    OBVIOUS
  <2>3. Merged(<<>>) = NewCommand
    BY <2>1, <2>2, MergedAppend
  <2>4. CASE over # Nothing
    <3>1. over \in CommandConfs
      BY <1>5, <2>4
    <3> HIDE DEF over
    <3> QED BY <1>4, <2>3, <3>1, MergedAppend
  <2> QED BY <2>3, <2>4
<1> HIDE DEF more, over, generic, base
<1>7. Kind(job, settings) = "command" /\ generic # Nothing => generic = Merged(GenericsOf(more))
  <2> SUFFICES ASSUME Kind(job, settings) = "command", generic # Nothing
               PROVE  generic = Merged(GenericsOf(more))
    OBVIOUS
  <2>1. base = Merged(GenericsOf(chain)) /\ base # Nothing
    <3>1. CASE chain = <<>>
      <4>1. base = NewCommand
        BY <1>1, <3>1 DEF base
      <4> QED BY <1>4, <1>6, <3>1, <4>1, NewCommandType
    <3>2. CASE chain # <<>>
      <4>1. job.kind = "command" /\ job.generic # Nothing
        BY <1>1, <1>3, <3>2
      <4>2. base = job.generic
        BY <4>1 DEF base
      <4> QED BY <4>1, <4>2 DEF Made
    <3> QED BY <3>1, <3>2
  <2> QED BY <1>2, <1>4, <1>6, <2>1
<1>8. NewCommands(job, settings) = MoreCommands(more, settings)
  <2>1. CASE Kind(job, settings) # "command"
    BY <1>1, <2>1 DEF NewCommands, MoreCommands
  <2>2. CASE Kind(job, settings) = "command" /\ generic # Nothing
    <3>1. NewCommands(job, settings) = CommandsOver(generic, settings)
      BY <2>2 DEF NewCommands, CommandsOver, generic
    <3>2. MoreCommands(more, settings) = CommandsOver(Merged(GenericsOf(more)), settings)
      BY <1>1, <2>2 DEF MoreCommands
    <3> QED BY <1>7, <2>2, <3>1, <3>2
  <2>3. CASE Kind(job, settings) = "command" /\ generic = Nothing
    <3>1. job.kind = "command" /\ job.generic = Nothing
      BY <1>1, <1>3, <2>3
    <3>2. settings.commands = <<>>
      BY <2>3, <3>1 DEF Applies, ApplyPanics, SetsCommands
    <3>3. NewCommands(job, settings) = <<>>
      BY <2>3, <3>2 DEF NewCommands
    <3>4. MoreCommands(more, settings) = <<>>
      <4>1. \A g : CommandsOver(g, settings) = <<>>
        BY <3>2 DEF CommandsOver
      <4> QED BY <4>1 DEF MoreCommands
    <3> QED BY <3>3, <3>4
  <2> QED BY <2>1, <2>2, <2>3
<1> QED BY <1>7, <1>8 DEF more, generic

(* A description is a record of six parts. *)
LEMMA BuiltShape ==
  ASSUME NEW chain, NEW from
  PROVE  /\ Built(chain, from) =
              [kind |-> Built(chain, from).kind, schedule |-> Built(chain, from).schedule,
               values |-> Built(chain, from).values, commands |-> Built(chain, from).commands,
               scrubbers |-> Built(chain, from).scrubbers, files |-> Built(chain, from).files]
         /\ Built(chain, from).kind = KindOf(chain)
  BY DEF Built

(* Settings that apply to a job of a chain make a job of the longer chain. *)
LEMMA MadeApplied ==
  ASSUME heap \in Seq(Cells), NEW job \in Jobs, NEW chain \in Seq(JobConfs), NEW from \in Nat,
         Made(job, heap, chain, from), NEW settings \in JobConfs, Applies(job, settings),
         NEW files \in SetToSeqs(settings.file), NEW new,
         PlainValues(Append(chain, settings)) \/ Len(Append(chain, settings)) < from =>
           \A a \in Range(Parts(Applied(job, settings, files))) :
             new[a] = Filled((heap \o AddedCells(job, settings))[a],
                             ValuesAt(Append(chain, settings), from))
  PROVE  Made(Applied(job, settings, files), new, Append(chain, settings), from)
<1> DEFINE more == Append(chain, settings)
           applied == Applied(job, settings, files)
           kind == Kind(job, settings)
           values == ValuesAt(more, from)
           cells == heap \o AddedCells(job, settings)
           known == PlainValues(more) \/ Len(more) < from
<1>1. job \in JobsAt(Addresses)
  BY DEF Jobs
<1>2. /\ Agree(more) /\ more # <<>>
      /\ KindOf(more) = FirstType(more) /\ KindOf(more) = kind
      /\ chain # <<>> => KindOf(more) = KindOf(chain) /\ job.kind = KindOf(more)
      /\ chain = <<>> => job.kind = ""
  BY <1>1, AppliesAgree
<1>3. /\ kind = "command" /\ Generic(job, settings) # Nothing =>
           Generic(job, settings) = Merged(GenericsOf(more))
      /\ NewCommands(job, settings) = MoreCommands(more, settings)
  BY <1>1, AppliedCommands
<1>4. /\ applied.kind = kind
      /\ applied.generic = IF kind = "command" THEN Generic(job, settings) ELSE Nothing
  BY DEF Applied
<1>5. /\ more \in Seq(JobConfs) /\ Len(more) = Len(chain) + 1 /\ Len(chain) \in Nat
  <2>1. Len(chain) \in Nat
    OBVIOUS
  <2>2. more \in Seq(JobConfs) /\ Len(more) = Len(chain) + 1
    BY AppendProperties
  <2> QED BY <2>1, <2>2
<1>6. values \in [Keys -> Texts \cup {Nothing}]
  BY <1>5, ValuesAtType
<1>7. PlainValues(more) => PlainValues(chain)
  BY PlainAppend
<1>8. known => \A a \in Range(Parts(applied)) : new[a] = Filled(cells[a], values)
  OBVIOUS
<1>9. ASSUME known
      PROVE  Seen(applied, new) = After(Seen(job, heap), kind, NewCommands(job, settings), settings, values)
  <2>1. \A a \in Range(Parts(applied)) : new[a] = Filled(cells[a], values)
    BY <1>8, <1>9
  <2> HIDE DEF values, known
  <2> QED BY <1>6, <2>1, AppliedSeen
<1>10. ASSUME known
       PROVE  Built(more, from) =
                After(Built(chain, from), kind, NewCommands(job, settings), settings, values)
  <2>1. PlainValues(chain) \/ Len(chain) + 1 < from
    BY <1>5, <1>7, <1>10
  <2>2. chain = <<>> \/ KindOf(more) = KindOf(chain)
    BY <1>2
  <2>3. Built(more, from) =
          After(Built(chain, from), KindOf(more), MoreCommands(more, settings), settings, values)
    BY <2>1, <2>2, BuiltAppend
  <2> HIDE DEF more, values, known
  <2> QED BY <1>2, <1>3, <2>3
<1>11. ASSUME known
       PROVE  Seen(applied, new) = [Built(more, from) EXCEPT !.kind = applied.kind]
  <2>1. Seen(job, heap) = [Built(chain, from) EXCEPT !.kind = job.kind]
    <3>1. PlainValues(chain) \/ Len(chain) < from
      BY <1>5, <1>7, <1>11
    <3> QED BY <3>1 DEF Made
  <2> HIDE DEF more, values, known, applied
  <2>2. Built(chain, from) =
          [kind |-> Built(chain, from).kind, schedule |-> Built(chain, from).schedule,
           values |-> Built(chain, from).values, commands |-> Built(chain, from).commands,
           scrubbers |-> Built(chain, from).scrubbers, files |-> Built(chain, from).files]
    BY BuiltShape
  <2> DEFINE old == Built(chain, from)
             seen == Seen(job, heap)
  <2> HIDE DEF old, seen
  <2>3. /\ seen.schedule = old.schedule /\ seen.values = old.values /\ seen.commands = old.commands
        /\ seen.scrubbers = old.scrubbers /\ seen.files = old.files
    BY <2>1, <2>2 DEF old, seen
  <2>4. After(seen, kind, NewCommands(job, settings), settings, values) =
          After(old, kind, NewCommands(job, settings), settings, values)
    BY <2>3 DEF After
  <2>5. Seen(applied, new) = Built(more, from)
    BY <1>9, <1>10, <1>11, <2>4 DEF old, seen
  <2>6. [Built(more, from) EXCEPT !.kind = kind] = Built(more, from)
    <3> DEFINE d == Built(more, from)
    <3>1. d = [kind |-> d.kind, schedule |-> d.schedule, values |-> d.values, commands |-> d.commands,
               scrubbers |-> d.scrubbers, files |-> d.files] /\ d.kind = kind
      BY <1>2, BuiltShape
    <3> HIDE DEF d, kind
    <3>2. [d EXCEPT !.kind = kind] = d
      BY <3>1
    <3> QED BY <3>2 DEF d
  <2> QED BY <1>4, <2>5, <2>6
<1> HIDE DEF applied, more
<1>12. Made(applied, new, more, from)
  BY <1>2, <1>3, <1>4, <1>11 DEF Made
<1> QED BY <1>12 DEF applied, more

(* A job is seen the same as long as its own cells stay. *)
LEMMA SeenKept ==
  ASSUME NEW job \in Jobs, NEW new, NEW cells, \A a \in Range(Parts(job)) : new[a] = cells[a]
  PROVE  /\ Seen(job, new) = Seen(job, cells)
         /\ \A chain, from : Made(job, cells, chain, from) => Made(job, new, chain, from)
<1>1. Seen(job, new) = Seen(job, cells)
  <2>1. [i \in DOMAIN job.commands |-> new[job.commands[i]]] =
          [i \in DOMAIN job.commands |-> cells[job.commands[i]]]
    BY PartsType
  <2>2. [i \in DOMAIN job.scrubbers |-> new[job.scrubbers[i]]] =
          [i \in DOMAIN job.scrubbers |-> cells[job.scrubbers[i]]]
    BY PartsType
  <2> QED BY <2>1, <2>2 DEF Seen
<1> QED BY <1>1 DEF Made

(* A deep copy is made of what its original is made of. *)
LEMMA MadeCopied ==
  ASSUME heap \in Seq(Cells), NEW job \in Jobs, NEW chain, NEW from, Made(job, heap, chain, from)
  PROVE  Made(DeepCopied(job), heap \o CopiedCells(job), chain, from)
<1>1. Seen(DeepCopied(job), heap \o CopiedCells(job)) = Seen(job, heap)
  BY CopiedSeen
<1>2. DeepCopied(job).kind = job.kind /\ DeepCopied(job).generic = Nothing
  BY DEF DeepCopied, Jobs, JobsAt
<1> QED BY <1>1, <1>2 DEF Made

(* A new job is made of nothing. *)
LEMMA MadeNew ==
  ASSUME NEW cells, NEW from
  PROVE  Made(NewJob, cells, <<>>, from)
<1>1. Agree(<<>>)
  BY DEF Agree
<1>2. NewJob.kind = "" /\ NewJob.generic = Nothing
  BY DEF NewJob
<1> DEFINE seen == Seen(NewJob, cells)
           none == Built(<<>>, from)
           zero == [x \in Files |-> 0]
<1>3. seen.kind = "" /\ seen.schedule = Nothing /\ seen.values = Unset
  BY ZenonT(30), SeenThrough DEF NewJob, Unset
<1>4. seen.commands = <<>> /\ seen.scrubbers = <<>>
  <2>1. Through(cells, <<>>) = <<>>
    BY DEF Through
  <2>2. NewJob.commands = <<>> /\ NewJob.scrubbers = <<>>
    BY DEF NewJob
  <2> HIDE DEF seen
  <2>3. seen.commands = Through(cells, NewJob.commands) /\ seen.scrubbers = Through(cells, NewJob.scrubbers)
    BY SeenThrough DEF seen
  <2> QED BY <2>1, <2>2, <2>3
<1>5. seen.files = zero
  <2>1. DOMAIN NewJob.files = {}
    BY DEF NewJob
  <2>2. \A x : {i \in DOMAIN NewJob.files : NewJob.files[i] = x} = {}
    BY <2>1
  <2>3. Cardinality({}) = 0
    BY FS_EmptySet
  <2>4. seen.files = [x \in Files |-> Cardinality({i \in DOMAIN NewJob.files : NewJob.files[i] = x})]
    BY DEF Seen
  <2> QED BY <2>2, <2>3, <2>4
<1>6. none.kind = "command" /\ none.schedule = Nothing /\ none.values = Unset
  <2>1. KindOf(<<>>) = "command"
    BY DEF KindOf
  <2>2. \A default : MostSpecific(<<>>, default) = default
    BY DEF MostSpecific
  <2>3. \A k \in Keys : ValueOf(<<>>, k) = Nothing
    BY <2>2 DEF ValueOf
  <2>4. none.values = [k \in Keys |-> ValueOf(<<>>, k)]
    BY DEF Built
  <2>5. none.schedule = Nothing
    BY <2>2 DEF Built
  <2> QED BY <2>1, <2>3, <2>4, <2>5, BuiltShape DEF Unset
<1>7. none.commands = <<>> /\ none.scrubbers = <<>> /\ none.files = zero
  <2>1. FlattenSeq(<<>>) = <<>>
    BY DEF FlattenSeq
  <2>2. none.scrubbers = FlattenSeq(Finals(Scrubbers(<<>>), <<>>, from))
    BY DEF Built, Finals, Scrubbers, NewScrubbers
  <2>3. none.commands = FlattenSeq(Finals(Commands(<<>>), <<>>, from)) \/ none.commands = <<>>
    BY DEF Built, Finals, Commands
  <2>4. Finals(Scrubbers(<<>>), <<>>, from) = <<>> /\ Finals(Commands(<<>>), <<>>, from) = <<>>
    BY DEF Finals, Scrubbers, Commands
  <2>5. none.files = zero
    <3>1. KindOf(<<>>) # "file"
      BY DEF KindOf
    <3> QED BY <3>1 DEF Built
  <2> QED BY <2>1, <2>2, <2>3, <2>4, <2>5
<1>8. /\ seen = [kind |-> seen.kind, schedule |-> seen.schedule, values |-> seen.values,
                 commands |-> seen.commands, scrubbers |-> seen.scrubbers, files |-> seen.files]
      /\ none = [kind |-> none.kind, schedule |-> none.schedule, values |-> none.values,
                 commands |-> none.commands, scrubbers |-> none.scrubbers, files |-> none.files]
  BY BuiltShape DEF Seen
<1> HIDE DEF seen, none
<1>9. seen = [none EXCEPT !.kind = ""]
  BY <1>3, <1>4, <1>5, <1>6, <1>7, <1>8
<1>10. seen = Seen(NewJob, cells) /\ none = Built(<<>>, from)
  BY DEF seen, none
<1> QED BY <1>1, <1>2, <1>9, <1>10 DEF Made

(* A job can be run: it has a schedule and something valid to do. *)
Sound(seen) ==
  /\ seen.schedule # Nothing
  /\ seen.kind = "command" =>
       seen.commands # <<>> /\ \A c \in Range(seen.commands) : ValidCommand(c)
  /\ seen.kind = "file" => /\ \E x \in Files : seen.files[x] # 0
                           /\ \A x \in BadFiles : seen.files[x] = 0
  /\ \A c \in Range(seen.scrubbers) : ValidScrubber(c)

(* Settings that agree agree when the last of them are left out. *)
LEMMA AgreePrefix ==
  ASSUME NEW some \in Seq(JobConfs), NEW all \in Seq(JobConfs), Len(some) <= Len(all),
         \A i \in 1 .. Len(some) : some[i] = all[i], Agree(all)
  PROVE  Agree(some)
<1>1. /\ DOMAIN some = 1 .. Len(some) /\ DOMAIN all = 1 .. Len(all)
      /\ Len(some) \in Nat /\ Len(all) \in Nat
      /\ (some # <<>> => Len(some) # 0) /\ (Len(all) # 0 => all # <<>>)
  OBVIOUS
<1>2. \A i \in 1 .. Len(some) : i \in 1 .. Len(all)
  BY <1>1
<1>3. CASE some = <<>>
  <2>1. DOMAIN some = {}
    BY <1>3
  <2> QED BY <1>3, <2>1 DEF Agree
<1>4. CASE some # <<>>
  <2>1. 1 \in 1 .. Len(some) /\ all # <<>>
    BY <1>1, <1>4
  <2>2. FirstType(some) = FirstType(all)
    BY <2>1 DEF FirstType
  <2> QED BY <1>1, <1>2, <2>1, <2>2 DEF Agree
<1> QED BY <1>3, <1>4

(* Settings that do not agree cannot be a job. *)
LEMMA DisagreeIsFaulty ==
  ASSUME NEW chain \in Seq(JobConfs), NEW from, ~ Agree(chain)
  PROVE  Faulty(chain, from)
<1>1. (\E i \in DOMAIN chain : chain[i].type \notin {"", FirstType(chain)} \/ chain[i].schedule = BadSchedule)
        \/ FirstType(chain) = "other"
  BY DEF Agree
<1>2. CASE FirstType(chain) = "other"
  BY <1>2 DEF Faulty, Inconsistent, FirstType
<1>3. ASSUME NEW i \in DOMAIN chain,
             chain[i].type \notin {"", FirstType(chain)} \/ chain[i].schedule = BadSchedule
      PROVE  Faulty(chain, from)
  BY <1>3 DEF Faulty, Inconsistent, FirstType
<1> QED BY <1>1, <1>2, <1>3

(* Whether a job can be run is whether anything in its settings is wrong. *)
LEMMA SoundIsRight ==
  ASSUME NEW chain \in Seq(JobConfs), chain # <<>>, NEW from, NEW job, NEW cells,
         Made(job, cells, chain, from), PlainValues(chain) \/ Len(chain) < from
  PROVE  Faulty(chain, from) <=> ~ Sound(Seen(job, cells))
<1> DEFINE d == Built(chain, from)
           seen == Seen(job, cells)
           first == FirstType(chain)
<1>1. /\ Agree(chain) /\ job.kind = KindOf(chain) /\ KindOf(chain) = first
      /\ seen = [d EXCEPT !.kind = job.kind]
  BY DEF Made
<1>2. d = [kind |-> d.kind, schedule |-> d.schedule, values |-> d.values, commands |-> d.commands,
           scrubbers |-> d.scrubbers, files |-> d.files] /\ d.kind = KindOf(chain)
  BY BuiltShape
<1>3. /\ d.kind # "command" => d.commands = <<>>
      /\ d.kind # "file" => \A x \in Files : d.files[x] = 0
  BY DEF Built
<1>4. Faulty(chain, from) <=>
        \/ \E i \in DOMAIN chain : chain[i].type \notin {"", first} \/ chain[i].schedule = BadSchedule
        \/ first = "other"
        \/ d.schedule = Nothing
        \/ first = "command" /\ d.commands = <<>>
        \/ first = "file" /\ \A x \in Files : d.files[x] = 0
        \/ \E x \in BadFiles : d.files[x] # 0
        \/ \E c \in Range(d.commands) : ~ ValidCommand(c)
        \/ \E c \in Range(d.scrubbers) : ~ ValidScrubber(c)
  <2>1. Inconsistent(chain) <=>
          \/ first = "other"
          \/ \E i \in DOMAIN chain :
               chain[i].type \notin {"", first} \/ chain[i].schedule = BadSchedule
    BY DEF Inconsistent, FirstType
  <2>2. d.kind = first
    BY <1>1, <1>2
  <2> HIDE DEF first
  <2>3. Unsound(d) <=>
          \/ d.schedule = Nothing
          \/ first = "command" /\ d.commands = <<>>
          \/ first = "file" /\ \A x \in Files : d.files[x] = 0
          \/ \E x \in BadFiles : d.files[x] # 0
          \/ \E c \in Range(d.commands) : ~ ValidCommand(c)
          \/ \E c \in Range(d.scrubbers) : ~ ValidScrubber(c)
    BY <2>2 DEF Unsound
  <2>4. Faulty(chain, from) <=> Inconsistent(chain) \/ Unsound(d)
    BY DEF Faulty
  <2> HIDE DEF d
  <2> QED BY <2>1, <2>3, <2>4
<1>5. /\ \A i \in DOMAIN chain : chain[i].type \in {"", first} /\ chain[i].schedule # BadSchedule
      /\ first # "other"
  BY <1>1 DEF Agree
<1> HIDE DEF d, seen, first
<1>6. seen = d
  BY <1>1, <1>2
<1>7. first # "command" => Range(d.commands) = {}
  <2>1. Range(<<>>) = {}
    BY DEF Range
  <2> QED BY <1>1, <1>2, <1>3, <2>1
<1>8. Sound(d) <=>
        /\ d.schedule # Nothing
        /\ first = "command" => d.commands # <<>> /\ \A c \in Range(d.commands) : ValidCommand(c)
        /\ first = "file" => /\ \E x \in Files : d.files[x] # 0
                             /\ \A x \in BadFiles : d.files[x] = 0
        /\ \A c \in Range(d.scrubbers) : ValidScrubber(c)
  BY <1>1, <1>2 DEF Sound
<1>10. first # "file" => \A x \in BadFiles : d.files[x] = 0
  BY <1>1, <1>2, <1>3, JobConfigAssumption
<1>9. Faulty(chain, from) <=> ~ Sound(d)
  BY <1>4, <1>5, <1>7, <1>8, <1>10
<1> QED BY <1>6, <1>9 DEF seen

(* Job.Validate sees what is seen. *)
LEMMA ValidIsSound ==
  ASSUME NEW job \in Jobs
  PROVE  Valid(job) <=> Sound(Seen(job, heap))
<1> DEFINE seen == Seen(job, heap)
<1>1. job.commands \in Seq(Addresses) /\ job.files \in Seq(Files)
  BY DEF Jobs, JobsAt
<1>2. /\ seen.kind = job.kind /\ seen.schedule = job.schedule
      /\ seen.commands = Through(heap, job.commands)
      /\ seen.scrubbers = Through(heap, job.scrubbers)
      /\ \A x \in Files : seen.files[x] = Cardinality({i \in DOMAIN job.files : job.files[i] = x})
  BY SeenThrough
<1> HIDE DEF seen
<1>3. seen.commands # <<>> <=> job.commands # <<>>
  <2>1. DOMAIN seen.commands = DOMAIN job.commands
    BY <1>2 DEF Through
  <2>2. DOMAIN <<>> = {}
    OBVIOUS
  <2>3. job.commands # <<>> => DOMAIN job.commands # {}
    <3>1. ASSUME NEW q \in Seq(Addresses), q # <<>>
          PROVE  1 \in DOMAIN q
      BY <3>1
    <3> QED BY <1>1, <3>1
  <2>4. job.commands = <<>> => seen.commands = <<>>
    BY <1>2 DEF Through
  <2> QED BY <2>1, <2>2, <2>3, <2>4
<1>4. (\A c \in Range(seen.commands) : ValidCommand(c)) <=>
        \A a \in Range(job.commands) : ValidCommand(heap[a])
  <2>1. Range(seen.commands) = {heap[a] : a \in Range(job.commands)}
    BY <1>2 DEF Through, Range
  <2> QED BY <2>1
<1>5. (\E x \in Files : seen.files[x] # 0) <=> job.files # <<>>
  <2>1. CASE job.files = <<>>
    <3>1. \A x : {i \in DOMAIN job.files : job.files[i] = x} = {}
      BY <2>1
    <3>2. Cardinality({}) = 0
      BY FS_EmptySet
    <3> QED BY <1>2, <2>1, <3>1, <3>2
  <2>2. CASE job.files # <<>>
    <3> DEFINE x == job.files[1]
               at == {i \in DOMAIN job.files : job.files[i] = x}
    <3>1. Len(job.files) \in Nat /\ DOMAIN job.files = 1 .. Len(job.files) /\ Len(job.files) # 0
      BY <1>1, <2>2
    <3>2. x \in Files /\ 1 \in at /\ at \subseteq 1 .. Len(job.files)
      BY <1>1, <3>1
    <3>3. seen.files[x] = Cardinality(at)
      BY <1>2, <3>2
    <3> HIDE DEF at
    <3>4. IsFiniteSet(at)
      <4>1. IsFiniteSet(1 .. Len(job.files))
        BY <3>1, FS_Interval
      <4> QED BY <3>2, <4>1, FS_Subset
    <3>5. Cardinality(at) # 0
      BY <3>2, <3>4, FS_EmptySet
    <3> QED BY <2>2, <3>2, <3>3, <3>5
  <2> QED BY <2>1, <2>2
<1>6. (\A c \in Range(seen.scrubbers) : ValidScrubber(c)) <=>
        \A a \in Range(job.scrubbers) : ValidScrubber(heap[a])
  <2>1. Range(seen.scrubbers) = {heap[a] : a \in Range(job.scrubbers)}
    BY <1>2 DEF Through, Range
  <2> QED BY <2>1
<1>7. (\A x \in BadFiles : seen.files[x] = 0) <=> Range(job.files) \cap BadFiles = {}
  <2>1. ASSUME NEW x \in BadFiles
        PROVE  seen.files[x] = 0 <=> x \notin Range(job.files)
    <3> DEFINE at == {i \in DOMAIN job.files : job.files[i] = x}
    <3>1. Len(job.files) \in Nat /\ DOMAIN job.files = 1 .. Len(job.files)
      BY <1>1
    <3>2. seen.files[x] = Cardinality(at)
      BY <1>2, JobConfigAssumption
    <3>3. x \in Range(job.files) <=> at # {}
      BY DEF Range
    <3>4. IsFiniteSet(at)
      <4>1. IsFiniteSet(1 .. Len(job.files)) /\ at \subseteq 1 .. Len(job.files)
        BY <3>1, FS_Interval
      <4> HIDE DEF at
      <4> QED BY <4>1, FS_Subset
    <3> HIDE DEF at
    <3> QED BY <3>2, <3>3, <3>4, FS_EmptySet
  <2> QED BY <2>1
<1> QED BY <1>2, <1>3, <1>4, <1>5, <1>6, <1>7 DEF Valid, Sound, seen

-----------------------------------------------------------------------------
(* The layers of a job and of a device.                                       *)

(* Nothing is missing. *)
LEMMA GivenAll ==
  ASSUME NEW S, NEW list \in Seq(S \ {Nothing})
  PROVE  Given(list) = list
<1> DEFINE R == S \ {Nothing}
           T == {q \in Seq(R) : Given(q) = q}
<1>1. ASSUME NEW q \in Seq(R), NEW x \in R
      PROVE  Given(<<>>) = <<>> /\ Given(Append(q, x)) = Append(Given(q), x)
  <2>1. q \in Seq(R \cup {Nothing}) /\ x \in R \cup {Nothing} /\ x # Nothing
    <3>1. \A Q : Q \subseteq Q \cup {Nothing}
      OBVIOUS
    <3>2. x \in R \cup {Nothing} /\ x # Nothing
      OBVIOUS
    <3> HIDE DEF R
    <3>3. q \in Seq(R \cup {Nothing})
      BY <3>1
    <3> QED BY <3>2, <3>3
  <2> HIDE DEF R
  <2> QED BY <2>1, GivenAppend
<1> HIDE DEF R
<1>2. <<>> \in T
  <2>1. Given(<<>>) = <<>>
    BY DEF Given, FlattenSeq
  <2> QED BY <2>1
<1>3. ASSUME NEW q \in Seq(R), NEW x \in R, q \in T
      PROVE  Append(q, x) \in T
  <2>1. Append(q, x) \in Seq(R)
    BY AppendProperties
  <2>2. Given(q) = q
    BY <1>3
  <2> QED BY <1>1, <2>1, <2>2
<1> HIDE DEF T
<1>4. Seq(R) \subseteq T
  BY <1>2, <1>3, AppendInduction
<1>5. list \in T
  BY <1>4 DEF R
<1> QED BY <1>5 DEF T

(* The settings that the job store has for a job. *)
LEMMA FromStoreIs ==
  ASSUME conf \in Configurations, NEW n \in Names
  PROVE  /\ FromStore(n) \in Seq(JobConfs)
         /\ n \notin Listed(conf.jobs) => FromStore(n) = <<>>
         /\ n \in Listed(conf.jobs) /\ ~ GenericIsMissing(JobLayers(n)) => FromStore(n) = JobLayers(n)
<1>1. CASE n \notin Listed(conf.jobs)
  <2>1. FromStore(n) = <<>>
    BY <1>1 DEF FromStore, Listed
  <2>2. <<>> \in Seq(JobConfs)
    OBVIOUS
  <2> QED BY <1>1, <2>1, <2>2
<1>2. CASE n \in Listed(conf.jobs)
  <2> DEFINE layers == JobLayers(n)
             own == conf.jobs[n]
  <2>1. FromStore(n) = Given(layers)
    BY <1>2 DEF FromStore, Listed
  <2>2. layers \in Seq(JobConfs \cup {Nothing}) /\ layers # <<>>
    BY <1>2, JobLayersType
  <2>3. Given(layers) \in Seq(JobConfs)
    <3>1. \A q \in Seq(JobConfs \ {Nothing}) : q \in Seq(JobConfs)
      OBVIOUS
    <3>2. Nothing \in JobConfs \cup {Nothing}
      OBVIOUS
    <3> HIDE DEF layers
    <3>3. Given(layers) \in Seq(JobConfs \ {Nothing})
      BY <2>2, <3>2, GivenAppend
    <3> QED BY <3>1, <3>3
  <2>4. ASSUME ~ GenericIsMissing(layers)
        PROVE  Given(layers) = layers
    <3>1. own \in JobConfs \ {Nothing}
      BY <1>2 DEF Configurations, Maps, Listed
    <3>2. layers = <<own>> \/ \E x \in JobConfs \cup {Nothing} : layers = <<x, own>>
      <4>1. /\ conf.job_generics \in [Names -> JobConfs \cup {Nothing}]
            /\ conf.jobs \in [Names -> JobConfs \cup {Nothing}]
            /\ Default \in Names /\ own.generic \in Names \cup {Nothing}
        BY <3>1, ConstantsAssumption DEF Configurations, Maps, JobConfs
      <4> HIDE DEF own
      <4> QED BY <4>1 DEF JobLayers, own
    <3> HIDE DEF own, layers
    <3>3. CASE layers = <<own>>
      <4>1. layers \in Seq(JobConfs \ {Nothing})
        BY <3>1, <3>3
      <4> QED BY <4>1, GivenAll
    <3>4. ASSUME NEW x \in JobConfs \cup {Nothing}, layers = <<x, own>>
          PROVE  Given(layers) = layers
      <4>1. x # Nothing
        BY <2>4, <3>4 DEF GenericIsMissing
      <4>2. layers \in Seq(JobConfs \ {Nothing})
        BY <3>1, <3>4, <4>1
      <4> QED BY <4>2, GivenAll
    <3> QED BY <3>2, <3>3, <3>4
  <2> QED BY <1>2, <2>1, <2>3, <2>4
<1> QED BY <1>1, <1>2

Configured == DeviceConfs \ {Nothing}

Protocols(layers) == [i \in DOMAIN layers |-> layers[i].protocol]
UsersOf(layers) == [i \in DOMAIN layers |-> layers[i].user]
JobsOf(layers, n) == [i \in DOMAIN layers |-> layers[i].jobs[n]]

(* What the job store and some layers of a device say of a job. *)
ChainOf(n, layers) == FromStore(n) \o Given(JobsOf(layers, n))

(* A device of some layers, but for its jobs. *)
DeviceOf(device, layers) ==
  /\ \A i \in DOMAIN layers : layers[i].protocol # [port |-> Nothing]
  /\ device.port = MostSpecific(Protocols(layers), [port |-> 22]).port
  /\ device.user = MostSpecific(UsersOf(layers), Nothing)

(* The settings of a device. *)
LEMMA LayerType ==
  ASSUME NEW layer \in Configured, NEW n \in Names
  PROVE  /\ layer.jobs[n] \in JobConfs \cup {Nothing}
         /\ layer.user \in Users \cup {Nothing}
         /\ layer.protocol \in [port : Nat \cup {Nothing}] \cup {Nothing}
  BY DEF Configured, DeviceConfs, Maps

(* One more layer of a device adds its settings to the chain of each job. *)
LEMMA ChainAppend ==
  ASSUME conf \in Configurations, NEW n \in Names, NEW layers \in Seq(Configured),
         NEW layer \in Configured
  PROVE  LET settings == layer.jobs[n] IN
         /\ ChainOf(n, layers) \in Seq(JobConfs)
         /\ Len(FromStore(n)) \in Nat /\ Len(ChainOf(n, layers)) >= Len(FromStore(n))
         /\ ChainOf(n, <<>>) = FromStore(n)
         /\ settings = Nothing => ChainOf(n, Append(layers, layer)) = ChainOf(n, layers)
         /\ settings # Nothing =>
              ChainOf(n, Append(layers, layer)) = Append(ChainOf(n, layers), settings)
<1> DEFINE f == [x \in Configured |-> x.jobs[n]]
           R == JobConfs \cup {Nothing}
           settings == layer.jobs[n]
           q == Through(f, layers)
           more == Append(layers, layer)
<1>1. \A x \in Configured : f[x] \in R /\ f[x] = x.jobs[n]
  BY LayerType
<1>2. ASSUME NEW s \in Seq(Configured)
      PROVE  JobsOf(s, n) = Through(f, s)
  <2>1. \A i \in DOMAIN s : s[i] \in Configured
    OBVIOUS
  <2> QED BY <1>1, <2>1 DEF JobsOf, Through
<1> HIDE DEF f, R
<1>3. more \in Seq(Configured) /\ Through(f, more) = Append(q, f[layer])
  <2>1. more \in Seq(Configured)
    BY AppendProperties
  <2> QED BY <2>1, ThroughAppend
<1>4. q \in Seq(R)
  BY <1>1, ThroughType
<1> HIDE DEF q, more
<1>5. /\ Given(<<>>) = <<>> /\ Given(q) \in Seq(JobConfs)
      /\ Given(Append(q, f[layer])) = IF f[layer] = Nothing THEN Given(q) ELSE Append(Given(q), f[layer])
  <2>1. f[layer] \in JobConfs \cup {Nothing} /\ q \in Seq(JobConfs \cup {Nothing})
    BY <1>1, <1>4 DEF R
  <2>2. \A s \in Seq(JobConfs \ {Nothing}) : s \in Seq(JobConfs)
    OBVIOUS
  <2>3. Given(q) \in Seq(JobConfs \ {Nothing})
    BY <2>1, GivenAppend
  <2>4. Given(<<>>) = <<>>
    BY <2>1, GivenAppend
  <2>5. Given(Append(q, f[layer])) = IF f[layer] = Nothing THEN Given(q) ELSE Append(Given(q), f[layer])
    BY <2>1, GivenAppend
  <2> QED BY <2>2, <2>3, <2>4, <2>5
<1>6. FromStore(n) \in Seq(JobConfs)
  BY FromStoreIs
<1>7. ChainOf(n, <<>>) = FromStore(n)
  <2>1. JobsOf(<<>>, n) = <<>>
    BY DEF JobsOf
  <2> QED BY <1>5, <1>6, <2>1 DEF ChainOf
<1>8. /\ ChainOf(n, layers) = FromStore(n) \o Given(q)
      /\ ChainOf(n, more) = FromStore(n) \o Given(Append(q, f[layer]))
  BY <1>2, <1>3 DEF ChainOf, q
<1>9. ASSUME NEW one \in Seq(JobConfs), NEW two \in Seq(JobConfs), NEW x \in JobConfs
      PROVE  one \o two \in Seq(JobConfs) /\ one \o Append(two, x) = Append(one \o two, x)
  OBVIOUS
<1>11. ASSUME NEW one \in Seq(JobConfs), NEW two \in Seq(JobConfs)
       PROVE  Len(one) \in Nat /\ Len(one \o two) >= Len(one)
  OBVIOUS
<1>10. settings = f[layer] /\ (settings # Nothing => settings \in JobConfs)
  BY <1>1 DEF R
<1> QED BY <1>5, <1>6, <1>7, <1>8, <1>9, <1>10, <1>11 DEF more

(* What a device is with one more layer. *)
LEMMA DeviceAppend ==
  ASSUME NEW device, NEW layers \in Seq(Configured), NEW layer \in Configured, NEW new,
         DeviceOf(device, layers),
         ~ (layer.protocol # Nothing /\ layer.protocol.port = Nothing),
         new.port = IF layer.protocol = Nothing THEN device.port ELSE layer.protocol.port,
         new.user = Over(layer.user, device.user)
  PROVE  DeviceOf(new, Append(layers, layer))
<1> DEFINE f == [x \in Configured |-> x.protocol]
           g == [x \in Configured |-> x.user]
           more == Append(layers, layer)
<1>1. ASSUME NEW s \in Seq(Configured)
      PROVE  Protocols(s) = Through(f, s) /\ UsersOf(s) = Through(g, s)
  <2>1. \A i \in DOMAIN s : s[i] \in Configured
    OBVIOUS
  <2> QED BY <2>1 DEF Protocols, UsersOf, Through
<1>2. f[layer] = layer.protocol /\ g[layer] = layer.user
  OBVIOUS
<1> HIDE DEF f, g
<1>3. more \in Seq(Configured)
  BY AppendProperties
<1>4. MostSpecific(Through(f, more), [port |-> 22]) =
        Over(f[layer], MostSpecific(Through(f, layers), [port |-> 22]))
  BY MostSpecificThrough
<1>5. MostSpecific(Through(g, more), Nothing) = Over(g[layer], MostSpecific(Through(g, layers), Nothing))
  BY MostSpecificThrough
<1>6. new.port = MostSpecific(Protocols(more), [port |-> 22]).port
  BY <1>1, <1>2, <1>3, <1>4 DEF DeviceOf, Over
<1>7. new.user = MostSpecific(UsersOf(more), Nothing)
  BY <1>1, <1>2, <1>3, <1>5 DEF DeviceOf
<1>8. layer.protocol # [port |-> Nothing]
  BY NothingAssumption
<1>9. \A i \in DOMAIN more : more[i].protocol # [port |-> Nothing]
  <2>1. \A i \in DOMAIN more : more[i] = layer \/ \E j \in DOMAIN layers : more[i] = layers[j]
    OBVIOUS
  <2> HIDE DEF more
  <2> QED BY <1>8, <2>1 DEF DeviceOf
<1> QED BY <1>6, <1>7, <1>9 DEF DeviceOf

(* A new device is made of no layer. *)
LEMMA DeviceNew ==
  ASSUME NEW device, device.port = 22, device.user = Nothing
  PROVE  DeviceOf(device, <<>>)
<1>1. \A default : MostSpecific(<<>>, default) = default
  BY DEF MostSpecific
<1>2. Protocols(<<>>) = <<>> /\ UsersOf(<<>>) = <<>>
  BY DEF Protocols, UsersOf
<1>3. [port |-> 22].port = 22
  OBVIOUS
<1> QED BY <1>1, <1>2, <1>3 DEF DeviceOf

(* All layers of a device. *)
LEMMA DeviceLayersGiven ==
  ASSUME conf \in Configurations, NEW d \in Listed(conf.devices), ~ GenericIsMissing(DeviceLayers(d))
  PROVE  /\ DeviceLayers(d) \in Seq(Configured) /\ DeviceLayers(d) # <<>>
         /\ \A n \in Names : Chain(d, n) = ChainOf(n, DeviceLayers(d))
<1> DEFINE layers == DeviceLayers(d)
<1>1. layers \in Seq(DeviceConfs \ {Nothing}) /\ layers # <<>>
  BY DeviceLayersType
<1> HIDE DEF layers
<1>2. Given(layers) = layers
  BY <1>1, GivenAll
<1>3. \A n \in Names : Chain(d, n) = ChainOf(n, layers)
  <2>1. \A n : FromDevice(d, n) = LET list == Given(layers) IN Given([i \in DOMAIN list |-> list[i].jobs[n]])
    BY DEF FromDevice, layers
  <2> QED BY <1>2, <2>1 DEF Chain, ChainOf, JobsOf
<1> QED BY <1>1, <1>3 DEF layers, Configured

(* What some layers say is a beginning of what all of them say. *)
LEMMA ChainGrows ==
  ASSUME conf \in Configurations, NEW n \in Names, NEW all \in Seq(Configured), NEW m \in 0 .. Len(all)
  PROVE  LET some == ChainOf(n, SubSeq(all, 1, m))
             whole == ChainOf(n, all) IN
         /\ some \in Seq(JobConfs) /\ whole \in Seq(JobConfs)
         /\ Len(some) <= Len(whole)
         /\ \A i \in 1 .. Len(some) : some[i] = whole[i]
         /\ Agree(whole) => Agree(some)
<1> DEFINE up(k) == ChainOf(n, SubSeq(all, 1, k))
           whole == ChainOf(n, all)
           Begins(s, t) == Len(s) <= Len(t) /\ \A i \in 1 .. Len(s) : s[i] = t[i]
           S == {k \in Nat : k <= Len(all) - m => Begins(up(m), up(m + k))}
<1>1. Len(all) \in Nat /\ m \in Nat /\ m <= Len(all)
  OBVIOUS
<1>2. ASSUME NEW k \in 0 .. Len(all)
      PROVE  up(k) \in Seq(JobConfs)
  <2>1. SubSeq(all, 1, k) \in Seq(Configured)
    BY PrefixFacts
  <2>2. ASSUME NEW layer \in Configured
        PROVE  up(k) \in Seq(JobConfs)
    BY <2>1, ChainAppend
  <2>3. CASE k = 0
    <3>1. SubSeq(all, 1, 0) = <<>>
      BY PrefixFacts
    <3>2. JobsOf(<<>>, n) = <<>> /\ Given(<<>>) = <<>>
      BY DEF JobsOf, Given, FlattenSeq
    <3>3. FromStore(n) \in Seq(JobConfs)
      BY FromStoreIs
    <3>4. FromStore(n) \o <<>> = FromStore(n)
      BY <3>3
    <3> QED BY <2>3, <3>1, <3>2, <3>3, <3>4 DEF ChainOf
  <2>4. CASE k # 0
    <3>1. all[1] \in Configured
      BY <1>1, <2>4
    <3> QED BY <2>2, <3>1
  <2> QED BY <2>3, <2>4
<1>3. ASSUME NEW k \in 0 .. (Len(all) - 1)
      PROVE  up(k + 1) = up(k) \/ \E x \in JobConfs : up(k + 1) = Append(up(k), x)
  <2>1. /\ all[k + 1] \in Configured /\ SubSeq(all, 1, k) \in Seq(Configured)
        /\ SubSeq(all, 1, k + 1) = Append(SubSeq(all, 1, k), all[k + 1])
    <3>1. k \in 0 .. Len(all)
      BY <1>1
    <3> QED BY <3>1, PrefixFacts
  <2> DEFINE s == SubSeq(all, 1, k)
             layer == all[k + 1]
  <2> HIDE DEF s, layer
  <2>2. s \in Seq(Configured) /\ layer \in Configured
    BY <2>1 DEF s, layer
  <2>3. /\ layer.jobs[n] = Nothing => ChainOf(n, Append(s, layer)) = ChainOf(n, s)
        /\ layer.jobs[n] # Nothing => ChainOf(n, Append(s, layer)) = Append(ChainOf(n, s), layer.jobs[n])
    BY <2>2, ChainAppend
  <2>4. layer.jobs[n] \in JobConfs \cup {Nothing}
    BY <2>2, LayerType
  <2> QED BY <2>1, <2>3, <2>4 DEF s, layer
<1> HIDE DEF up
<1>4. 0 \in S
  BY <1>1
<1>5. ASSUME NEW k \in Nat, k \in S
      PROVE  k + 1 \in S
  <2> SUFFICES ASSUME k + 1 <= Len(all) - m
               PROVE  Begins(up(m), up(m + (k + 1)))
    OBVIOUS
  <2>1. m + k \in 0 .. (Len(all) - 1) /\ m + k \in 0 .. Len(all) /\ m + (k + 1) = (m + k) + 1
    BY <1>1
  <2>2. Begins(up(m), up(m + k)) /\ up(m) \in Seq(JobConfs) /\ up(m + k) \in Seq(JobConfs)
    BY <1>1, <1>2, <1>5, <2>1
  <2>3. ASSUME NEW s \in Seq(JobConfs), NEW t \in Seq(JobConfs), NEW x \in JobConfs, Begins(s, t)
        PROVE  Begins(s, Append(t, x))
    <3>1. /\ Len(Append(t, x)) = Len(t) + 1 /\ Len(t) \in Nat /\ Len(s) \in Nat
          /\ \A i \in 1 .. Len(t) : Append(t, x)[i] = t[i]
      OBVIOUS
    <3>2. \A i \in 1 .. Len(s) : i \in 1 .. Len(t)
      BY <2>3, <3>1
    <3> QED BY <2>3, <3>1, <3>2
  <2> HIDE DEF Begins
  <2>4. up((m + k) + 1) = up(m + k) \/ \E x \in JobConfs : up((m + k) + 1) = Append(up(m + k), x)
    BY <1>3, <2>1
  <2> QED BY <2>1, <2>2, <2>3, <2>4
<1> HIDE DEF S
<1>6. Nat \subseteq S
  BY <1>4, <1>5, SetInduction
<1>7. Begins(up(m), up(Len(all)))
  <2>1. Len(all) - m \in Nat /\ m + (Len(all) - m) = Len(all)
    BY <1>1
  <2>2. Begins(up(m), up(m + (Len(all) - m)))
    BY <1>6, <2>1 DEF S
  <2> QED BY <2>1, <2>2
<1>8. up(Len(all)) = whole
  <2>1. SubSeq(all, 1, Len(all)) = all
    BY PrefixFacts
  <2> QED BY <2>1 DEF up
<1>9. up(m) \in Seq(JobConfs) /\ whole \in Seq(JobConfs)
  BY <1>1, <1>2, <1>8
<1> HIDE DEF whole
<1>10. Agree(whole) => Agree(up(m))
  BY <1>7, <1>8, <1>9, AgreePrefix
<1> QED BY <1>7, <1>8, <1>9, <1>10 DEF up, whole

-----------------------------------------------------------------------------
(* The second inductive invariant: what has been made, of which settings.     *)

(* A job of the job store is made of its layers, and can be run. *)
JobMade(n) ==
  /\ n \in Listed(conf.jobs) /\ ~ GenericIsMissing(JobLayers(n))
  /\ Made(jobs[n], heap, JobLayers(n), 1 + Len(JobLayers(n)))
  /\ Sound(Seen(jobs[n], heap))

JobsMade == \A n \in Listed(jobs) : JobMade(n)

(* The job that newLocalJobStore visits is made of the layers that are done. *)
JobBeingMade ==
  phase = "jobs" /\ cur.stage = "layer" =>
    LET all == JobLayers(cur.name) IN
    /\ cur.name \in Listed(conf.jobs) /\ ~ GenericIsMissing(all)
    /\ IsRest(cur.layers, all)
    /\ Made(cur.job, heap, SubSeq(all, 1, Done(cur.layers, all)), 1 + Len(all))

(* Unless there was an error, every job is stored or still to be. *)
NoJobDropped ==
  /\ phase = "jobs" /\ ~ errs =>
       Listed(conf.jobs) \subseteq
         Listed(jobs) \cup todo \cup (IF cur.stage = "idle" THEN {} ELSE {cur.name})
  /\ phase \notin {"jobs", "failed"} => Listed(conf.jobs) \subseteq Listed(jobs)

(* The same of the device that newLocalDeviceStore visits and of its jobs:    *)
(* those that are due have yet to get the settings of the present layer.  No  *)
(* two of them point to the same cell.                                        *)
Reached ==
  Done(cur.layers, DeviceLayers(cur.name)) + (IF cur.stage = "jobs" THEN 1 ELSE 0)

ReachedFor(n) ==
  Done(cur.layers, DeviceLayers(cur.name)) +
    (IF cur.stage = "jobs" /\ n \notin cur.due THEN 1 ELSE 0)

JobUpTo(n, m) ==
  Made(cur.device.jobs[n], heap, ChainOf(n, SubSeq(DeviceLayers(cur.name), 1, m)),
       1 + Len(FromStore(n)))

Apart(device) ==
  \A n, m \in Listed(device.jobs) :
    n # m => Range(Parts(device.jobs[n])) \cap Range(Parts(device.jobs[m])) = {}

DeviceBeingMade ==
  phase = "devices" /\ cur.stage # "idle" =>
    LET all == DeviceLayers(cur.name) IN
    /\ IsRest(cur.layers, all)
    /\ cur.stage # "copy" => ~ GenericIsMissing(all)
    /\ DeviceOf(cur.device, SubSeq(all, 1, Reached))
    /\ \A n \in Listed(cur.device.jobs) : JobUpTo(n, ReachedFor(n))
    /\ Apart(cur.device)

(* A device of the device store is made of its layers, and its jobs can be run. *)
DeviceMade(d) ==
  /\ ~ GenericIsMissing(DeviceLayers(d))
  /\ DeviceOf(devices[d], DeviceLayers(d))
  /\ \A n \in Listed(devices[d].jobs) :
       /\ Made(devices[d].jobs[n], heap, Chain(d, n), 1 + Len(FromStore(n)))
       /\ Sound(Seen(devices[d].jobs[n], heap))

DevicesMade == \A d \in Listed(devices) : DeviceMade(d)

(* Values that contain template variables are left aside. *)
AllPlain ==
  \A d \in Listed(conf.devices) : \A n \in Listed(conf.devices[d].jobs) : PlainValues(Chain(d, n))

ErrorsAreRight == AllPlain /\ errs => ConfigIsFaulty

Makes ==
  JobsMade /\ JobBeingMade /\ NoJobDropped /\ DeviceBeingMade /\ DevicesMade /\ ErrorsAreRight

(* The configuration stays, and all that is said of it. *)
LEMMA ConfKept ==
  ASSUME conf' = conf
  PROVE  /\ \A n : JobLayers(n)' = JobLayers(n) /\ DeviceLayers(n)' = DeviceLayers(n)
         /\ \A n : FromStore(n)' = FromStore(n)
         /\ \A n, layers : ChainOf(n, layers)' = ChainOf(n, layers)
         /\ \A d, n : Chain(d, n)' = Chain(d, n)
         /\ AllPlain' <=> AllPlain
         /\ ConfigIsFaulty' <=> ConfigIsFaulty
<1>1. \A n : JobLayers(n)' = JobLayers(n)
  BY DEF JobLayers
<1>2. \A n : DeviceLayers(n)' = DeviceLayers(n)
  BY DEF DeviceLayers
<1>3. \A n, d : Chain(d, n)' = Chain(d, n)
  BY DEF Chain, FromStore, FromDevice, JobLayers, DeviceLayers
<1>4. \A n : FromStore(n)' = FromStore(n)
  BY DEF FromStore, JobLayers
<1>5. \A n, layers : ChainOf(n, layers)' = ChainOf(n, layers)
  BY <1>4 DEF ChainOf
<1>6. AllPlain' <=> AllPlain
  BY <1>3 DEF AllPlain, Listed
<1>7. ConfigIsFaulty' <=> ConfigIsFaulty
  BY <1>1, <1>2, <1>3, <1>4 DEF ConfigIsFaulty, Listed
<1> QED BY <1>1, <1>2, <1>3, <1>4, <1>5, <1>6, <1>7

(* No step changes the configuration. *)
LEMMA ConfStays ==
  ASSUME [Next]_vars
  PROVE  conf' = conf
<1>1. \A n \in Names :
        BeginJob(n) \/ BeginDevice(n) \/ CopyJob(n) \/ BeginLists(n) \/ AddDeviceJob(n) => conf' = conf
  BY DEF BeginJob, Skip, BeginDevice, CopyJob, BeginLists, AddDeviceJob
<1>2. \A n \in Names : ApplyDeviceJob(n) => conf' = conf
  BY DEF ApplyDeviceJob, Skip
<1>3. ApplyJobLayer \/ StoreJob \/ JobStoreDone \/ JobsCopied \/ ApplyDeviceLayer => conf' = conf
  BY DEF ApplyJobLayer, StoreJob, JobStoreDone, JobsCopied, ApplyDeviceLayer, Skip
<1>4. DeviceLayerDone \/ StoreDevice \/ DeviceStoreDone => conf' = conf
  BY DEF DeviceLayerDone, StoreDevice, DeviceStoreDone, Skip
<1>5. OpenDataStore \/ DeviceAdded \/ Started \/ Returned \/ UNCHANGED vars => conf' = conf
  BY DEF OpenDataStore, DeviceAdded, Started, Returned, vars
<1> QED BY <1>1, <1>2, <1>3, <1>4, <1>5 DEF Next

(* What a store has stays made of its layers. *)
LEMMA StoredStay ==
  ASSUME IInv, [Next]_vars, JobsMade, DevicesMade
  PROVE  /\ \A n \in Listed(jobs) : JobMade(n)'
         /\ \A d \in Listed(devices) : DeviceMade(d)'
<1>1. conf' = conf
  BY ConfStays
<1>2. TypeOK
  BY DEF IInv
<1>3. ASSUME NEW n \in Listed(jobs)
      PROVE  JobMade(n)'
  <2>1. jobs'[n] = jobs[n] /\ jobs[n] \in Jobs
    BY <1>2, EntriesAreKept DEF TypeOK, Maps, Listed
  <2>2. \A ad \in Range(Parts(jobs[n])) : heap'[ad] = heap[ad]
    <3>1. \A ad \in Range(Parts(jobs[n])) : IsStored(ad)
      BY DEF IsStored
    <3> QED BY <3>1, HeapIsKept
  <2>3. /\ Seen(jobs[n], heap') = Seen(jobs[n], heap)
        /\ \A chain, from : Made(jobs[n], heap, chain, from) => Made(jobs[n], heap', chain, from)
    BY <2>1, <2>2, SeenKept
  <2>4. JobMade(n)
    BY DEF JobsMade
  <2>5. JobLayers(n)' = JobLayers(n) /\ Listed(conf.jobs)' = Listed(conf.jobs)
    BY <1>1, ConfKept
  <2> QED BY <2>1, <2>3, <2>4, <2>5 DEF JobMade
<1>4. ASSUME NEW d \in Listed(devices)
      PROVE  DeviceMade(d)'
  <2>1. devices'[d] = devices[d] /\ devices[d] \in Devices
    BY <1>2, EntriesAreKept DEF TypeOK, Maps, Listed
  <2>2. DeviceMade(d)
    BY DEF DevicesMade
  <2>3. ASSUME NEW n \in Listed(devices[d].jobs)
        PROVE  /\ Made(devices[d].jobs[n], heap', Chain(d, n), 1 + Len(FromStore(n)))
               /\ Sound(Seen(devices[d].jobs[n], heap'))
    <3> DEFINE job == devices[d].jobs[n]
    <3>1. job \in Jobs
      BY <2>1 DEF Devices, DevicesAt, Maps, Listed, Jobs
    <3>2. \A ad \in Range(Parts(job)) : heap'[ad] = heap[ad]
      <4>1. \A ad \in Range(Parts(job)) : IsStored(ad)
        BY DEF IsStored
      <4> QED BY <4>1, HeapIsKept
    <3> HIDE DEF job
    <3>3. /\ Seen(job, heap') = Seen(job, heap)
          /\ \A chain, from : Made(job, heap, chain, from) => Made(job, heap', chain, from)
      BY <3>1, <3>2, SeenKept
    <3> QED BY <2>2, <3>3 DEF DeviceMade, job
  <2>4. /\ \A n : Chain(d, n)' = Chain(d, n) /\ FromStore(n)' = FromStore(n)
        /\ DeviceLayers(d)' = DeviceLayers(d)
    BY <1>1, ConfKept
  <2> QED BY <2>1, <2>2, <2>3, <2>4 DEF DeviceMade
<1> QED BY <1>3, <1>4

-----------------------------------------------------------------------------
(* Every step keeps it: the jobs of the job store.                            *)

(* A step that adds no error, or a right one. *)
LEMMA ErrorsStayRight ==
  ASSUME conf' = conf, ErrorsAreRight, errs' = errs \/ (AllPlain => ConfigIsFaulty)
  PROVE  ErrorsAreRight'
  BY ConfKept DEF ErrorsAreRight

(* A job with a wrong chain makes the configuration wrong. *)
LEMMA FaultyJob ==
  ASSUME conf \in Configurations, NEW n \in Listed(conf.jobs), ~ GenericIsMissing(JobLayers(n)),
         NEW m \in 0 .. Len(JobLayers(n)), ~ Agree(SubSeq(JobLayers(n), 1, m))
  PROVE  ConfigIsFaulty
<1> DEFINE all == JobLayers(n)
           some == SubSeq(all, 1, m)
<1>1. all \in Seq(JobConfs)
  BY JobLayersType
<1> HIDE DEF all
<1>2. m \in 0 .. Len(all) /\ m \in Nat /\ m <= Len(all) /\ ~ Agree(some)
  BY <1>1 DEF all
<1>3. some \in Seq(JobConfs) /\ Len(some) = m /\ \A i \in 1 .. m : some[i] = all[i]
  BY <1>1, <1>2, PrefixFacts
<1> HIDE DEF some
<1>4. ~ Agree(all)
  BY <1>1, <1>2, <1>3, AgreePrefix
<1>5. Faulty(all, 1 + Len(all))
  BY <1>1, <1>4, DisagreeIsFaulty
<1> QED BY <1>5 DEF ConfigIsFaulty, all

(* A job of the job store is applied its next layer. *)
LEMMA JobLayerApplied ==
  ASSUME IInv, Makes, ApplyJobLayer, ~ ApplyFails(cur.job, Head(cur.layers))
  PROVE  JobBeingMade' /\ conf' = conf
<1> DEFINE all == JobLayers(cur.name)
           settings == Head(cur.layers)
           m == Done(cur.layers, all)
           some == SubSeq(all, 1, m)
           job == cur.job
           from == 1 + Len(all)
<1>1. /\ phase = "jobs" /\ cur.stage = "layer" /\ cur.layers # <<>>
      /\ heap' = heap \o AddedCells(job, settings)
      /\ UNCHANGED <<conf, phase, jobs>>
  BY DEF ApplyJobLayer
<1>2. PICK files \in SetToSeqs(settings.file) :
        cur' = [cur EXCEPT !.job = Applied(job, settings, files), !.layers = Tail(cur.layers)]
  BY DEF ApplyJobLayer
<1> DEFINE applied == Applied(job, settings, files)
<1>3. /\ heap \in Seq(Cells) /\ conf \in Configurations
      /\ job \in Jobs /\ cur.layers \in Seq(JobConfs) /\ cur.name \in Names
      /\ cur = [stage |-> cur.stage, name |-> cur.name, layers |-> cur.layers, job |-> cur.job,
                device |-> cur.device, due |-> cur.due]
      /\ job.kind = "command" => job.generic # Nothing
  BY <1>1 DEF IInv, TypeOK, Visits, Shape, JobVisited
<1>4. settings \in JobConfs /\ Tail(cur.layers) \in Seq(JobConfs)
  BY <1>1, <1>3
<1>5. Applies(job, settings)
  BY <1>3 DEF Applies, ApplyPanics
<1>6. /\ cur.name \in Listed(conf.jobs) /\ ~ GenericIsMissing(all)
      /\ IsRest(cur.layers, all) /\ Made(job, heap, some, from)
  BY <1>1 DEF Makes, JobBeingMade
<1>7. all \in Seq(JobConfs)
  BY <1>3, <1>6, JobLayersType
<1>8. JobLayers(cur.name)' = JobLayers(cur'.name)
  BY <1>1 DEF JobLayers
<1>9. /\ cur'.stage = "layer" /\ cur'.name = cur.name /\ cur'.layers = Tail(cur.layers)
      /\ cur'.job = applied
  BY <1>1, <1>2, <1>3
<1> HIDE DEF settings, applied, all
<1>10. /\ m \in 0 .. (Len(all) - 1) /\ settings = all[m + 1]
       /\ IsRest(Tail(cur.layers), all) /\ Done(Tail(cur.layers), all) = m + 1
  BY <1>1, <1>3, <1>6, <1>7, RestFacts DEF settings
<1> HIDE DEF m
<1>11. /\ some \in Seq(JobConfs) /\ Len(some) = m
       /\ SubSeq(all, 1, m + 1) = Append(some, settings)
  <2>1. m \in 0 .. Len(all)
    BY <1>7, <1>10
  <2> QED BY <1>7, <1>10, <2>1, PrefixFacts
<1>12. from \in Nat /\ Len(Append(some, settings)) < from
  <2>1. Len(all) \in Nat
    BY <1>7
  <2>2. Len(Append(some, settings)) = m + 1
    BY <1>4, <1>11
  <2> QED BY <1>10, <2>1, <2>2
<1> HIDE DEF some, from, job
<1>13. ValuesAt(Append(some, settings), from) = Unset
  <2> DEFINE l == Len(Append(some, settings))
  <2>1. l \in Nat
    BY <1>4, <1>11
  <2> HIDE DEF l
  <2>2. ~ (l >= from)
    BY <1>12, <2>1 DEF l
  <2> QED BY <2>2 DEF ValuesAt, l
<1>14. \A a \in Range(Parts(applied)) :
         heap'[a] = Filled((heap \o AddedCells(job, settings))[a], ValuesAt(Append(some, settings), from))
  <2> DEFINE n == Len(heap) + Len(AddedCells(job, settings))
             cells == heap \o AddedCells(job, settings)
  <2>1. /\ AddedCells(job, settings) \in Seq(Cells) /\ Len(heap) \in Nat
        /\ Len(AddedCells(job, settings)) \in Nat
    <3>1. AddedCells(job, settings) \in Seq(Cells)
      BY <1>3, <1>4, <1>5, NewCommandsType, NewScrubbersType DEF AddedCells, Jobs
    <3> QED BY <1>3, <3>1
  <2>2. n \in Nat /\ Len(heap) <= n
    BY <2>1
  <2>3. cells \in Seq(Cells) /\ Len(cells) = n
    BY <1>3, <2>1, ConcatProperties
  <2> HIDE DEF n
  <2>4. Range(Parts(applied)) \subseteq Range(Parts(job)) \cup {a \in 1 .. n : a > Len(heap)}
    <3>1. job \in JobsAt(Addresses) /\ n = Len(heap) + Len(AddedCells(job, settings))
      BY <1>3 DEF Jobs, n
    <3> QED BY <1>3, <1>4, <1>5, <2>2, <3>1, AppliedType DEF applied, job
  <2>5. Range(Parts(job)) \subseteq 1 .. n
    <3>1. Range(Parts(job)) \subseteq Addresses
      BY <1>3, StoredType DEF IInv
    <3> QED BY <2>1, <2>2, <3>1 DEF Addresses
  <2> HIDE DEF cells
  <2>6. \A a \in Range(Parts(applied)) : cells[a] \in Cells
    BY <2>3, <2>4, <2>5
  <2>7. \A c \in Cells : Filled(c, Unset) = c
    <3>1. Unset \in [Keys -> Texts \cup {Nothing}]
      BY DEF Unset
    <3> QED BY <3>1, FilledType
  <2>8. heap' = cells
    BY <1>1 DEF cells, job, settings
  <2> QED BY <1>13, <2>6, <2>7, <2>8 DEF cells
<1>15. Made(applied, heap', Append(some, settings), from)
  <2>1. Made(job, heap, some, from)
    BY <1>6
  <2>2. applied = Applied(job, settings, files) /\ files \in SetToSeqs(settings.file)
    BY DEF applied, job
  <2> HIDE DEF applied
  <2> QED BY <1>3, <1>4, <1>5, <1>11, <1>12, <1>14, <2>1, <2>2, MadeApplied
<1>16. Made(cur'.job, heap', SubSeq(all, 1, Done(cur'.layers, all)), from)
  BY <1>9, <1>10, <1>11, <1>15
<1>17. JobLayers(cur.name)' = all
  BY <1>8, <1>9, <1>1 DEF all, JobLayers
<1>18. JobBeingMade'
  BY <1>1, <1>6, <1>9, <1>10, <1>16, <1>17 DEF JobBeingMade, from
<1> QED BY <1>1, <1>18

(* Of the entry that is visited nothing remains, and its error is right. *)
LEMMA MakesSkip ==
  ASSUME IInv, [Next]_vars, Makes, Skip, phase \in {"jobs", "devices"}, AllPlain => ConfigIsFaulty
  PROVE  Makes'
<1>1. /\ errs' = TRUE /\ cur' = Idle /\ cur'.stage = "idle"
      /\ UNCHANGED <<conf, phase, heap, jobs, devices>>
  BY IdleFacts DEF Skip
<1>2. JobsMade' /\ DevicesMade'
  BY <1>1, StoredStay DEF Makes, JobsMade, DevicesMade, Listed
<1>3. JobBeingMade' /\ DeviceBeingMade'
  BY <1>1 DEF JobBeingMade, DeviceBeingMade
<1>4. NoJobDropped'
  BY <1>1 DEF Makes, NoJobDropped, Listed
<1>5. ErrorsAreRight'
  BY <1>1, ErrorsStayRight DEF Makes
<1> QED BY <1>2, <1>3, <1>4, <1>5 DEF Makes

(* A job of the job store that cannot be run. *)
LEMMA UnsoundJob ==
  ASSUME IInv, Makes, phase = "jobs", cur.stage = "layer", cur.layers = <<>>
  PROVE  /\ cur.job \in Jobs /\ cur.name \in Listed(conf.jobs) /\ ~ GenericIsMissing(JobLayers(cur.name))
         /\ Made(cur.job, heap, JobLayers(cur.name), 1 + Len(JobLayers(cur.name)))
         /\ ~ Valid(cur.job) => ConfigIsFaulty
<1> DEFINE all == JobLayers(cur.name)
           from == 1 + Len(all)
<1>1. cur.job \in Jobs /\ conf \in Configurations
  BY DEF IInv, TypeOK, Visits
<1>2. /\ cur.name \in Listed(conf.jobs) /\ ~ GenericIsMissing(all)
      /\ IsRest(cur.layers, all) /\ Made(cur.job, heap, SubSeq(all, 1, Done(cur.layers, all)), from)
  BY DEF Makes, JobBeingMade
<1>3. all \in Seq(JobConfs) /\ all # <<>>
  BY <1>1, <1>2, JobLayersType
<1> HIDE DEF all
<1>4. SubSeq(all, 1, Done(cur.layers, all)) = all
  <2>1. cur.layers \in Seq(JobConfs)
    OBVIOUS
  <2>2. Done(cur.layers, all) = Len(all)
    BY <1>2, <1>3, <2>1, RestFacts
  <2> QED BY <1>3, <2>2, PrefixFacts
<1>5. Made(cur.job, heap, all, from) /\ Len(all) < from
  <2>1. Len(all) \in Nat
    BY <1>3
  <2>2. Len(all) < from
    BY <2>1
  <2> HIDE DEF from
  <2>3. Made(cur.job, heap, all, from)
    BY <1>2, <1>4
  <2> QED BY <2>2, <2>3
<1> HIDE DEF from
<1>6. ~ Valid(cur.job) => Faulty(all, from)
  BY <1>1, <1>3, <1>5, SoundIsRight, ValidIsSound
<1>7. ~ Valid(cur.job) => ConfigIsFaulty
  BY <1>2, <1>6 DEF ConfigIsFaulty, all, from
<1> QED BY <1>1, <1>2, <1>5, <1>7 DEF all, from

(* Every step of the job store keeps the invariant. *)
LEMMA MakesJobs ==
  ASSUME IInv, [Next]_vars, Makes, NEW n \in Names,
         BeginJob(n) \/ ApplyJobLayer \/ StoreJob \/ JobStoreDone
  PROVE  Makes'
<1>1. /\ phase = "jobs" /\ UNCHANGED <<conf, devices>> /\ conf \in Configurations
      /\ TypeOK
  BY DEF BeginJob, ApplyJobLayer, StoreJob, JobStoreDone, Skip, IInv, TypeOK
<1>2. DevicesMade'
  BY <1>1, StoredStay DEF Makes, DevicesMade, Listed
<1>3. phase' = "jobs" => DeviceBeingMade'
  BY DEF DeviceBeingMade
<1>4. errs' = errs => ErrorsAreRight'
  BY <1>1, ErrorsStayRight DEF Makes
<1>5. jobs' = jobs => JobsMade'
  BY <1>1, StoredStay DEF Makes, JobsMade, Listed
<1>6. CASE BeginJob(n)
  <2>1. /\ cur.stage = "idle" /\ n \in todo /\ todo' = todo \ {n}
        /\ n \in Listed(conf.jobs)
    BY <1>1, <1>6 DEF BeginJob, IInv, Shape, TodoIsLeft
  <2>2. CASE GenericIsMissing(JobLayers(n))
    <3>1. ConfigIsFaulty
      BY <2>1, <2>2 DEF ConfigIsFaulty
    <3>2. Skip
      BY <1>6, <2>2 DEF BeginJob
    <3> QED BY <1>1, <3>1, <3>2, MakesSkip
  <2>3. CASE ~ GenericIsMissing(JobLayers(n))
    <3> DEFINE all == JobLayers(n)
    <3>1. /\ cur' = [Idle EXCEPT !.stage = "layer", !.name = n, !.layers = all]
          /\ UNCHANGED <<phase, heap, jobs, errs>>
      BY <1>6, <2>3 DEF BeginJob
    <3>2. /\ cur'.stage = "layer" /\ cur'.name = n /\ cur'.layers = all /\ cur'.job = NewJob
      BY <3>1 DEF Idle
    <3>3. all \in Seq(JobConfs)
      BY <1>1, <2>1, <2>3, JobLayersType
    <3>4. JobLayers(cur.name)' = all
      BY <1>1, <3>2 DEF JobLayers
    <3> HIDE DEF all
    <3>5. IsRest(all, all) /\ Done(all, all) = 0 /\ SubSeq(all, 1, 0) = <<>>
      BY <3>3, AllIsLeft, PrefixFacts
    <3>6. Made(NewJob, heap', <<>>, 1 + Len(all))
      BY MadeNew
    <3>7. JobBeingMade'
      BY <1>1, <2>1, <2>3, <3>2, <3>4, <3>5, <3>6 DEF JobBeingMade, all
    <3>8. NoJobDropped'
      BY <1>1, <2>1, <3>1, <3>2 DEF Makes, NoJobDropped, Listed
    <3> QED BY <1>1, <1>2, <1>3, <1>4, <1>5, <3>1, <3>7, <3>8 DEF Makes
  <2> QED BY <2>2, <2>3
<1>7. CASE ApplyJobLayer
  <2>1. cur.stage = "layer" /\ cur.layers # <<>> /\ todo' = todo
    BY <1>7 DEF ApplyJobLayer
  <2>2. CASE ApplyFails(cur.job, Head(cur.layers))
    <3> DEFINE all == JobLayers(cur.name)
               settings == Head(cur.layers)
               m == Done(cur.layers, all)
    <3>1. /\ cur.name \in Listed(conf.jobs) /\ ~ GenericIsMissing(all)
          /\ IsRest(cur.layers, all) /\ Made(cur.job, heap, SubSeq(all, 1, m), 1 + Len(all))
      BY <1>1, <2>1 DEF Makes, JobBeingMade
    <3>2. all \in Seq(JobConfs) /\ cur.layers \in Seq(JobConfs)
      BY <1>1, <2>1, <3>1, JobLayersType DEF IInv, Shape, JobVisited
    <3> HIDE DEF all, settings
    <3>3. m \in 0 .. (Len(all) - 1) /\ settings = all[m + 1]
      BY <2>1, <3>1, <3>2, RestFacts DEF settings
    <3> HIDE DEF m
    <3>4. /\ SubSeq(all, 1, m) \in Seq(JobConfs) /\ settings \in JobConfs
          /\ SubSeq(all, 1, m + 1) = Append(SubSeq(all, 1, m), settings)
      <4>1. m \in 0 .. Len(all)
        BY <3>2, <3>3
      <4> QED BY <3>2, <3>3, <4>1, PrefixFacts
    <3>5. ~ Agree(SubSeq(all, 1, m + 1))
      BY <2>2, <3>1, <3>4, FailsDisagree DEF settings
    <3>6. m + 1 \in 0 .. Len(all)
      BY <3>2, <3>3
    <3>7. ConfigIsFaulty
      BY <1>1, <3>1, <3>5, <3>6, FaultyJob DEF all
    <3>8. Skip
      BY <1>7, <2>2 DEF ApplyJobLayer
    <3> QED BY <1>1, <3>7, <3>8, MakesSkip
  <2>3. CASE ~ ApplyFails(cur.job, Head(cur.layers))
    <3>1. JobBeingMade'
      BY <1>7, <2>3, JobLayerApplied
    <3>2. UNCHANGED <<phase, jobs, errs>> /\ cur'.stage = cur.stage /\ cur'.name = cur.name
      BY <1>1, <1>7, <2>3 DEF ApplyJobLayer, TypeOK, Visits
    <3>3. NoJobDropped'
      BY <1>1, <2>1, <3>2 DEF Makes, NoJobDropped, Listed
    <3> QED BY <1>1, <1>2, <1>3, <1>4, <1>5, <3>1, <3>2, <3>3 DEF Makes
  <2> QED BY <2>2, <2>3
<1>8. CASE StoreJob
  <2>1. cur.stage = "layer" /\ cur.layers = <<>> /\ todo' = todo
    BY <1>8 DEF StoreJob
  <2>2. /\ cur.job \in Jobs /\ cur.name \in Listed(conf.jobs) /\ ~ GenericIsMissing(JobLayers(cur.name))
        /\ Made(cur.job, heap, JobLayers(cur.name), 1 + Len(JobLayers(cur.name)))
        /\ ~ Valid(cur.job) => ConfigIsFaulty
    BY <1>1, <2>1, UnsoundJob
  <2>3. CASE ~ Valid(cur.job)
    <3>1. Skip
      BY <1>8, <2>3 DEF StoreJob
    <3> QED BY <1>1, <2>2, <2>3, <3>1, MakesSkip
  <2>4. CASE Valid(cur.job)
    <3>1. /\ jobs' = [jobs EXCEPT ![cur.name] = cur.job] /\ cur' = Idle
          /\ UNCHANGED <<phase, heap, errs>>
      BY <1>8, <2>4 DEF StoreJob
    <3>2. cur'.stage = "idle"
      BY <3>1, IdleFacts
    <3>3. /\ cur.name \in Names /\ jobs'[cur.name] = cur.job /\ cur.job # Nothing
          /\ Listed(jobs') = Listed(jobs) \cup {cur.name}
      <4>1. cur.name \in Names /\ cur.job # Nothing
        BY <1>1, <2>2, StoredType DEF Listed
      <4>2. jobs \in [Names -> Jobs \cup {Nothing}]
        BY <1>1 DEF TypeOK, Maps
      <4> QED BY <3>1, <4>1, <4>2 DEF Listed
    <3>4. ASSUME NEW x, x = cur.name
          PROVE  JobMade(x)'
      <4>1. Made(jobs'[x], heap', JobLayers(x), 1 + Len(JobLayers(x)))
        BY <2>2, <3>1, <3>3, <3>4
      <4>2. Sound(Seen(jobs'[x], heap'))
        BY <2>2, <2>4, <3>1, <3>3, <3>4, ValidIsSound
      <4>3. x \in Listed(conf.jobs) /\ ~ GenericIsMissing(JobLayers(x))
        BY <2>2, <3>4
      <4>4. JobLayers(x)' = JobLayers(x)
        BY <1>1, ConfKept
      <4> QED BY <1>1, <4>1, <4>2, <4>3, <4>4 DEF JobMade
    <3>5. JobsMade'
      <4>1. \A x \in Listed(jobs) : JobMade(x)'
        BY StoredStay DEF Makes
      <4>2. \A x \in Listed(jobs') : x \in Listed(jobs) \/ x = cur.name
        BY <3>3
      <4> QED BY <3>4, <4>1, <4>2 DEF JobsMade
    <3>6. JobBeingMade'
      BY <3>2 DEF JobBeingMade
    <3>7. NoJobDropped'
      BY <1>1, <2>1, <3>1, <3>2, <3>3 DEF Makes, NoJobDropped, Listed
    <3> QED BY <1>1, <1>2, <1>3, <1>4, <3>1, <3>5, <3>6, <3>7 DEF Makes
  <2> QED BY <2>3, <2>4
<1>9. CASE JobStoreDone
  <2>1. /\ cur.stage = "idle" /\ todo = {} /\ UNCHANGED <<cur, heap, jobs, errs>>
        /\ \/ phase' = "failed"
           \/ phase' = "devices" /\ ~ errs
    BY <1>9 DEF JobStoreDone
  <2>2. JobBeingMade' /\ DeviceBeingMade'
    BY <2>1 DEF JobBeingMade, DeviceBeingMade
  <2>3. NoJobDropped'
    BY <1>1, <2>1 DEF Makes, NoJobDropped, Listed
  <2> QED BY <1>1, <1>2, <1>4, <1>5, <2>1, <2>2, <2>3 DEF Makes
<1> QED BY <1>6, <1>7, <1>8, <1>9

-----------------------------------------------------------------------------
(* The devices and their jobs.                                                *)

(* Before the first layer the chain of a job is what the job store has. *)
LEMMA ChainNone ==
  ASSUME conf \in Configurations, NEW n \in Names
  PROVE  ChainOf(n, <<>>) = FromStore(n)
<1>1. JobsOf(<<>>, n) = <<>> /\ Given(<<>>) = <<>>
  BY DEF JobsOf, Given, FlattenSeq
<1>2. FromStore(n) \in Seq(JobConfs)
  BY FromStoreIs
<1>3. FromStore(n) \o <<>> = FromStore(n)
  BY <1>2
<1> QED BY <1>1, <1>3 DEF ChainOf

(* A device that is being visited. *)
LEMMA Visited ==
  ASSUME IInv, Makes, phase = "devices", cur.stage # "idle"
  PROVE  LET all == DeviceLayers(cur.name) IN
         /\ conf \in Configurations /\ heap \in Seq(Cells) /\ Len(heap) \in Nat
         /\ cur.name \in Listed(conf.devices) /\ cur.name \in Names
         /\ cur.device \in Devices /\ cur.device \in DevicesAt(Addresses)
         /\ cur = [stage |-> cur.stage, name |-> cur.name, layers |-> cur.layers, job |-> cur.job,
                   device |-> cur.device, due |-> cur.due]
         /\ \A n \in Listed(cur.device.jobs) :
              /\ n \in Names /\ cur.device.jobs[n] \in Jobs /\ JobUpTo(n, ReachedFor(n))
              /\ Range(Parts(cur.device.jobs[n])) \subseteq Addresses
         /\ IsRest(cur.layers, all) /\ DeviceOf(cur.device, SubSeq(all, 1, Reached))
         /\ Apart(cur.device)
         /\ cur.stage = "copy" => cur.layers = all /\ all \in Seq(DeviceConfs \cup {Nothing})
         /\ cur.stage # "copy" =>
              /\ ~ GenericIsMissing(all) /\ all \in Seq(Configured) /\ all # <<>>
              /\ cur.layers \in Seq(Configured)
              /\ \A n \in Names : Chain(cur.name, n) = ChainOf(n, all)
<1> DEFINE all == DeviceLayers(cur.name)
<1>1. /\ conf \in Configurations /\ heap \in Seq(Cells) /\ cur.device \in Devices
      /\ cur = [stage |-> cur.stage, name |-> cur.name, layers |-> cur.layers, job |-> cur.job,
                device |-> cur.device, due |-> cur.due]
  BY DEF IInv, TypeOK, Visits
<1>2. /\ cur.name \in Listed(conf.devices)
      /\ cur.stage = "copy" => cur.layers = all
      /\ cur.stage # "copy" => cur.layers \in Seq(Configured)
  BY DEF IInv, Shape, DeviceVisited, Configured
<1>3. /\ IsRest(cur.layers, all) /\ DeviceOf(cur.device, SubSeq(all, 1, Reached))
      /\ \A n \in Listed(cur.device.jobs) : JobUpTo(n, ReachedFor(n))
      /\ Apart(cur.device) /\ (cur.stage # "copy" => ~ GenericIsMissing(all))
  BY DEF Makes, DeviceBeingMade
<1>4. cur.stage # "copy" =>
        all \in Seq(Configured) /\ all # <<>> /\ \A n \in Names : Chain(cur.name, n) = ChainOf(n, all)
  BY <1>1, <1>2, <1>3, DeviceLayersGiven
<1>5. cur.stage = "copy" => all \in Seq(DeviceConfs \cup {Nothing})
  BY <1>1, <1>2, DeviceLayersType
<1>6. \A n \in Listed(cur.device.jobs) :
        n \in Names /\ cur.device.jobs[n] \in Jobs /\ Range(Parts(cur.device.jobs[n])) \subseteq Addresses
  <2>1. \A n \in Listed(cur.device.jobs) : n \in Names /\ cur.device.jobs[n] \in Jobs
    BY <1>1 DEF Devices, DevicesAt, Maps, Listed, Jobs
  <2>2. \A job \in Jobs : Range(Parts(job)) \subseteq Addresses
    BY StoredType DEF IInv
  <2> QED BY <2>1, <2>2
<1>7. Len(heap) \in Nat /\ cur.name \in Names /\ cur.device \in DevicesAt(Addresses)
  BY <1>1, <1>2 DEF Listed, Devices
<1> QED BY <1>1, <1>2, <1>3, <1>4, <1>5, <1>6, <1>7

(* A device of which some settings are wrong makes the configuration wrong. *)
LEMMA FaultyDevice ==
  ASSUME conf \in Configurations, NEW d \in Listed(conf.devices), ~ GenericIsMissing(DeviceLayers(d)),
         NEW n \in Listed(conf.devices[d].jobs), NEW m \in 0 .. Len(DeviceLayers(d)),
         ~ Agree(ChainOf(n, SubSeq(DeviceLayers(d), 1, m)))
  PROVE  ConfigIsFaulty
<1> DEFINE all == DeviceLayers(d)
<1>1. /\ all \in Seq(Configured)
      /\ \A x \in Names : Chain(d, x) = ChainOf(x, all)
  BY DeviceLayersGiven
<1>2. n \in Names
  BY DEF Listed
<1>3. ~ Agree(ChainOf(n, SubSeq(all, 1, m))) /\ m \in 0 .. Len(all)
  OBVIOUS
<1> HIDE DEF all
<1>4. ~ Agree(ChainOf(n, all)) /\ ChainOf(n, all) \in Seq(JobConfs)
  BY <1>1, <1>2, <1>3, ChainGrows
<1>5. Faulty(ChainOf(n, all), 1 + Len(FromStore(n)))
  BY <1>4, DisagreeIsFaulty
<1>6. Faulty(Chain(d, n), 1 + Len(FromStore(n)))
  BY <1>1, <1>2, <1>5
<1> QED BY <1>6 DEF ConfigIsFaulty

(* What is needed of the next state for a job to be made of its chain. *)
LEMMA JobUpToNext ==
  ASSUME conf' = conf, cur'.name = cur.name, NEW n, NEW m
  PROVE  JobUpTo(n, m)' <=>
           Made(cur'.device.jobs[n], heap', ChainOf(n, SubSeq(DeviceLayers(cur.name), 1, m)),
                1 + Len(FromStore(n)))
<1>1. /\ \A x : FromStore(x)' = FromStore(x)
      /\ \A x, layers : ChainOf(x, layers)' = ChainOf(x, layers)
  BY ConfKept
<1>2. DeviceLayers(cur.name)' = DeviceLayers(cur.name)
  BY DEF DeviceLayers
<1> QED BY <1>1, <1>2 DEF JobUpTo

(* What is needed of the next state for the device to be made of its layers. *)
LEMMA BeingMadeNext ==
  ASSUME conf' = conf, cur'.name = cur.name,
         IsRest(cur'.layers, DeviceLayers(cur.name)),
         cur'.stage # "copy" => ~ GenericIsMissing(DeviceLayers(cur.name)),
         DeviceOf(cur'.device,
                  SubSeq(DeviceLayers(cur.name), 1,
                         Done(cur'.layers, DeviceLayers(cur.name)) + (IF cur'.stage = "jobs" THEN 1 ELSE 0))),
         Apart(cur'.device),
         \A n \in Listed(cur'.device.jobs) :
           Made(cur'.device.jobs[n], heap',
                ChainOf(n, SubSeq(DeviceLayers(cur.name), 1,
                                  Done(cur'.layers, DeviceLayers(cur.name)) +
                                    (IF cur'.stage = "jobs" /\ n \notin cur'.due THEN 1 ELSE 0))),
                1 + Len(FromStore(n)))
  PROVE  DeviceBeingMade'
<1>1. DeviceLayers(cur.name)' = DeviceLayers(cur.name)
  BY DEF DeviceLayers
<1>2. /\ Reached' = Done(cur'.layers, DeviceLayers(cur.name)) + (IF cur'.stage = "jobs" THEN 1 ELSE 0)
      /\ \A n : ReachedFor(n)' = Done(cur'.layers, DeviceLayers(cur.name)) +
                                   (IF cur'.stage = "jobs" /\ n \notin cur'.due THEN 1 ELSE 0)
  BY <1>1 DEF Reached, ReachedFor
<1>3. /\ \A x : FromStore(x)' = FromStore(x)
      /\ \A x, layers : ChainOf(x, layers)' = ChainOf(x, layers)
  BY ConfKept
<1>4. ASSUME NEW n \in Listed(cur'.device.jobs)
      PROVE  JobUpTo(n, ReachedFor(n))'
  BY <1>1, <1>2, <1>3, <1>4 DEF JobUpTo
<1>5. \A n \in Listed(cur.device.jobs)' : JobUpTo(n, ReachedFor(n))'
  BY <1>4
<1>6. /\ IsRest(cur.layers, DeviceLayers(cur.name))'
      /\ (cur.stage # "copy")' => ~ GenericIsMissing(DeviceLayers(cur.name))'
      /\ DeviceOf(cur.device, SubSeq(DeviceLayers(cur.name), 1, Reached))'
      /\ Apart(cur.device)'
  BY <1>1, <1>2
<1> QED BY <1>5, <1>6 DEF DeviceBeingMade

(* A step that leaves the jobs of the job store and the errors as they are. *)
LEMMA MakesKept ==
  ASSUME IInv, [Next]_vars, Makes, phase # "jobs", phase' # "jobs",
         phase = "failed" => phase' = "failed",
         UNCHANGED <<jobs, errs>>, DeviceBeingMade', devices' = devices \/ DevicesMade'
  PROVE  Makes'
<1>1. conf' = conf
  BY ConfStays
<1>2. JobsMade'
  BY StoredStay DEF Makes, JobsMade, Listed
<1>3. devices' = devices => DevicesMade'
  BY StoredStay DEF Makes, DevicesMade, Listed
<1>4. JobBeingMade'
  BY DEF JobBeingMade
<1>5. NoJobDropped'
  BY <1>1 DEF Makes, NoJobDropped, Listed
<1>6. ErrorsAreRight'
  BY <1>1, ErrorsStayRight DEF Makes
<1> QED BY <1>2, <1>3, <1>4, <1>5, <1>6 DEF Makes

(* A device begins as a new one. *)
LEMMA MakesBeginDevice ==
  ASSUME IInv, [Next]_vars, Makes, NEW n \in Names, BeginDevice(n)
  PROVE  Makes'
<1> DEFINE all == DeviceLayers(n)
<1>1. /\ phase = "devices" /\ cur.stage = "idle" /\ n \in todo
      /\ cur' = [Idle EXCEPT !.stage = "copy", !.name = n, !.layers = all,
                             !.due = Listed(conf.devices[n].jobs)]
      /\ UNCHANGED <<conf, phase, heap, jobs, devices, errs>>
  BY DEF BeginDevice
<1>2. /\ cur'.stage = "copy" /\ cur'.name = n /\ cur'.layers = all /\ cur'.device = NewDevice
  BY <1>1 DEF Idle
<1>3. n \in Listed(conf.devices) /\ conf \in Configurations
  BY <1>1 DEF IInv, TypeOK, Shape, TodoIsLeft
<1>4. all \in Seq(DeviceConfs \cup {Nothing})
  BY <1>3, DeviceLayersType
<1>5. DeviceLayers(cur.name)' = all
  BY <1>1, <1>2 DEF DeviceLayers
<1> HIDE DEF all
<1>6. IsRest(all, all) /\ Done(all, all) = 0 /\ SubSeq(all, 1, 0) = <<>>
  BY <1>4, AllIsLeft, PrefixFacts
<1>7. DeviceOf(NewDevice, <<>>)
  <2>1. NewDevice.port = 22 /\ NewDevice.user = Nothing
    BY DEF NewDevice
  <2> HIDE DEF NewDevice
  <2> QED BY <2>1, DeviceNew
<1>8. Reached' = 0
  BY <1>2, <1>5, <1>6 DEF Reached
<1>9. Listed(cur.device.jobs)' = {}
  BY <1>2, IdleFacts DEF Listed
<1>10. DeviceBeingMade'
  BY <1>2, <1>5, <1>6, <1>7, <1>8, <1>9 DEF DeviceBeingMade, Apart
<1> QED BY <1>1, <1>10, MakesKept

(* The stored job is copied; what the job store does not have is made anew. *)
LEMMA JobIsCopied ==
  ASSUME IInv, Makes, phase = "devices", conf \in Configurations, NEW n \in Names,
         NEW job, NEW new,
         \/ jobs[n] = Nothing /\ job = NewJob /\ new = heap
         \/ jobs[n] # Nothing /\ job = DeepCopied(jobs[n]) /\ new = heap \o CopiedCells(jobs[n])
  PROVE  /\ Made(job, new, ChainOf(n, <<>>), 1 + Len(FromStore(n)))
         /\ Range(Parts(job)) \cap Addresses = {}
         /\ job # Nothing
         /\ \A a \in Addresses : new[a] = heap[a]
<1>1. ChainOf(n, <<>>) = FromStore(n)
  BY ChainNone
<1>2. heap \in Seq(Cells) /\ jobs \in [Names -> Jobs \cup {Nothing}]
  BY DEF IInv, TypeOK, Maps
<1>3. CASE jobs[n] = Nothing
  <2>1. job = NewJob /\ new = heap
    BY <1>3
  <2>2. n \notin Listed(conf.jobs)
    BY <1>3 DEF Makes, NoJobDropped, Listed
  <2>3. FromStore(n) = <<>>
    BY <2>2, FromStoreIs
  <2>4. Made(NewJob, new, <<>>, 1 + Len(FromStore(n)))
    BY MadeNew
  <2>5. NewJob # Nothing
    BY NewTypes, StoredType DEF Jobs, IInv
  <2> QED BY <1>1, <2>1, <2>3, <2>4, <2>5, IdleFacts
<1>4. CASE jobs[n] # Nothing
  <2> DEFINE old == jobs[n]
  <2>1. old \in Jobs
    BY <1>2, <1>4
  <2>2. n \in Listed(jobs)
    BY <1>4 DEF Listed
  <2>3. JobMade(n)
    BY <2>2 DEF Makes, JobsMade
  <2>4. FromStore(n) = JobLayers(n)
    BY <2>3, FromStoreIs DEF JobMade
  <2>5. Made(old, heap, FromStore(n), 1 + Len(FromStore(n)))
    BY <2>3, <2>4 DEF JobMade
  <2> HIDE DEF old
  <2>6. Made(DeepCopied(old), heap \o CopiedCells(old), FromStore(n), 1 + Len(FromStore(n)))
    BY <1>2, <2>1, <2>5, MadeCopied
  <2>7. CopiedType(old)
    BY <1>2, <2>1, CopiedHasType
  <2>8. DeepCopied(old) # Nothing
    <3>1. Len(heap \o CopiedCells(old)) \in Nat
      BY <2>7 DEF CopiedType
    <3> QED BY <2>7, <3>1, Grows DEF CopiedType
  <2>9. ASSUME NEW a \in Addresses
        PROVE  (heap \o CopiedCells(old))[a] = heap[a]
    <3>1. CopiedCells(old) \in Seq(Cells)
      BY <2>7 DEF CopiedType
    <3> QED BY <1>2, <3>1 DEF Addresses
  <2> QED BY <1>1, <1>4, <2>6, <2>7, <2>8, <2>9 DEF old, CopiedType
<1> QED BY <1>3, <1>4

(* A copied job is made of what the job store was given. *)
LEMMA MakesCopyJob ==
  ASSUME IInv, [Next]_vars, Makes, NEW n \in Names, CopyJob(n)
  PROVE  Makes'
<1> DEFINE all == DeviceLayers(cur.name)
           device == cur.device
           from(x) == 1 + Len(FromStore(x))
<1>1. /\ phase = "devices" /\ cur.stage = "copy" /\ n \in cur.due
      /\ UNCHANGED <<conf, phase, jobs, devices, errs>>
  BY DEF CopyJob
<1>2. PICK job : /\ cur' = [cur EXCEPT !.device.jobs[n] = job, !.due = @ \ {n}]
                 /\ \/ jobs[n] = Nothing /\ job = NewJob /\ heap' = heap
                    \/ jobs[n] # Nothing /\ job = DeepCopied(jobs[n]) /\ heap' = heap \o CopiedCells(jobs[n])
  BY DEF CopyJob
<1>3. /\ conf \in Configurations /\ device \in Devices /\ device \in DevicesAt(Addresses)
      /\ cur = [stage |-> cur.stage, name |-> cur.name, layers |-> cur.layers, job |-> cur.job,
                device |-> cur.device, due |-> cur.due]
      /\ \A x \in Listed(device.jobs) :
           /\ x \in Names /\ device.jobs[x] \in Jobs /\ JobUpTo(x, ReachedFor(x))
           /\ Range(Parts(device.jobs[x])) \subseteq Addresses
      /\ IsRest(cur.layers, all) /\ DeviceOf(device, SubSeq(all, 1, Reached))
      /\ Apart(device)
      /\ cur.layers = all /\ all \in Seq(DeviceConfs \cup {Nothing})
  BY <1>1, Visited
<1>4. /\ Made(job, heap', ChainOf(n, <<>>), from(n))
      /\ Range(Parts(job)) \cap Addresses = {} /\ job # Nothing
      /\ \A a \in Addresses : heap'[a] = heap[a]
  BY ZenonT(30), <1>1, <1>2, <1>3, JobIsCopied
<1>5. /\ cur'.stage = "copy" /\ cur'.name = cur.name /\ cur'.layers = cur.layers
      /\ cur'.device.jobs = [device.jobs EXCEPT ![n] = job]
      /\ cur'.device.port = device.port /\ cur'.device.user = device.user
  BY <1>1, <1>2, <1>3 DEF DevicesAt
<1>6. device.jobs \in [Names -> JobsAt(Addresses) \cup {Nothing}]
  BY <1>3 DEF DevicesAt, Maps
<1> HIDE DEF all, device
<1>7. Done(all, all) = 0 /\ SubSeq(all, 1, 0) = <<>>
  BY <1>3, AllIsLeft, PrefixFacts
<1>8. /\ Listed(cur'.device.jobs) = Listed(device.jobs) \cup {n}
      /\ cur'.device.jobs[n] = job
      /\ \A m \in Names \ {n} : cur'.device.jobs[m] = device.jobs[m]
  BY <1>4, <1>5, <1>6 DEF Listed
<1>9. Reached = 0 /\ \A x : ReachedFor(x) = 0
  BY <1>1, <1>3, <1>7 DEF Reached, ReachedFor, all
<1>10. \A x \in Listed(device.jobs) : Made(device.jobs[x], heap, ChainOf(x, <<>>), from(x))
  BY <1>3, <1>7, <1>9 DEF JobUpTo, all, device
<1>11. ASSUME NEW x \in Listed(cur'.device.jobs)
       PROVE  Made(cur'.device.jobs[x], heap', ChainOf(x, <<>>), from(x))
  <2>1. CASE x = n
    BY <1>4, <1>8, <2>1
  <2>2. CASE x # n
    <3> DEFINE one == device.jobs[x]
    <3>1. x \in Listed(device.jobs)
      BY <1>8, <2>2
    <3>2. one \in Jobs /\ \A a \in Range(Parts(one)) : heap'[a] = heap[a]
      BY <1>3, <1>4, <3>1
    <3>3. Made(one, heap, ChainOf(x, <<>>), from(x)) /\ cur'.device.jobs[x] = one
      BY <1>3, <1>8, <1>10, <2>2, <3>1
    <3> HIDE DEF one, from
    <3>4. Made(one, heap', ChainOf(x, <<>>), from(x))
      BY <3>2, <3>3, SeenKept
    <3> QED BY <3>3, <3>4
  <2> QED BY <2>1, <2>2
<1>12. Apart(cur'.device)
  <2> SUFFICES ASSUME NEW x \in Listed(cur'.device.jobs), NEW y \in Listed(cur'.device.jobs), x # y
               PROVE  Range(Parts(cur'.device.jobs[x])) \cap Range(Parts(cur'.device.jobs[y])) = {}
    BY DEF Apart
  <2>1. \A z \in Listed(device.jobs) \ {n} :
          cur'.device.jobs[z] = device.jobs[z] /\ Range(Parts(device.jobs[z])) \subseteq Addresses
    BY <1>3, <1>8
  <2>2. CASE x = n
    BY <1>4, <1>8, <2>1, <2>2
  <2>3. CASE y = n
    BY <1>4, <1>8, <2>1, <2>3
  <2>4. CASE x # n /\ y # n
    BY <1>3, <1>8, <2>1, <2>4 DEF Apart
  <2> QED BY <2>2, <2>3, <2>4
<1>13. DeviceOf(cur'.device, <<>>)
  BY <1>3, <1>5, <1>7, <1>9 DEF DeviceOf
<1> HIDE DEF from
<1>14. /\ IsRest(cur'.layers, all) /\ Done(cur'.layers, all) = 0 /\ cur'.stage = "copy"
       /\ DeviceOf(cur'.device, SubSeq(all, 1, 0))
       /\ \A x \in Listed(cur'.device.jobs) :
            Made(cur'.device.jobs[x], heap', ChainOf(x, SubSeq(all, 1, 0)), from(x))
  BY <1>3, <1>5, <1>7, <1>11, <1>13
<1>15. DeviceBeingMade'
  BY <1>1, <1>5, <1>12, <1>14, BeingMadeNext DEF all, from
<1> QED BY <1>1, <1>15, MakesKept

(* When all jobs are copied the layers begin. *)
LEMMA MakesJobsCopied ==
  ASSUME IInv, [Next]_vars, Makes, JobsCopied
  PROVE  Makes'
<1> DEFINE all == DeviceLayers(cur.name)
<1>1. phase = "devices" /\ cur.stage = "copy"
  BY DEF JobsCopied
<1>2. /\ cur.layers = all /\ cur.name \in Listed(conf.devices)
      /\ cur = [stage |-> cur.stage, name |-> cur.name, layers |-> cur.layers, job |-> cur.job,
                device |-> cur.device, due |-> cur.due]
      /\ \A x \in Listed(cur.device.jobs) : JobUpTo(x, ReachedFor(x))
      /\ IsRest(cur.layers, all) /\ DeviceOf(cur.device, SubSeq(all, 1, Reached))
      /\ Apart(cur.device)
  BY <1>1, Visited
<1>3. CASE GenericIsMissing(cur.layers)
  <2>1. ConfigIsFaulty
    BY <1>2, <1>3 DEF ConfigIsFaulty
  <2>2. Skip
    BY <1>3 DEF JobsCopied
  <2> QED BY <1>1, <2>1, <2>2, MakesSkip
<1>4. CASE ~ GenericIsMissing(cur.layers)
  <2>1. cur' = [cur EXCEPT !.stage = "layer"] /\ UNCHANGED <<conf, phase, heap, jobs, devices, errs>>
    BY <1>4 DEF JobsCopied
  <2>2. /\ cur'.stage = "layer" /\ cur'.name = cur.name /\ cur'.layers = cur.layers
        /\ cur'.device = cur.device
    BY <1>2, <2>1
  <2> DEFINE m == Done(cur'.layers, all)
  <2>3. m = 0
    <3>1. all \in Seq(DeviceConfs \cup {Nothing})
      BY <1>1, Visited
    <3> HIDE DEF all
    <3> QED BY <1>2, <2>2, <3>1, AllIsLeft
  <2>4. Reached = m /\ \A x : ReachedFor(x) = m
    <3>1. Done(cur.layers, DeviceLayers(cur.name)) = 0
      BY <2>2, <2>3
    <3> QED BY <1>1, <2>3, <3>1 DEF Reached, ReachedFor
  <2>5. /\ IsRest(cur'.layers, all) /\ DeviceOf(cur'.device, SubSeq(all, 1, m))
        /\ Apart(cur'.device) /\ ~ GenericIsMissing(all)
        /\ \A x \in Listed(cur'.device.jobs) :
             Made(cur'.device.jobs[x], heap', ChainOf(x, SubSeq(all, 1, m)), 1 + Len(FromStore(x)))
    BY <1>2, <1>4, <2>1, <2>2, <2>4 DEF JobUpTo
  <2> HIDE DEF m
  <2>6. m + 0 = m
    BY <2>3
  <2>7. DeviceBeingMade'
    BY <2>1, <2>2, <2>5, <2>6, BeingMadeNext DEF m
  <2> QED BY <1>1, <2>1, <2>7, MakesKept
<1> QED BY <1>3, <1>4

(* How far the layers of the visited device are. *)
LEMMA LayersDone ==
  ASSUME IInv, Makes, phase = "devices", cur.stage \in {"layer", "jobs"}
  PROVE  LET all == DeviceLayers(cur.name)
             m == Done(cur.layers, all) IN
         /\ m \in 0 .. Len(all) /\ SubSeq(all, 1, m) \in Seq(Configured) /\ m + 0 = m
         /\ cur.layers = <<>> => m = Len(all) /\ SubSeq(all, 1, m) = all
         /\ cur.layers # <<>> =>
              /\ m + 1 \in 0 .. Len(all) /\ m + 1 \in DOMAIN all
              /\ Head(cur.layers) = all[m + 1] /\ Head(cur.layers) \in Configured
              /\ SubSeq(all, 1, m + 1) = Append(SubSeq(all, 1, m), Head(cur.layers))
              /\ IsRest(Tail(cur.layers), all) /\ Done(Tail(cur.layers), all) = m + 1
<1> DEFINE all == DeviceLayers(cur.name)
           m == Done(cur.layers, all)
           settings == Head(cur.layers)
<1>1. all \in Seq(Configured) /\ cur.layers \in Seq(Configured) /\ IsRest(cur.layers, all)
  BY Visited
<1> HIDE DEF all
<1>2. m \in 0 .. Len(all) /\ (cur.layers = <<>> => m = Len(all))
  BY <1>1, RestFacts
<1>3. Len(all) \in Nat /\ DOMAIN all = 1 .. Len(all)
  BY <1>1
<1>4. ASSUME cur.layers # <<>>
      PROVE  /\ m \in 0 .. (Len(all) - 1) /\ settings = all[m + 1]
             /\ IsRest(Tail(cur.layers), all) /\ Done(Tail(cur.layers), all) = m + 1
  BY <1>1, <1>4, RestFacts
<1> HIDE DEF m, settings
<1>5. SubSeq(all, 1, m) \in Seq(Configured) /\ (m = Len(all) => SubSeq(all, 1, m) = all)
  BY <1>1, <1>2, PrefixFacts
<1>6. ASSUME cur.layers # <<>>
      PROVE  /\ m + 1 \in 0 .. Len(all) /\ m + 1 \in 1 .. Len(all) /\ settings \in Configured
             /\ SubSeq(all, 1, m + 1) = Append(SubSeq(all, 1, m), settings)
  <2>1. /\ m + 1 \in 0 .. Len(all) /\ m + 1 \in 1 .. Len(all)
    <3> DEFINE n == Len(all)
    <3>1. m \in 0 .. (n - 1) /\ n \in Nat
      BY <1>3, <1>4, <1>6
    <3> HIDE DEF n
    <3>2. m + 1 \in 0 .. n /\ m + 1 \in 1 .. n
      BY <3>1
    <3> QED BY <3>2 DEF n
  <2>2. all[m + 1] \in Configured
    BY <1>1, <2>1
  <2>3. SubSeq(all, 1, m + 1) = Append(SubSeq(all, 1, m), all[m + 1])
    BY <1>1, <1>2, <1>4, <1>6, PrefixFacts
  <2> QED BY <1>4, <1>6, <2>1, <2>2, <2>3
<1>7. m + 0 = m
  BY <1>2
<1> QED BY <1>2, <1>3, <1>4, <1>5, <1>6, <1>7 DEF m, all, settings

(* A layer sets the port and the user, and its jobs are due. *)
LEMMA MakesDeviceLayer ==
  ASSUME IInv, [Next]_vars, Makes, ApplyDeviceLayer
  PROVE  Makes'
<1> DEFINE all == DeviceLayers(cur.name)
           m == Done(cur.layers, all)
           some == SubSeq(all, 1, m)
           settings == Head(cur.layers)
           device == cur.device
           from(x) == 1 + Len(FromStore(x))
<1>1. phase = "devices" /\ cur.stage = "layer" /\ cur.layers # <<>>
  BY DEF ApplyDeviceLayer
<1>2. /\ conf \in Configurations /\ cur.name \in Listed(conf.devices)
      /\ device \in DevicesAt(Addresses)
      /\ cur = [stage |-> cur.stage, name |-> cur.name, layers |-> cur.layers, job |-> cur.job,
                device |-> cur.device, due |-> cur.due]
      /\ \A x \in Listed(device.jobs) : x \in Names /\ JobUpTo(x, ReachedFor(x))
      /\ IsRest(cur.layers, all) /\ DeviceOf(device, SubSeq(all, 1, Reached))
      /\ Apart(device) /\ ~ GenericIsMissing(all)
  BY <1>1, Visited
<1>3. /\ m \in 0 .. Len(all) /\ some \in Seq(Configured) /\ m + 0 = m
      /\ m + 1 \in DOMAIN all /\ settings = all[m + 1] /\ settings \in Configured
      /\ SubSeq(all, 1, m + 1) = Append(some, settings)
  BY <1>1, LayersDone
<1>4. Reached = m /\ \A x : ReachedFor(x) = m
  BY <1>1, <1>3 DEF Reached, ReachedFor
<1> HIDE DEF settings, device
<1>5. CASE settings.protocol # Nothing /\ settings.protocol.port = Nothing
  <2>1. settings.protocol = [port |-> Nothing]
    <3>1. settings.protocol \in [port : Nat \cup {Nothing}]
      BY <1>3, <1>5 DEF Configured, DeviceConfs
    <3> QED BY <1>5, <3>1
  <2>2. ConfigIsFaulty
    BY <1>2, <1>3, <2>1 DEF ConfigIsFaulty
  <2>3. Skip
    BY <1>5 DEF ApplyDeviceLayer, settings
  <2> QED BY <1>1, <2>2, <2>3, MakesSkip
<1>6. CASE ~ (settings.protocol # Nothing /\ settings.protocol.port = Nothing)
  <2> DEFINE port == IF settings.protocol = Nothing THEN device.port ELSE settings.protocol.port
             user == Over(settings.user, device.user)
             tags == device.tags \o settings.tags
             due == Listed(settings.jobs) \cap Listed(device.jobs)
             new == [device EXCEPT !.port = port, !.user = user, !.tags = tags]
  <2>1. /\ cur' = [cur EXCEPT !.stage = "jobs", !.device = new, !.due = due]
        /\ UNCHANGED <<conf, phase, heap, jobs, devices, errs>>
    BY <1>6 DEF ApplyDeviceLayer, settings, device
  <2> HIDE DEF port, user, tags, due
  <2>2. new.jobs = device.jobs /\ new.port = port /\ new.user = user
    BY <1>2 DEF DevicesAt
  <2> HIDE DEF new
  <2>3. /\ cur'.stage = "jobs" /\ cur'.name = cur.name /\ cur'.layers = cur.layers
        /\ cur'.device = new /\ cur'.due = due
    BY <1>2, <2>1
  <2> HIDE DEF all, m, some
  <2>4. DeviceOf(new, Append(some, settings))
    <3>1. DeviceOf(device, some)
      BY <1>2, <1>4 DEF some
    <3> QED BY <1>3, <1>6, <2>2, <3>1, DeviceAppend DEF port, user
  <2>5. ASSUME NEW x \in Listed(device.jobs)
        PROVE  Made(device.jobs[x], heap, ChainOf(x, SubSeq(all, 1, m + (IF x \notin due THEN 1 ELSE 0))), from(x))
    <3>1. Made(device.jobs[x], heap, ChainOf(x, some), from(x)) /\ x \in Names
      BY <1>2, <1>4 DEF JobUpTo, all, some, device
    <3>2. CASE x \in due
      BY <1>3, <3>1, <3>2 DEF some
    <3>3. CASE x \notin due
      <4>1. settings.jobs[x] = Nothing
        BY <3>1, <3>3 DEF due, Listed
      <4>2. ChainOf(x, Append(some, settings)) = ChainOf(x, some)
        BY <1>2, <1>3, <3>1, <4>1, ChainAppend
      <4> QED BY <1>3, <3>1, <3>3, <4>2
    <3> QED BY <3>2, <3>3
  <2> HIDE DEF from
  <2>6. /\ IsRest(cur'.layers, all) /\ Done(cur'.layers, all) = m
        /\ Apart(cur'.device)
        /\ DeviceOf(cur'.device, SubSeq(all, 1, m + 1))
        /\ \A x \in Listed(cur'.device.jobs) :
             Made(cur'.device.jobs[x], heap',
                  ChainOf(x, SubSeq(all, 1, m + (IF x \notin cur'.due THEN 1 ELSE 0))), from(x))
    BY <1>2, <1>3, <2>1, <2>2, <2>3, <2>4, <2>5 DEF Apart, m
  <2>7. DeviceBeingMade'
    BY <1>2, <2>1, <2>3, <2>6, BeingMadeNext DEF all, from
  <2> QED BY <1>1, <2>1, <2>7, MakesKept
<1> QED BY <1>5, <1>6

(* When no job is due any more the layer counts as applied. *)
LEMMA MakesLayerDone ==
  ASSUME IInv, [Next]_vars, Makes, DeviceLayerDone
  PROVE  Makes'
<1> DEFINE all == DeviceLayers(cur.name)
           m == Done(cur.layers, all)
           from(x) == 1 + Len(FromStore(x))
<1>1. /\ phase = "devices" /\ cur.stage = "jobs" /\ cur.due = {}
      /\ cur' = [cur EXCEPT !.stage = "layer", !.layers = Tail(@)]
      /\ UNCHANGED <<conf, phase, heap, jobs, devices, errs>>
  BY DEF DeviceLayerDone
<1>2. /\ cur = [stage |-> cur.stage, name |-> cur.name, layers |-> cur.layers, job |-> cur.job,
                device |-> cur.device, due |-> cur.due]
      /\ \A x \in Listed(cur.device.jobs) : JobUpTo(x, ReachedFor(x))
      /\ DeviceOf(cur.device, SubSeq(all, 1, Reached))
      /\ Apart(cur.device) /\ ~ GenericIsMissing(all)
  BY <1>1, Visited
<1>3. cur.layers # <<>>
  BY <1>1 DEF IInv, Shape, DeviceVisited
<1>4. /\ IsRest(Tail(cur.layers), all) /\ Done(Tail(cur.layers), all) = m + 1
      /\ (m + 1) + 0 = m + 1
  BY <1>1, <1>3, LayersDone
<1>5. /\ cur'.stage = "layer" /\ cur'.name = cur.name /\ cur'.layers = Tail(cur.layers)
      /\ cur'.device = cur.device
  BY <1>1, <1>2
<1>6. Reached = m + 1 /\ \A x : ReachedFor(x) = m + 1
  BY <1>1 DEF Reached, ReachedFor
<1>7. /\ DeviceOf(cur'.device, SubSeq(all, 1, m + 1))
      /\ \A x \in Listed(cur'.device.jobs) :
           Made(cur'.device.jobs[x], heap', ChainOf(x, SubSeq(all, 1, m + 1)), from(x))
  BY <1>1, <1>2, <1>5, <1>6 DEF JobUpTo
<1> HIDE DEF all, m, from
<1>8. DeviceBeingMade'
  BY <1>1, <1>2, <1>4, <1>5, <1>7, BeingMadeNext DEF all, from
<1> QED BY <1>1, <1>8, MakesKept

(* A job that a device has is given settings by the device. *)
LEMMA ChainGiven ==
  ASSUME conf \in Configurations, NEW d \in Listed(conf.devices), ~ GenericIsMissing(DeviceLayers(d)),
         NEW n \in Listed(conf.devices[d].jobs)
  PROVE  /\ Chain(d, n) \in Seq(JobConfs) /\ Chain(d, n) # <<>>
         /\ Len(FromStore(n)) \in Nat /\ 1 + Len(FromStore(n)) <= Len(Chain(d, n))
<1> DEFINE all == DeviceLayers(d)
           own == conf.devices[d]
<1>1. /\ all \in Seq(Configured) /\ all # <<>> /\ n \in Names
      /\ Chain(d, n) = ChainOf(n, all)
  BY DeviceLayersGiven DEF Listed
<1>2. own.jobs[n] # Nothing /\ own = all[Len(all)]
  <2>1. own.jobs[n] # Nothing
    BY DEF Listed
  <2>2. all = <<own>> \/ \E x : all = <<x, own>>
    BY DEF DeviceLayers
  <2> HIDE DEF all, own
  <2>3. ASSUME NEW x, NEW y
        PROVE  <<y>>[Len(<<y>>)] = y /\ <<x, y>>[Len(<<x, y>>)] = y
    <3>1. Len(<<y>>) = 1 /\ Len(<<x, y>>) = 2
      OBVIOUS
    <3> QED BY <3>1
  <2>4. CASE all = <<own>>
    <3>1. <<own>>[Len(<<own>>)] = own
      BY <2>3
    <3> QED BY <2>1, <2>4, <3>1
  <2>5. ASSUME NEW x, all = <<x, own>>
        PROVE  own = all[Len(all)]
    <3>1. <<x, own>>[Len(<<x, own>>)] = own
      BY <2>3
    <3> QED BY <2>5, <3>1
  <2> QED BY <2>1, <2>2, <2>4, <2>5
<1> HIDE DEF all, own
<1>3. Len(all) \in Nat \ {0} /\ own \in Configured
  BY <1>1, <1>2
<1> DEFINE k == Len(all) - 1
<1>4. k \in 0 .. (Len(all) - 1) /\ k \in 0 .. Len(all) /\ k + 1 = Len(all)
  BY <1>3
<1> HIDE DEF k
<1>5. SubSeq(all, 1, k + 1) = Append(SubSeq(all, 1, k), all[k + 1]) /\ SubSeq(all, 1, k) \in Seq(Configured)
  BY <1>1, <1>4, PrefixFacts
<1>6. SubSeq(all, 1, Len(all)) = all
  BY <1>1, PrefixFacts
<1> DEFINE front == SubSeq(all, 1, k)
<1>7. all = Append(front, own) /\ front \in Seq(Configured)
  BY <1>2, <1>4, <1>5, <1>6
<1> HIDE DEF front
<1>8. /\ ChainOf(n, front) \in Seq(JobConfs)
      /\ ChainOf(n, all) = Append(ChainOf(n, front), own.jobs[n])
      /\ Len(FromStore(n)) \in Nat /\ Len(ChainOf(n, front)) >= Len(FromStore(n))
  BY <1>1, <1>2, <1>3, <1>7, ChainAppend
<1>9. own.jobs[n] \in JobConfs
  BY <1>1, <1>2, <1>3, LayerType
<1>10. ASSUME NEW s \in Seq(JobConfs), NEW x \in JobConfs
       PROVE  /\ Append(s, x) \in Seq(JobConfs) /\ Append(s, x) # <<>>
              /\ Len(Append(s, x)) = Len(s) + 1 /\ Len(s) \in Nat
  OBVIOUS
<1>11. Len(ChainOf(n, all)) = Len(ChainOf(n, front)) + 1 /\ Len(ChainOf(n, front)) \in Nat
  BY <1>8, <1>9, <1>10
<1> QED BY <1>1, <1>8, <1>9, <1>10, <1>11 DEF all, own

(* A device all of whose layers have been applied. *)
LEMMA DeviceIsDone ==
  ASSUME IInv, Makes, phase = "devices", cur.stage = "layer", cur.layers = <<>>,
         NEW d, d = cur.name
  PROVE  /\ conf \in Configurations /\ d \in Listed(conf.devices) /\ cur.device \in Devices
         /\ Listed(cur.device.jobs) = Listed(conf.devices[d].jobs)
         /\ ~ GenericIsMissing(DeviceLayers(d)) /\ DeviceOf(cur.device, DeviceLayers(d))
         /\ \A n \in Listed(cur.device.jobs) :
              /\ cur.device.jobs[n] \in Jobs
              /\ Made(cur.device.jobs[n], heap, Chain(d, n), 1 + Len(FromStore(n)))
              /\ AllPlain /\ ~ Valid(cur.device.jobs[n]) => ConfigIsFaulty
<1> DEFINE all == DeviceLayers(d)
           m == Done(cur.layers, all)
<1>1. /\ conf \in Configurations /\ d \in Listed(conf.devices) /\ cur.device \in Devices
      /\ \A n \in Listed(cur.device.jobs) :
           n \in Names /\ cur.device.jobs[n] \in Jobs /\ JobUpTo(n, ReachedFor(n))
      /\ ~ GenericIsMissing(all) /\ DeviceOf(cur.device, SubSeq(all, 1, Reached))
      /\ \A n \in Names : Chain(d, n) = ChainOf(n, all)
  BY Visited
<1>2. m = Len(all) /\ SubSeq(all, 1, m) = all /\ m + 0 = m
  BY LayersDone
<1>3. Reached = m /\ \A n : ReachedFor(n) = m
  BY <1>2 DEF Reached, ReachedFor
<1>4. Listed(cur.device.jobs) = Listed(conf.devices[d].jobs)
  BY DEF IInv, Shape, DeviceVisited
<1>5. DeviceOf(cur.device, all)
  BY <1>1, <1>2, <1>3
<1>6. ASSUME NEW n \in Listed(cur.device.jobs)
      PROVE  /\ Made(cur.device.jobs[n], heap, Chain(d, n), 1 + Len(FromStore(n)))
             /\ AllPlain /\ ~ Valid(cur.device.jobs[n]) => ConfigIsFaulty
  <2> DEFINE job == cur.device.jobs[n]
             chain == Chain(d, n)
             from == 1 + Len(FromStore(n))
  <2>1. Made(job, heap, chain, from)
    BY <1>1, <1>2, <1>3 DEF JobUpTo
  <2>2. chain \in Seq(JobConfs) /\ chain # <<>>
    BY <1>1, <1>4, ChainGiven
  <2>4. job \in Jobs /\ n \in Listed(conf.devices[d].jobs)
    BY <1>1, <1>4
  <2>3. AllPlain => PlainValues(chain)
    BY <1>1, <2>4 DEF AllPlain
  <2> HIDE DEF job, chain, from
  <2>5. AllPlain /\ ~ Valid(job) => Faulty(chain, from)
    BY <2>1, <2>2, <2>3, <2>4, SoundIsRight, ValidIsSound
  <2>6. AllPlain /\ ~ Valid(job) => ConfigIsFaulty
    BY <1>1, <2>4, <2>5 DEF ConfigIsFaulty, chain, from
  <2> QED BY <2>1, <2>6 DEF job, chain, from
<1> QED BY <1>1, <1>4, <1>5, <1>6

(* A device with all its layers is stored if all its jobs can be run. *)
LEMMA MakesStoreDevice ==
  ASSUME IInv, [Next]_vars, Makes, StoreDevice
  PROVE  Makes'
<1>1. phase = "devices" /\ cur.stage = "layer" /\ cur.layers = <<>>
  BY DEF StoreDevice
<1>2. CASE \E n \in Listed(cur.device.jobs) : ~ Valid(cur.device.jobs[n])
  <2>1. AllPlain => ConfigIsFaulty
    BY <1>1, <1>2, DeviceIsDone
  <2>2. Skip
    BY <1>2 DEF StoreDevice
  <2> QED BY <1>1, <2>1, <2>2, MakesSkip
<1>3. CASE ~ \E n \in Listed(cur.device.jobs) : ~ Valid(cur.device.jobs[n])
  <2>1. /\ devices' = [devices EXCEPT ![cur.name] = cur.device] /\ cur' = Idle
        /\ UNCHANGED <<conf, phase, heap, jobs, errs>>
    BY <1>3 DEF StoreDevice
  <2>2. cur'.stage = "idle"
    BY <2>1, IdleFacts
  <2>3. DeviceBeingMade'
    BY <2>2 DEF DeviceBeingMade
  <2>4. devices \in [Names -> Devices \cup {Nothing}]
    BY DEF IInv, TypeOK, Maps
  <2>5. ASSUME NEW d, d = cur.name
        PROVE  DeviceMade(d)'
    <3>1. /\ conf \in Configurations /\ d \in Listed(conf.devices) /\ cur.device \in Devices
          /\ ~ GenericIsMissing(DeviceLayers(d)) /\ DeviceOf(cur.device, DeviceLayers(d))
          /\ \A n \in Listed(cur.device.jobs) :
               /\ cur.device.jobs[n] \in Jobs
               /\ Made(cur.device.jobs[n], heap, Chain(d, n), 1 + Len(FromStore(n)))
      BY <1>1, <2>5, DeviceIsDone
    <3>2. d \in Names
      BY <3>1 DEF Listed
    <3>3. devices'[d] = cur.device
      BY <2>1, <2>4, <2>5, <3>2
    <3>4. \A n \in Listed(cur.device.jobs) : Sound(Seen(cur.device.jobs[n], heap))
      BY <1>3, <3>1, ValidIsSound
    <3>5. /\ \A n : Chain(d, n)' = Chain(d, n) /\ FromStore(n)' = FromStore(n)
          /\ DeviceLayers(d)' = DeviceLayers(d)
      BY <2>1, ConfKept
    <3> QED BY <2>1, <3>1, <3>3, <3>4, <3>5 DEF DeviceMade
  <2>6. DevicesMade'
    <3>1. \A d \in Listed(devices) : DeviceMade(d)'
      BY StoredStay DEF Makes
    <3>2. \A d \in Listed(devices') : d \in Listed(devices) \/ d = cur.name
      BY <2>1, <2>4 DEF Listed
    <3> QED BY <2>5, <3>1, <3>2 DEF DevicesMade
  <2> QED BY <1>1, <2>1, <2>3, <2>6, MakesKept
<1> QED BY <1>2, <1>3

(* All devices are visited. *)
LEMMA MakesDevicesDone ==
  ASSUME IInv, [Next]_vars, Makes, DeviceStoreDone
  PROVE  Makes'
<1>1. /\ phase = "devices" /\ cur.stage = "idle" /\ phase' \in {"failed", "data store"}
      /\ UNCHANGED <<cur, jobs, devices, errs>>
  BY DEF DeviceStoreDone
<1>2. DeviceBeingMade'
  BY <1>1 DEF DeviceBeingMade
<1> QED BY <1>1, <1>2, MakesKept

(* After the stores are made nothing changes them. *)
LEMMA MakesLater ==
  ASSUME IInv, [Next]_vars, Makes, NEW n \in Names,
         OpenDataStore \/ BeginLists(n) \/ AddDeviceJob(n) \/ DeviceAdded \/ Started
  PROVE  Makes'
<1>1. /\ phase \in {"data store", "lists"} /\ phase' \in {"failed", "data store", "lists", "started"}
      /\ UNCHANGED <<jobs, devices, errs>>
  BY DEF OpenDataStore, BeginLists, AddDeviceJob, DeviceAdded, Started
<1>2. DeviceBeingMade'
  BY <1>1 DEF DeviceBeingMade
<1> QED BY <1>1, <1>2, MakesKept

(* Stuttering keeps the invariant. *)
LEMMA MakesStutters ==
  ASSUME Makes, UNCHANGED vars
  PROVE  Makes'
<1>1. UNCHANGED <<conf, phase, todo, cur, heap, jobs, devices, errs>>
  BY DEF vars
<1>2. /\ \A n : JobLayers(n)' = JobLayers(n) /\ DeviceLayers(n)' = DeviceLayers(n)
      /\ \A n : FromStore(n)' = FromStore(n)
      /\ \A n, layers : ChainOf(n, layers)' = ChainOf(n, layers)
      /\ \A d, n : Chain(d, n)' = Chain(d, n)
      /\ AllPlain' <=> AllPlain
      /\ ConfigIsFaulty' <=> ConfigIsFaulty
  BY <1>1, ConfKept
<1>3. JobsMade' /\ JobBeingMade' /\ NoJobDropped' /\ ErrorsAreRight'
  BY <1>1, <1>2 DEF Makes, JobsMade, JobMade, JobBeingMade, NoJobDropped, ErrorsAreRight, Listed
<1>4. DevicesMade'
  BY <1>1, <1>2 DEF Makes, DevicesMade, DeviceMade, Listed
<1>5. Reached' = Reached /\ \A n : ReachedFor(n)' = ReachedFor(n)
  BY <1>1, <1>2 DEF Reached, ReachedFor
<1>6. DeviceBeingMade'
  BY <1>1, <1>2, <1>5 DEF Makes, DeviceBeingMade, JobUpTo, Apart, Listed
<1> QED BY <1>3, <1>4, <1>6 DEF Makes

(* The values that settings leave a job of a device. *)
LEMMA ValuesApplied ==
  ASSUME conf \in Configurations, NEW n \in Names, NEW layers \in Seq(Configured),
         NEW job, NEW settings \in JobConfs,
         Made(job, heap, ChainOf(n, layers), 1 + Len(FromStore(n)))
  PROVE  LET more == Append(ChainOf(n, layers), settings)
             from == 1 + Len(FromStore(n)) IN
         /\ more \in Seq(JobConfs) /\ from \in Nat /\ Len(more) >= from /\ ~ (Len(more) < from)
         /\ PlainValues(more) =>
              [k \in Keys |-> Over(settings.template_values[k], job.template_values[k])] =
                ValuesAt(more, from)
<1> DEFINE chain == ChainOf(n, layers)
           more == Append(chain, settings)
           from == 1 + Len(FromStore(n))
           given == Given(JobsOf(layers, n))
<1>1. FromStore(n) \in Seq(JobConfs)
  BY FromStoreIs
<1>2. given \in Seq(JobConfs)
  <2> DEFINE list == JobsOf(layers, n)
             R == JobConfs \cup {Nothing}
  <2>1. \A i \in DOMAIN layers : layers[i] \in Configured
    OBVIOUS
  <2>2. \A i \in DOMAIN layers : layers[i].jobs[n] \in R
    BY <2>1, LayerType
  <2>3. list \in Seq(R)
    <3> HIDE DEF R
    <3> QED BY <2>2 DEF JobsOf
  <2> HIDE DEF list
  <2>4. Given(list) \in Seq(JobConfs \ {Nothing})
    BY <2>3, GivenAppend
  <2>5. \A s \in Seq(JobConfs \ {Nothing}) : s \in Seq(JobConfs)
    OBVIOUS
  <2> QED BY <2>4, <2>5 DEF list
<1> HIDE DEF given
<1>3. chain = FromStore(n) \o given
  BY DEF ChainOf, given
<1>4. chain \in Seq(JobConfs) /\ Len(chain) = Len(FromStore(n)) + Len(given)
      /\ Len(given) \in Nat /\ Len(FromStore(n)) \in Nat
  BY <1>1, <1>2, <1>3
<1>5. Made(job, heap, chain, from)
  OBVIOUS
<1> HIDE DEF chain
<1>6. more \in Seq(JobConfs) /\ Len(more) = Len(chain) + 1
  BY <1>4, AppendProperties
<1>7. from \in Nat /\ Len(more) >= from /\ ~ (Len(more) < from)
  <2> DEFINE l == Len(more)
  <2>1. l = Len(FromStore(n)) + Len(given) + 1
    BY <1>4, <1>6
  <2> HIDE DEF l
  <2>2. from \in Nat /\ l >= from /\ ~ (l < from)
    BY <1>4, <2>1
  <2> QED BY <2>2 DEF l
<1> HIDE DEF from
<1>8. ASSUME PlainValues(more), NEW k \in Keys
      PROVE  Over(settings.template_values[k], job.template_values[k]) = ValueOf(more, k)
  <2>1. PlainValues(chain)
    BY <1>4, <1>8, PlainAppend
  <2>2. Seen(job, heap) = [Built(chain, from) EXCEPT !.kind = job.kind]
    BY <1>5, <2>1 DEF Made
  <2>3. Seen(job, heap).values = Built(chain, from).values
    <3>1. Built(chain, from) =
            [kind |-> Built(chain, from).kind, schedule |-> Built(chain, from).schedule,
             values |-> Built(chain, from).values, commands |-> Built(chain, from).commands,
             scrubbers |-> Built(chain, from).scrubbers, files |-> Built(chain, from).files]
      BY BuiltShape
    <3> DEFINE d == Built(chain, from)
    <3> HIDE DEF d
    <3> QED BY <2>2, <3>1 DEF d
  <2>4. Built(chain, from).values = [x \in Keys |-> ValueOf(chain, x)]
    BY DEF Built
  <2>5. job.template_values[k] = ValueOf(chain, k)
    BY <2>3, <2>4, SeenThrough
  <2> HIDE DEF more
  <2>6. ValueOf(more, k) = Over(settings.template_values[k], ValueOf(chain, k))
    BY <1>4, ValueAppend DEF more
  <2> QED BY <2>5, <2>6
<1>9. ASSUME PlainValues(more)
      PROVE  [k \in Keys |-> Over(settings.template_values[k], job.template_values[k])] =
               ValuesAt(more, from)
  <2>1. ValuesAt(more, from) = [k \in Keys |-> ValueOf(more, k)]
    BY <1>7 DEF ValuesAt
  <2> HIDE DEF more
  <2> QED BY <1>8, <1>9, <2>1
<1> QED BY <1>6, <1>7, <1>9 DEF chain, from

(* A job of a device is applied its settings and its template values. *)
LEMMA DeviceJobIsMade ==
  ASSUME IInv, Makes, NEW n \in Names, ApplyDeviceJob(n),
         ~ ApplyPanics(cur.device.jobs[n], Head(cur.layers).jobs[n]),
         ~ ApplyFails(cur.device.jobs[n], Head(cur.layers).jobs[n])
  PROVE  \E applied :
           /\ cur' = [cur EXCEPT !.device.jobs[n] = applied, !.due = cur.due \ {n}]
           /\ UNCHANGED <<conf, phase, jobs, devices, errs>>
           /\ applied # Nothing
           /\ Made(applied, heap',
                   ChainOf(n, SubSeq(DeviceLayers(cur.name), 1,
                                     Done(cur.layers, DeviceLayers(cur.name)) + 1)),
                   1 + Len(FromStore(n)))
           /\ \A a \in Addresses : a \notin Range(Parts(applied)) => heap'[a] = heap[a]
           /\ Range(Parts(applied)) \cap Addresses \subseteq Range(Parts(cur.device.jobs[n]))
<1> DEFINE all == DeviceLayers(cur.name)
           m == Done(cur.layers, all)
           some == SubSeq(all, 1, m)
           layer == Head(cur.layers)
           settings == Head(cur.layers).jobs[n]
           job == cur.device.jobs[n]
           from == 1 + Len(FromStore(n))
           chain == ChainOf(n, some)
           more == Append(chain, settings)
           added == AddedCells(job, settings)
           cells == heap \o added
           given(values) == {k \in Keys : values[k] # Nothing}
<1>1. PICK files \in SetToSeqs(settings.file) :
        LET applied == Applied(job, settings, files) IN
        \E order \in SetToSeqs(given(applied.template_values)) :
          /\ heap' = [a \in DOMAIN cells |->
               IF a \in Range(Parts(applied)) THEN Resolved(cells[a], applied.template_values, order)
               ELSE cells[a]]
          /\ cur' = [cur EXCEPT !.device.jobs[n] = applied, !.due = @ \ {n}]
          /\ UNCHANGED <<conf, phase, jobs, devices, errs>>
  BY DEF ApplyDeviceJob
<1> DEFINE applied == Applied(job, settings, files)
           values == applied.template_values
<1>2. PICK order \in SetToSeqs(given(values)) :
        /\ heap' = [a \in DOMAIN cells |->
             IF a \in Range(Parts(applied)) THEN Resolved(cells[a], values, order) ELSE cells[a]]
        /\ cur' = [cur EXCEPT !.device.jobs[n] = applied, !.due = cur.due \ {n}]
        /\ UNCHANGED <<conf, phase, jobs, devices, errs>>
  BY <1>1
<1>3. /\ phase = "devices" /\ cur.stage = "jobs" /\ n \in cur.due
      /\ Applies(job, settings)
  BY DEF ApplyDeviceJob, Applies
<1>4. /\ n \in Listed(layer.jobs) /\ n \in Listed(cur.device.jobs) /\ cur.layers # <<>>
  BY <1>3 DEF IInv, Shape, DeviceVisited
<1>5. /\ conf \in Configurations /\ heap \in Seq(Cells) /\ Len(heap) \in Nat
      /\ job \in Jobs /\ job \in JobsAt(Addresses) /\ Range(Parts(job)) \subseteq Addresses
      /\ JobUpTo(n, ReachedFor(n))
  BY <1>3, <1>4, Visited DEF Jobs
<1>6. /\ some \in Seq(Configured) /\ m + 0 = m /\ layer \in Configured
      /\ SubSeq(all, 1, m + 1) = Append(some, layer)
  BY <1>3, <1>4, LayersDone
<1>7. settings \in JobConfs /\ settings # Nothing
  BY <1>4, <1>6, LayerType DEF Listed
<1>8. Made(job, heap, chain, from)
  BY <1>3, <1>5, <1>6 DEF JobUpTo, ReachedFor
<1>9. /\ ChainOf(n, SubSeq(all, 1, m + 1)) = more /\ chain \in Seq(JobConfs)
  BY <1>5, <1>6, <1>7, ChainAppend
<1>10. /\ added \in Seq(Cells) /\ Len(cells) = Len(heap) + Len(added)
       /\ applied \in JobsAt(1 .. Len(cells))
       /\ Len(cells) \in Nat
       /\ Range(Parts(applied)) \subseteq Range(Parts(job)) \cup {a \in 1 .. Len(cells) : a > Len(heap)}
  <2>1. added \in Seq(Cells)
    BY <1>3, <1>5, <1>7, NewCommandsType, NewScrubbersType DEF AddedCells
  <2> HIDE DEF settings, job, applied
  <2>2. Len(cells) = Len(heap) + Len(added) /\ Len(added) \in Nat
    <3> HIDE DEF added
    <3>1. Len(added) \in Nat
      BY <2>1
    <3> QED BY <1>5, <2>1, <3>1, ConcatProperties
  <2>3. Len(cells) \in Nat
    BY <1>5, <2>2
  <2>4. /\ applied \in JobsAt(1 .. Len(cells))
        /\ Range(Parts(applied)) \subseteq Range(Parts(job)) \cup {a \in 1 .. Len(cells) : a > Len(heap)}
    BY <1>3, <1>5, <1>7, <2>2, <2>3, AppliedType DEF applied
  <2> QED BY <2>1, <2>2, <2>3, <2>4
<1> HIDE DEF all, m, some, chain, from, layer
<1>11. /\ cells \in Seq(Cells) /\ DOMAIN cells = 1 .. Len(cells) /\ Len(added) \in Nat
       /\ \A a \in 1 .. Len(heap) : cells[a] = heap[a]
  <2> HIDE DEF added
  <2> QED BY <1>5, <1>10
<1>12. /\ more \in Seq(JobConfs) /\ from \in Nat /\ ~ (Len(more) < from)
       /\ PlainValues(more) =>
            [k \in Keys |-> Over(settings.template_values[k], job.template_values[k])] = ValuesAt(more, from)
  <2>1. Made(job, heap, ChainOf(n, some), 1 + Len(FromStore(n)))
    BY <1>8 DEF chain, from
  <2> HIDE DEF job, settings
  <2> QED BY <1>5, <1>6, <1>7, <2>1, ValuesApplied DEF chain, from
<1>13. values = [k \in Keys |-> Over(settings.template_values[k], job.template_values[k])]
  BY DEF Applied
<1> HIDE DEF settings, job, added, cells, more, applied
<1>14. \A a \in Range(Parts(applied)) : a \in 1 .. Len(cells) /\ (a \in Addresses => a \in Range(Parts(job)))
  <2>1. \A a \in Addresses : a \in 1 .. Len(cells) /\ ~ (a > Len(heap))
    BY <1>5, <1>10, <1>11 DEF Addresses
  <2> QED BY <1>5, <1>10, <2>1
<1>15. ASSUME PlainValues(more) \/ Len(more) < from
       PROVE  \A a \in Range(Parts(applied)) : heap'[a] = Filled(cells[a], ValuesAt(more, from))
  <2>1. values = ValuesAt(more, from) /\ \A k \in Keys : values[k] \notin Keys
    BY <1>12, <1>13, <1>15, ValuesAtType
  <2> HIDE DEF values
  <2>2. ASSUME NEW a \in Range(Parts(applied))
        PROVE  heap'[a] = Filled(cells[a], ValuesAt(more, from))
    <3>1. a \in DOMAIN cells /\ cells[a] \in Cells
      BY <1>11, <1>14
    <3>2. heap'[a] = Resolved(cells[a], values, order)
      BY <1>2, <3>1
    <3>3. Resolved(cells[a], values, order) = Filled(cells[a], values)
      BY <2>1, <3>1, ResolvedPlain
    <3> QED BY <2>1, <3>2, <3>3
  <2> QED BY <2>2
<1> HIDE DEF values
<1>16. Made(applied, heap', more, from)
  <2>1. PlainValues(Append(chain, settings)) \/ Len(Append(chain, settings)) < from =>
          \A a \in Range(Parts(Applied(job, settings, files))) :
            heap'[a] = Filled((heap \o AddedCells(job, settings))[a], ValuesAt(Append(chain, settings), from))
    BY <1>15 DEF applied, cells, more, added
  <2>2. Made(Applied(job, settings, files), heap', Append(chain, settings), from)
    BY <1>3, <1>5, <1>7, <1>8, <1>9, <1>12, <2>1, MadeApplied
  <2> QED BY <2>2 DEF applied, more
<1>17. \A a \in Addresses : a \notin Range(Parts(applied)) => heap'[a] = heap[a]
  <2>1. \A a \in Addresses : a \in 1 .. Len(heap) /\ a \in DOMAIN cells
    BY <1>5, <1>10, <1>11 DEF Addresses
  <2> QED BY <1>2, <1>11, <2>1
<1>18. applied # Nothing
  BY <1>10, Grows
<1>19. Range(Parts(applied)) \cap Addresses \subseteq Range(Parts(job))
  BY <1>14
<1>20. /\ cur' = [cur EXCEPT !.device.jobs[n] = applied, !.due = cur.due \ {n}]
       /\ UNCHANGED <<conf, phase, jobs, devices, errs>>
  BY <1>2
<1> QED BY <1>9, <1>16, <1>17, <1>18, <1>19, <1>20 DEF job, all, m, from

(* Settings that do not apply to a job of a device. *)
LEMMA DeviceJobIsFaulty ==
  ASSUME IInv, Makes, NEW n \in Names, phase = "devices", cur.stage = "jobs", n \in cur.due,
         ApplyFails(cur.device.jobs[n], Head(cur.layers).jobs[n])
  PROVE  ConfigIsFaulty
<1> DEFINE all == DeviceLayers(cur.name)
           m == Done(cur.layers, all)
           some == SubSeq(all, 1, m)
           layer == Head(cur.layers)
           settings == layer.jobs[n]
           job == cur.device.jobs[n]
           chain == ChainOf(n, some)
           from == 1 + Len(FromStore(n))
<1>1. /\ n \in Listed(layer.jobs) /\ n \in Listed(cur.device.jobs) /\ cur.layers # <<>>
      /\ Listed(conf.devices[cur.name].jobs) = Listed(cur.device.jobs)
  BY DEF IInv, Shape, DeviceVisited
<1>2. /\ conf \in Configurations /\ cur.name \in Listed(conf.devices) /\ job \in Jobs
      /\ JobUpTo(n, ReachedFor(n)) /\ ~ GenericIsMissing(all)
  BY <1>1, Visited
<1>3. /\ some \in Seq(Configured) /\ m + 0 = m /\ layer \in Configured
      /\ m + 1 \in 0 .. Len(all)
      /\ SubSeq(all, 1, m + 1) = Append(some, layer)
  BY <1>1, LayersDone
<1>4. settings \in JobConfs /\ settings # Nothing
  BY <1>1, <1>3, LayerType DEF Listed
<1>5. Made(job, heap, chain, from)
  BY <1>2, <1>3 DEF JobUpTo, ReachedFor
<1>6. ChainOf(n, SubSeq(all, 1, m + 1)) = Append(chain, settings) /\ chain \in Seq(JobConfs)
  BY <1>2, <1>3, <1>4, ChainAppend
<1>7. ApplyFails(job, settings)
  OBVIOUS
<1> HIDE DEF all, m, some, layer, settings, job, chain, from
<1>8. ~ Agree(Append(chain, settings))
  BY <1>4, <1>5, <1>6, <1>7, FailsDisagree
<1>9. ~ Agree(ChainOf(n, SubSeq(all, 1, m + 1)))
  BY <1>6, <1>8
<1> QED BY <1>1, <1>2, <1>3, <1>9, FaultyDevice DEF all

(* A job of the device gets the settings of the layer, or an error. *)
LEMMA MakesDeviceJob ==
  ASSUME IInv, [Next]_vars, Makes, NEW n \in Names, ApplyDeviceJob(n)
  PROVE  Makes'
<1> DEFINE settings == Head(cur.layers).jobs[n]
           job == cur.device.jobs[n]
<1>1. phase = "devices" /\ cur.stage = "jobs" /\ n \in cur.due
  BY DEF ApplyDeviceJob
<1>2. CASE ApplyPanics(job, settings)
  <2>1. phase' = "panicked" /\ UNCHANGED <<conf, cur, heap, jobs, devices, errs>>
    BY <1>2 DEF ApplyDeviceJob
  <2>2. DeviceBeingMade'
    BY <2>1 DEF DeviceBeingMade
  <2> QED BY <1>1, <2>1, <2>2, MakesKept
<1>3. CASE ~ ApplyPanics(job, settings) /\ ApplyFails(job, settings)
  <2>1. Skip
    BY <1>3 DEF ApplyDeviceJob
  <2>2. ConfigIsFaulty
    BY <1>1, <1>3, DeviceJobIsFaulty
  <2> QED BY <1>1, <2>1, <2>2, MakesSkip
<1>4. CASE ~ ApplyPanics(job, settings) /\ ~ ApplyFails(job, settings)
  <2> DEFINE all == DeviceLayers(cur.name)
             m == Done(cur.layers, all)
             device == cur.device
             from(x) == 1 + Len(FromStore(x))
             upTo(x) == ChainOf(x, SubSeq(all, 1, m + (IF x \notin cur.due THEN 1 ELSE 0)))
             now(x) == ChainOf(x, SubSeq(all, 1, m + (IF x \notin cur'.due THEN 1 ELSE 0)))
  <2>1. PICK applied :
          /\ cur' = [cur EXCEPT !.device.jobs[n] = applied, !.due = cur.due \ {n}]
          /\ UNCHANGED <<conf, phase, jobs, devices, errs>>
          /\ applied # Nothing
          /\ Made(applied, heap', ChainOf(n, SubSeq(all, 1, m + 1)), from(n))
          /\ \A a \in Addresses : a \notin Range(Parts(applied)) => heap'[a] = heap[a]
          /\ Range(Parts(applied)) \cap Addresses \subseteq Range(Parts(device.jobs[n]))
    BY <1>4, DeviceJobIsMade
  <2>2. /\ device \in DevicesAt(Addresses)
        /\ cur = [stage |-> cur.stage, name |-> cur.name, layers |-> cur.layers, job |-> cur.job,
                  device |-> cur.device, due |-> cur.due]
        /\ \A x \in Listed(device.jobs) :
             /\ x \in Names /\ device.jobs[x] \in Jobs /\ JobUpTo(x, ReachedFor(x))
             /\ Range(Parts(device.jobs[x])) \subseteq Addresses
        /\ IsRest(cur.layers, all) /\ DeviceOf(device, SubSeq(all, 1, Reached))
        /\ Apart(device) /\ ~ GenericIsMissing(all)
    BY <1>1, Visited
  <2>3. /\ cur'.stage = "jobs" /\ cur'.name = cur.name /\ cur'.layers = cur.layers
        /\ cur'.due = cur.due \ {n}
        /\ cur'.device.jobs = [device.jobs EXCEPT ![n] = applied]
        /\ cur'.device.port = device.port /\ cur'.device.user = device.user
    BY <1>1, <2>1, <2>2 DEF DevicesAt
  <2>4. device.jobs \in [Names -> JobsAt(Addresses) \cup {Nothing}] /\ n \in Listed(device.jobs)
    BY <1>1, <2>2 DEF DevicesAt, Maps, IInv, Shape, DeviceVisited
  <2>5. Reached = m + 1
    BY <1>1 DEF Reached
  <2>6. \A x \in Listed(device.jobs) : Made(device.jobs[x], heap, upTo(x), from(x))
    BY <1>1, <2>2 DEF JobUpTo, ReachedFor
  <2> HIDE DEF all, m, device
  <2>7. /\ Listed(cur'.device.jobs) = Listed(device.jobs)
        /\ cur'.device.jobs[n] = applied
        /\ \A x \in Names \ {n} : cur'.device.jobs[x] = device.jobs[x]
    BY <2>1, <2>3, <2>4 DEF Listed
  <2>8. \A x \in Listed(device.jobs) \ {n} :
          Range(Parts(device.jobs[x])) \cap Range(Parts(applied)) = {}
    BY <2>1, <2>2, <2>4 DEF Apart
  <2>9. ASSUME NEW x \in Listed(cur'.device.jobs)
        PROVE  Made(cur'.device.jobs[x], heap', now(x), from(x))
    <3>1. CASE x = n
      <4>1. now(n) = ChainOf(n, SubSeq(all, 1, m + 1))
        BY <2>3
      <4> HIDE DEF now
      <4> QED BY <2>1, <2>7, <3>1, <4>1
    <3>2. CASE x # n
      <4> DEFINE one == device.jobs[x]
      <4>1. x \in Listed(device.jobs) /\ x \in Names \ {n} /\ cur'.device.jobs[x] = one
        BY <2>2, <2>7, <3>2
      <4>2. one \in Jobs /\ \A a \in Range(Parts(one)) : heap'[a] = heap[a]
        BY <2>1, <2>2, <2>8, <4>1
      <4>3. now(x) = upTo(x)
        BY <2>3, <3>2
      <4>4. Made(one, heap, upTo(x), from(x))
        BY <2>6, <4>1
      <4> HIDE DEF one, from, now, upTo
      <4>5. Made(one, heap', upTo(x), from(x))
        BY <4>2, <4>4, SeenKept
      <4> QED BY <4>1, <4>3, <4>5
    <3> QED BY <3>1, <3>2
  <2>10. Apart(cur'.device)
    <3> SUFFICES ASSUME NEW x \in Listed(device.jobs), NEW y \in Listed(device.jobs), x # y
                 PROVE  Range(Parts(cur'.device.jobs[x])) \cap Range(Parts(cur'.device.jobs[y])) = {}
      BY <2>7 DEF Apart
    <3>1. CASE x = n
      BY <2>2, <2>7, <2>8, <3>1
    <3>2. CASE y = n
      BY <2>2, <2>7, <2>8, <3>2
    <3>3. CASE x # n /\ y # n
      BY <2>2, <2>7, <3>3 DEF Apart
    <3> QED BY <3>1, <3>2, <3>3
  <2>11. DeviceOf(cur'.device, SubSeq(all, 1, m + 1))
    BY <2>2, <2>3, <2>5 DEF DeviceOf
  <2> HIDE DEF from
  <2>12. /\ IsRest(cur'.layers, all) /\ Done(cur'.layers, all) = m
         /\ \A x \in Listed(cur'.device.jobs) :
              Made(cur'.device.jobs[x], heap',
                   ChainOf(x, SubSeq(all, 1, m + (IF x \notin cur'.due THEN 1 ELSE 0))), from(x))
    BY <2>2, <2>3, <2>9 DEF m
  <2>13. DeviceBeingMade'
    BY <2>1, <2>2, <2>3, <2>10, <2>11, <2>12, BeingMadeNext DEF all, from
  <2> QED BY <1>1, <2>1, <2>13, MakesKept
<1> QED BY <1>2, <1>3, <1>4

(* It holds at the start, when nothing has been made. *)
LEMMA MakesInit == Init => Makes
<1> SUFFICES ASSUME Init
             PROVE  Makes
  OBVIOUS
<1>1. /\ phase = "jobs" /\ todo = Listed(conf.jobs) /\ cur = Idle /\ errs = FALSE
      /\ Listed(jobs) = {} /\ Listed(devices) = {}
  BY DEF Init, Listed
<1>2. cur.stage = "idle"
  BY <1>1, IdleFacts
<1> QED BY <1>1, <1>2 DEF Makes, JobsMade, JobBeingMade, NoJobDropped, DeviceBeingMade, DevicesMade,
                          ErrorsAreRight

(* It is inductive, together with IInv. *)
LEMMA MakesNext == IInv /\ Makes /\ [Next]_vars => Makes'
<1> SUFFICES ASSUME IInv, Makes, [Next]_vars
             PROVE  Makes'
  OBVIOUS
<1>1. ASSUME NEW n \in Names, BeginJob(n) \/ ApplyJobLayer \/ StoreJob \/ JobStoreDone
      PROVE  Makes'
  BY <1>1, MakesJobs
<1>2. ASSUME NEW n \in Names, BeginDevice(n)
      PROVE  Makes'
  BY <1>2, MakesBeginDevice
<1>3. ASSUME NEW n \in Names, CopyJob(n)
      PROVE  Makes'
  BY <1>3, MakesCopyJob
<1>4. ASSUME NEW n \in Names, ApplyDeviceJob(n)
      PROVE  Makes'
  BY <1>4, MakesDeviceJob
<1>5. CASE JobsCopied
  BY <1>5, MakesJobsCopied
<1>6. CASE ApplyDeviceLayer
  BY <1>6, MakesDeviceLayer
<1>7. CASE DeviceLayerDone
  BY <1>7, MakesLayerDone
<1>8. CASE StoreDevice
  BY <1>8, MakesStoreDevice
<1>9. CASE DeviceStoreDone
  BY <1>9, MakesDevicesDone
<1>10. ASSUME NEW n \in Names,
              OpenDataStore \/ BeginLists(n) \/ AddDeviceJob(n) \/ DeviceAdded \/ Started
       PROVE  Makes'
  BY <1>10, MakesLater
<1>11. CASE Returned \/ UNCHANGED vars
  BY <1>11, MakesStutters DEF Returned
<1>12. Default \in Names
  BY ConstantsAssumption
<1> QED BY <1>1, <1>2, <1>3, <1>4, <1>5, <1>6, <1>7, <1>8, <1>9, <1>10, <1>11, <1>12 DEF Next

(* So it holds in every reachable state. *)
LEMMA MakesHolds == Spec => [](IInv /\ Makes)
<1>1. Init => IInv /\ Makes
  BY IInvInit, MakesInit
<1>2. IInv /\ Makes /\ [Next]_vars => (IInv /\ Makes)'
  BY IInvNext, MakesNext
<1> QED BY <1>1, <1>2, PTL DEF Spec

-----------------------------------------------------------------------------
(* What the stores have, and what an error means.                             *)

(* A job that is made of a chain is what the chain describes. *)
LEMMA MadeIsBuilt ==
  ASSUME NEW job, NEW cells, NEW chain, NEW from, Made(job, cells, chain, from), chain # <<>>,
         PlainValues(chain) \/ Len(chain) < from
  PROVE  Seen(job, cells) = Built(chain, from)
<1> DEFINE d == Built(chain, from)
<1>1. Seen(job, cells) = [d EXCEPT !.kind = job.kind] /\ job.kind = KindOf(chain)
  BY DEF Made
<1>2. /\ d = [kind |-> d.kind, schedule |-> d.schedule, values |-> d.values, commands |-> d.commands,
              scrubbers |-> d.scrubbers, files |-> d.files]
      /\ d.kind = KindOf(chain)
  BY BuiltShape
<1> HIDE DEF d
<1>3. [d EXCEPT !.kind = KindOf(chain)] = d
  BY <1>2
<1> QED BY <1>1, <1>3 DEF d

-----------------------------------------------------------------------------
(* What is built is what the documentation describes.                         *)

(* If the values are settled when the first of them are put in, a variable    *)
(* gets the most specific one.                                                *)
LEMMA FinalIsValue ==
  ASSUME NEW chain \in Seq(JobConfs), NEW i \in DOMAIN chain, NEW from \in Nat,
         from <= Len(chain), Settled(chain, from), NEW text
  PROVE  Final(text, chain, i, from) = Value(text, ValuesOf(chain))
<1> DEFINE passes == Passes(text, chain, i, from)
           n == Len(chain)
           At(m) == ValueOf(SubSeq(chain, 1, m), text)
<1>1. n \in Nat /\ i \in 1 .. n /\ DOMAIN chain = 1 .. n
  OBVIOUS
<1>2. /\ passes = {} => Final(text, chain, i, from) = text
      /\ passes # {} => Final(text, chain, i, from) = At(Min(passes)) /\ Min(passes) \in passes
  BY <1>1, FinalType
<1>3. \A m : m \in passes <=>
        m \in 1 .. n /\ m >= i /\ m >= from /\ text \in Keys /\ At(m) # Nothing
  BY <1>1 DEF Passes
<1>4. At(n) = ValueOf(chain, text)
  BY PrefixFacts
<1> HIDE DEF passes
<1>5. CASE text \notin Keys
  BY <1>2, <1>3, <1>5 DEF Value
<1>6. CASE text \in Keys
  <2>1. \A m \in from .. n : At(m) \in {Nothing, ValueOf(chain, text)}
    BY <1>6 DEF Settled
  <2>2. ValuesOf(chain)[text] = ValueOf(chain, text)
    BY <1>6 DEF ValuesOf
  <2> HIDE DEF At
  <2>3. \A m \in passes : m \in from .. n
    BY <1>1, <1>3
  <2>4. CASE ValueOf(chain, text) = Nothing
    BY <1>2, <1>3, <2>1, <2>2, <2>3, <2>4 DEF Value
  <2>5. CASE ValueOf(chain, text) # Nothing
    <3>1. n \in passes
      BY <1>1, <1>3, <1>4, <1>6, <2>5
    <3>2. Final(text, chain, i, from) = At(Min(passes)) /\ At(Min(passes)) # Nothing
          /\ Min(passes) \in from .. n
      BY <1>2, <1>3, <2>3, <3>1
    <3> QED BY <1>6, <2>1, <2>2, <2>5, <3>2 DEF Value
  <2> QED BY <2>4, <2>5
<1> QED BY <1>5, <1>6

(* What is built of settings is what they describe with the values that are   *)
(* put in: none in the job store, the most specific ones in a device.         *)
LEMMA BuiltIsDescribed ==
  ASSUME NEW chain \in Seq(JobConfs), NEW from \in Nat
  PROVE  /\ Settled(chain, from) /\ from <= Len(chain) =>
              Built(chain, from) = Described(chain, ValuesOf(chain))
         /\ Len(chain) < from => Built(chain, from) = Described(chain, Unset)
<1>1. ASSUME NEW values,
             \A text : \A i \in DOMAIN chain : Final(text, chain, i, from) = Value(text, values)
      PROVE  Built(chain, from) = Described(chain, values)
  <2>1. ASSUME NEW cell, NEW i \in DOMAIN chain
        PROVE  FinalCell(cell, chain, i, from) = Filled(cell, values)
    BY <1>1, Zenon DEF FinalCell, Filled
  <2>2. [i \in DOMAIN chain |->
          [j \in DOMAIN chain[i].commands |->
            FinalCell(CommandOf(chain, i, j), chain, i, from)]] =
        [i \in DOMAIN chain |->
          [j \in DOMAIN chain[i].commands |-> Filled(CommandOf(chain, i, j), values)]]
    BY <2>1
  <2>3. [i \in DOMAIN chain |->
          [j \in DOMAIN chain[i].scrubbers |->
            FinalCell(NewScrubber(chain[i].scrubbers[j]), chain, i, from)]] =
        [i \in DOMAIN chain |->
          [j \in DOMAIN chain[i].scrubbers |-> Filled(NewScrubber(chain[i].scrubbers[j]), values)]]
    BY <2>1
  <2> QED BY <2>2, <2>3, Zenon DEF Built, Described, ValuesOf
<1>2. ASSUME Settled(chain, from), from <= Len(chain)
      PROVE  Built(chain, from) = Described(chain, ValuesOf(chain))
  <2>1. \A text : \A i \in DOMAIN chain : Final(text, chain, i, from) = Value(text, ValuesOf(chain))
    BY <1>2, FinalIsValue
  <2> QED BY <1>1, <2>1
<1>3. ASSUME Len(chain) < from
      PROVE  Built(chain, from) = Described(chain, Unset)
  <2>1. \A text : \A i \in DOMAIN chain : Final(text, chain, i, from) = Value(text, Unset)
    <3>1. \A i \in DOMAIN chain : i \in Nat
      OBVIOUS
    <3>2. \A text : \A i \in DOMAIN chain : Final(text, chain, i, from) = text
      BY <1>3, <3>1, FinalType
    <3>3. \A text : Value(text, Unset) = text
      BY DEF Value, Unset
    <3> QED BY <3>2, <3>3
  <2> QED BY <1>1, <2>1
<1> QED BY <1>2, <1>3

(* Where the default is clear the code applies the settings it is to apply.   *)
LEMMA SettingsAreClear ==
  ASSUME conf \in Configurations, NEW n \in Names, DefaultIsClear(n)
  PROVE  /\ n \in Listed(conf.jobs) => JobSettings(n) = JobLayers(n)
         /\ FromJobs(n) = FromStore(n)
         /\ \A d : Settings(d, n) = Chain(d, n)
<1> DEFINE own == conf.jobs[n]
           default == conf.job_generics[Default]
<1>1. ASSUME own # Nothing
      PROVE  JobSettings(n) = JobLayers(n)
  <2>1. CASE own.generic # Nothing
    BY <2>1 DEF JobSettings, JobLayers
  <2>2. CASE own.generic = Nothing
    <3>1. JobSettings(n) = Given(<<default, own>>) /\ conf.jobs[Default] = default
      BY <1>1, <2>2 DEF JobSettings, DefaultIsClear
    <3>2. JobLayers(n) = IF default # Nothing THEN <<default, own>> ELSE <<own>>
      BY <2>2, <3>1 DEF JobLayers
    <3>3. own \in JobConfs \cup {Nothing} /\ default \in JobConfs \cup {Nothing}
      <4>1. conf.jobs \in [Names -> JobConfs \cup {Nothing}]
            /\ conf.job_generics \in [Names -> JobConfs \cup {Nothing}]
        BY DEF Configurations, Maps
      <4> QED BY <4>1, ConstantsAssumption
    <3> HIDE DEF own, default
    <3>4. ASSUME NEW x \in JobConfs \cup {Nothing}, NEW y \in JobConfs \cup {Nothing}, y # Nothing
          PROVE  Given(<<x, y>>) = IF x # Nothing THEN <<x, y>> ELSE <<y>>
      <4>1. <<>> \in Seq(JobConfs \cup {Nothing}) /\ <<x>> \in Seq(JobConfs \cup {Nothing})
        OBVIOUS
      <4>2. Append(<<>>, x) = <<x>> /\ Append(<<>>, y) = <<y>> /\ Append(<<x>>, y) = <<x, y>>
        <5>1. ASSUME NEW S, NEW a \in S, NEW b \in S
              PROVE  Append(<<>>, a) = <<a>> /\ Append(<<a>>, b) = <<a, b>>
          <6>1. Append(<<>>, a) = <<a>>
            OBVIOUS
          <6>2. Append(<<a>>, b) = <<a, b>>
            <7> DEFINE q == Append(<<a>>, b)
                       w == <<a, b>>
            <7>1. q \in Seq(S) /\ Len(q) = 2 /\ q[1] = a /\ q[2] = b
              OBVIOUS
            <7>2. w \in Seq(S) /\ Len(w) = 2 /\ w[1] = a /\ w[2] = b
              OBVIOUS
            <7> HIDE DEF q, w
            <7>3. q = w
              BY <7>1, <7>2
            <7> QED BY <7>3 DEF q, w
          <6> QED BY <6>1, <6>2
        <5> QED BY <5>1
      <4>3. Given(<<>>) = <<>>
        BY <4>1, GivenAppend
      <4>4. Given(Append(<<>>, x)) = IF x = Nothing THEN Given(<<>>) ELSE Append(Given(<<>>), x)
        BY <4>1, GivenAppend
      <4>5. Given(Append(<<x>>, y)) = Append(Given(<<x>>), y)
        BY <3>4, <4>1, GivenAppend
      <4>6. Given(<<x>>) = IF x = Nothing THEN <<>> ELSE <<x>>
        BY <4>2, <4>3, <4>4
      <4> QED BY <4>2, <4>5, <4>6
    <3> QED BY <1>1, <3>1, <3>2, <3>3, <3>4
  <2> QED BY <2>1, <2>2
<1>2. FromJobs(n) = FromStore(n)
  BY <1>1 DEF FromJobs, FromStore
<1> QED BY <1>1, <1>2 DEF Settings, Chain, Listed

(* A job that is right by what is built is right by what is described.        *)
LEMMA FaultyIsWrong ==
  ASSUME NEW chain \in Seq(JobConfs), NEW from \in Nat
  PROVE  /\ Settled(chain, from) /\ from <= Len(chain) =>
              (Faulty(chain, from) <=> Wrong(chain, ValuesOf(chain)))
         /\ Len(chain) < from => (Faulty(chain, from) <=> Wrong(chain, Unset))
  BY BuiltIsDescribed DEF Faulty, Wrong

(* A job of the job store is what its generic and its own settings describe;  *)
(* a device has the most specific port and user, and its jobs are what the    *)
(* settings of the job store and of the device describe, whatever the order   *)
(* the maps were walked in.  It is said of those jobs only for which the      *)
(* documentation and the code agree on the generic named "default" and on     *)
(* when a value is put in (IsClear).                                          *)
THEOREM StoresMerged == Spec => []StoresAreMerged
<1>1. IInv /\ Makes => StoresAreMerged
  <2> SUFFICES ASSUME IInv, Makes
               PROVE  StoresAreMerged
    OBVIOUS
  <2>1. conf \in Configurations
    BY DEF IInv, TypeOK
  <2>2. ASSUME NEW n \in Listed(jobs), DefaultIsClear(n)
        PROVE  Contents(jobs[n]) = Described(JobSettings(n), Unset)
    <3> DEFINE chain == JobLayers(n)
    <3>1. /\ n \in Listed(conf.jobs) /\ ~ GenericIsMissing(chain)
          /\ Made(jobs[n], heap, chain, 1 + Len(chain))
      BY DEF Makes, JobsMade, JobMade
    <3>2. chain \in Seq(JobConfs) /\ chain # <<>>
      BY <2>1, <3>1, JobLayersType
    <3>3. JobSettings(n) = chain
      BY <2>1, <2>2, <3>1, SettingsAreClear DEF Listed
    <3> HIDE DEF chain
    <3>4. 1 + Len(chain) \in Nat /\ Len(chain) < 1 + Len(chain)
      <4>1. Len(chain) \in Nat
        BY <3>2
      <4> QED BY <4>1
    <3>5. Seen(jobs[n], heap) = Built(chain, 1 + Len(chain))
      BY <3>1, <3>2, <3>4, MadeIsBuilt
    <3>6. Built(chain, 1 + Len(chain)) = Described(chain, Unset)
      BY <3>2, <3>4, BuiltIsDescribed
    <3> QED BY <3>3, <3>5, <3>6 DEF Contents, Seen
  <2>3. ASSUME NEW d \in Listed(devices)
        PROVE  /\ devices[d].port = MostSpecific(Protocols(DeviceLayers(d)), [port |-> 22]).port
               /\ devices[d].user = MostSpecific(UsersOf(DeviceLayers(d)), Nothing)
               /\ Listed(devices[d].jobs) = Listed(conf.devices[d].jobs)
               /\ \A n \in Listed(conf.devices[d].jobs) : IsClear(d, n) =>
                    Contents(devices[d].jobs[n]) =
                      Described(Settings(d, n), ValuesOf(Settings(d, n)))
    <3>1. DeviceMade(d)
      BY DEF Makes, DevicesMade
    <3>2. d \in Listed(conf.devices) /\ Listed(devices[d].jobs) = Listed(conf.devices[d].jobs)
      BY DEF IInv, Shape, DevicesAreWhole, Listed
    <3>3. ASSUME NEW n \in Listed(conf.devices[d].jobs), IsClear(d, n)
          PROVE  Contents(devices[d].jobs[n]) =
                   Described(Settings(d, n), ValuesOf(Settings(d, n)))
      <4> DEFINE chain == Chain(d, n)
                 from == 1 + Len(FromStore(n))
      <4>1. /\ chain \in Seq(JobConfs) /\ chain # <<>>
            /\ from \in Nat /\ from <= Len(chain)
        BY <2>1, <3>1, <3>2, ChainGiven DEF DeviceMade
      <4>2. Settings(d, n) = chain /\ FromJobs(n) = FromStore(n)
        BY <2>1, <3>3, SettingsAreClear DEF IsClear, Listed
      <4>3. PlainValues(chain) /\ Settled(chain, from)
        BY <3>3, <4>2 DEF IsClear
      <4>4. Made(devices[d].jobs[n], heap, chain, from)
        BY <3>1, <3>2 DEF DeviceMade
      <4> HIDE DEF chain, from
      <4>5. Seen(devices[d].jobs[n], heap) = Built(chain, from)
        BY <4>1, <4>3, <4>4, MadeIsBuilt
      <4>6. Built(chain, from) = Described(chain, ValuesOf(chain))
        BY <4>1, <4>3, BuiltIsDescribed
      <4> QED BY <4>2, <4>5, <4>6 DEF Contents, Seen
    <3> QED BY <3>1, <3>2, <3>3 DEF DeviceMade, DeviceOf
  <2> QED BY <2>2, <2>3 DEF StoresAreMerged, Protocols, UsersOf
<1> QED BY <1>1, MakesHolds, PTL

(* An error of a constructor means that something in the configuration is     *)
(* wrong by the documentation, and a controller that has started was given    *)
(* nothing wrong: schedules, commands, patterns, files and scrubbers are all  *)
(* looked at.  It is said of configurations for which the documentation and   *)
(* the code agree on what they describe (IsClear).                            *)
THEOREM VerdictsAreRight == Spec => []VerdictIsRight
<1>1. IInv /\ Makes => VerdictIsRight
  <2> SUFFICES ASSUME IInv, Makes,
                      \A n \in Listed(conf.jobs) : DefaultIsClear(n),
                      \A d \in Listed(conf.devices) :
                        \A n \in Listed(conf.devices[d].jobs) : IsClear(d, n)
               PROVE  /\ errs => ConfigIsWrong
                      /\ phase = "started" => ~ ConfigIsWrong
    BY DEF VerdictIsRight
  <2>1. conf \in Configurations
    BY DEF IInv, TypeOK
  <2>2. \A d \in Listed(conf.devices) : \A n \in Listed(conf.devices[d].jobs) :
          /\ Settings(d, n) = Chain(d, n) /\ FromJobs(n) = FromStore(n)
          /\ PlainValues(Chain(d, n)) /\ Settled(Chain(d, n), 1 + Len(FromStore(n)))
    <3>1. ASSUME NEW d \in Listed(conf.devices), NEW n \in Listed(conf.devices[d].jobs)
          PROVE  /\ Settings(d, n) = Chain(d, n) /\ FromJobs(n) = FromStore(n)
                 /\ PlainValues(Chain(d, n)) /\ Settled(Chain(d, n), 1 + Len(FromStore(n)))
      <4>1. IsClear(d, n) /\ n \in Names
        BY <3>1 DEF Listed
      <4>2. Settings(d, n) = Chain(d, n) /\ FromJobs(n) = FromStore(n)
        BY <2>1, <4>1, SettingsAreClear DEF IsClear
      <4> QED BY <4>1, <4>2 DEF IsClear
    <3> QED BY <3>1
  <2>3. AllPlain
    BY <2>2 DEF AllPlain
  <2>4. ASSUME NEW n \in Listed(conf.jobs)
        PROVE  (GenericIsMissing(JobLayers(n)) \/ Faulty(JobLayers(n), 1 + Len(JobLayers(n)))) <=>
                 (GenericIsMissing(JobSettings(n)) \/ Wrong(JobSettings(n), Unset))
    <3> DEFINE chain == JobLayers(n)
    <3>1. JobSettings(n) = chain
      BY <2>1, SettingsAreClear DEF Listed
    <3>2. ~ GenericIsMissing(chain) => chain \in Seq(JobConfs)
      BY <2>1, JobLayersType
    <3> HIDE DEF chain
    <3>3. ASSUME chain \in Seq(JobConfs)
          PROVE  Faulty(chain, 1 + Len(chain)) <=> Wrong(chain, Unset)
      <4>1. Len(chain) \in Nat
        BY <3>3
      <4>2. 1 + Len(chain) \in Nat /\ Len(chain) < 1 + Len(chain)
        BY <4>1
      <4> QED BY <3>3, <4>2, FaultyIsWrong
    <3> QED BY <3>1, <3>2, <3>3 DEF chain
  <2>5. ASSUME NEW d \in Listed(conf.devices), ~ GenericIsMissing(DeviceLayers(d)),
               NEW n \in Listed(conf.devices[d].jobs)
        PROVE  Faulty(Chain(d, n), 1 + Len(FromStore(n))) <=>
                 Wrong(Settings(d, n), ValuesOf(Settings(d, n)))
    <3>1. /\ Chain(d, n) \in Seq(JobConfs)
          /\ 1 + Len(FromStore(n)) \in Nat /\ 1 + Len(FromStore(n)) <= Len(Chain(d, n))
      BY <2>1, <2>5, ChainGiven
    <3> QED BY <2>2, <3>1, FaultyIsWrong
  <2>6. ConfigIsFaulty <=> ConfigIsWrong
    BY <2>4, <2>5, Zenon DEF ConfigIsFaulty, ConfigIsWrong
  <2>7. errs => ConfigIsFaulty
    BY <2>3 DEF Makes, ErrorsAreRight
  <2>8. ASSUME phase = "started", NEW n \in Listed(conf.jobs)
        PROVE  ~ GenericIsMissing(JobLayers(n)) /\ ~ Faulty(JobLayers(n), 1 + Len(JobLayers(n)))
    <3> DEFINE chain == JobLayers(n)
    <3>1. n \in Listed(jobs)
      BY <2>8 DEF Makes, NoJobDropped
    <3>2. /\ ~ GenericIsMissing(chain) /\ Sound(Seen(jobs[n], heap))
          /\ Made(jobs[n], heap, chain, 1 + Len(chain))
      BY <3>1 DEF Makes, JobsMade, JobMade
    <3>3. chain \in Seq(JobConfs) /\ chain # <<>>
      BY <2>1, <3>2, JobLayersType
    <3> HIDE DEF chain
    <3>4. Len(chain) < 1 + Len(chain)
      <4>1. Len(chain) \in Nat
        BY <3>3
      <4> QED BY <4>1
    <3>5. ~ Faulty(chain, 1 + Len(chain))
      BY <3>2, <3>3, <3>4, SoundIsRight
    <3> QED BY <3>2, <3>5 DEF chain
  <2>9. ASSUME phase = "started", NEW d \in Listed(conf.devices)
        PROVE  /\ ~ GenericIsMissing(DeviceLayers(d))
               /\ \A i \in DOMAIN DeviceLayers(d) : DeviceLayers(d)[i].protocol # [port |-> Nothing]
               /\ \A n \in Listed(conf.devices[d].jobs) : ~ Faulty(Chain(d, n), 1 + Len(FromStore(n)))
    <3>1. d \in Listed(devices)
      BY <2>9 DEF IInv, Shape, NoneDropped
    <3>2. DeviceMade(d) /\ Listed(devices[d].jobs) = Listed(conf.devices[d].jobs)
      BY <3>1 DEF Makes, DevicesMade, IInv, Shape, DevicesAreWhole
    <3>3. ASSUME NEW n \in Listed(conf.devices[d].jobs)
          PROVE  ~ Faulty(Chain(d, n), 1 + Len(FromStore(n)))
      <4>1. Chain(d, n) \in Seq(JobConfs) /\ Chain(d, n) # <<>>
        BY <2>1, <3>2, ChainGiven DEF DeviceMade
      <4>2. /\ Made(devices[d].jobs[n], heap, Chain(d, n), 1 + Len(FromStore(n)))
            /\ Sound(Seen(devices[d].jobs[n], heap))
        BY <3>2 DEF DeviceMade
      <4>3. PlainValues(Chain(d, n))
        BY <2>2
      <4> QED BY <4>1, <4>2, <4>3, SoundIsRight
    <3> QED BY <3>2, <3>3 DEF DeviceMade, DeviceOf
  <2>10. phase = "started" => ~ ConfigIsFaulty
    BY <2>8, <2>9 DEF ConfigIsFaulty
  <2> QED BY <2>6, <2>7, <2>10
<1> QED BY <1>1, MakesHolds, PTL

===============================================================================
