------------------------------- MODULE JobConfig -------------------------------
(***************************************************************************)
(* The settings of jobs, config/config.go, and how they are applied to a   *)
(* job, model/job.go, model/command_set.go and model/file_set.go; and what *)
(* a chain of settings describes, in closed form.                          *)
(*                                                                         *)
(* A text is a word or one template variable (the text "{{key}}"); Empty   *)
(* is the word "".  expect and expect_not are treated alike and are one    *)
(* list; of a scrubber there is what it searches, as what it puts in its   *)
(* place is not looked at, and its types regex and regex_substitute are    *)
(* one.  A setting that is absent is Nothing, and so is an empty one where *)
(* the code takes it for absent; a template value that is empty is one.    *)
(* A file has a path and a compression.                                    *)
(***************************************************************************)
EXTENDS Integers, Sequences, FiniteSets, SequencesExt

CONSTANTS
  Names,        \* the names of jobs, devices and generics
  Words,        \* texts without template variables
  Empty,        \* the empty one
  Keys,         \* template variables, and the texts that refer to them
  BadPatterns,  \* words that are no regular expressions
  Files,        \* files to fetch
  BadFiles,     \* those without a path or of an unknown compression
  Schedules,    \* cron expressions
  BadSchedule,  \* a schedule that cannot be parsed
  Nothing       \* what is absent

ASSUME JobConfigAssumption ==
  /\ Nothing \notin Names \cup Words \cup Keys \cup Schedules \cup {BadSchedule}
  /\ BadSchedule \notin Schedules
  /\ Words \cap Keys = {}
  /\ BadPatterns \subseteq Words
  /\ Empty \in Words \ BadPatterns
  /\ BadFiles \subseteq Files
  /\ IsFiniteSet(Keys) /\ IsFiniteSet(Files)

Texts == Words \cup Keys

(* config.JobCommand *)
CommandConfs ==
  [command : (Texts \ {Empty}) \cup {Nothing}, expect : Seq(Texts), timeout : Nat \cup {Nothing}]

(* config.JobScrubber *)
ScrubberConfs == [type : {"", "simple", "regex", "other"}, search : Texts]

(* config.Job *)
JobConfs ==
  [generic : Names \cup {Nothing}, type : {"", "command", "file", "other"},
   schedule : Schedules \cup {BadSchedule, Nothing}, commands : Seq(CommandConfs),
   command_generic : CommandConfs \cup {Nothing}, file : SUBSET Files,
   scrubbers : Seq(ScrubberConfs), template_values : [Keys -> Texts \cup {Nothing}]]

(* model.CommandSetCommand, which has no type, and model.JobScrubber, which   *)
(* has a type and a text.                                                     *)
Cells ==
  [type : {"", "simple", "regex", "other"}, text : Texts \cup {Nothing}, expect : Seq(Texts),
   timeout : Nat]

(* NewDefaultCommandSetCommand *)
NewCommand == [type |-> "", text |-> Nothing, expect |-> <<>>, timeout |-> 120]

(* NewJobScrubberFromConfig *)
NewScrubber(settings) ==
  [type |-> IF settings.type = "" THEN "simple" ELSE settings.type, text |-> settings.search,
   expect |-> <<>>, timeout |-> 0]

-----------------------------------------------------------------------------
(* Applying settings. *)

Over(new, old) == IF new = Nothing THEN old ELSE new

(* CommandSetCommand.ApplyConfig *)
ApplyCommand(c, settings) ==
  [type |-> c.type, text |-> Over(settings.command, c.text), expect |-> c.expect \o settings.expect,
   timeout |-> Over(settings.timeout, c.timeout)]

(* Job.ApplyConfig: the type may be given by what was applied before. *)
Kind(job, settings) ==
  CASE settings.type # "" -> settings.type
    [] job.kind # "" -> job.kind
    [] OTHER -> "command"

ApplyFails_NeverByType(job, settings) == settings.schedule = BadSchedule

ApplyFails(job, settings) ==
  \/ settings.type \notin {"", "command", "file"}
  \/ settings.type # "" /\ job.kind \notin {"", settings.type}
  \/ settings.schedule = BadSchedule

NoCommand == [command |-> Nothing, expect |-> <<>>, timeout |-> Nothing]

SetsCommands(settings) ==
  settings.commands # <<>> \/ settings.command_generic \notin {Nothing, NoCommand}

ApplyPanics_WithoutSet(job, settings) == job.generic = Nothing /\ SetsCommands(settings)

(* DeepCopy has dropped the generic command of the set, and the settings      *)
(* write to it or copy it: a nil dereference.                                 *)
ApplyPanics(job, settings) ==
  /\ Kind(job, settings) = "command" /\ job.kind = "command"
  /\ job.generic = Nothing
  /\ SetsCommands(settings)

Generic_Unchanged(job, settings) == IF job.kind = "" THEN NewCommand ELSE job.generic

(* CommandSet.ApplyConfig: the generic command accumulates. *)
Generic(job, settings) ==
  LET generic == IF job.kind = "" THEN NewCommand ELSE job.generic IN
  IF settings.command_generic = Nothing \/ generic = Nothing THEN generic
  ELSE ApplyCommand(generic, settings.command_generic)

(* The commands and the scrubbers that the settings add, each command on top  *)
(* of a copy of the generic one.                                              *)
NewCommands(job, settings) ==
  IF Kind(job, settings) # "command" THEN <<>>
  ELSE [i \in DOMAIN settings.commands |->
         ApplyCommand(Generic(job, settings), settings.commands[i])]

NewScrubbers(settings) == [i \in DOMAIN settings.scrubbers |-> NewScrubber(settings.scrubbers[i])]

AddedCells(job, settings) == NewCommands(job, settings) \o NewScrubbers(settings)

(* Job.ApplyTemplateValues: the map of values is walked in any order, and     *)
(* each value replaces its variable in what the ones before it have left.     *)
Resolve(text, values, order) ==
  LET left[i \in 0 .. Len(order)] ==
        IF i = 0 THEN text
        ELSE IF left[i - 1] = order[i] THEN values[order[i]] ELSE left[i - 1]
  IN left[Len(order)]

Resolved(cell, values, order) ==
  [cell EXCEPT !.text = Resolve(@, values, order),
               !.expect = [i \in DOMAIN @ |-> Resolve(@[i], values, order)]]

(* CommandSetCommand.Validate: a pattern that still has a template variable   *)
(* is not checked.                                                            *)
ValidCommand(c) ==
  /\ c.text \notin {Nothing, Empty}
  /\ Range(c.expect) \cap BadPatterns = {}
  /\ c.timeout = 0 => c.expect = <<>>

(* JobScrubber.Validate: what a regex searches is never empty, sanitizeRegex  *)
(* has put ".*" around it.                                                    *)
ValidScrubber(c) ==
  /\ c.type \in {"simple", "regex"}
  /\ c.type = "simple" => c.text # Empty
  /\ c.type = "regex" => c.text \notin BadPatterns

-----------------------------------------------------------------------------
(* What a chain of settings, least specific first, describes. *)

(* The last of a list of settings that is given. *)
MostSpecific(given, default) ==
  LET at == {i \in DOMAIN given : given[i] # Nothing} IN
  IF at = {} THEN default ELSE given[Max(at)]

(* What is given of a list. *)
Given(list) ==
  FlattenSeq([i \in DOMAIN list |-> IF list[i] = Nothing THEN <<>> ELSE <<list[i]>>])

KindOf(chain) ==
  LET types == {i \in DOMAIN chain : chain[i].type # ""} IN
  IF types = {} THEN "command" ELSE chain[Max(types)].type

ValueOf(chain, k) == MostSpecific([i \in DOMAIN chain |-> chain[i].template_values[k]], Nothing)

(* docs/jobs.md:70: a variable stands for the most specific of its values; it *)
(* stays if it has none.                                                      *)
Value(text, values) ==
  IF text \in Keys /\ values[text] # Nothing THEN values[text] ELSE text

(* A command or a scrubber with values in the place of variables. *)
Filled(cell, values) ==
  [cell EXCEPT !.text = Value(@, values), !.expect = [m \in DOMAIN @ |-> Value(@[m], values)]]

ValuesOf(chain) == [k \in Keys |-> ValueOf(chain, k)]

Unset == [k \in Keys |-> Nothing]

(* What settings of commands describe together, the most specific ones last. *)
Merged(all) ==
  [type |-> "",
   text |-> MostSpecific([m \in DOMAIN all |-> all[m].command], Nothing),
   expect |-> FlattenSeq([m \in DOMAIN all |-> all[m].expect]),
   timeout |-> MostSpecific([m \in DOMAIN all |-> all[m].timeout], 120)]

(* A command of settings i over the generic commands up to there. *)
CommandOf(chain, i, j) ==
  LET generics == Given([m \in 1 .. i |-> chain[m].command_generic]) IN
  Merged(Append(generics, chain[i].commands[j]))

(* The job that a chain describes, with the values that are put in. *)
Described(chain, values) ==
  [kind |-> KindOf(chain),
   schedule |-> MostSpecific([i \in DOMAIN chain |-> chain[i].schedule], Nothing),
   values |-> ValuesOf(chain),
   commands |-> IF KindOf(chain) # "command" THEN <<>> ELSE FlattenSeq(
     [i \in DOMAIN chain |->
       [j \in DOMAIN chain[i].commands |-> Filled(CommandOf(chain, i, j), values)]]),
   scrubbers |-> FlattenSeq(
     [i \in DOMAIN chain |->
       [j \in DOMAIN chain[i].scrubbers |-> Filled(NewScrubber(chain[i].scrubbers[j]), values)]]),
   files |-> [f \in Files |-> IF KindOf(chain) # "file" THEN 0
     ELSE Cardinality({i \in DOMAIN chain : f \in chain[i].file})]]

(* What is described is no job: no schedule, nothing to do, ... *)
Unsound(described) ==
  \/ described.schedule = Nothing
  \/ described.kind = "command" /\ described.commands = <<>>
  \/ described.kind = "file" /\ \A f \in Files : described.files[f] = 0
  \/ \E f \in BadFiles : described.files[f] # 0
  \/ \E c \in Range(described.commands) : ~ ValidCommand(c)
  \/ \E c \in Range(described.scrubbers) : ~ ValidScrubber(c)

(* The settings do not go together: types that differ or are unknown, a       *)
(* schedule that cannot be parsed.                                            *)
Inconsistent(chain) ==
  LET first == IF chain[1].type = "" THEN "command" ELSE chain[1].type IN
  \/ first = "other"
  \/ \E i \in DOMAIN chain :
       chain[i].type \notin {"", first} \/ chain[i].schedule = BadSchedule

Wrong(chain, values) == Inconsistent(chain) \/ Unsound(Described(chain, values))

(* No value contains a variable. *)
PlainValues(chain) ==
  \A i \in DOMAIN chain : \A k \in Keys : chain[i].template_values[k] \notin Keys

(* The values that are known when the settings from on are applied are those  *)
(* that the whole chain ends up with.                                         *)
Settled(chain, from) ==
  \A k \in Keys : \A m \in from .. Len(chain) :
    ValueOf(SubSeq(chain, 1, m), k) \in {Nothing, ValueOf(chain, k)}

=============================================================================
