------------------------------ MODULE ConfigChain ------------------------------
(***************************************************************************)
(* The start of a controller: how the job store, the device store and the  *)
(* lists of the scheduler are made of the configuration                    *)
(* (controller/job_store.go, controller/device_store.go, model/device.go   *)
(* and controller/scheduler.go:NewLocalScheduler, in the order of          *)
(* controller.go:NewController; JobConfig has what is done to one job).    *)
(*                                                                         *)
(* A job of a device is the last of a chain: the job's generic, the job,   *)
(* the device's generic and the device each have settings for it.  The     *)
(* program keeps commands and scrubbers behind pointers and copies jobs by *)
(* hand, so they live in a heap here and what two jobs share would show.   *)
(* It walks its maps in any order.                                         *)
(*                                                                         *)
(* port and user stand for the settings of a device that are overwritten.  *)
(***************************************************************************)
EXTENDS JobConfig

CONSTANTS
  Default,   \* the name "default"
  Tags,      \* device tags, the one of untagged devices included
  Untagged,  \* the tag "" of devices without tags
  Users,     \* user names of devices
  Configs    \* the configurations

Maps(V) == [Names -> V \cup {Nothing}]

(* config.Device; the port of the protocol is Nothing if it is not of type ssh. *)
DeviceConfs ==
  [generic : Names \cup {Nothing}, protocol : [port : Nat \cup {Nothing}] \cup {Nothing},
   tags : Seq(Tags \ {Untagged}), user : Users \cup {Nothing}, jobs : Maps(JobConfs)]

(* config.JobStoreLocal and config.DeviceStoreLocal *)
Configurations ==
  [jobs : Maps(JobConfs), job_generics : Maps(JobConfs),
   devices : Maps(DeviceConfs), device_generics : Maps(DeviceConfs)]

ASSUME ConstantsAssumption ==
  /\ Default \in Names
  /\ Untagged \in Tags
  /\ Nothing \notin Users
  /\ Configs \subseteq Configurations

VARIABLES
  conf,     \* the configuration, never changed
  phase,    \* where NewController is
  todo,     \* the entries of the present map that the loop has yet to visit
  cur,      \* the entry it is visiting (see Visits)
  heap,     \* the commands and scrubbers, by address
  jobs,     \* localJobStore.jobs
  devices,  \* localDeviceStore.devices
  errs,     \* whether the present constructor has met an error
  lists     \* deviceJobsByTag: pairs of a device and a job

vars == <<conf, phase, todo, cur, heap, jobs, devices, errs, lists>>

-----------------------------------------------------------------------------
(* Values. *)

Addresses == 1 .. Len(heap)

(* model.Job; generic is CommandSet.Generic, Nothing for nil. *)
JobsAt(addresses) ==
  [kind : {"", "command", "file"}, schedule : Schedules \cup {Nothing},
   generic : Cells \cup {Nothing}, commands : Seq(addresses), files : Seq(Files),
   scrubbers : Seq(addresses), template_values : [Keys -> Texts \cup {Nothing}]]

DevicesAt(addresses) ==
  [port : Nat, user : Users \cup {Nothing}, tags : Seq(Tags), jobs : Maps(JobsAt(addresses))]

Jobs == JobsAt(Addresses)

Devices == DevicesAt(Addresses)

(* What is absent is no command, no job, no device and no protocol. *)
ASSUME NothingAssumption ==
  /\ Nothing \notin Cells /\ Nothing \notin JobsAt(Nat) /\ Nothing \notin DevicesAt(Nat)
  /\ Nothing \notin [port : Nat \cup {Nothing}]

(* The local variables of the loops: the name of the entry, the settings that *)
(* are still to be applied, least specific first, the job or the device so    *)
(* far, and which of the device's jobs are due for the present step.          *)
Visits ==
  [stage : {"idle", "copy", "layer", "jobs", "tags"}, name : Names \cup {Nothing},
   layers : Seq(JobConfs \cup {Nothing}) \cup Seq(DeviceConfs \cup {Nothing}),
   job : Jobs, device : Devices, due : SUBSET Names]

(* NewDefaultJob: neither a command set nor a file set. *)
NewJob ==
  [kind |-> "", schedule |-> Nothing, generic |-> Nothing, commands |-> <<>>, files |-> <<>>,
   scrubbers |-> <<>>, template_values |-> [k \in Keys |-> Nothing]]

(* NewDefaultDevice *)
NewDevice == [port |-> 22, user |-> Nothing, tags |-> <<>>, jobs |-> [n \in Names |-> Nothing]]

Idle ==
  [stage |-> "idle", name |-> Nothing, layers |-> <<>>, job |-> NewJob, device |-> NewDevice,
   due |-> {}]

Listed(map) == {n \in Names : map[n] # Nothing}

TypeOK ==
  /\ conf \in Configurations
  /\ phase \in {"jobs", "devices", "data store", "lists", "started", "failed", "panicked"}
  /\ todo \in SUBSET Names
  /\ cur \in Visits
  /\ heap \in Seq(Cells)
  /\ jobs \in Maps(Jobs)
  /\ devices \in Maps(Devices)
  /\ errs \in BOOLEAN
  /\ lists \in [Tags -> Seq(Names \X Names)]

-----------------------------------------------------------------------------
(* Applying settings. *)

(* n new addresses, from is the last one in use. *)
Fresh(from, n) == [i \in 1 .. n |-> from + i]

(* Job.ApplyConfig without an error: the map of files is listed in any order. *)
(* Every template value that is there replaces the one before, an empty one   *)
(* too.                                                                       *)
Applied(job, settings, files) ==
  LET kind == Kind(job, settings)
      added == Len(NewCommands(job, settings)) IN
  [kind |-> kind,
   schedule |-> Over(settings.schedule, job.schedule),
   generic |-> IF kind = "command" THEN Generic(job, settings) ELSE Nothing,
   commands |-> job.commands \o Fresh(Len(heap), added),
   files |-> IF kind = "file" THEN job.files \o files ELSE <<>>,
   scrubbers |-> job.scrubbers \o Fresh(Len(heap) + added, Len(settings.scrubbers)),
   template_values |->
     [k \in Keys |-> Over(settings.template_values[k], job.template_values[k])]]

(* The commands and scrubbers of a job, by address. *)
Parts(job) == job.commands \o job.scrubbers

DeepCopied_SharingCommands(job) ==
  [job EXCEPT !.generic = Nothing,
              !.scrubbers = Fresh(Len(heap) + Len(job.commands), Len(job.scrubbers))]

(* Job.DeepCopy, CommandSet.DeepCopy: the generic command is not copied. *)
DeepCopied(job) ==
  [job EXCEPT !.generic = Nothing,
              !.commands = Fresh(Len(heap), Len(job.commands)),
              !.scrubbers = Fresh(Len(heap) + Len(job.commands), Len(job.scrubbers))]

CopiedCells(job) == [i \in DOMAIN Parts(job) |-> heap[Parts(job)[i]]]

Valid_WithoutScrubbers(job) ==
  /\ job.schedule # Nothing
  /\ job.kind = "command" =>
       job.commands # <<>> /\ \A a \in Range(job.commands) : ValidCommand(heap[a])
  /\ job.kind = "file" => job.files # <<>> /\ Range(job.files) \cap BadFiles = {}

(* Job.Validate, with CommandSet.Validate and FileSet.Validate. *)
Valid(job) ==
  /\ job.schedule # Nothing
  /\ job.kind = "command" =>
       job.commands # <<>> /\ \A a \in Range(job.commands) : ValidCommand(heap[a])
  /\ job.kind = "file" => job.files # <<>> /\ Range(job.files) \cap BadFiles = {}
  /\ \A a \in Range(job.scrubbers) : ValidScrubber(heap[a])

-----------------------------------------------------------------------------
(* NewController. *)

Init ==
  /\ conf \in Configs
  /\ phase = "jobs"
  /\ todo = Listed(conf.jobs)
  /\ cur = Idle
  /\ heap = <<>>
  /\ jobs = [n \in Names |-> Nothing]
  /\ devices = [d \in Names |-> Nothing]
  /\ errs = FALSE
  /\ lists = [t \in Tags |-> <<>>]

(* newLocalJobStore: the named generic, or else the job named "default", and  *)
(* then the job itself.                                                       *)
JobLayers(n) ==
  LET own == conf.jobs[n] IN
  CASE own.generic # Nothing -> <<conf.job_generics[own.generic], own>>
    [] own.generic = Nothing /\ conf.jobs[Default] # Nothing -> <<conf.jobs[Default], own>>
    [] OTHER -> <<own>>

(* newLocalDeviceStore: the named or the default generic, then the device. *)
DeviceLayers(d) ==
  LET own == conf.devices[d] IN
  CASE own.generic # Nothing -> <<conf.device_generics[own.generic], own>>
    [] own.generic = Nothing /\ conf.device_generics[Default] # Nothing ->
         <<conf.device_generics[Default], own>>
    [] OTHER -> <<own>>

GenericIsMissing(layers) == Head(layers) = Nothing

(* continue: an error of the entry is noted, the others are still visited. *)
Skip ==
  /\ errs' = TRUE
  /\ cur' = Idle
  /\ UNCHANGED <<conf, phase, heap, jobs, devices, lists>>

BeginJob(n) ==
  /\ phase = "jobs" /\ cur.stage = "idle"
  /\ n \in todo
  /\ todo' = todo \ {n}
  /\ IF GenericIsMissing(JobLayers(n)) THEN Skip
     ELSE /\ cur' = [Idle EXCEPT !.stage = "layer", !.name = n, !.layers = JobLayers(n)]
          /\ UNCHANGED <<conf, phase, heap, jobs, devices, errs, lists>>

ApplyJobLayer ==
  LET settings == Head(cur.layers) IN
  /\ phase = "jobs" /\ cur.stage = "layer"
  /\ cur.layers # <<>>
  /\ IF ApplyFails(cur.job, settings) THEN Skip
     ELSE /\ \E files \in SetToSeqs(settings.file) :
               cur' = [cur EXCEPT !.job = Applied(@, settings, files), !.layers = Tail(@)]
          /\ heap' = heap \o AddedCells(cur.job, settings)
          /\ UNCHANGED <<conf, phase, jobs, devices, errs, lists>>
  /\ UNCHANGED todo

StoreJob ==
  /\ phase = "jobs" /\ cur.stage = "layer"
  /\ cur.layers = <<>>
  /\ IF ~ Valid(cur.job) THEN Skip
     ELSE /\ jobs' = [jobs EXCEPT ![cur.name] = cur.job]
          /\ cur' = Idle
          /\ UNCHANGED <<conf, phase, heap, devices, errs, lists>>
  /\ UNCHANGED todo

(* The job store is returned, or all its errors are. *)
JobStoreDone ==
  /\ phase = "jobs" /\ cur.stage = "idle"
  /\ todo = {}
  /\ IF errs THEN phase' = "failed" /\ UNCHANGED todo
     ELSE phase' = "devices" /\ todo' = Listed(conf.devices)
  /\ UNCHANGED <<conf, cur, heap, jobs, devices, errs, lists>>

(* newLocalDeviceStore visits a device, and copies its jobs first. *)
BeginDevice(d) ==
  /\ phase = "devices" /\ cur.stage = "idle"
  /\ d \in todo
  /\ todo' = todo \ {d}
  /\ cur' = [Idle EXCEPT !.stage = "copy", !.name = d, !.layers = DeviceLayers(d),
                         !.due = Listed(conf.devices[d].jobs)]
  /\ UNCHANGED <<conf, phase, heap, jobs, devices, errs, lists>>

(* A job that the job store does not have is made anew. *)
CopyJob(n) ==
  /\ phase = "devices" /\ cur.stage = "copy"
  /\ n \in cur.due
  /\ IF jobs[n] = Nothing
     THEN /\ cur' = [cur EXCEPT !.device.jobs[n] = NewJob, !.due = @ \ {n}]
          /\ UNCHANGED heap
     ELSE /\ cur' = [cur EXCEPT !.device.jobs[n] = DeepCopied(jobs[n]), !.due = @ \ {n}]
          /\ heap' = heap \o CopiedCells(jobs[n])
  /\ UNCHANGED <<conf, phase, todo, jobs, devices, errs, lists>>

JobsCopied ==
  /\ phase = "devices" /\ cur.stage = "copy"
  /\ cur.due = {}
  /\ IF GenericIsMissing(cur.layers) THEN Skip
     ELSE /\ cur' = [cur EXCEPT !.stage = "layer"]
          /\ UNCHANGED <<conf, phase, heap, jobs, devices, errs, lists>>
  /\ UNCHANGED todo

(* Device.ApplyConfig, up to the jobs: those that the device has are due. *)
ApplyDeviceLayer ==
  LET settings == Head(cur.layers) IN
  /\ phase = "devices" /\ cur.stage = "layer"
  /\ cur.layers # <<>>
  /\ IF settings.protocol # Nothing /\ settings.protocol.port = Nothing THEN Skip
     ELSE /\ cur' = [cur EXCEPT
               !.stage = "jobs",
               !.device.port = IF settings.protocol = Nothing THEN @ ELSE settings.protocol.port,
               !.device.user = Over(settings.user, @),
               !.device.tags = @ \o settings.tags,
               !.due = Listed(settings.jobs) \cap Listed(cur.device.jobs)]
          /\ UNCHANGED <<conf, phase, heap, jobs, devices, errs, lists>>
  /\ UNCHANGED todo

(* Device.ApplyConfig goes on: one of the due jobs is configured and its      *)
(* template values are applied to it.  A nil dereference ends the program.    *)
ApplyDeviceJob(n) ==
  LET settings == Head(cur.layers).jobs[n]
      job == cur.device.jobs[n] IN
  /\ phase = "devices" /\ cur.stage = "jobs"
  /\ n \in cur.due
  /\ IF ApplyPanics(job, settings)
     THEN /\ phase' = "panicked"
          /\ UNCHANGED <<conf, cur, heap, jobs, devices, errs, lists>>
     ELSE IF ApplyFails(job, settings) THEN Skip
     ELSE   \E files \in SetToSeqs(settings.file) :
              LET applied == Applied(job, settings, files)
                  cells == heap \o AddedCells(job, settings)
                  values == applied.template_values IN
              \E order \in SetToSeqs({k \in Keys : values[k] # Nothing}) :
                /\ heap' = [a \in DOMAIN cells |->
                     IF a \in Range(Parts(applied)) THEN Resolved(cells[a], values, order)
                     ELSE cells[a]]
                /\ cur' = [cur EXCEPT !.device.jobs[n] = applied, !.due = @ \ {n}]
                /\ UNCHANGED <<conf, phase, jobs, devices, errs, lists>>
  /\ UNCHANGED todo

DeviceLayerDone ==
  /\ phase = "devices" /\ cur.stage = "jobs"
  /\ cur.due = {}
  /\ cur' = [cur EXCEPT !.stage = "layer", !.layers = Tail(@)]
  /\ UNCHANGED <<conf, phase, todo, heap, jobs, devices, errs, lists>>

StoreDevice ==
  /\ phase = "devices" /\ cur.stage = "layer"
  /\ cur.layers = <<>>
  /\ IF \E n \in Listed(cur.device.jobs) : ~ Valid(cur.device.jobs[n]) THEN Skip
     ELSE /\ devices' = [devices EXCEPT ![cur.name] = cur.device]
          /\ cur' = Idle
          /\ UNCHANGED <<conf, phase, heap, jobs, errs, lists>>
  /\ UNCHANGED todo

DeviceStoreDone ==
  /\ phase = "devices" /\ cur.stage = "idle"
  /\ todo = {}
  /\ phase' = IF errs THEN "failed" ELSE "data store"
  /\ UNCHANGED <<conf, todo, cur, heap, jobs, devices, errs, lists>>

(* NewDataStoreFromConfig clones the repository, which may fail. *)
OpenDataStore ==
  /\ phase = "data store"
  /\ \/ phase' = "failed" /\ UNCHANGED todo
     \/ phase' = "lists" /\ todo' = Listed(devices)
  /\ UNCHANGED <<conf, cur, heap, jobs, devices, errs, lists>>

(* NewLocalScheduler *)
BeginLists(d) ==
  /\ phase = "lists" /\ cur.stage = "idle"
  /\ d \in todo
  /\ todo' = todo \ {d}
  /\ cur' = [Idle EXCEPT !.stage = "tags", !.name = d, !.due = Listed(devices[d].jobs)]
  /\ UNCHANGED <<conf, phase, heap, jobs, devices, errs, lists>>

TagsOf_FirstOnly(d) ==
  IF devices[d].tags = <<>> THEN <<Untagged>> ELSE <<Head(devices[d].tags)>>

TagsOf(d) == IF devices[d].tags = <<>> THEN <<Untagged>> ELSE devices[d].tags

(* addDeviceJob: a job of the device goes to the list of each of its tags. *)
AddDeviceJob(n) ==
  LET tags == TagsOf(cur.name)
      Times(t) == Cardinality({i \in DOMAIN tags : tags[i] = t}) IN
  /\ phase = "lists" /\ cur.stage = "tags"
  /\ n \in cur.due
  /\ lists' = [t \in Tags |-> lists[t] \o [i \in 1 .. Times(t) |-> <<cur.name, n>>]]
  /\ cur' = [cur EXCEPT !.due = @ \ {n}]
  /\ UNCHANGED <<conf, phase, todo, heap, jobs, devices, errs>>

DeviceAdded ==
  /\ phase = "lists" /\ cur.stage = "tags"
  /\ cur.due = {}
  /\ cur' = Idle
  /\ UNCHANGED <<conf, phase, todo, heap, jobs, devices, errs, lists>>

Started ==
  /\ phase = "lists" /\ cur.stage = "idle"
  /\ todo = {}
  /\ phase' = "started"
  /\ UNCHANGED <<conf, todo, cur, heap, jobs, devices, errs, lists>>

(* The constructors have returned, with a controller or an error. *)
Returned ==
  /\ phase \in {"started", "failed", "panicked"}
  /\ UNCHANGED vars

Next ==
  \/ \E n \in Names :
       \/ BeginJob(n)
       \/ BeginDevice(n)
       \/ CopyJob(n)
       \/ ApplyDeviceJob(n)
       \/ BeginLists(n)
       \/ AddDeviceJob(n)
  \/ ApplyJobLayer \/ StoreJob \/ JobStoreDone
  \/ JobsCopied \/ ApplyDeviceLayer \/ DeviceLayerDone \/ StoreDevice \/ DeviceStoreDone
  \/ OpenDataStore \/ DeviceAdded \/ Started \/ Returned

Spec == Init /\ [][Next]_vars

-----------------------------------------------------------------------------
(* What the configuration asks for, said without a heap and without steps. *)

(* The settings of a job: its generic, or the generic named "default"         *)
(* (docs/configuration.md:114), and its own.                                  *)
JobSettings(n) ==
  LET own == conf.jobs[n] IN
  IF own.generic # Nothing THEN <<conf.job_generics[own.generic], own>>
  ELSE Given(<<conf.job_generics[Default], own>>)

(* All settings for job n of device d, least specific first: those of the job *)
(* store, if it has the job, and those of the device and of its generic.      *)
FromJobs(n) == IF conf.jobs[n] = Nothing THEN <<>> ELSE Given(JobSettings(n))

FromDevice(d, n) ==
  LET layers == Given(DeviceLayers(d)) IN Given([i \in DOMAIN layers |-> layers[i].jobs[n]])

Settings(d, n) == FromJobs(n) \o FromDevice(d, n)

(* A device without credentials is wrong too (docs/devices.md:19), but that is *)
(* not looked at (device.go:81, "TODO: validate credentials").                *)
ConfigIsWrong ==
  \/ \E n \in Listed(conf.jobs) :
       GenericIsMissing(JobSettings(n)) \/ Wrong(JobSettings(n), Unset)
  \/ \E d \in Listed(conf.devices) :
       \/ GenericIsMissing(DeviceLayers(d))
       \/ \E i \in DOMAIN DeviceLayers(d) : DeviceLayers(d)[i].protocol = [port |-> Nothing]
       \/ \E n \in Listed(conf.devices[d].jobs) :
            Wrong(Settings(d, n), ValuesOf(Settings(d, n)))

(* Where the documentation and the code agree, and the properties below speak *)
(* of nothing else.  A job without a generic is based on the job named        *)
(* "default" by the code (job_store.go:47), on the generic of that name by    *)
(* the documentation.  A value that a device's generic leaves a variable is   *)
(* put in at once and the device cannot replace it any more (device.go:65),   *)
(* where by the documentation it can.  And what comes of values that contain  *)
(* variables depends on the order of a map.                                   *)
DefaultIsClear(n) ==
  conf.jobs[n] # Nothing =>
    conf.jobs[n].generic # Nothing \/ conf.jobs[Default] = conf.job_generics[Default]

IsClear(d, n) ==
  /\ DefaultIsClear(n)
  /\ PlainValues(Settings(d, n))
  /\ Settled(Settings(d, n), 1 + Len(FromJobs(n)))

(* A job as those see it who follow its pointers. *)
Contents(job) ==
  [kind |-> job.kind,
   schedule |-> job.schedule,
   values |-> job.template_values,
   commands |-> [i \in DOMAIN job.commands |-> heap[job.commands[i]]],
   scrubbers |-> [i \in DOMAIN job.scrubbers |-> heap[job.scrubbers[i]]],
   files |-> [f \in Files |-> Cardinality({i \in DOMAIN job.files : job.files[i] = f})]]

-----------------------------------------------------------------------------
(* Properties. *)

(* Once a store has a job nothing changes it any more, although devices are   *)
(* made of copies of the stored jobs and replace template variables in place  *)
(* (job_store.go:82, "We trust callers not to modify this", and job.go:94).   *)
StoresUntouched ==
  [][/\ \A n \in Listed(jobs) : Contents(jobs[n])' = Contents(jobs[n])
     /\ \A d \in Listed(devices) : \A n \in Listed(devices[d].jobs) :
          Contents(devices[d].jobs[n])' = Contents(devices[d].jobs[n])]_vars

(* A job of the job store has every command, scrubber and file of its generic *)
(* and of its own settings, the most specific setting where one replaces the  *)
(* other, and its template variables as they are: devices give them values.   *)
(* A device has the most specific port and user, and its jobs are described   *)
(* by all four kinds of settings, template variables replaced by the most     *)
(* specific value, an empty one included (docs/jobs.md:70), in whatever order *)
(* the maps were walked and the other devices made.                           *)
StoresAreMerged ==
  /\ \A n \in Listed(jobs) :
       DefaultIsClear(n) => Contents(jobs[n]) = Described(JobSettings(n), Unset)
  /\ \A d \in Listed(devices) :
       LET own == conf.devices[d].jobs
           ports == [i \in DOMAIN DeviceLayers(d) |-> DeviceLayers(d)[i].protocol]
           users == [i \in DOMAIN DeviceLayers(d) |-> DeviceLayers(d)[i].user] IN
       /\ devices[d].port = MostSpecific(ports, [port |-> 22]).port
       /\ devices[d].user = MostSpecific(users, Nothing)
       /\ Listed(devices[d].jobs) = Listed(own)
       /\ \A n \in Listed(own) : IsClear(d, n) =>
            Contents(devices[d].jobs[n]) = Described(Settings(d, n), ValuesOf(Settings(d, n)))

(* The controller refuses a configuration only if something in it is wrong,   *)
(* and what it starts with has nothing wrong in it: no entry is dropped on    *)
(* the way, and no error of one entry hides behind another (job_store.go:72   *)
(* and device_store.go:80, "Any errors, combine into single error").          *)
VerdictIsRight ==
  (/\ \A n \in Listed(conf.jobs) : DefaultIsClear(n)
   /\ \A d \in Listed(conf.devices) : \A n \in Listed(conf.devices[d].jobs) : IsClear(d, n))
  => /\ errs => ConfigIsWrong
     /\ phase = "started" => ~ ConfigIsWrong

(* The program ends in a nil dereference only when a device, or its generic,  *)
(* sets commands for a job of the job store.                                  *)
PanicIsByDeviceCommands ==
  phase = "panicked" =>
    \E d \in Listed(conf.devices) : \E n \in Listed(conf.devices[d].jobs) \cap Listed(jobs) :
      /\ jobs[n].kind = "command"
      /\ \E layer \in Range(DeviceLayers(d)) \ {Nothing} :
           layer.jobs[n] # Nothing /\ SetsCommands(layer.jobs[n])

(* Every job of every device of the configuration is in the scheduler's list  *)
(* of each tag of the device and of its generic, or in the list of untagged   *)
(* devices, and in no other list: no job is left out of what workers ask for. *)
ConfiguredTags(d) == UNION {Range(DeviceLayers(d)[i].tags) : i \in DOMAIN DeviceLayers(d)}

EveryJobIsListed ==
  phase = "started" =>
    \A t \in Tags, d, n \in Names :
      <<d, n>> \in Range(lists[t]) <=>
        /\ conf.devices[d] # Nothing
        /\ conf.devices[d].jobs[n] # Nothing
        /\ t \in ConfiguredTags(d) \/ (t = Untagged /\ ConfiguredTags(d) = {})

=============================================================================
