---------------------------- MODULE MCConfigChain ----------------------------
(***************************************************************************)
(* Configurations for model-checking ConfigChain: the jobs a and           *)
(* "default", a generic b, the devices a and b and two device generics.    *)
(***************************************************************************)
EXTENDS ConfigChain

CONSTANTS dflt, a, b, u, v, bad, k, l, f, g, e, s, r, x, y, root, op

Do(text) == [NoCommand EXCEPT !.command = text]

Scrub(type, search) == [type |-> type, search |-> search]

NoJobs == [n \in Names |-> Nothing]

Bare ==
  [generic |-> Nothing, type |-> "", schedule |-> Nothing, commands |-> <<>>,
   command_generic |-> Nothing, file |-> {}, scrubbers |-> <<>>, template_values |-> Unset]

BareDevice ==
  [generic |-> Nothing, protocol |-> Nothing, tags |-> <<>>, user |-> Nothing, jobs |-> NoJobs]

(* The job a: two template variables in a command; one over the generic b;    *)
(* files; files over b; a file of an unknown compression; an immediate        *)
(* command, invalid with b; another type.                                     *)
OwnJobs ==
  {[Bare EXCEPT !.schedule = s, !.scrubbers = <<Scrub("", u)>>,
      !.commands = <<[command |-> k, expect |-> <<l, u>>, timeout |-> Nothing]>>],
   [Bare EXCEPT !.generic = b, !.schedule = s, !.template_values[k] = u,
      !.command_generic = [NoCommand EXCEPT !.expect = <<v>>],
      !.commands = <<Do(k), [Do(v) EXCEPT !.timeout = 5]>>],
   [Bare EXCEPT !.type = "file", !.file = {f, g}, !.schedule = s, !.scrubbers = <<Scrub("regex", l)>>],
   [Bare EXCEPT !.type = "file", !.generic = b, !.file = {f, g}, !.schedule = s],
   [Bare EXCEPT !.type = "file", !.file = {e}, !.schedule = s],
   [Bare EXCEPT !.generic = b, !.commands = <<[Do(u) EXCEPT !.timeout = 0]>>],
   [Bare EXCEPT !.type = "other", !.schedule = s]}

(* The generic b: none; settings of commands; one for files; a bad schedule;  *)
(* a scrubber of an unknown type.                                             *)
JobGenerics ==
  {Nothing,
   [Bare EXCEPT !.command_generic = [command |-> u, expect |-> <<k>>, timeout |-> 1],
      !.commands = <<Do(v)>>, !.scrubbers = <<Scrub("simple", l)>>,
      !.template_values[l] = v, !.schedule = r],
   [Bare EXCEPT !.type = "file", !.file = {f}, !.scrubbers = <<Scrub("", k)>>],
   [Bare EXCEPT !.schedule = BadSchedule],
   [Bare EXCEPT !.scrubbers = <<Scrub("other", u)>>]}

(* The job and the generic "default": none; both alike; only the job, on      *)
(* which the code bases other jobs.                                           *)
Defaults ==
  LET default == [Bare EXCEPT !.schedule = r, !.commands = <<Do(u)>>] IN
  {<<Nothing, Nothing>>, <<default, default>>, <<default, Nothing>>}

(* What the device a says of the job a: nothing; values; values with another  *)
(* variable; an empty value; a value that is a bad pattern; commands.         *)
Entries ==
  {Bare,
   [Bare EXCEPT !.template_values[k] = v, !.schedule = r,
      !.scrubbers = <<Scrub("", k), Scrub("regex", l)>>],
   [Bare EXCEPT !.template_values = [i \in Keys |-> IF i = k THEN l ELSE u]],
   [Bare EXCEPT !.template_values = [i \in Keys |-> IF i = k THEN u ELSE Empty]],
   [Bare EXCEPT !.template_values[l] = bad],
   [Bare EXCEPT !.commands = <<Do(v)>>]}

(* The generic "default" of devices: none; tag, port and user; a value of its *)
(* own for a variable of the job a; generic commands; an unknown protocol.    *)
DeviceGenerics ==
  {Nothing,
   [BareDevice EXCEPT !.tags = <<y>>, !.protocol = [port |-> 2222], !.user = root],
   [BareDevice EXCEPT !.jobs[a] = [Bare EXCEPT !.template_values[k] = u]],
   [BareDevice EXCEPT !.jobs[a] = [Bare EXCEPT !.command_generic = Do(v)]],
   [BareDevice EXCEPT !.protocol = [port |-> Nothing]]}

(* The other device: the same job with another value, and a user; a job of    *)
(* its own beside it; a device of the missing generic b.                      *)
OtherDevices ==
  {[BareDevice EXCEPT !.jobs[a] = [Bare EXCEPT !.template_values[k] = u], !.tags = <<x>>, !.user = op],
   [BareDevice EXCEPT !.jobs[b] = [Bare EXCEPT !.schedule = s, !.commands = <<Do(u), Do(v)>>],
                      !.jobs[a] = Bare],
   [BareDevice EXCEPT !.generic = b, !.jobs[b] = Bare]}

Chosen ==
  {[jobs |-> [NoJobs EXCEPT ![a] = own, ![dflt] = default[1]],
    job_generics |-> [NoJobs EXCEPT ![b] = generic, ![dflt] = default[2]],
    devices |-> [NoJobs EXCEPT ![a] = [BareDevice EXCEPT !.jobs[a] = entry, !.tags = <<x>>],
                               ![b] = other],
    device_generics |-> [NoJobs EXCEPT ![dflt] = deviceGeneric]] :
   own \in OwnJobs, generic \in JobGenerics, default \in Defaults, entry \in Entries,
   deviceGeneric \in DeviceGenerics, other \in OtherDevices}

=============================================================================
