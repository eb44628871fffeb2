---------------------------- MODULE LoaderModule ----------------------------
(***************************************************************************)
(* Loading and unloading FriendLoader (main.c): the memory devices         *)
(* (call_interface.c), the CPU devices (cpudevice.c) and the version file  *)
(* (version.c) are registered, and given back, one kernel call at a time,  *)
(* and processes can use each of them as soon as it is there and as long   *)
(* as it is there.  Every kernel call of init may fail.                    *)
(* The kernel itself is external: a module whose init function returns an  *)
(* error is discarded, with whatever it has registered; rmmod is refused   *)
(* while the module is in use.                                             *)
(***************************************************************************)
EXTENDS Naturals, FiniteSets, Sequences

CONSTANTS
  NumPossibleCpus,  \* num_possible_cpus()
  MaxOpens          \* bound: files of CPU devices that are open

minor_num == NumPossibleCpus - 1
Minors == 1..minor_num

ASSUME LoaderAssumption == NumPossibleCpus \in Nat \ {0} /\ MaxOpens \in Nat

\* What init registers: the parts of the three kinds of device, with one node
\* per CPU device, and the two parts of the version file.
MemParts(d) == {d} \X {"region", "class", "node", "cdev"} \X {0}
CpuParts == ({"cpu"} \X {"region", "class", "cdev"} \X {0}) \cup ({"cpu"} \X {"node"} \X Minors)
VersionParts == {"version"} \X {"kobj", "group"} \X {0}
Parts(d) == CASE d = "cpu" -> CpuParts [] d = "version" -> VersionParts [] OTHER -> MemParts(d)

VARIABLES
  at,      \* [f, step]: the function that runs, and its next step
  minor,   \* the loop variable of cpudevice_init and cpudevice_exit, as a device
  have,    \* what the loaded module has registered
  stale,   \* what discarded modules have left registered
  failed,  \* the interfaces whose init function returned an error
  opens,   \* open files of the loaded module's CPU devices
  wrong    \* has the latest exit given back something that was not registered?

vars == <<at, minor, have, stale, failed, opens, wrong>>

Here(f, s) == at = [f |-> f, step |-> s]
Go(f, s) == at' = [f |-> f, step |-> s]

Init ==
  /\ Here("out", "idle")
  /\ minor = 1
  /\ have = {} /\ stale = {} /\ failed = {}
  /\ opens = 0
  /\ wrong = FALSE

-----------------------------------------------------------------------------
(* insmod *)

\* Files of a discarded module do not count for this one.
Insmod ==
  /\ Here("out", "idle")
  /\ Go("mem", "region")
  /\ failed' = {}
  /\ opens' = 0
  /\ wrong' = FALSE
  /\ UNCHANGED <<minor, have, stale>>

\* A kernel call registers p, and init goes on at step s of f.
Registers(p, f, s) ==
  /\ have' = have \cup {p}
  /\ Go(f, s)
  /\ UNCHANGED <<minor, stale, failed, opens, wrong>>

\* A kernel call of interface d fails: its init function gives the parts in
\* undo back and returns an error, with which init goes on at step s of f.
\* (The calls that undo are one step: no process can tell how far they are, as
\* the device has no cdev or no node.)
Fails(d, undo, f, s) ==
  /\ have' = have \ undo
  /\ failed' = failed \cup {d}
  /\ Go(f, s)
  /\ UNCHANGED <<minor, stale, opens, wrong>>

\* friend_loader_init returns an error: the kernel discards the module, also
\* when one of its devices is open.
LoadFails(d, undo) ==
  /\ stale' = stale \cup (have \ undo)
  /\ have' = {}
  /\ failed' = failed \cup {d}
  /\ Go("out", "idle")
  /\ UNCHANGED <<minor, opens, wrong>>

\* generic_memdevice_init, for mem and bootmem.  memdevice_init does not look
\* at what it returns.
After(d) == IF d = "mem" THEN "bootmem" ELSE "cpu"

AllocRegion(d) ==
  /\ Here(d, "region")
  /\ Registers(<<d, "region", 0>>, d, "class") \/ Fails(d, {}, After(d), "region")

\* A class of that name may still be there.
CreateClass(d) ==
  /\ Here(d, "class")
  /\ \/ <<d, "class", 0>> \notin stale /\ Registers(<<d, "class", 0>>, d, "node")
     \/ Fails(d, {<<d, "region", 0>>}, After(d), "region")

\* device_create reports an error as an error pointer, which is not NULL.
CreateNode(d) ==
  /\ Here(d, "node")
  /\ \/ Registers(<<d, "node", 0>>, d, "cdev")
     \/ Go(d, "cdev") /\ UNCHANGED <<minor, have, stale, failed, opens, wrong>>

\* Mutation: the labels at the end are in the wrong order.
AddCdevKeepsClass(d) ==
  /\ Here(d, "cdev")
  /\ \/ Registers(<<d, "cdev", 0>>, After(d), "region")
     \/ Fails(d, {<<d, "region", 0>>, <<d, "node", 0>>}, After(d), "region")

AddCdev(d) ==
  /\ Here(d, "cdev")
  /\ \/ Registers(<<d, "cdev", 0>>, After(d), "region")
     \/ Fails(d, MemParts(d), After(d), "region")

\* cpudevice_init.  An error ends friend_loader_init.
CpuRegion ==
  /\ Here("cpu", "region")
  /\ \/ minor_num > 0 /\ Registers(<<"cpu", "region", 0>>, "cpu", "cdev")
     \/ LoadFails("cpu", {})

CpuCdev ==
  /\ Here("cpu", "cdev")
  /\ \/ Registers(<<"cpu", "cdev", 0>>, "cpu", "class")
     \/ LoadFails("cpu", {<<"cpu", "region", 0>>})

CpuClass ==
  /\ Here("cpu", "class")
  /\ \/ <<"cpu", "class", 0>> \notin stale /\ Registers(<<"cpu", "class", 0>>, "cpu", "node")
     \/ LoadFails("cpu", CpuParts)

\* The end of the body of the two loops over the CPU devices; the last time,
\* step s of f is next.
NextMinor(f, s) ==
  IF minor < minor_num THEN minor' = minor + 1 /\ UNCHANGED at
                       ELSE minor' = 1 /\ Go(f, s)

\* device_create, whose result is not looked at.
CpuNode ==
  /\ Here("cpu", "node")
  /\ have' \in {have, have \cup {<<"cpu", "node", minor>>}}
  /\ NextMinor("version", "kobj")
  /\ UNCHANGED <<stale, failed, opens, wrong>>

\* version_interface_init.
VersionKobj ==
  /\ Here("version", "kobj")
  /\ Registers(<<"version", "kobj", 0>>, "version", "group") \/ LoadFails("version", {})

VersionGroup ==
  /\ Here("version", "group")
  /\ Registers(<<"version", "group", 0>>, "live", "idle") \/ LoadFails("version", VersionParts)

-----------------------------------------------------------------------------
(* Processes that use the CPU devices.  (A device of a discarded module is  *)
(* not used: what would happen is undefined.)                              *)

ExitFunctions == {"version_exit", "cpu_exit", "mem_exit", "bootmem_exit"}

\* The open takes a reference on the module, which owns the cdev; it gets none
\* once rmmod has begun.
OpenCpu ==
  /\ <<"cpu", "cdev", 0>> \in have
  /\ \E m \in Minors : <<"cpu", "node", m>> \in have
  /\ at.f \notin ExitFunctions
  /\ opens < MaxOpens
  /\ opens' = opens + 1
  /\ UNCHANGED <<at, minor, have, stale, failed, wrong>>

CloseCpu ==
  /\ opens > 0
  /\ at.f # "out"
  /\ opens' = opens - 1
  /\ UNCHANGED <<at, minor, have, stale, failed, wrong>>

-----------------------------------------------------------------------------
(* rmmod *)

\* Mutation: the cdev of the CPU devices has no owner.
NeverInUse == FALSE

InUse == opens > 0

\* Mutation: the CPU devices go before the version file.
RmmodDevicesFirst ==
  /\ Here("live", "idle")
  /\ ~InUse
  /\ Go("cpu_exit", "node")
  /\ UNCHANGED <<minor, have, stale, failed, opens, wrong>>

Rmmod ==
  /\ Here("live", "idle")
  /\ ~InUse
  /\ Go("version_exit", "kobj")
  /\ UNCHANGED <<minor, have, stale, failed, opens, wrong>>

\* A kernel call of an exit function gives the parts in p back, whether or not
\* the init function was successful.  It is harmless that a node is missing.
GivesBack(p) ==
  /\ have' = have \ p
  /\ wrong' = (wrong \/ ~({q \in p : q[2] # "node"} \subseteq have))
  /\ UNCHANGED <<stale, failed, opens>>

VersionExit ==
  /\ Here("version_exit", "kobj")
  /\ GivesBack(VersionParts)
  /\ Go("cpu_exit", "node")
  /\ UNCHANGED minor

\* cpudevice_exit: device_destroy for every minor, then the rest in this order.
\* Mutation: the class is not destroyed.
CpuExitOrderNoClass == <<"cdev", "region">>

CpuExitOrder == <<"class", "cdev", "region">>

CpuNodeExit ==
  /\ Here("cpu_exit", "node")
  /\ GivesBack({<<"cpu", "node", minor>>})
  /\ NextMinor("cpu_exit", Head(CpuExitOrder))

\* memdevice_exit: the calls for one memory device.
\* Mutation: the cdev goes last, so that the device can be opened when parts of
\* it are gone.
MemExitOrderCdevLast == <<"class", "node", "region", "cdev">>

MemExitOrder == <<"cdev", "node", "class", "region">>

CpuExit ==
  \E i \in DOMAIN CpuExitOrder :
    /\ Here("cpu_exit", CpuExitOrder[i])
    /\ GivesBack({<<"cpu", CpuExitOrder[i], 0>>})
    /\ IF i < Len(CpuExitOrder) THEN Go("cpu_exit", CpuExitOrder[i + 1])
                                ELSE Go("mem_exit", Head(MemExitOrder))
    /\ UNCHANGED minor

ExitOf(d) == IF d = "mem" THEN "mem_exit" ELSE "bootmem_exit"

MemExit(d) ==
  \E i \in DOMAIN MemExitOrder :
    /\ Here(ExitOf(d), MemExitOrder[i])
    /\ GivesBack({<<d, MemExitOrder[i], 0>>})
    /\ IF i < Len(MemExitOrder) THEN Go(ExitOf(d), MemExitOrder[i + 1])
       ELSE IF d = "mem" THEN Go("bootmem_exit", Head(MemExitOrder))
       ELSE Go("out", "idle")
    /\ UNCHANGED minor

Next ==
  \/ Insmod
  \/ \E d \in {"mem", "bootmem"} :
       AllocRegion(d) \/ CreateClass(d) \/ CreateNode(d) \/ AddCdev(d)
  \/ CpuRegion \/ CpuCdev \/ CpuClass \/ CpuNode \/ VersionKobj \/ VersionGroup
  \/ OpenCpu \/ CloseCpu
  \/ Rmmod \/ VersionExit \/ CpuNodeExit \/ CpuExit
  \/ \E d \in {"mem", "bootmem"} : MemExit(d)

Spec == Init /\ [][Next]_vars

-----------------------------------------------------------------------------
(* Properties *)

\* An init function that returns an error has given back all that it had
\* registered, wherever it failed.
UnwindComplete ==
  [][\A d \in failed' \ failed :
       (have' \cup (stale' \ stale)) \cap Parts(d) = {}]_vars

\* As long as a CPU device is open, the code that will give its core back to
\* Linux is there: the module is not unloaded.  (It is discarded if its init
\* function fails at a time when a device is already open.)
ModulePinned ==
  opens > 0 => at.f \notin {"out"} \cup ExitFunctions \/ failed \cap {"cpu", "version"} # {}

\* Who can read the version file (the first thing setup() does) finds the
\* memory and CPU devices registered, unless their init function failed.
VersionMeansReady ==
  <<"version", "group", 0>> \in have =>
    \A d \in {"mem", "bootmem", "cpu"} \ failed :
      {d} \X {"region", "class", "cdev"} \X {0} \subseteq have

\* If no init function failed, unloading gives back all that was registered
\* and nothing else, so that the module can be loaded again.
CleanUnload == Here("out", "idle") /\ failed = {} => have = {} /\ ~wrong

\* What friend_loader_init wants to ensure: if the call interface could not be
\* initialised, the module is not loaded.
LoadedMeansInterface == Here("live", "idle") => {"mem", "bootmem"} \cap failed = {}
=============================================================================
