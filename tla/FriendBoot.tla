----------------------------- MODULE FriendBoot -----------------------------
(***************************************************************************)
(* The life of the friend cores of one run of a hakase program: boot()     *)
(* opens /dev/friend_cpu1, 2, ... one after the other, each opened device  *)
(* starts its core at entry64 (friend/boot.S), the core takes a stack and  *)
(* enters friend_init (friend/init.cc), and hakase waits in the loop       *)
(* `while (!is_friend_stopped())` for the flag raised by friend_init.      *)
(* What friend_main does is left open: it returns after any time.          *)
(*                                                                         *)
(* Opening a device succeeds even if the core could not be started         *)
(* (cpudevice_open returns 0 in every case), so boot() counts opened       *)
(* devices, not started cores.                                             *)
(***************************************************************************)
EXTENDS Integers, FiniteSets

CONSTANTS
  NumDevices,   \* /dev/friend_cpu1 .. NumDevices exist
  MaxArgs,      \* values the program may pass to boot()
  StackSize,    \* STACK_SIZE of boot.S
  FirstOffset   \* initial value of stack_offset

ASSUME BootAssumption ==
  /\ NumDevices \in Nat
  /\ MaxArgs \subseteq Int
  /\ StackSize \in Nat \ {0}
  /\ FirstOffset \in Nat

Cores == 1..NumDevices

VARIABLES
  hpc,             \* hakase: "boot", "poll" or "end"
  max,             \* the argument of boot(); 0 or less is no limit
  device,          \* boot(): the device number i of the loop
  cpunum,          \* what boot() returned
  started,         \* cores that cpu_start really started
  pc,              \* pc[c]: the statement core c is about to execute
  stack_offset,    \* the word of boot.S
  rsp,             \* rsp[c]: initial stack pointer, from friend_binary_end
  init_count, returned_count, sync,   \* the counters and flag of init.cc
  returned,        \* returned[c]: result of c's add to returned_count
  counted          \* history: cores in init_count at a successful comparison

vars == <<hpc, max, device, cpunum, started, pc, stack_offset, rsp, init_count,
          returned_count, sync, returned, counted>>

hakase == <<hpc, max, device, cpunum, started>>
shared == <<stack_offset, init_count, returned_count, sync>>

\* Cores that have counted themselves in init_count; cores whose friend_main
\* has returned (and that have counted themselves in returned_count).
Entered  == {c \in Cores : pc[c] \notin {"off", "entry64", "friend_init"}}
Returned == {c \in Cores : pc[c] \in {"compare", "dtors", "signal", "stop"}}

\* The deployed image: setup() has copied the initial values.
Init ==
  /\ hpc = "boot"
  /\ max \in MaxArgs
  /\ device = 1
  /\ cpunum = 0
  /\ started = {}
  /\ pc = [c \in Cores |-> "off"]
  /\ stack_offset = FirstOffset
  /\ rsp = [c \in Cores |-> 0]
  /\ init_count = 0
  /\ returned_count = 0
  /\ sync = 0
  /\ returned = [c \in Cores |-> 0]
  /\ counted = {}

-----------------------------------------------------------------------------
(* Hakase *)

\* boot() returns n.
BootReturns(n) ==
  /\ hpc' = "poll"
  /\ cpunum' = n

\* Mutation: the limit is tested one device too late.
OpenDeviceLate ==
  /\ hpc = "boot"
  /\ device <= NumDevices
  /\ \/ /\ pc' = [pc EXCEPT ![device] = "entry64"]
        /\ started' = started \cup {device}
     \/ UNCHANGED <<pc, started>>
  /\ device' = device + 1
  /\ IF device > max THEN BootReturns(device) ELSE UNCHANGED <<hpc, cpunum>>
  /\ UNCHANGED <<max, shared, rsp, returned, counted>>

\* One round of the loop in boot(): open the next device, whose driver starts
\* the core or fails to, and return when the limit is reached.
OpenDevice ==
  /\ hpc = "boot"
  /\ device <= NumDevices
  /\ \/ /\ pc' = [pc EXCEPT ![device] = "entry64"]
        /\ started' = started \cup {device}
     \/ UNCHANGED <<pc, started>>
  /\ device' = device + 1
  /\ IF device = max THEN BootReturns(device) ELSE UNCHANGED <<hpc, cpunum>>
  /\ UNCHANGED <<max, shared, rsp, returned, counted>>

\* There is no further device: open() fails and boot() returns i - 1.
NoMoreDevices ==
  /\ hpc = "boot"
  /\ device > NumDevices
  /\ BootReturns(device - 1)
  /\ UNCHANGED <<max, device, started, pc, shared, rsp, returned, counted>>

\* is_friend_stopped() returns true: the loop of the hakase program ends.
SeesStopped ==
  /\ hpc = "poll"
  /\ sync = 1
  /\ hpc' = "end"
  /\ UNCHANGED <<max, device, cpunum, started, pc, shared, rsp, returned, counted>>

-----------------------------------------------------------------------------
(* A friend core *)

Step(c, a, b) ==
  /\ pc[c] = a
  /\ pc' = [pc EXCEPT ![c] = b]

\* Mutation: the next core's stack begins half a stack further up.
Entry64HalfStack(c) ==
  /\ Step(c, "entry64", "friend_init")
  /\ rsp' = [rsp EXCEPT ![c] = stack_offset]
  /\ stack_offset' = stack_offset + StackSize \div 2
  /\ UNCHANGED <<hakase, init_count, returned_count, sync, returned, counted>>

\* entry64: the core takes its stack with one atomic exchange-and-add.
Entry64(c) ==
  /\ Step(c, "entry64", "friend_init")
  /\ rsp' = [rsp EXCEPT ![c] = stack_offset]
  /\ stack_offset' = stack_offset + StackSize
  /\ UNCHANGED <<hakase, init_count, returned_count, sync, returned, counted>>

\* friend_init: the first core to count itself runs the constructors.
FriendInit(c) ==
  /\ Step(c, "friend_init", IF init_count = 0 THEN "ctors" ELSE "friend_main")
  /\ init_count' = init_count + 1
  /\ UNCHANGED <<hakase, stack_offset, rsp, returned_count, sync, returned, counted>>

Constructors(c) ==
  /\ Step(c, "ctors", "friend_main")
  /\ UNCHANGED <<hakase, shared, rsp, returned, counted>>

\* Mutation: fetch-and-add in place of add-and-fetch.
MainReturnsOldValue(c) ==
  /\ Step(c, "friend_main", "compare")
  /\ returned_count' = returned_count + 1
  /\ returned' = [returned EXCEPT ![c] = returned_count]
  /\ UNCHANGED <<hakase, stack_offset, rsp, init_count, sync, counted>>

\* friend_main() returns and the core adds itself to returned_count.
MainReturns(c) ==
  /\ Step(c, "friend_main", "compare")
  /\ returned_count' = returned_count + 1
  /\ returned' = [returned EXCEPT ![c] = returned_count + 1]
  /\ UNCHANGED <<hakase, stack_offset, rsp, init_count, sync, counted>>

\* Mutation: the core that returns first raises the flag.
CompareWithOne(c) ==
  /\ Step(c, "compare", IF returned[c] = 1 THEN "dtors" ELSE "stop")
  /\ counted' = IF returned[c] = 1 THEN Entered ELSE counted
  /\ UNCHANGED <<hakase, shared, rsp, returned>>

\* The plain read of init_count, compared with the result of the add.
Compare(c) ==
  /\ Step(c, "compare", IF returned[c] = init_count THEN "dtors" ELSE "stop")
  /\ counted' = IF returned[c] = init_count THEN Entered ELSE counted
  /\ UNCHANGED <<hakase, shared, rsp, returned>>

Destructors(c) ==
  /\ Step(c, "dtors", "signal")
  /\ UNCHANGED <<hakase, shared, rsp, returned, counted>>

\* __toshokan_sync_hakase_and_friend = 1; friend_init returns to entry64,
\* which loops in `stop`.
Signal(c) ==
  /\ Step(c, "signal", "stop")
  /\ sync' = 1
  /\ UNCHANGED <<hakase, stack_offset, rsp, init_count, returned_count, returned, counted>>

CoreStep(c) ==
  \/ Entry64(c) \/ FriendInit(c) \/ Constructors(c) \/ MainReturns(c)
  \/ Compare(c) \/ Destructors(c) \/ Signal(c)

HakaseStep == OpenDevice \/ NoMoreDevices \/ SeesStopped

Next == HakaseStep \/ \E c \in Cores : CoreStep(c)

Spec == Init /\ [][Next]_vars

\* Cores run until `stop`, friend_main returns, and hakase keeps polling.
FairSpec == Spec /\ WF_vars(HakaseStep) /\ \A c \in Cores : WF_vars(CoreStep(c))

-----------------------------------------------------------------------------
(* Properties *)

HasStack == {c \in Cores : pc[c] \notin {"off", "entry64"}}

\* boot(max) hands at most max cores to the friend binary if max is positive,
\* and all of them otherwise; no core is running that boot() has not yet
\* opened, and none beyond the number boot() returned.
BootLimit ==
  /\ started \subseteq 1..device - 1
  /\ max > 0 => started \subseteq 1..max
  /\ hpc # "boot" =>
       /\ started \subseteq 1..cpunum
       /\ cpunum = IF max \in Cores THEN max ELSE NumDevices

\* However the cores race through entry64, every two stack tops are at least
\* STACK_SIZE apart, and every top lies above friend_binary_end.
StacksApart ==
  \A c, d \in HasStack :
    /\ rsp[c] >= FirstOffset
    /\ c # d => rsp[c] - rsp[d] >= StackSize \/ rsp[d] - rsp[c] >= StackSize

\* The flag that is_friend_stopped reads is raised only on behalf of a set of
\* cores that have all returned: the cores counted in init_count when the
\* comparison in friend_init succeeded.
SignalCoversCounted ==
  sync = 1 => counted # {} /\ counted \subseteq Returned

\* Once a core has been started, the last core to return finds the counters
\* equal and hakase leaves its loop: the flag is never missed.
HakaseReleased == started # {} ~> hpc = "end"

\* What hakase.h says of is_friend_stopped(): when it is true, all cores that
\* have been started have returned from friend_main().
StoppedMeansAllReturned ==
  hpc = "end" => started \subseteq Returned

\* What the linker script says of the memory behind friend_binary_end: it
\* holds the stacks, each of which is STACK_SIZE bytes.
StacksFollowBinary ==
  \A c \in HasStack : rsp[c] - StackSize >= 0

\* What the tests check at their end: boot() returned the number of cores
\* that executed friend_main.
BootCountsCores ==
  hpc = "end" => cpunum = Cardinality(started)
=============================================================================
