# A TLA+ development for Toshokan

Toshokan runs bare-metal programs (*friend*) on some cores of a machine while
Linux, and in it a normal process (*hakase*), keeps running on the others.
This directory holds models of its parts, the TLC runs that check them on small
instances, and TLAPS proofs of the central properties for every size.

## The system

| part | code | what it does |
|---|---|---|
| FriendLoader | `FriendLoader/` | kernel module: a device per core (`cpudevice.c`, `cpu_hotplug.c`), two memory devices (`call_interface.c`), a version file (`version.c`) |
| hakase library | `hakase/hakase.cc` | `setup()`, `boot()`, `offloader_tryreceive()`, `is_friend_stopped()` |
| ELF loader, 16 bit loader | `hakase/elf_loader.*`, `hakase/loader16.*` | put the friend binary, the trampoline and the first page tables into reserved memory |
| trampoline | `hakase/friend_boot16.S` | takes a core from real mode to the entry of the friend binary |
| friend runtime | `friend/boot.S`, `friend/init.cc` | gives every core a stack, runs `friend_main`, tells hakase when all is over |
| offloading | `common/offload.h`, `common/offload.S` | lets a friend core have a block of code executed by hakase |

A hakase program calls `setup()`, which fills the reserved memory, and
`boot()`, which opens `/dev/friend_cpu1`, `2`, ...; FriendLoader takes each core
away from Linux and sends it to the trampoline. The cores run `friend_main` and
offload blocks, and hakase serves them until the stop flag is up. When the
process ends, however it ends, the kernel releases the device files and
FriendLoader gives the cores back.

## The modules

**OffloadService** is the abstract promise of `OFFLOAD`: one block at a time,
executed exactly once, before the core goes on.

**Offload** is the protocol. Shared words of the `Offloader` object are
variables (`lock`, `friend_ctx`, `request` = word 8, `resume` = word 9,
`hakase_ctx`). `pc[c]` is the next statement of CPU `c`, `frame[c]` the stack it
runs on. There is one action per statement that touches shared memory or
switches stacks. Actions are written for any CPU, because what a CPU executes
after a jump depends only on the context it loaded. A saved context has two
words, frame and return address, stored and loaded separately.

**OffloadTSO** is the same protocol on x86 memory: a FIFO store buffer per CPU,
and only the compare-and-swap on `_lock` is a locked instruction. The block also
stores a result into the friend's frame.

**FriendBoot** is one run of a program: `boot()` opening device after device,
the cores in `entry64` and `friend_init`, hakase polling the flag. A core whose
device is opened may fail to start. Two modules put the programs that start
every core on top of it. **StackTest** is the test of `tests/stack`:
`friend_main` of every core stores where its stack is, and hakase sorts and
examines the addresses. **CountTest** is `sample/` and the tests `clang`,
`symbol` and `elf`: each core adds itself to `sync_flag` (in `symbol` it stores
a pointer), and hakase compares the sum with what `boot(0)` returned.

**CpuDevice** is the ownership of cores. Linux's view (`online`) and what a core
executes (`runs`) are separate variables. Processes start, run `setup()`, open
devices and end at any time outside of a system call; `cpu_down`, `cpu_up` and
the start of a core may fail.

**PageTables** has `InitPageTables` and the processor's page walk, **Bringup**
the whole of `setup()` and the way of the cores through the trampoline. Programs
follow each other without limit on the memory the earlier ones left. The sum in
`CheckMemoryRegion` wraps around; a `memcpy` or `memset` that passes the test
because of this kills the program, after any number of bytes (`Overrun`).

**LoaderModule** is `insmod` and `rmmod`: what is registered and given back, one
kernel call after the other in both directions, while processes open CPU
devices.

**MemDevice** has the two `mmap` handlers with arithmetic that wraps around.
**KernelModule** composes it with LoaderModule: a process opens a memory device
when its node and its cdev are there, maps it, closes it and unmaps it, with any
kernel calls of `insmod` and `rmmod` in between. The module may go away under an
open or mapped memory device, since these do not pin it (`gone`); what such a
process then does is undefined, and it takes no further step.

**FriendOps**, **TutorialPrograms**, **OldSamplePrograms** and **FriendMachine**
are the programs of `tutorial/` and `sample_old/` and two of `tests/`
(`offload`, `vmx`). All use one friend core but `monitor`, whose cores do nothing
but loop. The core may fail to start, which `boot(1)` does not report. A program
is a sequence of operations, in the order of its statements; FriendMachine executes it on a core
with page tables the program itself edits, a TLB, an interrupt table and a
stack, next to the hakase process of the program. Addresses are page numbers and
otherwise those of the code. The page walk, the TLB and exceptions are the
processor's, and external. Any translation may be kept in the TLB, and fetched
without an access, until `invlpg` or a load of cr3. The runtime of `sample_old`
is not in the repository; its address space is taken from the programs, which
add 0x80000000 to every address they put into a table. Whether `hlt` ends there
is not known, so it may or may not.

`MC*` modules and configurations give the constants values. Definitions whose
comment begins with "Mutation" are wrong variants of the action that follows;
no specification uses them. They show that a property depends on the action.

How the modules fit together: CpuDevice abstracts `setup()` to one step, which
Bringup refines in detail; DeployOnIdleMemory in CpuDevice justifies that the
cores of Bringup are off whenever a program starts; Bringup's DeployedImage
justifies the zeroed initial states of Offload and FriendBoot; FriendBoot's
started cores are those of CpuDevice. These connections are arguments, not
checked compositions. KernelModule is one.

## The runs

| run | question | bounds |
|---|---|---|
| `offload` | do lock, flags and jumps ever mix up stacks; does Offload implement OffloadService; is every request served | 3 cores, 2 OFFLOADs each |
| `offload_store_buffers` | does it still work without fences, and does every core get through | the same, buffers of 8 stores |
| `boot_and_stop` | limits of `boot()`, stacks, the stop flag; when do the stack test, the sample, `clang`, `symbol` and `elf` pass | 3 devices, limits -1 to 4 (stack test; the others use 0), 4 entries in the array of the test |
| `core_ownership` | who owns a core, through failures and the end of processes | 1 process, 4 devices (one CPU absent, one with APIC id 0), each opened at most twice |
| `bring_up` | image, page tables, way to the entry | 9 binaries, 2 cores, 3 entries per table, huge pages of 4 addresses |
| `module_loading` | unwinding, pinning, order of registration and of the exit functions; what can be opened and mapped, and when | 2 CPU devices, 2 open files; an address space of 16 pages of 4 bytes, 8 of them in a process; every area and offset |
| `friend_programs` | stale translations, output, page fault handlers, the end of every program | all 32 programs; 2 pages in each half of the table of copy_on_write |

Why these bounds. Three cores are one that holds the lock, one that fails its
test and one that fails its compare-and-swap; the second OFFLOAD meets what the
first left behind. With three cores the counters of `friend_init` can become
equal while a second core is inside `friend_init` and a third has not arrived.
No buffer ever holds more than 7 stores, so that buffers of 8 are as good as
unbounded ones. The binaries of `bring_up` end before, at and behind
the end of the memory, and so far behind it that the end wraps around; `.bss` lies outside of the part `setup()` clears. In
`module_loading` offsets go up to the last page, so that sums wrap around.

### Where code and documents disagree

Five runs end with a counterexample to something the repository says.

- `stopped_too_early`: `is_friend_stopped()` can be true while a started core
  has not entered `friend_main`. `friend_init` compares with the cores that have
  arrived so far; `hakase.h:8` speaks of all friend cores.
- `first_stack`: the first stack reaches 0x2000 bytes below
  `friend_binary_end`; `friend.ld:77` puts the stacks behind it.
- `boot_overcounts`: `cpudevice_open` returns 0 even if the core did not start,
  so `boot()` counts it; `tests/clang/hakase.cc:19` expects the number of cores
  that ran.
- `two_programs`: with two hakase programs a core that Linux has just taken back
  can be sent to friend code, since `cpu_start` does not exclude a `cpu_up`
  after its look at `cpu_online`; the architecture tutorial (line 15) says that
  not even Linux is loaded on a friend core.
- `call_interface_missing`: `memdevice_init` always returns 0, so that the test
  in `main.c:18` never sees a failure.

The first and the third decide what the counting programs report: with several
cores, `sample`, `clang` and `elf` report FAILED when a core comes too late or
does not start. CountVerdict says exactly when, and `symbol` is not concerned.

A smaller one, not worth a run: the comments in `memory.h` and `loader16.cc`
give the page tables 12KB of the trampoline memory, which has 8KB in all.

### Fairness and deadlock

Offload and OffloadTSO assume weak fairness of every CPU: a friend core runs
nothing else and is never preempted, and Linux schedules a runnable process
again and again. OffloadTSO assumes in addition that store buffers drain. No
fairness is assumed for the lock: with a bounded number of OFFLOADs each core
gets it in the end, with an unbounded number the code guarantees nothing.
FriendBoot assumes that hakase polls, that cores run and that `friend_main`
returns, which is up to the program. CpuDevice assumes that system calls and the
release of files complete, Bringup that a core executes its next instruction.

FriendMachine assumes that the core and hakase go on, and that the user types
what is asked for; nothing is assumed of prefetches or of what wakes a core.

Deadlock is checked in all passing runs but `boot_and_stop` and
`friend_programs`, where a run of a program really ends.

In `friend_programs`, NoStaleAccess excepts copy_on_write, which changes entries
in use without a flush. EndsPassed is about programs that have an end, and
whose core has started: not the two exercises, nor those that stop in `hlt`, nor
the choices at the console that make a handler retry for ever, nor `vmx` on a
processor without VMX. Programs with one fixed order of operations have few
states; what varies is the TLB, the choice at the console and the pace of
hakase.

## The proofs

Each proof rests on an inductive invariant, with lemmas for the actions. The
constants are arbitrary but for the assumptions named here.

**OffloadProofs**, for any set of cores and any number of OFFLOADs. The
inductive invariant is `TypeOK /\ Handshake`. Mutual exclusion alone is not
inductive: the lock is released by whoever reaches that statement, and who does
depends on the contexts. `Handshake` says that the core holding the lock and
hakase are in matching stages (preparing, posted, accepting, visiting,
returning, waking, leaving), what flags and contexts hold in each, and that all
is quiet without a holder. Two lemmas first show which actions a friend core and
hakase can take at all; two more that each of them keeps the invariant. All
safety properties of the run `offload` follow, and each step is shown to be a
step of OffloadService or to leave it unchanged. Assumptions: hakase is not one
of the friend cores; one process polls.

**OffloadTSOFriends** and **OffloadTSOProofs** show the same on x86 memory, for
any number of entries in the store buffers: OneCpuPerStack, ExactlyOnce,
ResultVisible, and that the protocol implements OffloadService. What is in
memory and what is still in a buffer could be in any relation; the invariant
says why it is not. Between two moments at which its buffer is empty, a CPU
issues one of four fixed sequences of stores (entering, posting, serving,
leaving). `Issued(c, s, n)` says that it has issued the first `n` stores of `s`:
since buffers are FIFO, some of these are in memory and the others in the
buffer, in this order. Posting and serving end with the store that raises a
flag, and in leaving the lock is released behind the reset of the flag: whoever
sees the last store sees those before it. This is all the ordering the protocol
needs, and why it needs no fence. The stages are those of `Handshake` with `Issued` in the
place of plain values. The first module has the lemmas about buffers and the
steps of friend cores, the second the steps of hakase and the theorems.
Assumption: the words of the Offloader are not where blocks store their results.

**CpuDeviceProofs**, for any number of CPUs, absent ones and ones with APIC id 0
included, and one program at a time (`two_programs` shows that this is needed).
The invariant adds to isolation and holding that a core about to be woken up is
offline, that a program that is gone or has only just started has no files, and
that every present core is online, held, or the victim of a failed `cpu_up`.

**FriendBootProofs**, for any number of devices, any limits and any stack size.
The invariant adds to BootLimit that `boot()` has not gone past a positive
limit, without which the test for equality could be missed; and to StacksApart
that every stack handed out ends below `stack_offset`, so that the next one is a
whole stack away from all of them. SignalCoversCounted needs the counters as
cardinalities: `init_count` and `returned_count` are the sizes of the sets of
cores that have passed the two atomic adds, one of these sets is part of the
other, and finite sets of the same size, one within the other, are equal.

**StackTestProofs** builds on it: the stack test passes unless a device was
counted without its core or the flag was raised too early. The invariant says
that indices are given out without gaps and only once, that the array holds the
address of each core that has stored it and `Unset` behind, and what each loop
of the test must then find. `qsort` puts each entry where its rank says, the
number of entries below it; lemmas show that every rank is taken once and that
the result is ascending. Assumptions: the first stack is above address 0, which
the place of the binary ensures, and the array has room for all devices.
The same module proves CountVerdict, for any number of devices. Its invariant
says that `sync_flag` is the number of cores that have added themselves, that
only started cores, which are among the counted devices, have done so, and for
`symbol` that the flag is only raised when some core has been through
`friend_main`. A subset of `1..cpunum` with `cpunum` elements is all of it, so
the comparison succeeds exactly if every counted core was in time.

**KernelModuleProofs**, for any page size, memory size and number of CPU
devices.

- MemDevice. The heart is `InsideSound`: an area that passes the two tests of
  `memdevice_mmap` ends within the friend memory although the sum may have
  wrapped around. It uses that the address space of a process and the friend
  memory together are smaller than 2^64 bytes: an area that starts within the
  friend memory and ends at exactly 2^64, where the sum is 0, would pass both
  tests, but no process has room for it.
- LoaderModule. The invariant has, for each interface, the parts that are
  registered at each place of its init function, after its success, after its
  failure and after its exit function (`MemProgress`, `CpuProgress`,
  `VersionProgress`), and which init functions can have failed by then.
  ModulePinned, VersionMeansReady, CleanUnload and the action property
  UnwindComplete follow.
- KernelModule. All theorems are about the composition. OpensCompleteDevice
  follows from `MemProgress`: wherever node and cdev are both registered, the
  region and the class are too, because the cdev is added last and deleted
  first. `BootedSafe` says what is left of safety for memory devices, which do
  not pin the module: its code goes away under an open or mapped one only while
  no CPU device is open, or when the load itself fails.

**BringupProofs**, for any number of entries in a table, any page size, any set
of friend binaries and of cores, and any number of programs after each other.
No property of `setup()` holds by itself: a core gets to the entry because of
what the page tables map, which they do because of what was cleared, which was
within the memory because of what was checked. The invariant has one conjunct
for each:

- `Checked`: headers the loader has gone past lie within the friend memory;
- `Deployed`: what has been loaded and cleared so far;
- `Mapping`: the entries `InitPageTables` has written (`Maps`), and that there
  are no others once `.bss` is cleared (`MapsOnly`);
- `Starting`: registers of a core by its stage in the trampoline, and what they
  point to (`Prepared`).

The page walk needs division: the indices of an address at the four levels and
its offset determine it, and the indices of the friend memory and the trampoline
do not collide. These are lemmas of their own. Assumptions, beyond positive
sizes: the layout of `memory.h` (addresses are below the 256TB of four levels,
the trampoline is in another gigabyte than the friend memory, whose end is a
multiple of 2MB); of a binary, what `friend.ld` and the linker make of it
(`Linked`: segments do not overlap, memory beyond the file is `.bss`, which has
only zeros in the file, the tables are in `.bss`, the entry is code). Nothing is
assumed of where headers place a segment: one whose end wraps around passes
`CheckMemoryRegion` and ends the program (`OverrunEnds`), so that no state in
which `setup()` goes on has seen a write outside of the friend memory.

Only model-checked:

- all liveness properties, which are beyond the prover;
- FriendMachine (NoStaleAccess, OutputCorrect, HandlerTransparent): its programs
  are 32 fixed ones, and TLC goes through every behaviour of each;
- the counterexamples of the five runs above.

Type invariants are kept where a proof or the run `offload` uses them.

## What is not modelled

The warm reset vector and the unused `cpu_unplug` and `get_cpu_num`; segment
descriptors; text of the version file and the kernel command line; the linker's
part of symbol resolution; the deprecated interrupt controller, which is not
built; the fault handler of copy_on_write, which is never entered (CR0.WP is
clear); the unit tests under `common/tests`; build and virtual machine scripts.
`PROJECT.json` lists every part with the reason, and the hazards no property
covers.

The models stand for a little under a third of the lines of the repository.
Most of the others have no behaviour to model, or behaviour that is modelled
already:

- `common/elfhead.h`, a third of all lines: a vendored header of constants and
  record layouts;
- `tutorial_template/`: its `build.py` copies the programs to `tutorial/`, where
  they are modelled; the files are the same;
- `app1.cc` and `app2.cc` of the old samples 021 to 024, equal to those of 041,
  and `exec.cc` of sample 100, which does what `common/exec.cc` does; one
  definition stands for all copies and is mapped to one of them;
- linker scripts, declarations in headers, and scripts.

Known simplifications: what friend code writes is a sample (memory that is not
its text, table entries that are unused); the plain read of `init_count` comes
after the atomic add, as in the code g++ 12 generates, although C++ does not fix
the order; a block does not
contain another OFFLOAD; each loop of the stack test over its array is one step;
the calls with which an init function undoes a failure are one step; a process
has one memory device open or mapped at a time; the use of a device whose module
is gone is undefined and left out.

## Plan

1. A session module that composes Offload, FriendBoot and CpuDevice: a process
   killed in the middle of an OFFLOAD, and the next program on the same memory.
2. A proof that CpuDevice's one step for `setup()` is implemented by Bringup.
3. What remains true of CpuDevice with several programs, as a theorem next to
   the counterexample of `two_programs`.
