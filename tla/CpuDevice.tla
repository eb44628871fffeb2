----------------------------- MODULE CpuDevice -----------------------------
(***************************************************************************)
(* The CPU devices of FriendLoader (cpudevice.c, cpu_hotplug.c).  Opening  *)
(* /dev/friend_cpu<i> takes core i away from Linux and starts it on the    *)
(* friend image; the last close of that file gives it back.  Hakase        *)
(* processes never close the files themselves: the kernel does, when the   *)
(* process ends in whatever way.                                           *)
(*                                                                         *)
(* Linux's view of a core (online or not) and what the core really does    *)
(* are separate variables, because the code can make them disagree.        *)
(* cpu_down and cpu_up are external; they are atomic (Linux serialises CPU *)
(* hotplug) and may fail.  Nothing serialises cpu_start as a whole.        *)
(***************************************************************************)
EXTENDS Naturals, FiniteSets

CONSTANTS
  Procs,      \* hakase processes
  NumCpus,    \* possible CPUs 1..NumCpus besides CPU 0; each has a device
  Present,    \* the CPUs that cpu_present() reports
  ApicZero,   \* the CPUs whose local APIC has id 0
  NoProc,     \* no process
  MaxOpens    \* bound: open files per process and device

Cpus == 1..NumCpus

ASSUME DeviceAssumption ==
  /\ NumCpus \in Nat
  /\ Present \subseteq Cpus
  /\ ApicZero \subseteq Cpus
  /\ NoProc \notin Procs
  /\ MaxOpens \in Nat

VARIABLES
  online,   \* the CPUs Linux regards as online
  runs,     \* runs[i]: what CPU i executes: "linux", "idle" or "friend"
  files,    \* files[p][i]: open files of process p for the device of CPU i
  phase,    \* phase[p]: "gone", "new", "ready" or "exiting"
  op,       \* op[p]: [at, cpu], where p is inside cpudevice_open
  image,    \* the process whose friend image is in memory
  stuck     \* history: CPUs for which the latest cpu_up failed

vars == <<online, runs, files, phase, op, image, stuck>>

NoOp == [at |-> "none", cpu |-> 0]

TypeOK ==
  /\ online \subseteq Present
  /\ runs \in [Cpus -> {"linux", "idle", "friend"}]
  /\ files \in [Procs -> [Cpus -> 0..MaxOpens]]
  /\ phase \in [Procs -> {"gone", "new", "ready", "exiting"}]
  /\ op \in [Procs -> {NoOp} \cup
                      [at : {"check", "down", "wake", "done"}, cpu : Cpus]]
  /\ image \in Procs \cup {NoProc}
  /\ stuck \subseteq Cpus

Init ==
  /\ online = Present
  /\ runs = [i \in Cpus |-> IF i \in Present THEN "linux" ELSE "idle"]
  /\ files = [p \in Procs |-> [i \in Cpus |-> 0]]
  /\ phase = [p \in Procs |-> "gone"]
  /\ op = [p \in Procs |-> NoOp]
  /\ image = NoProc
  /\ stuck = {}

-----------------------------------------------------------------------------
(* The hakase process *)

\* Somebody starts the program (again).
Exec(p) ==
  /\ phase[p] = "gone"
  /\ phase' = [phase EXCEPT ![p] = "new"]
  /\ UNCHANGED <<online, runs, files, op, image, stuck>>

\* setup() maps and clears the friend memory and deploys the image of p.
Setup(p) ==
  /\ phase[p] = "new"
  /\ phase' = [phase EXCEPT ![p] = "ready"]
  /\ image' = p
  /\ UNCHANGED <<online, runs, files, op, stuck>>

\* boot() opens the device of CPU i: cpudevice_open calls cpu_start(i).
Open(p, i) ==
  /\ phase[p] = "ready"
  /\ op[p] = NoOp
  /\ files[p][i] < MaxOpens
  /\ op' = [op EXCEPT ![p] = [at |-> "check", cpu |-> i]]
  /\ UNCHANGED <<online, runs, files, phase, image, stuck>>

\* The process ends, by returning from main, by a signal or by a crash.
Exit(p) ==
  /\ phase[p] \in {"new", "ready"}
  /\ op[p] = NoOp
  /\ phase' = [phase EXCEPT ![p] = "exiting"]
  /\ UNCHANGED <<online, runs, files, op, image, stuck>>

-----------------------------------------------------------------------------
(* cpu_start, called by cpudevice_open *)

At(p, l) == op[p].at = l
Goto(p, l) == op' = [op EXCEPT ![p].at = l]

\* Mutation: the core is not taken away from Linux first.
CheckCpuSkipDown(p) ==
  /\ At(p, "check")
  /\ Goto(p, IF op[p].cpu \notin Present THEN "done" ELSE "wake")
  /\ UNCHANGED <<online, runs, files, phase, image, stuck>>

\* cpu_present(i), then cpu_online(i), which is not looked at again.
CheckCpu(p) ==
  /\ At(p, "check")
  /\ Goto(p, IF op[p].cpu \notin Present THEN "done"
             ELSE IF op[p].cpu \in online THEN "down" ELSE "wake")
  /\ UNCHANGED <<online, runs, files, phase, image, stuck>>

\* cpu_down(i): Linux leaves the core, or refuses to.
CpuDown(p) ==
  LET i == op[p].cpu IN
  /\ At(p, "down")
  /\ \/ /\ online' = online \ {i}
        /\ runs' = IF i \in online THEN [runs EXCEPT ![i] = "idle"] ELSE runs
        /\ Goto(p, "wake")
     \/ /\ UNCHANGED <<online, runs>>
        /\ Goto(p, "done")
  /\ UNCHANGED <<files, phase, image, stuck>>

\* What CPU i may do after wakeup_secondary_cpu_via_init: INIT stops it and
\* STARTUP makes it run the friend image, whatever it did before.  Either may
\* not be delivered.
AfterStartup(i) == {runs[i], "idle", "friend"}

\* The core must not have APIC id 0.  A failure to wake it up is reported as a
\* positive number, which cpu_start takes for success.
Wakeup(p) ==
  LET i == op[p].cpu IN
  /\ At(p, "wake")
  /\ \E r \in IF i \in ApicZero THEN {runs[i]} ELSE AfterStartup(i) :
       runs' = [runs EXCEPT ![i] = r]
  /\ Goto(p, "done")
  /\ UNCHANGED <<online, files, phase, image, stuck>>

\* cpudevice_open returns 0 in every case: the process has an open file.
OpenReturns(p) ==
  LET i == op[p].cpu IN
  /\ At(p, "done")
  /\ files' = [files EXCEPT ![p][i] = @ + 1]
  /\ op' = [op EXCEPT ![p] = NoOp]
  /\ UNCHANGED <<online, runs, phase, image, stuck>>

-----------------------------------------------------------------------------
(* The end of a process: the kernel releases its files one after another.  *)

\* Mutation: no release handler.
CloseOnly(p, i) ==
  /\ phase[p] = "exiting"
  /\ files[p][i] > 0
  /\ files' = [files EXCEPT ![p][i] = @ - 1]
  /\ UNCHANGED <<online, runs, phase, op, image, stuck>>

\* Mutation: the minor number is used as CPU number, one too small.
CloseOffByOne(p, i) ==
  /\ phase[p] = "exiting"
  /\ files[p][i] > 0
  /\ files' = [files EXCEPT ![p][i] = @ - 1]
  /\ online' = online \cup ({i - 1} \cap Present)
  /\ runs' = [j \in Cpus |-> IF j = i - 1 /\ j \in Present THEN "linux" ELSE runs[j]]
  /\ UNCHANGED <<phase, op, image, stuck>>

\* cpu_replug, that is cpu_up(i): Linux starts the core (one that is online
\* already stays as it is), or fails to.
Replug(i) ==
  \/ /\ i \in online
     /\ UNCHANGED <<online, runs, stuck>>
  \/ /\ i \in Present \ online
     /\ online' = online \cup {i}
     /\ runs' = [runs EXCEPT ![i] = "linux"]
     /\ stuck' = stuck \ {i}
  \/ /\ i \notin online
     /\ stuck' = stuck \cup {i}
     /\ UNCHANGED <<online, runs>>

\* cpudevice_close replugs the core; the result is only logged.
Close(p, i) ==
  /\ phase[p] = "exiting"
  /\ files[p][i] > 0
  /\ files' = [files EXCEPT ![p][i] = @ - 1]
  /\ Replug(i)
  /\ UNCHANGED <<phase, op, image>>

\* All files are released.
Reaped(p) ==
  /\ phase[p] = "exiting"
  /\ \A i \in Cpus : files[p][i] = 0
  /\ phase' = [phase EXCEPT ![p] = "gone"]
  /\ UNCHANGED <<online, runs, files, op, image, stuck>>

\* What the kernel does for p, once asked.
Driver(p) ==
  \/ CheckCpu(p) \/ CpuDown(p) \/ Wakeup(p) \/ OpenReturns(p)
  \/ (\E i \in Cpus : Close(p, i)) \/ Reaped(p)

Next ==
  \E p \in Procs :
    \/ Exec(p) \/ Setup(p) \/ Exit(p) \/ Driver(p)
    \/ \E i \in Cpus : Open(p, i)

Spec == Init /\ [][Next]_vars

\* System calls and the release of files of an ended process complete.
FairSpec == Spec /\ \A p \in Procs : WF_vars(Driver(p))

-----------------------------------------------------------------------------
(* Properties *)

\* Process p has the device of CPU i open, or is opening it.
Holds(p, i) == files[p][i] > 0 \/ op[p].cpu = i

\* Core isolation: a core that runs friend code is not under the control of
\* Linux, and every core Linux regards as online runs Linux.
FriendCoresIsolated == \A i \in online : runs[i] = "linux"

\* A core runs friend code only on behalf of a process that has its device
\* open, however processes end and are started again (unless Linux failed to
\* take the core back).
FriendCoresHeld ==
  \A i \in Cpus :
    runs[i] = "friend" => i \in stuck \/ \E p \in Procs : Holds(p, i)

\* No core is executing friend code while setup() replaces the friend image:
\* all cores of an earlier run have been given back before.
DeployOnIdleMemory ==
  [][(\E p \in Procs : phase[p] = "new" /\ phase'[p] = "ready")
       => \A i \in Cpus : runs[i] = "friend" => i \in stuck]_vars

\* Whenever no hakase process exists, Linux has all its cores again, those of
\* a failed cpu_up excepted, no matter at which point the process ended.
AllCoresBack ==
  (\A p \in Procs : phase[p] = "gone") => Present \subseteq online \cup stuck

\* The end of a process, orderly or not, leads to the release of its cores.
ExitReleasesCores ==
  \A p \in Procs :
    phase[p] = "exiting" ~> \A i \in Cpus : runs[i] = "friend" => i \in stuck
=============================================================================
