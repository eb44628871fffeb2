-------------------------- MODULE CpuDeviceProofs --------------------------
(***************************************************************************)
(* With one hakase program at a time, FriendLoader isolates the cores it   *)
(* starts and gives all of them back, for every number of CPUs, whichever  *)
(* of them are present, and however programs start, fail and end.          *)
(* (Two programs at a time break this: see the run two_programs.)          *)
(***************************************************************************)
EXTENDS CpuDevice, TLAPS

\* Where a program is inside cpudevice_open, and what that means: it is
\* running, has room for the file, and a core it wakes up is offline.
Opening ==
  \A p \in Procs :
    op[p] # NoOp =>
      /\ phase[p] = "ready"
      /\ op[p].cpu \in Cpus
      /\ files[p][op[p].cpu] < MaxOpens
      /\ op[p].at = "wake" => op[p].cpu \notin online

\* A program that does not run, or has only just started, has no file.
NoFiles ==
  \A p \in Procs : phase[p] \in {"gone", "new"} => \A i \in Cpus : files[p][i] = 0

\* A core that Linux has not got is held by a program, or cpu_up failed.
Accounted ==
  \A i \in Present : i \in online \/ i \in stuck \/ \E p \in Procs : Holds(p, i)

Inv ==
  TypeOK /\ Opening /\ NoFiles /\ Accounted /\ FriendCoresIsolated /\ FriendCoresHeld

\* Before the first program runs, Linux has every present core.
LEMMA InitInv == Init => Inv
<1> SUFFICES ASSUME Init PROVE Inv
  OBVIOUS
<1>1. TypeOK
  BY DeviceAssumption DEF Init, TypeOK, Cpus
<1>2. Opening /\ NoFiles
  BY DEF Init, Opening, NoFiles
<1>3. Accounted
  BY DEF Init, Accounted
<1>4. FriendCoresIsolated /\ FriendCoresHeld
  BY DeviceAssumption DEF Init, FriendCoresIsolated, FriendCoresHeld, Cpus
<1> QED BY <1>1, <1>2, <1>3, <1>4 DEF Inv

\* What TypeOK says of one program.
LEMMA ProcTypes ==
  ASSUME TypeOK, NEW p \in Procs
  PROVE  /\ op[p] = NoOp \/ (op[p].at \in {"check", "down", "wake", "done"} /\ op[p].cpu \in Cpus)
         /\ op[p] = NoOp => op[p].at = "none" /\ op[p].cpu = 0
         /\ \A i \in Cpus : files[p][i] \in 0..MaxOpens /\ files[p][i] \in Nat /\ i # 0
<1>1. op[p] \in {NoOp} \cup [at : {"check", "down", "wake", "done"}, cpu : Cpus]
  BY DEF TypeOK
<1>2. files[p] \in [Cpus -> 0..MaxOpens]
  BY DEF TypeOK
<1>3. \A i \in Cpus : files[p][i] \in 0..MaxOpens /\ files[p][i] \in Nat /\ i # 0
  BY <1>2, DeviceAssumption DEF Cpus
<1>4. op[p] = NoOp => op[p].at = "none" /\ op[p].cpu = 0
  BY DEF NoOp
<1>5. op[p] = NoOp \/ (op[p].at \in {"check", "down", "wake", "done"} /\ op[p].cpu \in Cpus)
  BY <1>1
<1> QED BY <1>3, <1>4, <1>5

\* A step of the only program p that is about no core keeps the invariant:
\* Exec, Setup, Exit and Reaped.
LEMMA PhaseStep ==
  ASSUME Inv, NEW p \in Procs, Exec(p) \/ Setup(p) \/ Exit(p) \/ Reaped(p)
  PROVE  Inv'
<1> USE DEF Inv
<1>1. TypeOK'
  BY DEF TypeOK, Exec, Setup, Exit, Reaped
<1>2. Opening'
  BY DEF Opening, TypeOK, Exec, Setup, Exit, Reaped
<1>3. NoFiles'
  BY DEF NoFiles, TypeOK, Exec, Setup, Exit, Reaped
<1>4. Accounted' /\ FriendCoresIsolated' /\ FriendCoresHeld'
  BY DEF Accounted, FriendCoresIsolated, FriendCoresHeld, Holds, Exec, Setup, Exit, Reaped
<1> QED BY <1>1, <1>2, <1>3, <1>4

\* cpudevice_open begins: from now on the program holds the core, although the
\* core still does what it did.
LEMMA OpenStep ==
  ASSUME Inv, NEW p \in Procs, NEW i \in Cpus, Open(p, i)
  PROVE  Inv'
<1> USE DEF Inv
<1>1. TypeOK'
  BY DEF TypeOK, Open
<1>2. Opening'
  BY DEF Opening, TypeOK, Open
<1>3. NoFiles'
  BY DEF NoFiles, Open
<1>4. \A q \in Procs, j \in Cpus : Holds(q, j) => Holds(q, j)'
  BY ProcTypes DEF Holds, Open, TypeOK
<1>5. Accounted' /\ FriendCoresIsolated' /\ FriendCoresHeld'
  BY <1>4, DeviceAssumption DEF Accounted, FriendCoresIsolated, FriendCoresHeld, Open
<1> QED BY <1>1, <1>2, <1>3, <1>5

\* cpu_start looks at a core: nobody can change what it has seen, because p is
\* the only program.
LEMMA CheckStep ==
  ASSUME Inv, NEW p \in Procs, CheckCpu(p)
  PROVE  Inv'
<1> USE DEF Inv
<1>1. op[p].at = "check" /\ op[p] # NoOp /\ op[p].cpu \in Cpus
  BY ProcTypes DEF CheckCpu, At, NoOp
<1>2. TypeOK'
  BY <1>1 DEF TypeOK, CheckCpu, Goto
<1>3. \A q \in Procs : op'[q].cpu = op[q].cpu /\ (op'[q] # NoOp => op[q] # NoOp)
  BY <1>1 DEF TypeOK, CheckCpu, Goto
<1>4. Opening'
  <2>1. op'[p].at = "wake" => op[p].cpu \notin online
    BY <1>1 DEF TypeOK, CheckCpu, Goto
  <2>2. \A q \in Procs : q # p => op'[q] = op[q]
    BY DEF TypeOK, CheckCpu, Goto
  <2> QED BY <1>1, <1>3, <2>1, <2>2 DEF Opening, CheckCpu
<1>5. NoFiles'
  BY DEF NoFiles, CheckCpu
<1>6. \A q \in Procs, j \in Cpus : Holds(q, j)' <=> Holds(q, j)
  BY <1>3 DEF Holds, CheckCpu
<1>7. Accounted' /\ FriendCoresIsolated' /\ FriendCoresHeld'
  BY <1>6, DeviceAssumption DEF Accounted, FriendCoresIsolated, FriendCoresHeld, CheckCpu
<1> QED BY <1>2, <1>4, <1>5, <1>7

\* cpu_down, successful or not: Linux leaves the core before anything else
\* happens to it.
LEMMA DownStep ==
  ASSUME Inv, NEW p \in Procs, CpuDown(p)
  PROVE  Inv'
<1> USE DEF Inv
<1>1. op[p].at = "down" /\ op[p] # NoOp /\ op[p].cpu \in Cpus
  BY ProcTypes DEF CpuDown, At, NoOp
<1>2. TypeOK'
  <2>1. online' \subseteq Present
    BY DEF TypeOK, CpuDown
  <2>2. runs' \in [Cpus -> {"linux", "idle", "friend"}]
    BY <1>1 DEF TypeOK, CpuDown
  <2>3. op' \in [Procs -> {NoOp} \cup [at : {"check", "down", "wake", "done"}, cpu : Cpus]]
    <3>1. PICK l \in {"wake", "done"} : op' = [op EXCEPT ![p].at = l]
      BY DEF CpuDown, Goto
    <3>2. op[p] \in [at : {"check", "down", "wake", "done"}, cpu : Cpus]
      BY <1>1 DEF TypeOK
    <3> QED BY <3>1, <3>2 DEF TypeOK
  <2> QED BY <2>1, <2>2, <2>3 DEF TypeOK, CpuDown
<1>3. \A q \in Procs : op'[q].cpu = op[q].cpu /\ (op'[q] # NoOp => op[q] # NoOp)
  BY <1>1 DEF TypeOK, CpuDown, Goto
<1>4. Opening'
  <2>1. op'[p].at = "wake" => op[p].cpu \notin online'
    BY <1>1 DEF TypeOK, CpuDown, Goto
  <2>2. \A q \in Procs : q # p => op'[q] = op[q]
    BY DEF TypeOK, CpuDown, Goto
  <2>3. online' \subseteq online
    BY DEF CpuDown
  <2> QED BY <1>1, <1>3, <2>1, <2>2, <2>3 DEF Opening, CpuDown
<1>5. NoFiles'
  BY DEF NoFiles, CpuDown
<1>6. \A q \in Procs, j \in Cpus : Holds(q, j)' <=> Holds(q, j)
  BY <1>3 DEF Holds, CpuDown
<1>7. Holds(p, op[p].cpu)
  BY DEF Holds
<1>8. Accounted'
  <2>1. \A j \in Present : j \in online => j \in online' \/ j = op[p].cpu
    BY DEF CpuDown
  <2> QED BY <1>1, <1>6, <1>7, <2>1, DeviceAssumption DEF Accounted, CpuDown
<1>9. FriendCoresIsolated'
  BY <1>1, DeviceAssumption DEF FriendCoresIsolated, CpuDown, TypeOK
<1>10. FriendCoresHeld'
  BY <1>1, <1>6 DEF FriendCoresHeld, CpuDown, TypeOK
<1> QED BY <1>2, <1>4, <1>5, <1>8, <1>9, <1>10

\* INIT and STARTUP go to a core that Linux has left.
LEMMA WakeStep ==
  ASSUME Inv, NEW p \in Procs, Wakeup(p)
  PROVE  Inv'
<1> USE DEF Inv
<1>1. op[p].at = "wake" /\ op[p] # NoOp /\ op[p].cpu \in Cpus /\ op[p].cpu \notin online
  BY ProcTypes DEF Wakeup, At, NoOp, Opening
<1>2. /\ runs' \in [Cpus -> {"linux", "idle", "friend"}]
      /\ \A j \in Cpus : j # op[p].cpu => runs'[j] = runs[j]
  BY <1>1 DEF Wakeup, AfterStartup, TypeOK
<1>3. TypeOK'
  BY <1>1, <1>2 DEF TypeOK, Wakeup, Goto
<1>4. /\ \A q \in Procs : op'[q].cpu = op[q].cpu /\ (op'[q] # NoOp => op[q] # NoOp)
      /\ op'[p].at = "done"
      /\ \A q \in Procs : q # p => op'[q] = op[q]
  BY <1>1 DEF TypeOK, Wakeup, Goto
<1>5. Opening'
  BY <1>1, <1>4 DEF Opening, Wakeup
<1>6. NoFiles'
  BY DEF NoFiles, Wakeup
<1>7. \A q \in Procs, j \in Cpus : Holds(q, j)' <=> Holds(q, j)
  BY <1>4 DEF Holds, Wakeup
<1>8. Holds(p, op[p].cpu)
  BY DEF Holds
<1>9. Accounted'
  BY <1>7, DeviceAssumption DEF Accounted, Wakeup
<1>10. FriendCoresIsolated'
  BY <1>1, <1>2, DeviceAssumption DEF FriendCoresIsolated, Wakeup, TypeOK
<1>11. FriendCoresHeld'
  BY <1>1, <1>2, <1>7, <1>8 DEF FriendCoresHeld, Wakeup
<1> QED BY <1>3, <1>5, <1>6, <1>9, <1>10, <1>11

\* cpudevice_open returns: the open file takes over from the call as the reason
\* why the core is held.
LEMMA ReturnStep ==
  ASSUME Inv, NEW p \in Procs, OpenReturns(p)
  PROVE  Inv'
<1> USE DEF Inv
<1> DEFINE i == op[p].cpu
<1>1. op[p].at = "done" /\ op[p] # NoOp /\ i \in Cpus /\ phase[p] = "ready"
  BY ProcTypes DEF OpenReturns, At, NoOp, Opening
<1>2. files[p][i] \in Nat /\ files[p][i] < MaxOpens /\ files[p][i] + 1 \in 0..MaxOpens
  BY <1>1, ProcTypes, DeviceAssumption DEF Opening
<1>3. /\ files' = [files EXCEPT ![p] = [files[p] EXCEPT ![i] = files[p][i] + 1]]
      /\ op' = [op EXCEPT ![p] = NoOp]
      /\ UNCHANGED <<online, runs, phase, image, stuck>>
  BY DEF OpenReturns
<1> HIDE DEF i
<1>4. files'[p] = [files[p] EXCEPT ![i] = files[p][i] + 1]
  BY <1>3 DEF TypeOK
<1>5. \A q \in Procs : q # p => files'[q] = files[q] /\ op'[q] = op[q]
  BY <1>3 DEF TypeOK
<1>6. /\ files'[p][i] = files[p][i] + 1
      /\ \A j \in Cpus : j # i => files'[p][j] = files[p][j]
      /\ op'[p] = NoOp
  BY <1>1, <1>3, <1>4 DEF TypeOK
<1>7. TypeOK'
  <2>1. files' \in [Procs -> [Cpus -> 0..MaxOpens]]
    BY <1>1, <1>2, <1>3 DEF TypeOK
  <2>2. op' \in [Procs -> {NoOp} \cup [at : {"check", "down", "wake", "done"}, cpu : Cpus]]
    BY <1>3 DEF TypeOK
  <2> QED BY <1>3, <2>1, <2>2 DEF TypeOK
<1>8. Opening'
  BY <1>3, <1>5, <1>6 DEF Opening
<1>9. NoFiles'
  BY <1>1, <1>3, <1>5 DEF NoFiles
<1>10. \A q \in Procs, j \in Cpus : Holds(q, j) => Holds(q, j)'
  <2> SUFFICES ASSUME NEW q \in Procs, NEW j \in Cpus, Holds(q, j) PROVE Holds(q, j)'
    OBVIOUS
  <2>1. CASE q # p
    BY <2>1, <1>5 DEF Holds
  <2>2. CASE q = p /\ j = i
    BY <2>2, <1>2, <1>6 DEF Holds
  <2>3. CASE q = p /\ j # i
    BY <2>3, <1>6 DEF Holds, i
  <2> QED BY <2>1, <2>2, <2>3
<1>11. Accounted' /\ FriendCoresIsolated' /\ FriendCoresHeld'
  BY <1>3, <1>10, DeviceAssumption DEF Accounted, FriendCoresIsolated, FriendCoresHeld
<1> QED BY <1>7, <1>8, <1>9, <1>11

\* A file of the only program is released: it is inside no other open, so no
\* core can be on its way to friend code while Linux takes one back.
LEMMA CloseStep ==
  ASSUME Inv, NEW p \in Procs, \A q \in Procs : q = p, NEW i \in Cpus, Close(p, i)
  PROVE  Inv'
<1> USE DEF Inv
<1>1. phase[p] = "exiting" /\ op[p] = NoOp /\ files[p][i] > 0
  BY DEF Close, Opening
<1>2. files[p][i] \in Nat /\ files[p][i] - 1 \in 0..MaxOpens
  BY <1>1, ProcTypes, DeviceAssumption
<1>3. /\ files' = [files EXCEPT ![p] = [files[p] EXCEPT ![i] = files[p][i] - 1]]
      /\ UNCHANGED <<phase, op, image>>
      /\ \/ i \in online /\ UNCHANGED <<online, runs, stuck>>
         \/ /\ i \in Present \ online /\ online' = online \cup {i}
            /\ runs' = [runs EXCEPT ![i] = "linux"] /\ stuck' = stuck \ {i}
         \/ /\ i \notin online /\ stuck' = stuck \cup {i} /\ UNCHANGED <<online, runs>>
  BY DEF Close, Replug
<1>4. \A q \in Procs, j \in Cpus : j # i => files'[q][j] = files[q][j]
  BY <1>3 DEF TypeOK
<1>5. TypeOK'
  <2>1. files' \in [Procs -> [Cpus -> 0..MaxOpens]]
    BY <1>2, <1>3 DEF TypeOK
  <2>2. runs' \in [Cpus -> {"linux", "idle", "friend"}]
    BY <1>3 DEF TypeOK
  <2>3. online' \subseteq Present /\ stuck' \subseteq Cpus
    BY <1>3 DEF TypeOK
  <2> QED BY <1>3, <2>1, <2>2, <2>3 DEF TypeOK
<1>6. Opening' /\ NoFiles'
  BY <1>1, <1>3 DEF Opening, NoFiles
<1>7. \A q \in Procs, j \in Cpus : j # i => (Holds(q, j)' <=> Holds(q, j))
  BY <1>3, <1>4 DEF Holds
<1>8. i \in online' \/ i \in stuck'
  BY <1>3
<1>9. /\ i \in online' => runs'[i] = "linux"
      /\ \A j \in Cpus : j # i =>
           runs'[j] = runs[j] /\ (j \in online' <=> j \in online) /\ (j \in stuck' <=> j \in stuck)
  BY <1>3 DEF TypeOK, FriendCoresIsolated
<1>10. Accounted'
  BY <1>7, <1>8, <1>9, DeviceAssumption DEF Accounted
<1>11. FriendCoresIsolated'
  <2> SUFFICES ASSUME NEW j \in online' PROVE runs'[j] = "linux"
    BY DEF FriendCoresIsolated
  <2>1. j \in Cpus
    BY <1>5, DeviceAssumption DEF TypeOK
  <2> QED BY <1>9, <2>1 DEF FriendCoresIsolated
<1>12. FriendCoresHeld'
  <2> SUFFICES ASSUME NEW j \in Cpus, runs'[j] = "friend"
               PROVE  j \in stuck' \/ \E q \in Procs : Holds(q, j)'
    BY DEF FriendCoresHeld
  <2>1. CASE j = i
    BY <1>8, <1>9, <2>1
  <2>2. CASE j # i
    BY <1>7, <1>9, <2>2 DEF FriendCoresHeld
  <2> QED BY <2>1, <2>2
<1> QED BY <1>5, <1>6, <1>10, <1>11, <1>12

\* Every step of the only program and of the driver keeps the invariant.
LEMMA StepInv ==
  ASSUME \A p, q \in Procs : p = q, Inv, [Next]_vars
  PROVE  Inv'
<1>1. CASE UNCHANGED vars
  <2>1. TypeOK' /\ Opening' /\ NoFiles'
    BY <1>1 DEF Inv, TypeOK, Opening, NoFiles, vars
  <2>2. Accounted' /\ FriendCoresIsolated' /\ FriendCoresHeld'
    BY <1>1 DEF Inv, Accounted, FriendCoresIsolated, FriendCoresHeld, Holds, vars
  <2> QED BY <2>1, <2>2 DEF Inv
<1>2. ASSUME NEW p \in Procs,
             Exec(p) \/ Setup(p) \/ Exit(p) \/ Driver(p) \/ \E i \in Cpus : Open(p, i)
      PROVE  Inv'
  BY <1>2, PhaseStep, OpenStep, CheckStep, DownStep, WakeStep, ReturnStep, CloseStep
  DEF Driver
<1> QED BY <1>1, <1>2 DEF Next

\* Core isolation: while one program at a time uses FriendLoader, a core that
\* Linux regards as online runs Linux, whatever fails in cpu_down, cpu_up or
\* the start of the core.
THEOREM OneProgramIsolates ==
  ASSUME \A p, q \in Procs : p = q
  PROVE  Spec => []FriendCoresIsolated
<1>1. Inv /\ [Next]_vars => Inv'
  BY StepInv
<1>2. Inv => FriendCoresIsolated
  BY DEF Inv
<1> QED BY <1>1, <1>2, InitInv, PTL DEF Spec

\* A core runs friend code only for a program that has its device open.
THEOREM OneProgramHolds ==
  ASSUME \A p, q \in Procs : p = q
  PROVE  Spec => []FriendCoresHeld
<1>1. Inv /\ [Next]_vars => Inv'
  BY StepInv
<1>2. Inv => FriendCoresHeld
  BY DEF Inv
<1> QED BY <1>1, <1>2, InitInv, PTL DEF Spec

\* When no program is left, however the last one ended, Linux has its cores.
THEOREM OneProgramGivesBack ==
  ASSUME \A p, q \in Procs : p = q
  PROVE  Spec => []AllCoresBack
<1>1. Inv /\ [Next]_vars => Inv'
  BY StepInv
<1>2. Inv => AllCoresBack
  <2> SUFFICES ASSUME Inv, \A p \in Procs : phase[p] = "gone", NEW i \in Present
               PROVE  i \in online \cup stuck
    BY DEF AllCoresBack
  <2>1. i \in Cpus /\ i # 0
    BY DeviceAssumption DEF Cpus
  <2>2. \A p \in Procs : ~Holds(p, i)
    <3> SUFFICES ASSUME NEW p \in Procs PROVE ~Holds(p, i)
      OBVIOUS
    <3>1. files[p][i] = 0
      BY <2>1 DEF Inv, NoFiles
    <3>2. op[p] = NoOp
      BY DEF Inv, Opening
    <3>3. op[p].cpu = 0
      BY <3>2 DEF NoOp
    <3> QED BY <2>1, <3>1, <3>3 DEF Holds
  <2> QED BY <2>1, <2>2 DEF Inv, Accounted
<1> QED BY <1>1, <1>2, InitInv, PTL DEF Spec

\* setup() replaces the friend image only when no core executes it.
THEOREM OneProgramDeploysSafely ==
  ASSUME \A p, q \in Procs : p = q
  PROVE  Spec => DeployOnIdleMemory
<1>1. Inv /\ [Next]_vars => Inv'
  BY StepInv
<1> DEFINE Deploys == \E p \in Procs : phase[p] = "new" /\ phase'[p] = "ready"
           Idle == \A i \in Cpus : runs[i] = "friend" => i \in stuck
<1>2. Inv /\ [Next]_vars => [Deploys => Idle]_vars
  <2> SUFFICES ASSUME Inv, NEW p \in Procs, phase[p] = "new",
                      NEW i \in Cpus, runs[i] = "friend"
               PROVE  i \in stuck
    OBVIOUS
  <2>1. \A q \in Procs : ~Holds(q, i)
    <3> SUFFICES ASSUME NEW q \in Procs PROVE ~Holds(q, i)
      OBVIOUS
    <3>1. phase[q] = "new"
      OBVIOUS
    <3>2. files[q][i] = 0 /\ op[q] = NoOp
      BY <3>1 DEF Inv, NoFiles, Opening
    <3>3. op[q].cpu = 0 /\ i # 0
      BY <3>2, DeviceAssumption DEF NoOp, Cpus
    <3> QED BY <3>2, <3>3 DEF Holds
  <2> QED BY <2>1 DEF Inv, FriendCoresHeld
<1>3. Spec => [][Deploys => Idle]_vars
  <2> HIDE DEF Deploys, Idle
  <2> QED BY <1>1, <1>2, InitInv, PTL DEF Spec
<1> QED BY <1>3 DEF DeployOnIdleMemory
=============================================================================
