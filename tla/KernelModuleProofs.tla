------------------------- MODULE KernelModuleProofs -------------------------
(***************************************************************************)
(* Proofs about FriendLoader.  For every page size, every size of the      *)
(* address spaces and every place of the reserved memory (within           *)
(* MemAssumption), the memory devices hand out reserved pages only.  For   *)
(* any number of CPU devices and open files, and wherever kernel calls     *)
(* fail, FriendLoader undoes what a failed init function did, stays as     *)
(* long as a CPU device is open, and lets no process open a device that is *)
(* half set up or half given back.                                         *)
(***************************************************************************)
EXTENDS KernelModule, TLAPS

\* A step of FriendLoader and its process is a step, or a stutter, of the module
\* and of the memory devices, so that an invariant of one of them is kept.
LEMMA KernelSteps ==
  /\ KernelInit => Init /\ MemInit
  /\ [KernelNext]_kernelVars => [Next]_vars /\ [MemNext]_memVars
<1>1. KernelInit => Init /\ MemInit
  BY DEF KernelInit
<1>2. ASSUME ModuleNext PROVE Next /\ UNCHANGED memVars
  BY <1>2 DEF ModuleNext
<1>3. ASSUME ProcessNext PROVE [MemNext]_memVars
  BY <1>3 DEF ProcessNext, OpenMem, MapMem, MapBootmem, CloseMem, Unmap, MemNext
<1>4. ASSUME UNCHANGED kernelVars PROVE UNCHANGED vars /\ UNCHANGED memVars
  BY <1>4 DEF kernelVars
<1> QED BY <1>1, <1>2, <1>3, <1>4 DEF KernelNext

-----------------------------------------------------------------------------
(* The memory devices *)

\* Multiplying page numbers with the page size keeps their order.
LEMMA PageOrder ==
  ASSUME NEW a \in Nat, NEW b \in Nat, NEW s \in Nat \ {0}
  PROVE  /\ a * s \in Nat
         /\ a <= b <=> a * s <= b * s
         /\ a < b <=> a * s < b * s
         /\ (a + b) * s = a * s + b * s
  OBVIOUS

\* The two tests of memdevice_mmap are right: an area that passes them ends
\* within the friend memory, even though the sum they look at may have wrapped
\* around.
LEMMA InsideSound ==
  ASSUME NEW v \in Areas, Inside(v)
  PROVE  v.pgoff + v.pages <= MemPages
<1> DEFINE s == PageSize
           from == v.pgoff * s
           size == v.pages * s
           limit == LimitPages * s
           mem == MemPages * s
           user == UserPages * s
<1>1. /\ v.pages \in Nat \ {0} /\ v.pgoff \in Nat
      /\ v.pages <= UserPages /\ v.pgoff < LimitPages
  BY MemAssumption DEF Areas
<1>2. /\ s \in Nat \ {0} /\ LimitPages \in Nat /\ MemPages \in Nat /\ UserPages \in Nat
      /\ UserPages + MemPages < LimitPages
  BY MemAssumption
<1>3. /\ from \in Nat /\ size \in Nat /\ limit \in Nat /\ mem \in Nat /\ user \in Nat
      /\ from < limit /\ size <= user
  BY <1>1, <1>2, PageOrder
<1>4. size > 0
  <2>1. 0 * s < v.pages * s
    BY <1>1, <1>2, PageOrder
  <2> QED BY <2>1, <1>2
<1>5. user + mem < limit
  <2>1. (UserPages + MemPages) * s < LimitPages * s
    <3> HIDE DEF s
    <3> DEFINE n == UserPages + MemPages
    <3>1. n \in Nat /\ n < LimitPages
      BY <1>2
    <3> HIDE DEF n
    <3>2. n * s < LimitPages * s
      BY <1>2, <3>1, PageOrder
    <3> QED BY <3>2 DEF n
  <2>2. (UserPages + MemPages) * s = UserPages * s + MemPages * s
    BY <1>2, PageOrder
  <2> QED BY <2>1, <2>2
<1>6. from + size <= mem
  <2>1. LET e == IF from + size < limit THEN from + size ELSE from + size - limit
        IN  /\ ~((IF e - 1 < 0 THEN e - 1 + limit ELSE e - 1) < from)
            /\ ~(from > mem \/ e > mem)
    BY <1>3, <1>4, <1>5
    DEF Inside, Wrap, AddrLimit, DEPLOY_PHYS_MEM_SIZE
  <2> HIDE DEF from, size, limit, mem, user
  <2> QED BY <2>1, <1>3, <1>4, <1>5
<1>7. (v.pgoff + v.pages) * s = from + size
  BY <1>1, <1>2, PageOrder
<1>8. v.pgoff + v.pages \in Nat
  BY <1>1
<1> HIDE DEF s
<1> DEFINE n == v.pgoff + v.pages
<1>9. n \in Nat /\ n * s <= MemPages * s
  BY <1>6, <1>7, <1>8
<1> HIDE DEF n
<1>10. n <= MemPages
  BY <1>9, <1>2, PageOrder
<1> QED BY <1>10 DEF n

\* The area of the bootmem device has the size of the trampoline.
LEMMA BootSize ==
  ASSUME NEW v \in Areas, v.pages * PageSize = TRAMPOLINE_SIZE
  PROVE  v.pages = BootPages
<1>1. v.pages \in Nat /\ BootPages \in Nat /\ PageSize \in Nat \ {0}
  BY MemAssumption DEF Areas
<1>2. v.pages * PageSize <= BootPages * PageSize /\ BootPages * PageSize <= v.pages * PageSize
  BY <1>1 DEF TRAMPOLINE_SIZE
<1>3. v.pages <= BootPages /\ BootPages <= v.pages
  BY <1>1, <1>2, PageOrder
<1> QED BY <1>1, <1>3

\* What the tests have established stays true as long as the area is mapped:
\* the inductive invariant.
Mapped ==
  /\ dev = "mem" => pfn = vma.pgoff + StartPage /\ vma.pgoff + vma.pages <= MemPages
  /\ dev = "bootmem" => pfn = BootPage /\ vma.pages = BootPages

Inv == MemTypeOK /\ Mapped

\* The invariant holds before the first mmap call.
LEMMA MappedInit == MemInit => Inv
BY MemAssumption DEF MemInit, Inv, MemTypeOK, Mapped, NoArea, Areas

\* memdevice_mmap, bootmemdevice_mmap and munmap keep the invariant: what is
\* mapped has passed the tests of the handler that mapped it.
LEMMA MappedStep == Inv /\ [MemNext]_memVars => Inv'
<1> SUFFICES ASSUME Inv, [MemNext]_memVars PROVE Inv'
  OBVIOUS
<1> USE MemAssumption
<1>1. ASSUME NEW v \in Areas, memdevice_mmap(v) PROVE Inv'
  <2>1. v.pgoff \in Nat
    BY DEF Areas
  <2>2. v.pgoff + v.pages <= MemPages
    BY <1>1, InsideSound DEF memdevice_mmap
  <2> QED BY <1>1, <2>1, <2>2 DEF memdevice_mmap, Inv, MemTypeOK, Mapped
<1>2. ASSUME NEW v \in Areas, bootmemdevice_mmap(v) PROVE Inv'
  <2>1. v.pages = BootPages
    BY <1>2, BootSize DEF bootmemdevice_mmap
  <2> QED BY <1>2, <2>1 DEF bootmemdevice_mmap, Inv, MemTypeOK, Mapped
<1>3. ASSUME munmap PROVE Inv'
  BY <1>3 DEF munmap, Inv, MemTypeOK, Mapped, NoArea, Areas
<1>4. ASSUME UNCHANGED memVars PROVE Inv'
  BY <1>4 DEF memVars, Inv, MemTypeOK, Mapped
<1> QED BY <1>1, <1>2, <1>3, <1>4 DEF MemNext

\* Every mapping of the memory devices consists of reserved pages only: what
\* memdevice_mmap and bootmemdevice_mmap accept never reaches Linux's memory.
THEOREM ReservedOnly == KernelSpec => []ReservedPagesOnly
<1>1. Inv => ReservedPagesOnly
  <2> SUFFICES ASSUME Inv, dev # "none",
                      NEW p \in vma.start..(vma.start + vma.pages - 1)
               PROVE  PhysicalPage(p) \in
                        IF dev = "mem" THEN StartPage..(StartPage + MemPages - 1)
                                       ELSE BootPage..(BootPage + BootPages - 1)
    BY DEF ReservedPagesOnly
  <2>1. vma.start \in Nat /\ vma.pages \in Nat /\ vma.pgoff \in Nat
    BY MemAssumption DEF Inv, MemTypeOK, Areas
  <2>2. p \in Int /\ vma.start <= p /\ p <= vma.start + vma.pages - 1
    BY <2>1
  <2>3. CASE dev = "mem"
    BY <2>1, <2>2, <2>3, MemAssumption DEF Inv, Mapped, PhysicalPage
  <2>4. CASE dev = "bootmem"
    BY <2>1, <2>2, <2>4, MemAssumption DEF Inv, Mapped, PhysicalPage
  <2> QED BY <2>3, <2>4 DEF Inv, MemTypeOK
<1> QED BY <1>1, MappedInit, MappedStep, KernelSteps, PTL DEF KernelSpec

-----------------------------------------------------------------------------
(* Loading and unloading *)

Interfaces == {"mem", "bootmem", "cpu", "version"}
AllParts == UNION {Parts(d) : d \in Interfaces}

\* Has the init function of d returned, and its exit function not yet begun?
SetUp(d) ==
  \/ d = "mem" /\ at.f \in {"bootmem", "cpu", "version", "live", "version_exit", "cpu_exit"}
  \/ d = "bootmem" /\ at.f \in {"cpu", "version", "live", "version_exit", "cpu_exit", "mem_exit"}
  \/ d = "cpu" /\ at.f \in {"version", "live", "version_exit"}
  \/ d = "version" /\ at.f \in {"live", "version_exit"}

DeviceFunctions == {"mem", "bootmem", "cpu", "cpu_exit", "mem_exit", "bootmem_exit"}

Positions ==
  [f : DeviceFunctions, step : {"region", "class", "node", "cdev"}]
    \cup [f : {"version"}, step : {"kobj", "group"}]
    \cup [f : {"live", "out"}, step : {"idle"}]
    \cup [f : {"version_exit"}, step : {"kobj"}]

LoadTypeOK ==
  /\ at \in Positions
  /\ have \subseteq AllParts
  /\ failed \subseteq Interfaces
  /\ opens \in Nat

\* The registered parts of interface d are of these kinds only.
Only(d, kinds) == \A q \in have : q[1] = d => q[2] \in kinds

At(f, s) == at.f = f /\ at.step = s
Has(d, kind) == <<d, kind, 0>> \in have
Essential(d) == Has(d, "region") /\ Has(d, "class") /\ Has(d, "cdev")

\* The parts of a memory device that are registered, by the place where init or
\* exit is.
MemProgress(d) ==
  /\ at.f = d => d \notin failed
  /\ At(d, "region") => Only(d, {})
  /\ At(d, "class") => Has(d, "region") /\ Only(d, {"region"})
  /\ At(d, "node") => Has(d, "region") /\ Has(d, "class") /\ Only(d, {"region", "class"})
  /\ At(d, "cdev") => /\ Has(d, "region") /\ Has(d, "class")
                      /\ Only(d, {"region", "class", "node"})
  /\ SetUp(d) \/ At(ExitOf(d), "cdev") => d \in failed \/ Essential(d)
  /\ At(ExitOf(d), "node") => /\ Only(d, {"region", "class", "node"})
                              /\ d \in failed \/ (Has(d, "region") /\ Has(d, "class"))
  /\ At(ExitOf(d), "class") => /\ Only(d, {"region", "class"})
                               /\ d \in failed \/ (Has(d, "region") /\ Has(d, "class"))
  /\ At(ExitOf(d), "region") => Only(d, {"region"}) /\ (d \in failed \/ Has(d, "region"))
  /\ d \in failed => Only(d, {})
  /\ ~SetUp(d) /\ at.f \notin {d, ExitOf(d)} => Only(d, {})

CpuProgress ==
  /\ At("cpu", "region") => Only("cpu", {})
  /\ At("cpu", "cdev") => Has("cpu", "region") /\ Only("cpu", {"region"})
  /\ At("cpu", "class") => /\ Has("cpu", "region") /\ Has("cpu", "cdev")
                           /\ Only("cpu", {"region", "cdev"})
  /\ At("cpu", "node") => Essential("cpu")
  /\ SetUp("cpu") => Essential("cpu")
  /\ At("cpu_exit", "node") => /\ Essential("cpu")
                               /\ \A q \in have : q[1] = "cpu" /\ q[2] = "node" => q[3] >= minor
  /\ At("cpu_exit", "class") => Essential("cpu") /\ Only("cpu", {"region", "class", "cdev"})
  /\ At("cpu_exit", "cdev") => /\ Has("cpu", "region") /\ Has("cpu", "cdev")
                               /\ Only("cpu", {"region", "cdev"})
  /\ At("cpu_exit", "region") => Has("cpu", "region") /\ Only("cpu", {"region"})
  /\ ~SetUp("cpu") /\ at.f \notin {"cpu", "cpu_exit"} => Only("cpu", {})

VersionProgress ==
  /\ At("version", "kobj") => Only("version", {})
  /\ At("version", "group") => Has("version", "kobj") /\ Only("version", {"kobj"})
  /\ SetUp("version") => Has("version", "kobj") /\ Has("version", "group")
  /\ ~SetUp("version") /\ at.f # "version" => Only("version", {})

\* The loop variable: a CPU device in the loops, the first one outside of them.
MinorOK ==
  /\ minor \in Nat \ {0}
  /\ at.f = "cpu" /\ at.step # "region" => minor_num > 0
  /\ At("cpu", "node") => minor <= minor_num
  /\ ~At("cpu", "node") /\ ~At("cpu_exit", "node") => minor = 1

\* Which init functions can have failed by now; when files can be open.
Failures ==
  /\ at.f = "mem" => failed = {}
  /\ at.f = "bootmem" => failed \subseteq {"mem"}
  /\ at.f # "out" => failed \subseteq {"mem", "bootmem"}
  /\ at.f \in ExitFunctions => opens = 0
  /\ at.f = "out" /\ opens > 0 => failed \cap {"cpu", "version"} # {}

Progress ==
  /\ LoadTypeOK
  /\ MemProgress("mem") /\ MemProgress("bootmem") /\ CpuProgress /\ VersionProgress
  /\ MinorOK
  /\ Failures

\* Only the exit functions of interfaces that failed give back what is not there.
Orderly == wrong \in BOOLEAN /\ (failed = {} => ~wrong)

LoadInv == Progress /\ Orderly

-----------------------------------------------------------------------------
\* The three kinds of device have different parts.
LEMMA PartsApart ==
  /\ Parts("mem") = MemParts("mem") /\ Parts("bootmem") = MemParts("bootmem")
  /\ Parts("cpu") = CpuParts /\ Parts("version") = VersionParts
  /\ \A d \in Interfaces : \A q \in Parts(d) : q[1] = d
  /\ \A q \in AllParts : q[1] \in Interfaces /\ q \in Parts(q[1])
<1>1. /\ Parts("mem") = MemParts("mem") /\ Parts("bootmem") = MemParts("bootmem")
      /\ Parts("cpu") = CpuParts /\ Parts("version") = VersionParts
  BY DEF Parts
<1>2. \A d \in Interfaces : \A q \in Parts(d) : q[1] = d
  BY DEF Parts, MemParts, CpuParts, VersionParts, Interfaces
<1>3. \A q \in AllParts : q[1] \in Interfaces /\ q \in Parts(q[1])
  BY <1>2 DEF AllParts
<1> QED BY <1>1, <1>2, <1>3

\* The parts, one by one.
LEMMA PartsListed ==
  /\ \A d \in {"mem", "bootmem"} : \A k \in {"region", "class", "node", "cdev"} :
       <<d, k, 0>> \in AllParts
  /\ \A k \in {"region", "class", "cdev"} : <<"cpu", k, 0>> \in AllParts
  /\ \A m \in Minors : <<"cpu", "node", m>> \in AllParts
  /\ \A k \in {"kobj", "group"} : <<"version", k, 0>> \in AllParts
<1>1. \A d \in {"mem", "bootmem"} : \A k \in {"region", "class", "node", "cdev"} :
         <<d, k, 0>> \in Parts(d)
  BY DEF Parts, MemParts
<1>2. \A k \in {"region", "class", "cdev"} : <<"cpu", k, 0>> \in Parts("cpu")
  BY DEF Parts, CpuParts
<1>3. \A m \in Minors : <<"cpu", "node", m>> \in Parts("cpu")
  BY DEF Parts, CpuParts
<1>4. \A k \in {"kobj", "group"} : <<"version", k, 0>> \in Parts("version")
  BY DEF Parts, VersionParts
<1> QED BY <1>1, <1>2, <1>3, <1>4 DEF AllParts, Interfaces

\* A part that is not a node is the only one of its kind; the nodes of the CPU
\* devices have the minors.
LEMMA PartShape ==
  ASSUME NEW q \in AllParts
  PROVE  /\ q[1] # "cpu" \/ q[2] # "node" => q = <<q[1], q[2], 0>>
         /\ q[1] = "cpu" /\ q[2] = "node" => q = <<"cpu", "node", q[3]>> /\ q[3] \in Minors
         /\ q[1] \in {"mem", "bootmem"} => q[2] \in {"region", "class", "node", "cdev"}
         /\ q[1] = "cpu" => q[2] \in {"region", "class", "node", "cdev"}
         /\ q[1] = "version" => q[2] \in {"kobj", "group"}
BY PartsApart DEF Parts, MemParts, CpuParts, VersionParts, Interfaces

\* The module that is not loaded satisfies the invariant.
LEMMA LoadInit == Init => LoadInv
<1> SUFFICES ASSUME Init PROVE LoadInv
  OBVIOUS
<1>1. at = [f |-> "out", step |-> "idle"] /\ have = {} /\ failed = {} /\ opens = 0
      /\ minor = 1
  BY Zenon DEF Init, Here
<1>2. Progress
  BY <1>1 DEF Progress, LoadTypeOK, Positions, MemProgress, CpuProgress, VersionProgress,
     MinorOK, Failures, ExitFunctions, ExitOf, At, Only, SetUp
<1>3. Orderly
  BY Zenon DEF Init, Orderly
<1> QED BY <1>2, <1>3 DEF LoadInv

\* insmod starts with nothing registered.
LEMMA InsmodKeeps == ASSUME LoadInv, Insmod PROVE LoadInv'
<1>1. Progress'
  BY DEF Insmod, LoadInv, Progress, LoadTypeOK, Positions, Interfaces, MemProgress,
     CpuProgress, VersionProgress, MinorOK, Failures, ExitFunctions, ExitOf, DeviceFunctions, Here,
     Go, At, Only, SetUp
<1>2. Orderly'
  BY Zenon DEF LoadInv, Insmod, Orderly
<1> QED BY Zenon, <1>1, <1>2 DEF LoadInv

\* What a successful kernel call of generic_memdevice_init changes.
LEMMA MemRegisters ==
  ASSUME Progress, NEW d \in {"mem", "bootmem"},
         NEW k \in {"region", "class", "node"}, At(d, k),
         NEW n \in {"class", "node", "cdev"},
         <<k, n>> \in {<<"region", "class">>, <<"class", "node">>, <<"node", "cdev">>},
         Registers(<<d, k, 0>>, d, n)
  PROVE  Progress'
<1> USE DEF Progress
<1>1. /\ at.f = d /\ at.step = k /\ at'.f = d /\ at'.step = n
      /\ have' = have \cup {<<d, k, 0>>} /\ failed' = failed /\ opens' = opens /\ minor' = minor
  BY DEF Registers, Go, At
<1>2. LoadTypeOK'
  BY Zenon, <1>1, PartsListed DEF LoadTypeOK, Positions, DeviceFunctions, Registers, Go
<1>3. MemProgress("mem")'
  BY <1>1 DEF MemProgress, ExitOf, SetUp, At, Only, Has, Essential
<1>4. MemProgress("bootmem")'
  BY <1>1 DEF MemProgress, ExitOf, Failures, SetUp, At, Only, Has, Essential
<1>5. CpuProgress'
  BY <1>1 DEF CpuProgress, SetUp, At, Only, Has, Essential
<1>6. VersionProgress'
  BY <1>1 DEF VersionProgress, SetUp, At, Only, Has
<1>7. MinorOK'
  BY <1>1 DEF MinorOK, At
<1>8. Failures'
  BY <1>1 DEF Failures, ExitFunctions
<1> QED BY <1>2, <1>3, <1>4, <1>5, <1>6, <1>7, <1>8

\* What the end of generic_memdevice_init changes, successful ...
LEMMA MemCompletes ==
  ASSUME Progress, NEW d \in {"mem", "bootmem"}, At(d, "cdev"),
         Registers(<<d, "cdev", 0>>, After(d), "region")
  PROVE  Progress'
<1> USE DEF Progress
<1>1. /\ at.f = d /\ at.step = "cdev" /\ at'.f = After(d) /\ at'.step = "region"
      /\ After(d) = IF d = "mem" THEN "bootmem" ELSE "cpu"
      /\ have' = have \cup {<<d, "cdev", 0>>} /\ failed' = failed /\ opens' = opens /\ minor' = minor
  BY DEF Registers, Go, At, After
<1>2. LoadTypeOK'
  BY Zenon, <1>1, PartsListed DEF LoadTypeOK, Positions, DeviceFunctions, Registers, Go
<1>3. MemProgress("mem")'
  BY <1>1 DEF MemProgress, ExitOf, SetUp, At, Only, Has, Essential
<1>4. MemProgress("bootmem")'
  BY <1>1 DEF MemProgress, ExitOf, Failures, SetUp, At, Only, Has, Essential
<1>5. CpuProgress'
  BY <1>1 DEF CpuProgress, SetUp, At, Only, Has, Essential
<1>6. VersionProgress'
  BY <1>1 DEF VersionProgress, SetUp, At, Only, Has
<1>7. MinorOK'
  BY <1>1 DEF MinorOK, At
<1>8. Failures'
  BY <1>1 DEF Failures, ExitFunctions
<1> QED BY <1>2, <1>3, <1>4, <1>5, <1>6, <1>7, <1>8

\* ... or not.  It has undone what it did.
LEMMA MemFails ==
  ASSUME Progress, NEW d \in {"mem", "bootmem"}, at.f = d,
         NEW undo, Fails(d, undo, After(d), "region"),
         \A q \in have : q[1] = d => q \in undo,
         \A q \in undo : q[1] = d
  PROVE  Progress'
<1> USE DEF Progress
<1>1. /\ at.f = d /\ at'.f = After(d) /\ at'.step = "region"
      /\ After(d) = IF d = "mem" THEN "bootmem" ELSE "cpu"
      /\ \A q \in have' : q \in have /\ q[1] # d
      /\ \A q \in have : q[1] # d => q \in have'
      /\ failed' = failed \cup {d} /\ opens' = opens /\ minor' = minor
  BY DEF Fails, Go, After
<1>2. LoadTypeOK'
  BY Zenon, <1>1 DEF LoadTypeOK, Positions, DeviceFunctions, Fails, Go, Interfaces
<1>3. MemProgress("mem")'
  BY Zenon, <1>1 DEF MemProgress, ExitOf, SetUp, At, Only, Has, Essential
<1>4. MemProgress("bootmem")'
  BY Zenon, <1>1 DEF MemProgress, ExitOf, Failures, SetUp, At, Only, Has, Essential
<1>5. CpuProgress'
  BY Zenon, <1>1 DEF CpuProgress, SetUp, At, Only, Has, Essential
<1>6. VersionProgress'
  BY <1>1 DEF VersionProgress, SetUp, At, Only, Has
<1>7. MinorOK'
  BY <1>1 DEF MinorOK, At
<1>8. Failures'
  BY <1>1 DEF Failures, ExitFunctions
<1> QED BY <1>2, <1>3, <1>4, <1>5, <1>6, <1>7, <1>8

\* device_create failed without being noticed.
LEMMA MemSkips ==
  ASSUME Progress, NEW d \in {"mem", "bootmem"}, At(d, "node"), Go(d, "cdev"),
         UNCHANGED <<minor, have, failed, opens>>
  PROVE  Progress'
<1> USE DEF Progress
<1>1. /\ at.f = d /\ at.step = "node" /\ at'.f = d /\ at'.step = "cdev"
      /\ have' = have /\ failed' = failed /\ opens' = opens /\ minor' = minor
  BY DEF Go, At
<1>2. LoadTypeOK'
  BY Zenon, <1>1 DEF LoadTypeOK, Positions, DeviceFunctions, Go
<1>3. MemProgress("mem")'
  BY Zenon, <1>1 DEF MemProgress, ExitOf, SetUp, At, Only, Has, Essential
<1>4. MemProgress("bootmem")'
  BY Zenon, <1>1 DEF MemProgress, ExitOf, Failures, SetUp, At, Only, Has, Essential
<1>5. CpuProgress'
  BY Zenon, <1>1 DEF CpuProgress, SetUp, At, Only, Has, Essential
<1>6. VersionProgress'
  BY <1>1 DEF VersionProgress, SetUp, At, Only, Has
<1>7. MinorOK'
  BY <1>1 DEF MinorOK, At
<1>8. Failures'
  BY <1>1 DEF Failures, ExitFunctions
<1> QED BY <1>2, <1>3, <1>4, <1>5, <1>6, <1>7, <1>8

\* A kernel call of cpudevice_init is successful.
LEMMA CpuRegisters ==
  ASSUME Progress, NEW k, NEW n, At("cpu", k),
         <<k, n>> \in {<<"region", "cdev">>, <<"cdev", "class">>, <<"class", "node">>},
         k = "region" => minor_num > 0,
         Registers(<<"cpu", k, 0>>, "cpu", n)
  PROVE  Progress'
<1> USE DEF Progress
<1>1. /\ at.f = "cpu" /\ at.step = k /\ at'.f = "cpu" /\ at'.step = n
      /\ k \in {"region", "cdev", "class"} /\ n \in {"cdev", "class", "node"}
      /\ have' = have \cup {<<"cpu", k, 0>>} /\ failed' = failed /\ opens' = opens /\ minor' = minor
  BY Zenon DEF Registers, Go, At
<1>2. LoadTypeOK'
  BY Zenon, <1>1, PartsListed DEF LoadTypeOK, Positions, DeviceFunctions, Registers, Go
<1>3. MemProgress("mem")'
  BY <1>1 DEF MemProgress, ExitOf, SetUp, At, Only, Has, Essential
<1>4. MemProgress("bootmem")'
  BY <1>1 DEF MemProgress, ExitOf, Failures, SetUp, At, Only, Has, Essential
<1>5. CpuProgress'
  BY <1>1 DEF CpuProgress, SetUp, At, Only, Has, Essential
<1>6. VersionProgress'
  BY <1>1 DEF VersionProgress, SetUp, At, Only, Has
<1>7. MinorOK'
  BY <1>1, LoaderAssumption DEF MinorOK, At, minor_num
<1>8. Failures'
  BY <1>1 DEF Failures, ExitFunctions
<1> QED BY <1>2, <1>3, <1>4, <1>5, <1>6, <1>7, <1>8

\* The loop over device_create goes on, with or without the node, or ends.
LEMMA NodesKeep ==
  ASSUME Progress, CpuNode
  PROVE  Progress'
<1> USE DEF Progress
<1>0. /\ At("cpu", "node") /\ minor \in Minors /\ minor_num \in Nat
      /\ have' = have \/ have' = have \cup {<<"cpu", "node", minor>>}
      /\ failed' = failed /\ opens' = opens
  BY LoaderAssumption DEF CpuNode, Here, At, MinorOK, Minors, minor_num
<1>1. /\ at.f = "cpu" /\ at.step = "node" /\ failed' = failed /\ opens' = opens
      /\ \A q \in have : q \in have'
      /\ \A q \in have' : q[1] # "cpu" => q \in have
  BY <1>0 DEF At
<1>2. \/ at' = at /\ minor' = minor + 1 /\ minor < minor_num
      \/ at' = [f |-> "version", step |-> "kobj"] /\ minor' = 1
  BY DEF CpuNode, NextMinor, Go
<1>10. (at'.f = "cpu" /\ at'.step = "node") \/ (at'.f = "version" /\ at'.step = "kobj")
  BY <1>1, <1>2
<1>3. LoadTypeOK'
  <2>1. \A q \in have' : q \in AllParts
    BY <1>0, PartsListed DEF LoadTypeOK
  <2>2. [f |-> "version", step |-> "kobj"] \in Positions
    BY Zenon DEF Positions
  <2> QED BY <1>1, <1>2, <2>1, <2>2 DEF LoadTypeOK
<1>4. MemProgress("mem")'
  BY Zenon, <1>1, <1>10 DEF MemProgress, ExitOf, SetUp, At, Only, Has, Essential
<1>5. MemProgress("bootmem")'
  BY Zenon, <1>1, <1>10 DEF MemProgress, ExitOf, Failures, SetUp, At, Only, Has, Essential
<1>6. CpuProgress'
  BY <1>1, <1>2 DEF CpuProgress, SetUp, At, Has, Essential
<1>7. VersionProgress'
  BY <1>1, <1>2 DEF VersionProgress, SetUp, At, Only, Has
<1>8. MinorOK'
  BY <1>0, <1>1, <1>2 DEF MinorOK, At, Minors
<1>9. Failures'
  BY <1>1, <1>2 DEF Failures, ExitFunctions
<1> QED BY <1>3, <1>4, <1>5, <1>6, <1>7, <1>8, <1>9

\* A kernel call of version_interface_init is successful.
LEMMA VersionRegisters ==
  ASSUME Progress, NEW k, NEW f, NEW n, At("version", k),
         <<k, f, n>> \in {<<"kobj", "version", "group">>, <<"group", "live", "idle">>},
         Registers(<<"version", k, 0>>, f, n)
  PROVE  Progress'
<1> USE DEF Progress
<1>1. /\ at.f = "version" /\ at.step = k /\ at'.f = f /\ at'.step = n
      /\ \/ k = "kobj" /\ f = "version" /\ n = "group"
         \/ k = "group" /\ f = "live" /\ n = "idle"
      /\ have' = have \cup {<<"version", k, 0>>} /\ failed' = failed /\ opens' = opens /\ minor' = minor
  BY Zenon DEF Registers, Go, At
<1>2. LoadTypeOK'
  BY Zenon, <1>1, PartsListed DEF LoadTypeOK, Positions, DeviceFunctions, Registers, Go
<1>3. MemProgress("mem")'
  BY <1>1 DEF MemProgress, ExitOf, SetUp, At, Only, Has, Essential
<1>4. MemProgress("bootmem")'
  BY <1>1 DEF MemProgress, ExitOf, SetUp, At, Only, Has, Essential
<1>5. CpuProgress'
  BY Zenon, <1>1 DEF CpuProgress, SetUp, At, Only, Has, Essential
<1>6. VersionProgress'
  BY <1>1 DEF VersionProgress, SetUp, At, Only, Has
<1>7. MinorOK'
  BY Zenon, <1>1 DEF MinorOK, At
<1>8. Failures'
  BY <1>1 DEF Failures, ExitFunctions
<1> QED BY Zenon, <1>2, <1>3, <1>4, <1>5, <1>6, <1>7, <1>8

\* If one of these calls is not, the module is discarded.
LEMMA DiscardKeeps ==
  ASSUME Progress, NEW d \in {"cpu", "version"}, NEW undo, LoadFails(d, undo),
         ~At("cpu", "node"), ~At("cpu_exit", "node")
  PROVE  Progress'
<1> USE DEF Progress
<1>1. /\ at'.f = "out" /\ have' = {} /\ failed' = failed \cup {d} /\ opens' = opens
      /\ minor' = minor /\ minor = 1
  BY Zenon DEF LoadFails, Go, MinorOK
<1>2. LoadTypeOK'
  BY Zenon, <1>1 DEF LoadTypeOK, Positions, DeviceFunctions, LoadFails, Go, Interfaces
<1>3. MemProgress("mem")'
  BY Zenon, <1>1 DEF MemProgress, ExitOf, SetUp, At, Only, Has, Essential
<1>4. MemProgress("bootmem")'
  BY Zenon, <1>1 DEF MemProgress, ExitOf, Failures, SetUp, At, Only, Has, Essential
<1>5. CpuProgress'
  BY Zenon, <1>1 DEF CpuProgress, SetUp, At, Only, Has, Essential
<1>6. VersionProgress'
  BY <1>1 DEF VersionProgress, SetUp, At, Only, Has
<1>7. MinorOK'
  BY <1>1 DEF MinorOK, At
<1>8. Failures'
  BY <1>1 DEF Failures, ExitFunctions
<1> QED BY Zenon, <1>2, <1>3, <1>4, <1>5, <1>6, <1>7, <1>8

\* A process opens or closes a CPU device.
LEMMA FilesKeep ==
  ASSUME Progress, OpenCpu \/ CloseCpu
  PROVE  Progress'
<1> USE DEF Progress
<1>0. opens \in Nat
  BY DEF LoadTypeOK
<1>1. /\ at' = at /\ have' = have /\ failed' = failed /\ minor' = minor /\ opens' \in Nat
      /\ \/ opens' < opens
         \/ at.f \notin ExitFunctions /\ Has("cpu", "cdev")
  BY <1>0 DEF OpenCpu, CloseCpu, Has
<1>2. LoadTypeOK'
  BY Zenon, <1>1 DEF LoadTypeOK
<1>3. /\ MemProgress("mem")' /\ MemProgress("bootmem")' /\ CpuProgress' /\ VersionProgress'
      /\ MinorOK'
  <2>1. ASSUME NEW d, MemProgress(d) PROVE MemProgress(d)'
    BY <1>1, <2>1 DEF MemProgress, SetUp, At, Only, Has, Essential
  <2>2. CpuProgress'
    BY <1>1 DEF CpuProgress, SetUp, At, Only, Has, Essential
  <2>3. VersionProgress' /\ MinorOK'
    BY <1>1 DEF VersionProgress, MinorOK, SetUp, At, Only, Has
  <2> QED BY <2>1, <2>2, <2>3
<1>4. at.f = "out" => ~Has("cpu", "cdev")
  BY DEF CpuProgress, SetUp, Only, Has
<1>5. Failures'
  BY <1>0, <1>1, <1>4 DEF Failures
<1> QED BY <1>2, <1>3, <1>5

\* rmmod finds all files closed.
LEMMA RmmodKeeps ==
  ASSUME Progress, Rmmod
  PROVE  Progress'
<1> USE DEF Progress
<1>1. /\ at.f = "live" /\ at'.f = "version_exit" /\ at'.step = "kobj"
      /\ have' = have /\ failed' = failed /\ opens' = opens /\ opens = 0 /\ minor' = minor
  BY DEF Rmmod, Here, Go, InUse, LoadTypeOK
<1>2. LoadTypeOK'
  BY Zenon, <1>1 DEF LoadTypeOK, Positions, Rmmod, Go, Interfaces
<1>3. MemProgress("mem")' /\ MemProgress("bootmem")'
  BY Zenon, <1>1 DEF MemProgress, ExitOf, SetUp, At, Only, Has, Essential
<1>4. CpuProgress' /\ VersionProgress'
  BY Zenon, <1>1 DEF CpuProgress, VersionProgress, SetUp, At, Only, Has, Essential
<1>5. MinorOK' /\ Failures'
  BY <1>1 DEF MinorOK, Failures, At
<1> QED BY <1>2, <1>3, <1>4, <1>5

-----------------------------------------------------------------------------
(* The exit functions *)

\* version_interface_exit removes the version file.
LEMMA VersionExitKeeps ==
  ASSUME LoadInv, VersionExit
  PROVE  LoadInv'
<1> USE DEF LoadInv, Progress
<1>1. /\ at.f = "version_exit" /\ at.step = "kobj" /\ at'.f = "cpu_exit" /\ at'.step = "node"
      /\ have' = have \ VersionParts /\ failed' = failed /\ opens' = opens /\ minor' = minor
      /\ wrong' = (wrong \/ ~({q \in VersionParts : q[2] # "node"} \subseteq have))
  BY DEF VersionExit, GivesBack, Here, Go
<1>2. /\ \A q \in have' : q \in have /\ q[1] # "version"
      /\ \A q \in have : q[1] # "version" => q \in have'
  BY Zenon, <1>1, PartsApart DEF LoadTypeOK, Interfaces
<1>3. LoadTypeOK'
  <2>1. at' \in Positions
    BY Zenon DEF VersionExit, Go, Positions, DeviceFunctions
  <2> QED BY <1>1, <2>1 DEF LoadTypeOK
<1>4. MemProgress("mem")' /\ MemProgress("bootmem")'
  BY Zenon, <1>1, <1>2 DEF MemProgress, ExitOf, SetUp, At, Only, Has, Essential
<1>5. CpuProgress'
  <2>1. \A q \in have' : q[1] = "cpu" /\ q[2] = "node" => q[3] >= minor'
    BY <1>1, <1>2, PartShape, LoaderAssumption DEF LoadTypeOK, MinorOK, At, Minors, minor_num
  <2>2. Essential("cpu")'
    BY Zenon, <1>1, <1>2 DEF CpuProgress, SetUp, Has, Essential
  <2> QED BY Zenon, <1>1, <2>1, <2>2 DEF CpuProgress, SetUp, At
<1>6. VersionProgress'
  BY Zenon, <1>1, <1>2 DEF VersionProgress, SetUp, At, Only, Has
<1>7. MinorOK' /\ Failures'
  BY <1>1 DEF MinorOK, Failures, At, ExitFunctions
<1>8. Orderly'
  <2>1. {q \in VersionParts : q[2] # "node"} \subseteq have
    BY <1>1 DEF VersionParts, VersionProgress, SetUp, Has
  <2> QED BY <1>1, <2>1, Zenon DEF Orderly
<1> QED BY <1>3, <1>4, <1>5, <1>6, <1>7, <1>8

\* The loop over device_destroy in cpudevice_exit: no node is left behind it.
LEMMA CpuNodeExitKeeps ==
  ASSUME LoadInv, CpuNodeExit
  PROVE  LoadInv'
<1> USE DEF LoadInv, Progress
<1>1. /\ at.f = "cpu_exit" /\ at.step = "node" /\ At("cpu_exit", "node")
      /\ have' = have \ {<<"cpu", "node", minor>>} /\ failed' = failed /\ opens' = opens
      /\ wrong' = (wrong \/ ~({q \in {<<"cpu", "node", minor>>} : q[2] # "node"} \subseteq have))
  BY DEF CpuNodeExit, GivesBack, Here, At
<1>2. \/ at' = at /\ minor' = minor + 1 /\ minor < minor_num
      \/ at' = [f |-> "cpu_exit", step |-> "class"] /\ minor' = 1 /\ ~(minor < minor_num)
  BY DEF CpuNodeExit, NextMinor, Go, CpuExitOrder
<1>3. /\ \A q \in have' : q \in have
      /\ \A q \in have : q[1] # "cpu" \/ q[2] # "node" => q \in have'
      /\ Essential("cpu")'
  BY <1>1 DEF CpuProgress, Essential, Has
<1>4. LoadTypeOK'
  <2>1. [f |-> "cpu_exit", step |-> "class"] \in Positions
    BY Zenon DEF Positions, DeviceFunctions
  <2> QED BY <1>1, <1>2, <2>1 DEF LoadTypeOK
<1>10. at'.f = "cpu_exit" /\ at'.step \in {"node", "class"}
  BY <1>1, <1>2
<1>5. MemProgress("mem")' /\ MemProgress("bootmem")'
  BY Zenon, <1>1, <1>10, <1>3 DEF MemProgress, ExitOf, SetUp, At, Only, Has, Essential
<1>6. CpuProgress'
  <2>1. \A q \in have' : q[1] = "cpu" /\ q[2] = "node" =>
          q[3] \in Minors /\ q[3] >= minor + 1
    <3> SUFFICES ASSUME NEW q \in have', q[1] = "cpu", q[2] = "node"
                 PROVE  q[3] \in Minors /\ q[3] >= minor + 1
      OBVIOUS
    <3>1. q \in have /\ q \in AllParts /\ q # <<"cpu", "node", minor>>
      BY <1>1 DEF LoadTypeOK
    <3>2. q = <<"cpu", "node", q[3]>> /\ q[3] \in Minors
      BY <3>1, PartShape
    <3>3. q[3] >= minor /\ q[3] # minor
      BY <1>1, <3>1, <3>2 DEF CpuProgress
    <3> QED BY <3>2, <3>3, LoaderAssumption DEF Minors, minor_num, MinorOK
  <2>2. CASE at' = at /\ minor' = minor + 1
    BY <1>1, <1>3, <2>1, <2>2 DEF CpuProgress, SetUp, At
  <2>3. CASE at' = [f |-> "cpu_exit", step |-> "class"] /\ ~(minor < minor_num)
    <3>1. \A q \in have' : q[1] = "cpu" => q[2] # "node"
      BY <2>1, <2>3, LoaderAssumption DEF Minors, minor_num, MinorOK
    <3>2. Only("cpu", {"region", "class", "cdev"})'
      BY <1>1, <3>1, PartShape DEF Only, LoadTypeOK
    <3> QED BY Zenon, <1>3, <2>3, <3>2 DEF CpuProgress, SetUp, At
  <2> QED BY <1>2, <2>2, <2>3
<1>7. VersionProgress'
  BY Zenon, <1>1, <1>10, <1>3 DEF VersionProgress, SetUp, At, Only, Has
<1>8. MinorOK' /\ Failures'
  BY <1>1, <1>2 DEF MinorOK, Failures, At, ExitFunctions
<1>9. Orderly'
  <2>1. {q \in {<<"cpu", "node", minor>>} : q[2] # "node"} \subseteq have
    BY SMT
  <2> QED BY <1>1, <2>1, Zenon DEF Orderly
<1> QED BY <1>4, <1>5, <1>6, <1>7, <1>8, <1>9

\* The other kernel calls of cpudevice_exit.
LEMMA CpuExitKeeps ==
  ASSUME LoadInv, CpuExit
  PROVE  LoadInv'
<1> USE DEF LoadInv, Progress
<1>1. PICK i \in 1..3 :
        /\ Here("cpu_exit", CpuExitOrder[i])
        /\ GivesBack({<<"cpu", CpuExitOrder[i], 0>>})
        /\ IF i < 3 THEN Go("cpu_exit", CpuExitOrder[i + 1]) ELSE Go("mem_exit", "cdev")
        /\ minor' = minor
  <2>1. DOMAIN CpuExitOrder = 1..3 /\ Len(CpuExitOrder) = 3 /\ Head(MemExitOrder) = "cdev"
    BY DEF CpuExitOrder, MemExitOrder
  <2> QED BY <2>1 DEF CpuExit
<1>2. PICK k, f, n :
        /\ \/ k = "class" /\ f = "cpu_exit" /\ n = "cdev"
           \/ k = "cdev" /\ f = "cpu_exit" /\ n = "region"
           \/ k = "region" /\ f = "mem_exit" /\ n = "cdev"
        /\ at = [f |-> "cpu_exit", step |-> k] /\ at' = [f |-> f, step |-> n]
        /\ have' = have \ {<<"cpu", k, 0>>} /\ failed' = failed /\ opens' = opens
        /\ wrong' = (wrong \/ ~({q \in {<<"cpu", k, 0>>} : q[2] # "node"} \subseteq have))
  <2>1. CASE i = 1
    BY <1>1, <2>1 DEF CpuExitOrder, GivesBack, Here, Go
  <2>2. CASE i = 2
    BY <1>1, <2>2 DEF CpuExitOrder, GivesBack, Here, Go
  <2>3. CASE i = 3
    BY <1>1, <2>3 DEF CpuExitOrder, GivesBack, Here, Go
  <2> QED BY <2>1, <2>2, <2>3
<1>3. /\ \A q \in have' : q \in have /\ ~(q[1] = "cpu" /\ q[2] = k)
      /\ \A q \in have : q[1] # "cpu" \/ q[2] # k => q \in have'
      /\ Has("cpu", k)
  BY <1>2, PartShape DEF LoadTypeOK, CpuProgress, At, Essential
<1>4. LoadTypeOK'
  <2>1. at' \in Positions
    BY Zenon, <1>2 DEF Positions, DeviceFunctions
  <2> QED BY <1>2, <2>1 DEF LoadTypeOK
<1>5. MemProgress("mem")' /\ MemProgress("bootmem")'
  BY Zenon, <1>2, <1>3 DEF MemProgress, ExitOf, SetUp, At, Only, Has, Essential
<1>6. CpuProgress'
  BY <1>2, <1>3 DEF CpuProgress, SetUp, At, Only, Has, Essential
<1>7. VersionProgress'
  BY Zenon, <1>2, <1>3 DEF VersionProgress, SetUp, At, Only, Has
<1>8. MinorOK' /\ Failures'
  BY <1>1, <1>2 DEF MinorOK, Failures, At, ExitFunctions
<1>9. Orderly'
  BY <1>2, <1>3, Zenon DEF Orderly, Has
<1> QED BY <1>4, <1>5, <1>6, <1>7, <1>8, <1>9

\* The kernel calls of memdevice_exit, which runs for both memory devices also
\* when the init function of one of them has failed.
LEMMA MemExitKeeps ==
  ASSUME LoadInv, NEW d \in {"mem", "bootmem"}, MemExit(d)
  PROVE  LoadInv'
<1> USE DEF LoadInv, Progress
<1>1. PICK i \in 1..4 :
        /\ Here(ExitOf(d), MemExitOrder[i])
        /\ GivesBack({<<d, MemExitOrder[i], 0>>})
        /\ IF i < 4 THEN Go(ExitOf(d), MemExitOrder[i + 1])
           ELSE IF d = "mem" THEN Go("bootmem_exit", "cdev") ELSE Go("out", "idle")
        /\ minor' = minor
  <2>1. DOMAIN MemExitOrder = 1..4 /\ Len(MemExitOrder) = 4 /\ Head(MemExitOrder) = "cdev"
    BY DEF MemExitOrder
  <2> QED BY <2>1 DEF MemExit
<1>2. PICK k, f, n :
        /\ \/ k = "cdev" /\ f = ExitOf(d) /\ n = "node"
           \/ k = "node" /\ f = ExitOf(d) /\ n = "class"
           \/ k = "class" /\ f = ExitOf(d) /\ n = "region"
           \/ k = "region" /\ d = "mem" /\ f = "bootmem_exit" /\ n = "cdev"
           \/ k = "region" /\ d = "bootmem" /\ f = "out" /\ n = "idle"
        /\ at = [f |-> ExitOf(d), step |-> k] /\ at' = [f |-> f, step |-> n]
        /\ have' = have \ {<<d, k, 0>>} /\ failed' = failed /\ opens' = opens
        /\ wrong' = (wrong \/ ~({q \in {<<d, k, 0>>} : q[2] # "node"} \subseteq have))
  <2>1. CASE i = 1
    BY <1>1, <2>1 DEF MemExitOrder, GivesBack, Here, Go
  <2>2. CASE i = 2
    BY <1>1, <2>2 DEF MemExitOrder, GivesBack, Here, Go
  <2>3. CASE i = 3
    BY <1>1, <2>3 DEF MemExitOrder, GivesBack, Here, Go
  <2>4. CASE i = 4
    BY <1>1, <2>4 DEF MemExitOrder, GivesBack, Here, Go
  <2> QED BY <2>1, <2>2, <2>3, <2>4
<1>3. /\ \A q \in have' : q \in have /\ ~(q[1] = d /\ q[2] = k)
      /\ \A q \in have : q[1] # d \/ q[2] # k => q \in have'
      /\ \A q \in have : q[1] = d => q[2] \in {"region", "class", "node", "cdev"}
  BY <1>2, PartShape DEF LoadTypeOK
<1>4. ExitOf(d) = IF d = "mem" THEN "mem_exit" ELSE "bootmem_exit"
  BY DEF ExitOf
<1>5. LoadTypeOK'
  <2>1. at' \in Positions
    BY Zenon, <1>2, <1>4 DEF Positions, DeviceFunctions
  <2> QED BY <1>2, <2>1 DEF LoadTypeOK
<1>6. MemProgress("mem")'
  <2>1. CASE d = "mem"
    BY <1>2, <1>3, <2>1 DEF MemProgress, ExitOf, SetUp, At, Only, Has, Essential
  <2>2. CASE d = "bootmem"
    BY <1>2, <1>3, <2>2 DEF MemProgress, ExitOf, SetUp, At, Only, Has, Essential
  <2> QED BY <2>1, <2>2
<1>7. MemProgress("bootmem")'
  <2>1. CASE d = "mem"
    BY <1>2, <1>3, <2>1 DEF MemProgress, ExitOf, SetUp, At, Only, Has, Essential
  <2>2. CASE d = "bootmem"
    BY <1>2, <1>3, <2>2 DEF MemProgress, ExitOf, SetUp, At, Only, Has, Essential
  <2> QED BY <2>1, <2>2
<1>8. CpuProgress' /\ VersionProgress'
  BY <1>2, <1>3, <1>4 DEF CpuProgress, VersionProgress, SetUp, At, Only, Has, Essential
<1>9. MinorOK' /\ Failures'
  BY <1>1, <1>2, <1>4 DEF MinorOK, Failures, At, ExitFunctions
<1>10. Orderly'
  <2>1. failed = {} /\ k # "node" => Has(d, k)
    BY <1>2 DEF MemProgress, At, Essential
  <2>2. failed = {} => {q \in {<<d, k, 0>>} : q[2] # "node"} \subseteq have
    BY <2>1 DEF Has
  <2> QED BY <1>2, <2>2, Zenon DEF Orderly
<1> QED BY <1>5, <1>6, <1>7, <1>8, <1>9, <1>10

\* The parts that generic_memdevice_init undoes are all it has registered.
LEMMA MemUndone ==
  ASSUME Progress, NEW d \in {"mem", "bootmem"}, NEW q \in have, q[1] = d
  PROVE  /\ q \in MemParts(d)
         /\ ~At(d, "region")
         /\ At(d, "class") => q = <<d, "region", 0>>
<1>1. q \in MemParts(d)
  BY PartsApart DEF Progress, LoadTypeOK
<1>2. ~At(d, "region") /\ (At(d, "class") => q[2] = "region")
  BY DEF Progress, MemProgress, Only
<1> QED BY <1>1, <1>2 DEF MemParts

\* The steps of init of the memory devices ...
LEMMA MemInitKeeps ==
  ASSUME Progress, NEW d \in {"mem", "bootmem"},
         AllocRegion(d) \/ CreateClass(d) \/ CreateNode(d) \/ AddCdev(d)
  PROVE  Progress'
<1>1. CASE AllocRegion(d)
  <2>1. At(d, "region")
    BY <1>1 DEF AllocRegion, Here, At
  <2>2. CASE Registers(<<d, "region", 0>>, d, "class")
    BY Zenon, <2>1, <2>2, MemRegisters
  <2>3. CASE Fails(d, {}, After(d), "region")
    BY <2>1, <2>3, MemUndone, MemFails DEF At
  <2> QED BY Zenon, <1>1, <2>2, <2>3 DEF AllocRegion
<1>2. CASE CreateClass(d)
  <2>1. At(d, "class")
    BY <1>2 DEF CreateClass, Here, At
  <2>2. CASE Registers(<<d, "class", 0>>, d, "node")
    BY Zenon, <2>1, <2>2, MemRegisters
  <2>3. CASE Fails(d, {<<d, "region", 0>>}, After(d), "region")
    BY <2>1, <2>3, MemUndone, MemFails DEF At
  <2> QED BY Zenon, <1>2, <2>2, <2>3 DEF CreateClass
<1>3. CASE CreateNode(d)
  <2>1. At(d, "node")
    BY Zenon, <1>3 DEF CreateNode, Here, At
  <2> QED BY Zenon, <1>3, <2>1, MemRegisters, MemSkips DEF CreateNode
<1>4. CASE AddCdev(d)
  <2>1. At(d, "cdev")
    BY <1>4 DEF AddCdev, Here, At
  <2>2. CASE Registers(<<d, "cdev", 0>>, After(d), "region")
    BY Zenon, <2>1, <2>2, MemCompletes
  <2>3. CASE Fails(d, MemParts(d), After(d), "region")
    <3>1. \A q \in MemParts(d) : q[1] = d
      BY DEF MemParts
    <3> QED BY <2>1, <2>3, <3>1, MemUndone, MemFails DEF At
  <2> QED BY Zenon, <1>4, <2>2, <2>3 DEF AddCdev
<1> QED BY Zenon, <1>1, <1>2, <1>3, <1>4

\* ... and of the CPU devices and the version file.
LEMMA InitKeeps ==
  ASSUME Progress,
         CpuRegion \/ CpuCdev \/ CpuClass \/ CpuNode \/ VersionKobj \/ VersionGroup
  PROVE  Progress'
<1>1. CASE CpuRegion
  <2>1. At("cpu", "region") /\ ~At("cpu", "node") /\ ~At("cpu_exit", "node")
    BY <1>1 DEF CpuRegion, Here, At
  <2> QED BY Zenon, <1>1, <2>1, CpuRegisters, DiscardKeeps DEF CpuRegion
<1>2. CASE CpuCdev
  <2>1. At("cpu", "cdev") /\ ~At("cpu", "node") /\ ~At("cpu_exit", "node") /\ "cdev" # "region"
    BY <1>2 DEF CpuCdev, Here, At
  <2> QED BY Zenon, <1>2, <2>1, CpuRegisters, DiscardKeeps DEF CpuCdev
<1>3. CASE CpuClass
  <2>1. At("cpu", "class") /\ ~At("cpu", "node") /\ ~At("cpu_exit", "node") /\ "class" # "region"
    BY <1>3 DEF CpuClass, Here, At
  <2> QED BY Zenon, <1>3, <2>1, CpuRegisters, DiscardKeeps DEF CpuClass
<1>4. CASE VersionKobj
  <2>1. At("version", "kobj") /\ ~At("cpu", "node") /\ ~At("cpu_exit", "node")
    BY <1>4 DEF VersionKobj, Here, At
  <2> QED BY Zenon, <1>4, <2>1, VersionRegisters, DiscardKeeps DEF VersionKobj
<1>5. CASE VersionGroup
  <2>1. At("version", "group") /\ ~At("cpu", "node") /\ ~At("cpu_exit", "node")
    BY <1>5 DEF VersionGroup, Here, At
  <2> QED BY Zenon, <1>5, <2>1, VersionRegisters, DiscardKeeps DEF VersionGroup
<1> QED BY Zenon, <1>1, <1>2, <1>3, <1>4, <1>5, NodesKeep

\* The invariant is inductive.
LEMMA LoadStep == LoadInv /\ [Next]_vars => LoadInv'
<1> SUFFICES ASSUME LoadInv, [Next]_vars PROVE LoadInv'
  OBVIOUS
<1>1. CASE \E d \in {"mem", "bootmem"} :
             AllocRegion(d) \/ CreateClass(d) \/ CreateNode(d) \/ AddCdev(d)
  <2>1. Progress'
    BY Zenon, <1>1, MemInitKeeps DEF LoadInv
  <2>2. wrong' = wrong /\ (failed' = {} => failed = {})
    BY <1>1 DEF AllocRegion, CreateClass, CreateNode, AddCdev, Registers, Fails
  <2>3. Orderly'
    BY <2>2, Zenon DEF LoadInv, Orderly
  <2> QED BY <2>1, <2>3 DEF LoadInv
<1>2. CASE CpuRegion \/ CpuCdev \/ CpuClass \/ CpuNode \/ VersionKobj \/ VersionGroup
  <2>1. Progress'
    BY Zenon, <1>2, InitKeeps DEF LoadInv
  <2>2. wrong' = wrong /\ (failed' = {} => failed = {})
    BY <1>2 DEF CpuRegion, CpuCdev, CpuClass, CpuNode, VersionKobj, VersionGroup, Registers,
       LoadFails
  <2>3. Orderly'
    BY <2>2, Zenon DEF LoadInv, Orderly
  <2> QED BY <2>1, <2>3 DEF LoadInv
<1>3. CASE OpenCpu \/ CloseCpu \/ Rmmod
  <2>1. Progress'
    BY <1>3, FilesKeep, RmmodKeeps DEF LoadInv
  <2>2. Orderly'
    <3>1. wrong' = wrong /\ failed' = failed
      BY <1>3 DEF OpenCpu, CloseCpu, Rmmod
    <3> QED BY <3>1, Zenon DEF LoadInv, Orderly
  <2> QED BY <2>1, <2>2 DEF LoadInv
<1>4. CASE VersionExit \/ CpuNodeExit \/ CpuExit \/ \E d \in {"mem", "bootmem"} : MemExit(d)
  BY Zenon, <1>4, VersionExitKeeps, CpuNodeExitKeeps, CpuExitKeeps, MemExitKeeps
<1>5. CASE UNCHANGED vars
  <2>1. Progress'
    <3>1. at' = at /\ have' = have /\ failed' = failed /\ opens' = opens /\ minor' = minor
      BY <1>5 DEF vars
    <3>2. LoadTypeOK' /\ MinorOK' /\ Failures'
      BY <3>1 DEF LoadInv, Progress, LoadTypeOK, MinorOK, At, Failures
    <3>3. MemProgress("mem")' /\ MemProgress("bootmem")'
      <4>1. ASSUME NEW d, MemProgress(d) PROVE MemProgress(d)'
        BY <3>1, <4>1 DEF MemProgress, SetUp, At, Only, Has, Essential
      <4> QED BY <4>1 DEF LoadInv, Progress
    <3>4. CpuProgress'
      BY Zenon, <3>1 DEF LoadInv, Progress, CpuProgress, SetUp, At, Only, Has, Essential
    <3>5. VersionProgress'
      BY Zenon, <3>1 DEF LoadInv, Progress, VersionProgress, SetUp, At, Only, Has
    <3> QED BY Zenon, <3>2, <3>3, <3>4, <3>5 DEF Progress
  <2>2. Orderly'
    BY <1>5, Zenon DEF vars, LoadInv, Orderly
  <2> QED BY <2>1, <2>2 DEF LoadInv
<1> QED BY <1>1, <1>2, <1>3, <1>4, <1>5, InsmodKeeps DEF Next

-----------------------------------------------------------------------------
(* What the invariant says about loading and unloading *)

\* As long as a CPU device is open, the module that will give its core back is
\* not unloaded by rmmod.
THEOREM Pinned == KernelSpec => []ModulePinned
<1>1. LoadInv => ModulePinned
  BY DEF LoadInv, Progress, LoadTypeOK, Failures, ExitFunctions, ModulePinned
<1> QED BY <1>1, LoadInit, LoadStep, KernelSteps, PTL DEF KernelSpec

\* When the version file can be read, the devices whose init function was
\* successful are registered.
THEOREM VersionReady == KernelSpec => []VersionMeansReady
<1>1. LoadInv => VersionMeansReady
  <2> SUFFICES ASSUME LoadInv, Has("version", "group"),
                      NEW d \in {"mem", "bootmem", "cpu"} \ failed
               PROVE  {d} \X {"region", "class", "cdev"} \X {0} \subseteq have
    BY DEF VersionMeansReady, Has
  <2>1. SetUp("version")
    <3>1. ~Only("version", {}) /\ ~Only("version", {"kobj"})
      BY DEF Has, Only
    <3> QED BY <3>1 DEF LoadInv, Progress, VersionProgress, LoadTypeOK, Positions, DeviceFunctions,
         At
  <2>2. SetUp(d)
    BY <2>1 DEF SetUp
  <2>3. Essential(d)
    BY <2>2 DEF LoadInv, Progress, MemProgress, CpuProgress
  <2> QED BY <2>3 DEF Essential, Has
<1> QED BY <1>1, LoadInit, LoadStep, KernelSteps, PTL DEF KernelSpec

\* Unloading a module whose init functions were all successful leaves nothing
\* registered and gives nothing back twice.
THEOREM UnloadsCleanly == KernelSpec => []CleanUnload
<1>1. LoadInv => CleanUnload
  <2> SUFFICES ASSUME LoadInv, Here("out", "idle"), failed = {}
               PROVE  have = {} /\ ~wrong
    BY DEF CleanUnload
  <2>1. \A q \in have : FALSE
    BY PartsApart DEF LoadInv, Progress, LoadTypeOK, MemProgress, CpuProgress, VersionProgress,
       SetUp, ExitOf, Only, Here, Interfaces
  <2>2. ~wrong
    BY Zenon DEF LoadInv, Orderly
  <2> QED BY <2>1, <2>2
<1> QED BY <1>1, LoadInit, LoadStep, KernelSteps, PTL DEF KernelSpec

-----------------------------------------------------------------------------
\* The parts that cpudevice_init and version_interface_init undo are all they
\* have registered.
LEMMA Undone ==
  ASSUME Progress, NEW d \in {"cpu", "version"}, NEW q \in have, q[1] = d
  PROVE  /\ q \in Parts(d)
         /\ ~At("cpu", "region") \/ d # "cpu"
         /\ At("cpu", "cdev") /\ d = "cpu" => q = <<"cpu", "region", 0>>
         /\ ~At("version", "kobj") \/ d # "version"
<1>1. q \in Parts(d)
  BY Zenon, PartsApart DEF Progress, LoadTypeOK
<1>2. /\ ~At("cpu", "region") \/ d # "cpu"
      /\ At("cpu", "cdev") /\ d = "cpu" => q[2] = "region"
      /\ ~At("version", "kobj") \/ d # "version"
  BY Zenon DEF Progress, CpuProgress, VersionProgress, Only
<1>3. d = "cpu" /\ q[2] = "region" => q = <<"cpu", "region", 0>>
  BY <1>1, PartsApart DEF CpuParts
<1> QED BY Zenon, <1>1, <1>2, <1>3

\* An init function that fails, at whichever of its kernel calls, has nothing
\* registered when it returns.
LEMMA UnwindStep ==
  ASSUME Progress, Next, NEW d \in failed' \ failed
  PROVE  (have' \cup (stale' \ stale)) \cap Parts(d) = {}
<1>1. ASSUME NEW e \in {"mem", "bootmem"},
             AllocRegion(e) \/ CreateClass(e) \/ CreateNode(e) \/ AddCdev(e)
      PROVE  d = e /\ stale' = stale /\ \A q \in have' : q[1] # e
  <2>1. d = e /\ stale' = stale
    BY Zenon, <1>1 DEF AllocRegion, CreateClass, CreateNode, AddCdev, Registers, Fails
  <2>2. CASE AllocRegion(e)
    BY Zenon, <2>1, <2>2, MemUndone DEF AllocRegion, Registers, Fails, Here, At
  <2>3. CASE CreateClass(e)
    BY Zenon, <2>1, <2>3, MemUndone DEF CreateClass, Registers, Fails, Here, At
  <2>4. CASE AddCdev(e)
    BY <2>1, <2>4, MemUndone DEF AddCdev, Registers, Fails, Here, At
  <2>5. ~CreateNode(e)
    BY DEF CreateNode, Registers
  <2> QED BY Zenon, <1>1, <2>1, <2>2, <2>3, <2>4, <2>5
<1>2. ASSUME CpuRegion \/ CpuCdev \/ CpuClass \/ CpuNode
      PROVE  d = "cpu" /\ have' = {} /\ \A q \in stale' \ stale : q[1] # "cpu"
  <2>1. CASE CpuRegion
    BY Zenon, <2>1, Undone DEF CpuRegion, Registers, LoadFails, Here, At
  <2>2. CASE CpuCdev
    BY Zenon, <2>2, Undone DEF CpuCdev, Registers, LoadFails, Here, At
  <2>3. CASE CpuClass
    BY <2>3, Undone, PartsApart DEF CpuClass, Registers, LoadFails, Here, At
  <2> QED BY Zenon, <1>2, <2>1, <2>2, <2>3 DEF CpuNode
<1>3. ASSUME VersionKobj \/ VersionGroup
      PROVE  d = "version" /\ have' = {} /\ \A q \in stale' \ stale : q[1] # "version"
  <2>1. CASE VersionKobj
    BY Zenon, <2>1, Undone DEF VersionKobj, Registers, LoadFails, Here, At
  <2>2. CASE VersionGroup
    BY Zenon, <2>2, Undone, PartsApart DEF VersionGroup, Registers, LoadFails, Here, At
  <2> QED BY Zenon, <1>3, <2>1, <2>2
<1>4. \/ \E e \in {"mem", "bootmem"} :
            AllocRegion(e) \/ CreateClass(e) \/ CreateNode(e) \/ AddCdev(e)
      \/ CpuRegion \/ CpuCdev \/ CpuClass \/ CpuNode \/ VersionKobj \/ VersionGroup
  BY Zenon DEF Next, Insmod, OpenCpu, CloseCpu, Rmmod, VersionExit, CpuNodeExit, CpuExit, MemExit,
     GivesBack
<1>5. d \in Interfaces /\ \A q \in have' \cup (stale' \ stale) : q[1] # d
  BY <1>1, <1>2, <1>3, <1>4 DEF Interfaces
<1> QED BY Zenon, <1>5, PartsApart

\* An init function that fails has undone all it did.
THEOREM UnwindsCompletely == KernelSpec => UnwindComplete
<1>1. LoadInv /\ [Next]_vars =>
        [\A d \in failed' \ failed : (have' \cup (stale' \ stale)) \cap Parts(d) = {}]_vars
  BY UnwindStep DEF LoadInv
<1> QED BY <1>1, LoadInit, LoadStep, KernelSteps, PTL DEF KernelSpec, UnwindComplete

-----------------------------------------------------------------------------
(* The process that uses a memory device *)

\* A device that can be opened is complete, and its init function has not
\* failed.
LEMMA RegisteredComplete ==
  ASSUME Progress, NEW d \in {"mem", "bootmem"}, Registered(d)
  PROVE  MemParts(d) \subseteq have /\ d \notin failed
<1>1. Has(d, "node") /\ Has(d, "cdev")
  BY DEF Registered, Has
<1>2. ~Only(d, {}) /\ ~Only(d, {"region"}) /\ ~Only(d, {"region", "class"})
      /\ ~Only(d, {"region", "class", "node"})
  BY Zenon, <1>1 DEF Has, Only
<1>3. d \notin failed /\ Essential(d)
  BY <1>2 DEF Progress, MemProgress, ExitOf, LoadTypeOK, Positions, DeviceFunctions, At
<1> QED BY <1>1, <1>3 DEF Essential, Has, MemParts

\* Only complete memory devices are opened, whatever init and exit of the
\* module are doing at the time.
THEOREM OpensComplete == KernelSpec => OpensCompleteDevice
<1> DEFINE A == file = "none" /\ file' # "none" =>
                  MemParts(file') \subseteq have /\ file' \notin failed
<1>1. LoadInv /\ [KernelNext]_kernelVars => [A]_kernelVars
  <2> SUFFICES ASSUME LoadInv, KernelNext, file = "none", file' # "none"
               PROVE  MemParts(file') \subseteq have /\ file' \notin failed
    OBVIOUS
  <2>1. PICK d \in {"mem", "bootmem"} : OpenMem(d)
    BY Zenon DEF KernelNext, ModuleNext, ProcessNext, MapMem, MapBootmem, CloseMem, Unmap
  <2>2. file' = d /\ Registered(d)
    BY <2>1 DEF OpenMem
  <2> QED BY <2>2, RegisteredComplete DEF LoadInv
<1> QED BY <1>1, LoadInit, LoadStep, KernelSteps, PTL DEF KernelSpec, OpensCompleteDevice

\* A program that holds a friend core does not lose the code behind its memory
\* devices to rmmod.
THEOREM BootedSafe == KernelSpec => BootedProgramsSafe
<1> DEFINE A == gone' /\ ~gone => opens = 0 \/ failed' \cap {"cpu", "version"} # {}
<1>1. LoadInv /\ LoadInv' /\ [KernelNext]_kernelVars => [A]_kernelVars
  <2> SUFFICES ASSUME LoadInv, LoadInv', KernelNext, gone', ~gone
               PROVE  opens = 0 \/ failed' \cap {"cpu", "version"} # {}
    BY Zenon
  <2>1. Next /\ at'.f = "out"
    BY Zenon DEF KernelNext, ModuleNext, ProcessNext, OpenMem, MapMem, MapBootmem, CloseMem, Unmap
  <2>2. opens' \in Nat /\ (opens' > 0 => failed' \cap {"cpu", "version"} # {})
    BY <2>1 DEF LoadInv, Progress, LoadTypeOK, Failures
  <2>3. ~Insmod /\ ~OpenCpu /\ ~CloseCpu
    <3>1. at.f = "out" => <<"cpu", "cdev", 0>> \notin have
      BY DEF LoadInv, Progress, CpuProgress, SetUp, Only
    <3> QED BY <2>1, <3>1 DEF Insmod, OpenCpu, CloseCpu, Go
  <2>4. opens' = opens
    BY Zenon, <2>1, <2>3 DEF Next, AllocRegion, CreateClass, CreateNode, AddCdev, CpuRegion, CpuCdev,
       CpuClass, CpuNode, VersionKobj, VersionGroup, Registers, Fails, LoadFails, Rmmod,
       VersionExit, CpuNodeExit, CpuExit, MemExit, GivesBack
  <2> QED BY <2>2, <2>4
<1> QED BY <1>1, LoadInit, LoadStep, KernelSteps, PTL DEF KernelSpec, BootedProgramsSafe
=============================================================================
