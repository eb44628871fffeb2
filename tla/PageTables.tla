----------------------------- MODULE PageTables -----------------------------
(***************************************************************************)
(* The initial address space of the friend cores: Loader16::InitPageTables *)
(* (loader16.cc) and the translation the processor makes with its tables.  *)
(*                                                                         *)
(* Sizes are parameters: a table has Entries entries, a huge page (2MB)    *)
(* has HugePage addresses.  k1GB, k512GB and k256TB follow from the two,   *)
(* as 2MB * 512, 2MB * 512^2 and 2MB * 512^3 do in the code.               *)
(***************************************************************************)
EXTENDS Integers

CONSTANTS
  Entries,         \* entries of a page table
  HugePage,        \* addresses of a huge page (k2MB)
  TrampolineAddr,  \* TRAMPOLINE_ADDR
  Pml4t,           \* INITIAL_PML4T, the address of the top level table
  DeployStart,     \* DEPLOY_PHYS_ADDR_START
  DeployEnd,       \* DEPLOY_PHYS_ADDR_END
  Pdpt, Pd1, Pd2   \* the addresses of the tables that are friend symbols

k2MB == HugePage
k1GB == Entries * k2MB
k512GB == Entries * k1GB
k256TB == Entries * k512GB

Index == 0..Entries-1
Tables == {Pml4t, Pdpt, Pd1, Pd2}

\* The static assertions of InitPageTables, where the tables are, and what
\* memory.h makes of the addresses: four levels of tables reach them, the
\* trampoline is not in the gigabyte of the friend memory, and that ends with a
\* huge page.
ASSUME LayoutAssumption ==
  /\ Entries \in Nat \ {0} /\ HugePage \in Nat \ {0}
  /\ {TrampolineAddr, Pml4t, DeployStart} \subseteq 0..k256TB - 1 /\ DeployEnd \in 0..k256TB
  /\ (TrampolineAddr % k256TB) \div k512GB = (DeployStart % k256TB) \div k512GB
  /\ DeployStart % k1GB = 0
  /\ DeployEnd - DeployStart <= k1GB /\ DeployStart < DeployEnd
  /\ {Pdpt, Pd1, Pd2} \subseteq DeployStart..DeployEnd-1
  /\ Pdpt # Pd1 /\ Pdpt # Pd2 /\ Pd1 # Pd2
  /\ TrampolineAddr \div k2MB = Pml4t \div k2MB
  /\ TrampolineAddr \div k1GB # DeployStart \div k1GB
  /\ DeployEnd % k2MB = 0

\* A table entry: not present, a pointer to a table, or a huge page.
Empty == [present |-> FALSE, huge |-> FALSE, addr |-> 0]
Pointer(a) == [present |-> TRUE, huge |-> FALSE, addr |-> a]
Huge(a) == [present |-> TRUE, huge |-> TRUE, addr |-> a]
\* An entry left behind by something else: it maps address 0.
Junk == Huge(0)

Blank == [k \in Index |-> Empty]

\* The table indices of an address, level by level.
Pml4Index(a) == (a % k256TB) \div k512GB
PdptIndex(a) == (a % k512GB) \div k1GB
PdIndex(a) == (a % k1GB) \div k2MB

trampoline_aligned_addr == (TrampolineAddr \div k2MB) * k2MB

\* The last loop of InitPageTables, and the addresses it visits.
HugePages == {a \in DeployStart..DeployEnd-1 : (a - DeployStart) % k2MB = 0}
MapHugePages(pd) ==
  [k \in Index |-> IF \E a \in HugePages : PdIndex(a) = k
                     THEN Huge(CHOOSE a \in HugePages : PdIndex(a) = k)
                     ELSE pd[k]]

\* Mutation: the trampoline is mapped at its own address, not at that of the
\* huge page it is in.
InitPageTablesUnaligned(t) ==
  [t EXCEPT ![Pml4t][Pml4Index(DeployStart)] = Pointer(Pdpt),
            ![Pdpt][PdptIndex(TrampolineAddr)] = Pointer(Pd1),
            ![Pdpt][PdptIndex(DeployStart)] = Pointer(Pd2),
            ![Pd1][PdIndex(trampoline_aligned_addr)] = Huge(TrampolineAddr),
            ![Pd2] = MapHugePages(@)]

\* Mutation: the whole trampoline table is left out.
InitPageTablesNoTrampoline(t) ==
  [t EXCEPT ![Pml4t][Pml4Index(DeployStart)] = Pointer(Pdpt),
            ![Pdpt][PdptIndex(DeployStart)] = Pointer(Pd2),
            ![Pd2] = MapHugePages(@)]

\* The tables t after InitPageTables.  What it does not assign stays: nothing
\* clears the page of the top level table.
InitPageTables(t) ==
  [t EXCEPT ![Pml4t][Pml4Index(DeployStart)] = Pointer(Pdpt),
            ![Pdpt][PdptIndex(TrampolineAddr)] = Pointer(Pd1),
            ![Pdpt][PdptIndex(DeployStart)] = Pointer(Pd2),
            ![Pd1][PdIndex(trampoline_aligned_addr)] = Huge(trampoline_aligned_addr),
            ![Pd2] = MapHugePages(@)]

\* The entries that are left to friend programs.
Spare(t) == {k \in Index : InitPageTables([u \in Tables |-> Blank])[t][k] = Empty}

-----------------------------------------------------------------------------
(* The processor's translation (external): from the top level table at cr3 *)
(* to the physical address of a, or -1 for a page fault.                   *)

Fault == -1

PdWalk(t, pd, a) ==
  LET e == t[pd][PdIndex(a)] IN
  IF pd \in Tables /\ e.present /\ e.huge THEN e.addr + (a % k2MB) ELSE Fault

PdptWalk(t, pdpt, a) ==
  LET e == t[pdpt][PdptIndex(a)] IN
  IF ~e.present THEN Fault
  ELSE IF e.huge THEN e.addr + (a % k1GB) ELSE PdWalk(t, e.addr, a)

Walk(t, cr3, a) ==
  LET e == t[cr3][Pml4Index(a)] IN
  IF cr3 \in Tables /\ e.present /\ ~e.huge THEN PdptWalk(t, e.addr, a) ELSE Fault
=============================================================================
