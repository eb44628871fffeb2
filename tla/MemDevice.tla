----------------------------- MODULE MemDevice -----------------------------
(***************************************************************************)
(* The memory devices of FriendLoader (call_interface.c): what a process   *)
(* gets when it maps /dev/friend_mem or /dev/friend_bootmem0x70000.  The   *)
(* arithmetic is that of unsigned 64 bit numbers, which wrap around at     *)
(* AddrLimit.                                                              *)
(***************************************************************************)
EXTENDS Integers

CONSTANTS
  PageSize,     \* PAGE_SIZE
  LimitPages,   \* pages that a 64 bit address can tell apart (2^52)
  UserPages,    \* pages of the address space of a process (2^35)
  StartPage,    \* DEPLOY_PHYS_ADDR_START >> PAGE_SHIFT
  MemPages,     \* DEPLOY_PHYS_MEM_SIZE >> PAGE_SHIFT
  BootPage,     \* TRAMPOLINE_ADDR >> PAGE_SHIFT
  BootPages     \* TRAMPOLINE_SIZE >> PAGE_SHIFT

ASSUME MemAssumption ==
  /\ PageSize \in Nat \ {0} /\ LimitPages \in Nat \ {0}
  /\ StartPage \in Nat /\ MemPages \in Nat \ {0}
  /\ BootPage \in Nat /\ BootPages \in Nat \ {0}
  /\ UserPages \in Nat \ {0}
  /\ StartPage + MemPages <= LimitPages
  /\ UserPages + MemPages < LimitPages
  /\ BootPage + BootPages <= StartPage

AddrLimit == LimitPages * PageSize
DEPLOY_PHYS_MEM_SIZE == MemPages * PageSize
TRAMPOLINE_SIZE == BootPages * PageSize

\* The result of an addition or subtraction x of 64 bit numbers.
Wrap(x) == IF x < 0 THEN x + AddrLimit ELSE IF x < AddrLimit THEN x ELSE x - AddrLimit

\* What mmap() may ask for: a part of the address space of the process, from
\* any offset of the file.  (The kernel has checked vm_start and vm_end, and
\* has made vm_pgoff out of an offset in bytes.)
Areas ==
  {v \in [start : 0..UserPages-1, pages : 1..UserPages, pgoff : 0..LimitPages-1] :
     v.start + v.pages <= UserPages}

VARIABLES
  dev,    \* the device that is mapped, "mem" or "bootmem", or "none"
  vma,    \* the area
  pfn     \* the physical page at its start

memVars == <<dev, vma, pfn>>

MemTypeOK ==
  /\ dev \in {"none", "mem", "bootmem"}
  /\ vma \in Areas
  /\ pfn \in Nat

NoArea == [start |-> 0, pages |-> 1, pgoff |-> 0]

MemInit ==
  /\ dev = "none"
  /\ vma = NoArea
  /\ pfn = 0

\* Mutation: the wrap-around is not tested.
InsideNoWrap(v) ==
  LET phys_start == v.pgoff * PageSize
      phys_end == Wrap(phys_start + v.pages * PageSize)
  IN  ~(phys_end > DEPLOY_PHYS_MEM_SIZE)

\* The two tests of memdevice_mmap.
Inside(v) ==
  LET phys_start == v.pgoff * PageSize
      phys_end == Wrap(phys_start + v.pages * PageSize)
  IN  /\ ~(Wrap(phys_end - 1) < phys_start)
      /\ ~(phys_start > DEPLOY_PHYS_MEM_SIZE \/ phys_end > DEPLOY_PHYS_MEM_SIZE)

\* A call that is refused, or in which remap_pfn_range fails, maps nothing.
memdevice_mmap(v) ==
  /\ dev = "none"
  /\ Inside(v)
  /\ dev' = "mem"
  /\ vma' = v
  /\ pfn' = v.pgoff + StartPage

bootmemdevice_mmap(v) ==
  /\ dev = "none"
  /\ v.pgoff = 0
  /\ v.pages * PageSize = TRAMPOLINE_SIZE
  /\ dev' = "bootmem"
  /\ vma' = v
  /\ pfn' = BootPage

munmap ==
  /\ dev # "none"
  /\ dev' = "none"
  /\ vma' = NoArea
  /\ pfn' = 0

MemNext == munmap \/ \E v \in Areas : memdevice_mmap(v) \/ bootmemdevice_mmap(v)

MemSpec == MemInit /\ [][MemNext]_memVars

-----------------------------------------------------------------------------
(* Properties *)

\* The physical page at page p of the mapped area.
PhysicalPage(p) == pfn + (p - vma.start)

\* A process never gets a page outside of the memory that Linux was told to
\* leave alone (memmap=8K$0x70000 memmap=1G$4G), whatever it asks for.
ReservedPagesOnly ==
  dev # "none" =>
    \A p \in vma.start..(vma.start + vma.pages - 1) :
      PhysicalPage(p) \in IF dev = "mem" THEN StartPage..(StartPage + MemPages - 1)
                                         ELSE BootPage..(BootPage + BootPages - 1)
=============================================================================
