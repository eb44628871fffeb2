------------------------------ MODULE Bringup ------------------------------
(***************************************************************************)
(* From setup() to the first instruction of the friend binary.             *)
(*                                                                         *)
(* Hakase: setup() (hakase.cc) checks the machine, maps and clears the     *)
(* friend memory, deploys the ELF image (elf_loader), installs the         *)
(* trampoline and the page tables (loader16) and fills in the exported     *)
(* pointers.  A program may end at any point, because a step fails or      *)
(* because it is killed, and the next one starts on the memory it left.    *)
(*                                                                         *)
(* Friend cores: started by boot() they go through the trampoline          *)
(* (friend_boot16.S) to 64-bit mode and jump to the entry of the image,    *)
(* each at its own pace, while others already run friend code.             *)
(***************************************************************************)
EXTENDS PageTables, Sequences, FiniteSets

CONSTANTS
  Cores,       \* the CPUs that boot() can start
  Images,      \* the friend binaries (records, see ImageOK)
  ClearSize,   \* what setup() zero-clears from DeployStart on (4MB)
  ExportCell,  \* the address of an exported pointer, in .bss
  AddressSpace, \* the number of addresses (2^64), modulo which uint64_t adds
  Margin       \* addresses of the program kept on both sides of the friend memory

Region == DeployStart..DeployEnd-1
Cells == DeployStart-Margin..DeployEnd+Margin-1

\* What an address of the program holds: leftovers, zero, a byte of the image, the
\* address of a hakase variable; outside of the friend memory, what the program
\* itself has there.
Contents == {"junk", "zero", "image", "pointer", "own"}

\* A friend binary: does the header pass (ELF, 64 bit, System V or GNU ABI),
\* is it ET_EXEC, its entry, its program and its section headers.
Phdr == [load : BOOLEAN, vaddr : Nat, data : Seq({"zero", "image"}), memsz : Nat]
Shdr == [bss : BOOLEAN, addr : Nat, size : Nat]
ImageOK(m) ==
  /\ m \in [elf : BOOLEAN, exec : BOOLEAN, entry : Int, phdrs : Seq(Phdr), shdrs : Seq(Shdr)]
  /\ \A k \in DOMAIN m.phdrs : m.phdrs[k].memsz >= Len(m.phdrs[k].data)

\* Everything that is to be loaded or cleared lies in the friend memory.
Fits(m) ==
  /\ \A k \in DOMAIN m.phdrs : LET h == m.phdrs[k] IN
       h.load => h.vaddr >= DeployStart /\ h.vaddr + Len(h.data) <= DeployEnd
  /\ \A k \in DOMAIN m.shdrs : LET h == m.shdrs[k] IN
       h.bss => h.addr >= DeployStart /\ h.addr + h.size <= DeployEnd

InBss(m, a) ==
  \E k \in DOMAIN m.shdrs : m.shdrs[k].bss /\ a \in m.shdrs[k].addr..m.shdrs[k].addr + m.shdrs[k].size - 1

\* What the linker makes with friend.ld: segments that do not overlap, where
\* memory without bytes in the file is .bss and .bss has no other bytes than
\* zeros in the file; the page tables are in .bss (friend/init.cc), the entry
\* is in the code.
Linked(m) ==
  /\ \A j, k \in DOMAIN m.phdrs : LET g == m.phdrs[j] h == m.phdrs[k] IN
       j # k /\ g.load /\ h.load =>
         g.vaddr + g.memsz <= h.vaddr \/ h.vaddr + h.memsz <= g.vaddr
  /\ \A k \in DOMAIN m.phdrs : LET h == m.phdrs[k] IN
       h.load => \A n \in 1..h.memsz :
         IF n > Len(h.data) THEN InBss(m, h.vaddr + n - 1)
         ELSE InBss(m, h.vaddr + n - 1) => h.data[n] = "zero"
  /\ \A t \in Tables \ {Pml4t} : InBss(m, t)
  /\ m.entry # ExportCell
  /\ \E k \in DOMAIN m.phdrs : LET h == m.phdrs[k] IN
       h.load /\ \E n \in DOMAIN h.data : m.entry = h.vaddr + n - 1 /\ h.data[n] = "image"

ASSUME BringupAssumption ==
  /\ \A m \in Images : ImageOK(m) /\ (m.elf /\ m.exec /\ Fits(m) => Linked(m))
  /\ ClearSize \in 0..DeployEnd - DeployStart
  /\ ExportCell \in Region
  /\ Margin \in Nat
  /\ AddressSpace \in Nat /\ k256TB <= AddressSpace

VARIABLES
  pc,        \* where hakase is in setup()
  i,         \* the loop variable of ElfLoader::Deploy
  image,     \* the friend binary of the program
  mem,       \* the friend memory and, around it, the memory of the program
  tables,    \* the page tables, in the friend memory and in the bootmem
  code,      \* is the trampoline code in the bootmem?
  addr,      \* the quad word "addr" of the trampoline
  cpu,       \* cpu[c]: stage and control registers of core c
  written    \* has friend code written to memory in this run?

vars == <<pc, i, image, mem, tables, code, addr, cpu, written>>

Off == [at |-> "off", rip |-> 0, cr3 |-> 0, pae |-> FALSE, lme |-> FALSE, pg |-> FALSE]

\* Any memory contents after power-on.
Init ==
  /\ pc = "gone"
  /\ i = 0
  /\ image \in Images
  /\ mem = [a \in Cells |-> IF a \in Region THEN "junk" ELSE "own"]
  /\ tables \in [Tables -> {Blank, [k \in Index |-> Junk]}]
  /\ code = FALSE
  /\ addr = 0
  /\ cpu = [c \in Cores |-> Off]
  /\ written = FALSE

-----------------------------------------------------------------------------
(* Hakase *)

\* memcpy or memset of the sequence data to address a.  Page tables within
\* the range are overwritten with the rest.
Put(a, data) ==
  LET within(b) == b - a + 1 \in DOMAIN data IN
  /\ mem' = [b \in Cells |-> IF within(b) THEN data[b - a + 1] ELSE mem[b]]
  /\ tables' = [t \in Tables |->
                  IF ~within(t) THEN tables[t]
                  ELSE IF data[t - a + 1] = "zero" THEN Blank ELSE [k \in Index |-> Junk]]

Zeros(n) == [k \in 1..n |-> "zero"]

\* The program ends, and FriendLoader takes its cores back.
Ends ==
  /\ pc' = "gone"
  /\ cpu' = [c \in Cores |-> Off]

Goto(l) == pc' = l /\ cpu' = cpu

\* Somebody starts a program with some friend binary in it.  The friend memory is
\* as before, the memory of the program is new.
Exec ==
  /\ pc = "gone"
  /\ Goto("version")
  /\ image' \in Images
  /\ mem' = [a \in Cells |-> IF a \in Region THEN mem[a] ELSE "own"]
  /\ written' = FALSE
  /\ UNCHANGED <<i, tables, code, addr>>

\* main returns, or the process is killed, wherever it is.
Exit ==
  /\ pc # "gone"
  /\ Ends
  /\ UNCHANGED <<i, image, mem, tables, code, addr, written>>

\* No version file, or another version of FriendLoader.
check_version ==
  /\ pc = "version"
  /\ Goto("bootparam") \/ Ends
  /\ UNCHANGED <<i, image, mem, tables, code, addr, written>>

\* Linux was not told to leave the memory alone.
check_bootparam ==
  /\ pc = "bootparam"
  /\ Goto("mmap") \/ Ends
  /\ UNCHANGED <<i, image, mem, tables, code, addr, written>>

\* Open and map the device, clear the first part of the memory; or fail.
mmap_friend_mem ==
  /\ pc = "mmap"
  /\ \/ Goto("header") /\ Put(DeployStart, Zeros(ClearSize))
     \/ Ends /\ UNCHANGED <<mem, tables>>
  /\ UNCHANGED <<i, image, code, addr, written>>

-----------------------------------------------------------------------------
(* ElfLoader::Deploy *)

\* Mutation: the end of the memory is not checked.
CheckMemoryStart(vaddr, size) == ~(vaddr < DeployStart)

CheckMemoryRegion(vaddr, size) ==
  ~(vaddr < DeployStart \/ (vaddr + size) % AddressSpace > DeployEnd)

\* The sum in the test has wrapped around: the range goes up to the end of the
\* address space, where no process has memory.
Overruns(vaddr, size) == vaddr + size >= AddressSpace

\* memcpy or memset of such a range: SIGSEGV, with some of the bytes written.
Overrun(vaddr, data) ==
  /\ \E n \in 0..Len(data) : Put(vaddr, [k \in 1..n |-> data[k]])
  /\ Ends

\* The tests of the ELF header.
DeployHeader ==
  /\ pc = "header"
  /\ IF image.elf /\ image.exec THEN Goto("phdr") ELSE Ends
  /\ i' = 0
  /\ UNCHANGED <<image, mem, tables, code, addr, written>>

\* One turn of the loop over the program headers.
DeployPhdr ==
  /\ pc = "phdr"
  /\ i < Len(image.phdrs)
  /\ LET h == image.phdrs[i + 1] IN
     \/ /\ h.load /\ CheckMemoryRegion(h.vaddr, Len(h.data)) /\ ~Overruns(h.vaddr, Len(h.data))
        /\ Put(h.vaddr, h.data)
        /\ Goto("phdr")
     \/ /\ h.load /\ CheckMemoryRegion(h.vaddr, Len(h.data)) /\ Overruns(h.vaddr, Len(h.data))
        /\ Overrun(h.vaddr, h.data)
     \/ /\ h.load /\ ~CheckMemoryRegion(h.vaddr, Len(h.data))
        /\ Ends
        /\ UNCHANGED <<mem, tables>>
     \/ /\ ~h.load
        /\ Goto("phdr")
        /\ UNCHANGED <<mem, tables>>
  /\ i' = i + 1
  /\ UNCHANGED <<image, code, addr, written>>

\* GetPhdrOffset has no more headers.
PhdrsDone ==
  /\ pc = "phdr"
  /\ i >= Len(image.phdrs)
  /\ Goto("shdr")
  /\ i' = 0
  /\ UNCHANGED <<image, mem, tables, code, addr, written>>

\* Mutation: .bss sections are not cleared.
DeployShdrSkip ==
  /\ pc = "shdr"
  /\ i < Len(image.shdrs)
  /\ Goto("shdr")
  /\ i' = i + 1
  /\ UNCHANGED <<image, mem, tables, code, addr, written>>

\* Mutation: the last byte of a .bss section is not cleared.
DeployShdrShort ==
  /\ pc = "shdr"
  /\ i < Len(image.shdrs)
  /\ LET h == image.shdrs[i + 1] IN
     IF h.bss /\ CheckMemoryRegion(h.addr, h.size)
       THEN Put(h.addr, Zeros(h.size - 1)) /\ Goto("shdr")
       ELSE UNCHANGED <<mem, tables>> /\ Goto("shdr")
  /\ i' = i + 1
  /\ UNCHANGED <<image, code, addr, written>>

\* One turn of the loop over the section headers.
DeployShdr ==
  /\ pc = "shdr"
  /\ i < Len(image.shdrs)
  /\ LET h == image.shdrs[i + 1] IN
     \/ /\ h.bss /\ CheckMemoryRegion(h.addr, h.size) /\ ~Overruns(h.addr, h.size)
        /\ Put(h.addr, Zeros(h.size))
        /\ Goto("shdr")
     \/ /\ h.bss /\ CheckMemoryRegion(h.addr, h.size) /\ Overruns(h.addr, h.size)
        /\ Overrun(h.addr, Zeros(h.size))
     \/ /\ h.bss /\ ~CheckMemoryRegion(h.addr, h.size)
        /\ Ends
        /\ UNCHANGED <<mem, tables>>
     \/ /\ ~h.bss
        /\ Goto("shdr")
        /\ UNCHANGED <<mem, tables>>
  /\ i' = i + 1
  /\ UNCHANGED <<image, code, addr, written>>

\* GetShdrOffset has no more headers: Deploy returns true.
ShdrsDone ==
  /\ pc = "shdr"
  /\ i >= Len(image.shdrs)
  /\ Goto("loader16")
  /\ UNCHANGED <<i, image, mem, tables, code, addr, written>>

-----------------------------------------------------------------------------
(* Loader16::Init and export_init *)

\* Mutation: the entry of the binary is not passed to the trampoline, which
\* comes with the start of the friend memory in that place.
InstallDefaultEntry ==
  /\ pc = "loader16"
  /\ Goto("tables")
  /\ code' = TRUE
  /\ addr' = DeployStart
  /\ UNCHANGED <<i, image, mem, tables, written>>

\* Open and map the bootmem, copy the trampoline and the entry; or fail.
InstallTrampoline ==
  /\ pc = "loader16"
  /\ \/ Goto("tables") /\ code' = TRUE /\ addr' = image.entry
     \/ Ends /\ UNCHANGED <<code, addr>>
  /\ UNCHANGED <<i, image, mem, tables, written>>

InstallTables ==
  /\ pc = "tables"
  /\ Goto("export")
  /\ tables' = InitPageTables(tables)
  /\ UNCHANGED <<i, image, mem, code, addr, written>>

\* The last step of setup().
export_init ==
  /\ pc = "export"
  /\ Goto("ready")
  /\ mem' = [mem EXCEPT ![ExportCell] = "pointer"]
  /\ UNCHANGED <<i, image, tables, code, addr, written>>

Hakase ==
  \/ Exec \/ Exit \/ check_version \/ check_bootparam \/ mmap_friend_mem
  \/ DeployHeader \/ DeployPhdr \/ PhdrsDone \/ DeployShdr \/ ShdrsDone
  \/ InstallTrampoline \/ InstallTables \/ export_init

-----------------------------------------------------------------------------
(* Friend cores *)

\* boot() opened the device of core c and the STARTUP message arrived.
Start(c) ==
  /\ pc = "ready"
  /\ cpu[c].at = "off"
  /\ cpu' = [cpu EXCEPT ![c] = [Off EXCEPT !.at = "entry16", !.rip = TrampolineAddr]]
  /\ UNCHANGED <<pc, i, image, mem, tables, code, addr, written>>

\* Where core c really reads when it uses address a.
Translate(c, a) == IF cpu[c].pg THEN Walk(tables, cpu[c].cr3, a) ELSE a

\* Core c goes on from stage l to the registers r, provided that it finds the
\* trampoline code at its address.
Advance(c, l, r) ==
  /\ cpu[c].at = l
  /\ cpu' = [cpu EXCEPT ![c] =
       IF code /\ Translate(c, TrampolineAddr) = TrampolineAddr
         THEN r ELSE [@ EXCEPT !.at = "fault"]]
  /\ UNCHANGED <<pc, i, image, mem, tables, code, addr, written>>

\* Real mode: descriptor table, PE bit, far jump.
Entry16(c) == Advance(c, "entry16", [cpu[c] EXCEPT !.at = "entry32"])

\* Protected mode, before paging.
LoadCr3(c) == Advance(c, "entry32", [cpu[c] EXCEPT !.at = "cr3", !.cr3 = Pml4t])
SetCr4(c) == Advance(c, "cr3", [cpu[c] EXCEPT !.at = "cr4", !.pae = TRUE])

\* Mutation: the LM bit is not set.
SkipEfer(c) == Advance(c, "cr4", [cpu[c] EXCEPT !.at = "efer"])
SetEfer(c) == Advance(c, "cr4", [cpu[c] EXCEPT !.at = "efer", !.lme = TRUE])

\* The PG bit.  Long mode with four levels needs the PAE and LM bits.
SetPaging(c) ==
  Advance(c, "efer", IF cpu[c].pae /\ cpu[c].lme
                       THEN [cpu[c] EXCEPT !.at = "paging", !.pg = TRUE]
                       ELSE [cpu[c] EXCEPT !.at = "fault"])

\* Still 32 bit code, now behind the page tables: far jump to 64 bit code.
LongJump(c) == Advance(c, "paging", [cpu[c] EXCEPT !.at = "start"])

\* jmpq *(addr): the entry must be mapped.
JumpToFriend(c) ==
  Advance(c, "start", IF Translate(c, addr) = addr
                        THEN [cpu[c] EXCEPT !.at = "friend", !.rip = addr]
                        ELSE [cpu[c] EXCEPT !.at = "fault"])

\* Friend code uses memory that is not its own text or data, and page table
\* entries that map neither the friend memory nor the trampoline.
FriendWrites(c) ==
  /\ cpu[c].at = "friend"
  /\ written' = TRUE
  /\ \/ /\ mem' = [a \in Cells |->
                     IF a \in Region /\ mem[a] # "image" THEN "junk" ELSE mem[a]]
        /\ UNCHANGED tables
     \/ /\ \E t \in Tables : \E k \in Spare(t) : tables' = [tables EXCEPT ![t][k] = Junk]
        /\ UNCHANGED mem
  /\ UNCHANGED <<pc, i, image, code, addr, cpu>>

Trampoline(c) ==
  \/ Entry16(c) \/ LoadCr3(c) \/ SetCr4(c) \/ SetEfer(c) \/ SetPaging(c)
  \/ LongJump(c) \/ JumpToFriend(c)

Next == Hakase \/ \E c \in Cores : Start(c) \/ Trampoline(c) \/ FriendWrites(c)

Spec == Init /\ [][Next]_vars

\* A core that runs executes its next instruction.
FairSpec == Spec /\ \A c \in Cores : WF_vars(Trampoline(c))

-----------------------------------------------------------------------------
(* Properties *)

\* Once InitPageTables is done, every address of the friend memory and of the
\* trampoline means the same to hakase and to the friend cores: itself.
IdentityMap ==
  pc \in {"export", "ready"} =>
    \A a \in Region \cup {TrampolineAddr, Pml4t} : Walk(tables, Pml4t, a) = a

\* When setup() succeeds, nothing else is mapped below the end of the top
\* level entry that InitPageTables fills, whatever was in the memory before
\* and whatever the friend programs of earlier runs did to their tables.
NothingElseMapped ==
  pc = "ready" /\ ~written =>
    \A a \in (k512GB * Pml4Index(DeployStart))..(k512GB * (Pml4Index(DeployStart) + 1) - 1) :
      Walk(tables, Pml4t, a) # Fault =>
        a \in Region \/ a \div k2MB = TrampolineAddr \div k2MB

\* When setup() succeeds, the memory holds what the ELF format says: every
\* loaded segment has its bytes from the file, and zeros up to its size in
\* memory, apart from the exported pointer, whatever an earlier run left.  (The
\* page tables, which InitPageTables fills later, are the variable tables.)
DeployedImage ==
  pc = "ready" /\ ~written =>
    \A n \in DOMAIN image.phdrs :
      LET h == image.phdrs[n] IN
      h.load => \A k \in 1..h.memsz :
        mem[h.vaddr + k - 1] = IF h.vaddr + k - 1 = ExportCell THEN "pointer"
                               ELSE IF k <= Len(h.data) THEN h.data[k] ELSE "zero"

\* No core faults on its way to the friend binary, even when other cores
\* already run it and change their page tables; a core that leaves the
\* trampoline starts at the entry of the binary of the present run, where the
\* code of that binary is.
CoresStartInImage ==
  \A c \in Cores :
    /\ cpu[c].at # "fault"
    /\ cpu[c].at = "friend" => cpu[c].rip = image.entry /\ mem[image.entry] = "image"

\* Wherever the headers of the friend binary place it, setup() does not go on
\* after a write outside of the friend memory: such headers are refused, or the
\* program is killed by the write, if the sum in the loader's test wraps around.
OwnMemoryUntouched == pc # "gone" => \A a \in Cells \ Region : mem[a] = "own"

\* A core that was started reaches the friend binary, or the program ends.
StartedCoreArrives ==
  \A c \in Cores : cpu[c].at = "entry16" ~> cpu[c].at \in {"friend", "off"}
=============================================================================
