--------------------------- MODULE BringupProofs ---------------------------
(***************************************************************************)
(* Proofs about Bringup, for any number of cores, entries of a page table, *)
(* sizes of a page and friend binaries (within the assumptions of Bringup  *)
(* and PageTables): what InitPageTables maps, what Deploy leaves in the    *)
(* memory, and that the cores get from the trampoline into the binary.     *)
(***************************************************************************)
EXTENDS Bringup, TLAPS

TableEntry == [present : BOOLEAN, huge : BOOLEAN, addr : Int]
TableType == [Tables -> [Index -> TableEntry]]

\* The entries that InitPageTables writes have their values.
Maps(t) ==
  /\ t[Pml4t][Pml4Index(DeployStart)] = Pointer(Pdpt)
  /\ t[Pdpt][PdptIndex(TrampolineAddr)] = Pointer(Pd1)
  /\ t[Pdpt][PdptIndex(DeployStart)] = Pointer(Pd2)
  /\ t[Pd1][PdIndex(trampoline_aligned_addr)] = Huge(trampoline_aligned_addr)
  /\ \A a \in HugePages : t[Pd2][PdIndex(a)] = Huge(a)

\* And the tables in the friend memory have no others.
MapsOnly(t) ==
  /\ Maps(t)
  /\ \A k \in Index \ {PdptIndex(TrampolineAddr), PdptIndex(DeployStart)} : t[Pdpt][k] = Empty
  /\ \A k \in Index \ {PdIndex(trampoline_aligned_addr)} : t[Pd1][k] = Empty
  /\ \A k \in Index : t[Pd2][k] = Empty \/ \E a \in HugePages : PdIndex(a) = k

-----------------------------------------------------------------------------
(* The inductive invariant *)

Stages == {"off", "entry16", "entry32", "cr3", "cr4", "efer", "paging", "start", "friend", "fault"}
Registers == [at : Stages, rip : Int, cr3 : Int, pae : BOOLEAN, lme : BOOLEAN, pg : BOOLEAN]

Types ==
  /\ pc \in {"gone", "version", "bootparam", "mmap", "header", "phdr", "shdr", "loader16", "tables",
             "export", "ready"}
  /\ i \in Nat /\ image \in Images
  /\ mem \in [Cells -> Contents]
  /\ tables \in TableType
  /\ cpu \in [Cores -> Registers]

\* The headers that the loader accepted are in the friend memory.
FitsPhdr(n) ==
  LET h == image.phdrs[n] IN
  h.load => h.vaddr >= DeployStart /\ h.vaddr + Len(h.data) <= DeployEnd
FitsShdr(n) ==
  LET h == image.shdrs[n] IN h.bss => h.addr >= DeployStart /\ h.addr + h.size <= DeployEnd

Checked ==
  /\ pc \in {"phdr", "shdr"} => image.elf /\ image.exec
  /\ pc = "phdr" => \A n \in DOMAIN image.phdrs : n <= i => FitsPhdr(n)
  /\ pc = "shdr" => /\ \A n \in DOMAIN image.phdrs : FitsPhdr(n)
                    /\ \A n \in DOMAIN image.shdrs : n <= i => FitsShdr(n)
  /\ pc \in {"loader16", "tables", "export", "ready"} => Fits(image) /\ Linked(image)

\* What program header n loads, and what section header n clears.
Loaded(n) ==
  LET h == image.phdrs[n] IN
  h.load => \A k \in 1..Len(h.data) : mem[h.vaddr + k - 1] = h.data[k]
Section(n) == image.shdrs[n].addr..image.shdrs[n].addr + image.shdrs[n].size - 1
Cleared(n) == image.shdrs[n].bss => \A a \in Section(n) : mem[a] = "zero"
Blanked(n) == image.shdrs[n].bss => \A t \in Tables \cap Section(n) : tables[t] = Blank

\* As long as segments do not overlap, what has been loaded and cleared stays.
Deployed ==
  /\ pc = "phdr" /\ Linked(image) =>
       \A n \in DOMAIN image.phdrs : n <= i => Loaded(n)
  /\ pc \in {"shdr", "loader16", "tables", "export"} /\ Linked(image) =>
       \A n \in DOMAIN image.phdrs : Loaded(n)
  /\ pc = "shdr" => \A n \in DOMAIN image.shdrs : n <= i => Cleared(n) /\ Blanked(n)
  /\ pc \in {"loader16", "tables", "export"} => \A n \in DOMAIN image.shdrs : Cleared(n)
  /\ pc \in {"loader16", "tables"} => \A n \in DOMAIN image.shdrs : Blanked(n)
  /\ DeployedImage

Mapping ==
  /\ pc \in {"export", "ready"} => Maps(tables)
  /\ pc = "export" \/ (pc = "ready" /\ ~written) => MapsOnly(tables)

\* Core c has what its stage needs.
Prepared(c) ==
  LET r == cpu[c] IN
  /\ r.at # "fault"
  /\ r.at # "off" => pc = "ready"
  /\ r.at \in {"off", "entry16", "entry32", "cr3", "cr4", "efer"} => r.pg = FALSE
  /\ r.at \in {"cr3", "cr4", "efer", "paging", "start"} => r.cr3 = Pml4t
  /\ r.at \in {"cr4", "efer"} => r.pae = TRUE
  /\ r.at = "efer" => r.lme = TRUE
  /\ r.at = "friend" => r.rip = image.entry

Starting ==
  /\ pc \in {"tables", "export", "ready"} => code = TRUE /\ addr = image.entry
  /\ pc = "ready" => mem[image.entry] = "image"
  /\ \A c \in Cores : Prepared(c)

Inv == Types /\ OwnMemoryUntouched /\ Checked /\ Deployed /\ Mapping /\ Starting

-----------------------------------------------------------------------------
(* Quotients and remainders *)

\* Division with remainder.
LEMMA Division ==
  ASSUME NEW a \in Nat, NEW d \in Nat \ {0}
  PROVE  /\ a \div d \in Nat /\ a % d \in Nat /\ a % d < d
         /\ a = d * (a \div d) + (a % d)
  OBVIOUS

\* There is only one way to divide with remainder.
LEMMA Quotient ==
  ASSUME NEW a \in Nat, NEW d \in Nat \ {0}, NEW x \in Nat, NEW y \in Nat, y < d, a = d * x + y
  PROVE  a \div d = x /\ a % d = y
  OBVIOUS

\* Multiples of d are at least d apart.
LEMMA Apart ==
  ASSUME NEW x \in Nat, NEW y \in Nat, NEW d \in Nat \ {0}, x < y
  PROVE  d * x \in Nat /\ d * y \in Nat /\ d * x + d <= d * y
  OBVIOUS

\* n pages of h addresses make one of g addresses: the page that a is in, the
\* place of the small page in the large one, and of a in the small one.
Splits(a, n, h, g) ==
  /\ g \in Nat \ {0}
  /\ a \div g = (a \div h) \div n
  /\ (a % g) \div h = (a \div h) % n
  /\ (a % g) % h = a % h

\* Division by a product is division by its factors, one after the other.
LEMMA Levels ==
  ASSUME NEW a \in Nat, NEW n \in Nat \ {0}, NEW h \in Nat \ {0}
  PROVE  Splits(a, n, h, n * h)
<1> DEFINE q == a \div h
           r == a % h
           s == q \div n
           p == q % n
           u == h * p + r
<1>1. q \in Nat /\ r \in Nat /\ r < h /\ a = h * q + r
  BY Division
<1>2. s \in Nat /\ p \in Nat /\ p < n /\ q = n * s + p
  <2> HIDE DEF q
  <2> QED BY <1>1, Division
<1> HIDE DEF q, r, s, p
<1>3. n * h \in Nat \ {0}
  OBVIOUS
<1>4. u \in Nat /\ u < n * h
  <2>1. h * p + h <= h * n /\ h * p \in Nat
    BY <1>2, Apart
  <2> QED BY <1>1, <2>1
<1>5. a = (n * h) * s + u
  <2>1. h * (n * s + p) = h * (n * s) + h * p
    BY <1>2
  <2>2. h * (n * s) = (n * h) * s
    BY <1>2
  <2> QED BY <1>1, <1>2, <2>1, <2>2
<1>6. u \div h = p /\ u % h = r
  <2>1. u = h * p + r
    OBVIOUS
  <2> HIDE DEF u
  <2> QED BY <1>1, <1>2, <1>4, <2>1, Quotient
<1> HIDE DEF u
<1>7. a \div (n * h) = s /\ a % (n * h) = u
  <2> DEFINE d == n * h
  <2>1. d \in Nat \ {0} /\ u < d /\ a = d * s + u
    BY <1>3, <1>4, <1>5
  <2> HIDE DEF d
  <2>2. a \div d = s /\ a % d = u
    BY <1>2, <1>4, <2>1, Quotient
  <2> QED BY <2>2 DEF d
<1> QED BY <1>3, <1>6, <1>7 DEF q, r, s, p, Splits

\* The sizes of memory.h and loader16.cc.
LEMMA Sizes ==
  /\ k2MB \in Nat \ {0} /\ k1GB \in Nat \ {0} /\ k512GB \in Nat \ {0} /\ k256TB \in Nat \ {0}
  /\ {TrampolineAddr, Pml4t, DeployStart, DeployEnd, Pdpt, Pd1, Pd2} \subseteq Nat
<1>1. Entries \in Nat \ {0} /\ HugePage \in Nat \ {0}
  BY LayoutAssumption
<1>2. ASSUME NEW n \in Nat \ {0}, NEW h \in Nat \ {0} PROVE n * h \in Nat \ {0}
  OBVIOUS
<1>3. k2MB \in Nat \ {0} /\ k1GB \in Nat \ {0}
  BY <1>1, <1>2 DEF k1GB, k2MB
<1>4. k512GB \in Nat \ {0}
  BY Zenon, <1>1, <1>2, <1>3 DEF k512GB
<1>5. k256TB \in Nat \ {0}
  BY Zenon, <1>1, <1>2, <1>4 DEF k256TB
<1> QED BY <1>3, <1>4, <1>5, LayoutAssumption

\* The indices of an address are digits of its page number.
LEMMA Indices ==
  ASSUME NEW a \in Nat
  PROVE  /\ PdIndex(a) = (a \div k2MB) % Entries
         /\ PdptIndex(a) = (a \div k1GB) % Entries
         /\ Pml4Index(a) = (a \div k512GB) % Entries
         /\ a \div k1GB = (a \div k2MB) \div Entries
         /\ a \div k512GB = (a \div k1GB) \div Entries
         /\ {PdIndex(a), PdptIndex(a), Pml4Index(a)} \subseteq Index
         /\ (a % k1GB) % k2MB = a % k2MB
<1>1. Entries \in Nat \ {0}
  BY LayoutAssumption
<1>2. /\ Splits(a, Entries, k2MB, k1GB) /\ Splits(a, Entries, k1GB, k512GB)
      /\ Splits(a, Entries, k512GB, k256TB)
  BY Zenon, <1>1, Sizes, Levels DEF k1GB, k512GB, k256TB
<1>4. /\ PdIndex(a) = (a \div k2MB) % Entries /\ a \div k1GB = (a \div k2MB) \div Entries
      /\ (a % k1GB) % k2MB = a % k2MB
      /\ PdptIndex(a) = (a \div k1GB) % Entries /\ a \div k512GB = (a \div k1GB) \div Entries
      /\ Pml4Index(a) = (a \div k512GB) % Entries
  BY Zenon, <1>2 DEF PdIndex, PdptIndex, Pml4Index, Splits
<1>5. a \div k2MB \in Nat /\ a \div k1GB \in Nat /\ a \div k512GB \in Nat
  BY Sizes, Division
<1>6. ASSUME NEW q \in Nat PROVE q % Entries \in Index
  BY <1>1, Division DEF Index
<1> QED BY <1>4, <1>5, <1>6

\* The friend memory is part of one gigabyte: its addresses differ in the index
\* of the last level only.
LEMMA InRegion ==
  ASSUME NEW a \in Region
  PROVE  /\ a \in Nat /\ a - DeployStart \in Nat /\ a < k256TB
         /\ a \div k1GB = DeployStart \div k1GB
         /\ PdptIndex(a) = PdptIndex(DeployStart) /\ Pml4Index(a) = Pml4Index(DeployStart)
         /\ PdIndex(a) = (a - DeployStart) \div k2MB
         /\ a % k2MB = (a - DeployStart) % k2MB
<1> DEFINE g == DeployStart \div k1GB
           o == a - DeployStart
<1>1. /\ DeployStart \in Nat /\ DeployEnd \in Nat /\ k1GB \in Nat \ {0} /\ k256TB \in Nat
      /\ DeployEnd <= k256TB /\ DeployEnd - DeployStart <= k1GB /\ DeployStart % k1GB = 0
  BY Sizes, LayoutAssumption
<1>2. a \in Nat /\ o \in Nat /\ o < k1GB /\ a < k256TB
  BY <1>1 DEF Region
<1>3. g \in Nat /\ DeployStart = k1GB * g
  <2>1. g \in Nat /\ DeployStart = k1GB * g + (DeployStart % k1GB)
    BY <1>1, Division
  <2> HIDE DEF g
  <2>2. k1GB * g \in Nat
    BY <1>1, <2>1
  <2> QED BY <1>1, <2>1, <2>2
<1>4. a = k1GB * g + o
  <2> HIDE DEF g
  <2>1. a = DeployStart + o
    BY <1>1, <1>2
  <2> QED BY <1>3, <2>1
<1>5. a \div k1GB = g /\ a % k1GB = o
  <2> HIDE DEF g, o
  <2> QED BY <1>1, <1>2, <1>3, <1>4, Quotient
<1> QED BY <1>1, <1>2, <1>5, Indices DEF PdIndex

\* Each address of the friend memory is in one of the huge pages of the last loop
\* of InitPageTables.
LEMMA HugePageOf ==
  ASSUME NEW a \in Region
  PROVE  \E b \in HugePages : PdIndex(b) = PdIndex(a) /\ a = b + (a % k2MB)
<1> DEFINE o == a - DeployStart
           q == o \div k2MB
           r == o % k2MB
           b == DeployStart + k2MB * q
<1>1. /\ o \in Nat /\ k2MB \in Nat \ {0} /\ DeployStart \in Nat /\ DeployEnd \in Nat
      /\ a < DeployEnd /\ a = DeployStart + o
  BY Sizes, InRegion DEF Region
<1>2. PdIndex(a) = q /\ a % k2MB = r
  BY InRegion
<1>3. q \in Nat /\ r \in Nat /\ o = k2MB * q + r
  <2> HIDE DEF o
  <2> QED BY <1>1, Division
<1> HIDE DEF o, q, r
<1>4. k2MB * q \in Nat
  BY <1>1, <1>3
<1>5. b \in Region /\ b - DeployStart = k2MB * q /\ a = b + r
  BY <1>1, <1>3, <1>4 DEF Region
<1> HIDE DEF b
<1>6. (b - DeployStart) \div k2MB = q /\ (b - DeployStart) % k2MB = 0
  <2>1. b - DeployStart \in Nat /\ b - DeployStart = k2MB * q + 0 /\ 0 < k2MB
    BY <1>1, <1>4, <1>5
  <2> QED BY <1>1, <1>3, <2>1, Quotient
<1>7. PdIndex(b) = q
  BY <1>5, <1>6, InRegion
<1>8. b \in HugePages
  BY <1>5, <1>6 DEF HugePages, Region
<1> QED BY <1>2, <1>5, <1>7, <1>8

\* The loop visits each entry of the table once.
LEMMA OneHugePage ==
  ASSUME NEW a \in HugePages, NEW b \in HugePages, PdIndex(a) = PdIndex(b)
  PROVE  a = b
<1>1. /\ a \in Region /\ (a - DeployStart) % k2MB = 0
      /\ b \in Region /\ (b - DeployStart) % k2MB = 0
  BY DEF HugePages, Region
<1> DEFINE x == a - DeployStart
           y == b - DeployStart
<1>2. x \in Nat /\ y \in Nat /\ x \div k2MB = y \div k2MB
  BY <1>1, InRegion
<1>3. x = y
  <2>1. x % k2MB = 0 /\ y % k2MB = 0
    BY <1>1
  <2> HIDE DEF x, y
  <2> QED BY <1>2, <2>1, Sizes, Division
<1> QED BY <1>1, <1>3, InRegion, Sizes

\* The page of the trampoline is in another gigabyte, under the same entry of
\* the top level table.
LEMMA InTrampoline ==
  ASSUME NEW a \in Nat, a \div k2MB = TrampolineAddr \div k2MB
  PROVE  /\ PdIndex(a) = PdIndex(trampoline_aligned_addr)
         /\ PdptIndex(a) = PdptIndex(TrampolineAddr)
         /\ Pml4Index(a) = Pml4Index(DeployStart)
         /\ a = trampoline_aligned_addr + (a % k2MB)
         /\ trampoline_aligned_addr \in Nat /\ a \notin Region
<1> DEFINE q == TrampolineAddr \div k2MB
<1>1. TrampolineAddr \in Nat /\ k2MB \in Nat \ {0}
  BY Sizes
<1>2. /\ PdIndex(a) = PdIndex(TrampolineAddr) /\ PdptIndex(a) = PdptIndex(TrampolineAddr)
      /\ Pml4Index(a) = Pml4Index(TrampolineAddr) /\ a \div k1GB = TrampolineAddr \div k1GB
  BY <1>1, Indices
<1>3. q \in Nat /\ a % k2MB \in Nat /\ a = k2MB * q + (a % k2MB)
  BY <1>1, Division
<1>4. trampoline_aligned_addr = k2MB * q /\ trampoline_aligned_addr \in Nat
  <2>1. trampoline_aligned_addr = q * k2MB
    BY DEF trampoline_aligned_addr
  <2> HIDE DEF q
  <2> QED BY <1>1, <1>3, <2>1
<1>5. PdIndex(trampoline_aligned_addr) = PdIndex(TrampolineAddr)
  <2>1. trampoline_aligned_addr = k2MB * q + 0 /\ 0 \in Nat /\ 0 < k2MB
    BY <1>1, <1>4
  <2>2. trampoline_aligned_addr \div k2MB = q
    <3> HIDE DEF q
    <3> QED BY <1>1, <1>3, <1>4, <2>1, Quotient
  <2> QED BY <1>1, <1>4, <2>2, Indices
<1>6. Pml4Index(TrampolineAddr) = Pml4Index(DeployStart)
  BY LayoutAssumption DEF Pml4Index
<1>7. a \notin Region
  BY <1>2, InRegion, LayoutAssumption
<1> QED BY <1>2, <1>3, <1>4, <1>5, <1>6, <1>7

\* An address that four levels of tables reach has its top level index.
LEMMA TopLevel ==
  ASSUME NEW a \in Nat, a < k256TB
  PROVE  Pml4Index(a) = a \div k512GB
<1>1. a = k256TB * 0 + a /\ 0 \in Nat
  BY Sizes
<1>2. a % k256TB = a
  BY <1>1, Sizes, Quotient
<1> QED BY <1>2 DEF Pml4Index

\* The second level has different entries for the trampoline and the memory, and
\* addresses with the same indices on two levels are in the same gigabyte.
LEMMA Gigabytes ==
  /\ PdptIndex(TrampolineAddr) # PdptIndex(DeployStart)
  /\ \A a, b \in Nat : a \div k512GB = b \div k512GB /\ PdptIndex(a) = PdptIndex(b) =>
       a \div k1GB = b \div k1GB
<1>1. ASSUME NEW a \in Nat, NEW b \in Nat, a \div k512GB = b \div k512GB,
             PdptIndex(a) = PdptIndex(b)
      PROVE  a \div k1GB = b \div k1GB
  <2> DEFINE x == a \div k1GB
             y == b \div k1GB
  <2>1. x \in Nat /\ y \in Nat /\ Entries \in Nat \ {0}
    BY Zenon, Sizes, Division, LayoutAssumption
  <2>2. x \div Entries = y \div Entries /\ x % Entries = y % Entries
    BY <1>1, Indices
  <2> HIDE DEF x, y
  <2>3. x = y
    BY <2>1, <2>2, Division
  <2> QED BY <2>3 DEF x, y
<1>2. TrampolineAddr \div k512GB = DeployStart \div k512GB
  <2>1. /\ TrampolineAddr \in Nat /\ TrampolineAddr < k256TB
        /\ DeployStart \in Nat /\ DeployStart < k256TB
    BY Sizes, LayoutAssumption
  <2> QED BY <2>1, TopLevel, LayoutAssumption DEF Pml4Index
<1> QED BY <1>1, <1>2, Sizes, LayoutAssumption

-----------------------------------------------------------------------------
(* The page tables *)

\* What InitPageTables does not write in the tables of the friend memory stays.
Keeps(t, u) ==
  /\ \A k \in Index \ {PdptIndex(TrampolineAddr), PdptIndex(DeployStart)} : u[Pdpt][k] = t[Pdpt][k]
  /\ \A k \in Index \ {PdIndex(trampoline_aligned_addr)} : u[Pd1][k] = t[Pd1][k]
  /\ \A k \in Index : u[Pd2][k] = t[Pd2][k] \/ \E a \in HugePages : PdIndex(a) = k

\* The last loop maps each huge page to itself.
LEMMA LastLoop ==
  ASSUME NEW pd \in [Index -> TableEntry]
  PROVE  /\ MapHugePages(pd) \in [Index -> TableEntry]
         /\ \A a \in HugePages : MapHugePages(pd)[PdIndex(a)] = Huge(a)
         /\ \A k \in Index : MapHugePages(pd)[k] = pd[k] \/ \E a \in HugePages : PdIndex(a) = k
<1>1. ASSUME NEW a \in HugePages
      PROVE  /\ PdIndex(a) \in Index /\ Huge(a) \in TableEntry
             /\ MapHugePages(pd)[PdIndex(a)] = Huge(a)
  <2>1. a \in Nat /\ PdIndex(a) \in Index
    BY Indices, InRegion DEF HugePages, Region
  <2>2. (CHOOSE b \in HugePages : PdIndex(b) = PdIndex(a)) = a
    BY OneHugePage
  <2>3. MapHugePages(pd)[PdIndex(a)] = Huge(a)
    BY Zenon, <2>1, <2>2 DEF MapHugePages
  <2> QED BY <2>1, <2>3 DEF Huge, TableEntry
<1>2. ASSUME NEW k \in Index
      PROVE  /\ MapHugePages(pd)[k] \in TableEntry
             /\ MapHugePages(pd)[k] = pd[k] \/ \E a \in HugePages : PdIndex(a) = k
  <2>1. CASE \E a \in HugePages : PdIndex(a) = k
    BY <1>1, <2>1
  <2>2. CASE ~\E a \in HugePages : PdIndex(a) = k
    BY <2>2 DEF MapHugePages
  <2> QED BY <2>1, <2>2
<1>3. MapHugePages(pd) = [k \in Index |-> MapHugePages(pd)[k]]
  BY DEF MapHugePages
<1> QED BY <1>1, <1>2, <1>3

\* What InitPageTables writes, table by table.
SetUp(t, u) ==
  /\ u[Pml4t] = [t[Pml4t] EXCEPT ![Pml4Index(DeployStart)] = Pointer(Pdpt)]
  /\ u[Pdpt] = [t[Pdpt] EXCEPT ![PdptIndex(TrampolineAddr)] = Pointer(Pd1),
                               ![PdptIndex(DeployStart)] = Pointer(Pd2)]
  /\ u[Pd1] = [t[Pd1] EXCEPT ![PdIndex(trampoline_aligned_addr)] = Huge(trampoline_aligned_addr)]
  /\ u[Pd2] = MapHugePages(t[Pd2])
  /\ u = [x \in Tables |-> u[x]]

\* The four tables are four pages, so the writes of InitPageTables do not mix.
LEMMA TableByTable ==
  ASSUME NEW t \in TableType
  PROVE  SetUp(t, InitPageTables(t))
<1>1. Pml4t \notin {Pdpt, Pd1, Pd2} /\ Pdpt # Pd1 /\ Pdpt # Pd2 /\ Pd1 # Pd2
  BY InTrampoline, Sizes, LayoutAssumption DEF Region
<1> QED BY Zenon, <1>1 DEF SetUp, InitPageTables, TableType, Tables

\* After InitPageTables the tables map the friend memory and the trampoline.
LEMMA InitTables ==
  ASSUME NEW t \in TableType
  PROVE  InitPageTables(t) \in TableType /\ Maps(InitPageTables(t)) /\ Keeps(t, InitPageTables(t))
<1> DEFINE u == InitPageTables(t)
<1>1. /\ t[Pml4t] \in [Index -> TableEntry] /\ t[Pdpt] \in [Index -> TableEntry]
      /\ t[Pd1] \in [Index -> TableEntry] /\ t[Pd2] \in [Index -> TableEntry]
  BY DEF TableType, Tables
<1>2. /\ Pml4Index(DeployStart) \in Index /\ PdptIndex(TrampolineAddr) \in Index
      /\ PdptIndex(DeployStart) \in Index /\ PdIndex(trampoline_aligned_addr) \in Index
      /\ trampoline_aligned_addr \in Nat
  BY Zenon, Sizes, Indices, InTrampoline
<1>3. /\ Pointer(Pdpt) \in TableEntry /\ Pointer(Pd1) \in TableEntry /\ Pointer(Pd2) \in TableEntry
      /\ Huge(trampoline_aligned_addr) \in TableEntry
  BY <1>2, Sizes DEF Pointer, Huge, TableEntry
<1>0. SetUp(t, u)
  BY TableByTable
<1> HIDE DEF u
<1>4. /\ u[Pml4t] \in [Index -> TableEntry]
      /\ u[Pml4t][Pml4Index(DeployStart)] = Pointer(Pdpt)
  BY <1>0, <1>1, <1>2, <1>3 DEF SetUp
<1>5. /\ u[Pdpt] \in [Index -> TableEntry]
      /\ u[Pdpt][PdptIndex(TrampolineAddr)] = Pointer(Pd1)
      /\ u[Pdpt][PdptIndex(DeployStart)] = Pointer(Pd2)
      /\ \A k \in Index \ {PdptIndex(TrampolineAddr), PdptIndex(DeployStart)} :
           u[Pdpt][k] = t[Pdpt][k]
  BY <1>0, <1>1, <1>2, <1>3, Gigabytes DEF SetUp
<1>6. /\ u[Pd1] \in [Index -> TableEntry]
      /\ u[Pd1][PdIndex(trampoline_aligned_addr)] = Huge(trampoline_aligned_addr)
      /\ \A k \in Index \ {PdIndex(trampoline_aligned_addr)} : u[Pd1][k] = t[Pd1][k]
  BY <1>0, <1>1, <1>2, <1>3 DEF SetUp
<1>7. /\ u[Pd2] \in [Index -> TableEntry]
      /\ \A a \in HugePages : u[Pd2][PdIndex(a)] = Huge(a)
      /\ \A k \in Index : u[Pd2][k] = t[Pd2][k] \/ \E a \in HugePages : PdIndex(a) = k
  BY <1>0, <1>1, LastLoop DEF SetUp
<1>8. u = [x \in Tables |-> u[x]]
  BY <1>0 DEF SetUp
<1>9. u \in TableType
  BY <1>4, <1>5, <1>6, <1>7, <1>8 DEF TableType, Tables
<1> QED BY <1>4, <1>5, <1>6, <1>7, <1>9 DEF Maps, Keeps, u

\* The tables translate the addresses of the friend memory and of the trampoline
\* to themselves.
LEMMA Walks ==
  ASSUME NEW t, Maps(t), NEW a \in Region \cup {TrampolineAddr, Pml4t}
  PROVE  Walk(t, Pml4t, a) = a
<1>1. CASE a \in Region
  <2>1. PICK b \in HugePages : PdIndex(b) = PdIndex(a) /\ a = b + (a % k2MB)
    BY Zenon, <1>1, HugePageOf
  <2>2. t[Pml4t][Pml4Index(a)] = Pointer(Pdpt) /\ t[Pdpt][PdptIndex(a)] = Pointer(Pd2)
    BY <1>1, InRegion DEF Maps
  <2>3. t[Pd2][PdIndex(a)] = Huge(b)
    BY Zenon, <2>1 DEF Maps
  <2>4. PdWalk(t, Pd2, a) = a
    BY <2>1, <2>3 DEF PdWalk, Huge, Tables
  <2> QED BY <2>2, <2>4 DEF Walk, PdptWalk, Pointer, Tables
<1>2. CASE a \in {TrampolineAddr, Pml4t}
  <2>1. a \in Nat /\ a \div k2MB = TrampolineAddr \div k2MB
    BY Zenon, <1>2, Sizes, LayoutAssumption
  <2>2. t[Pml4t][Pml4Index(a)] = Pointer(Pdpt) /\ t[Pdpt][PdptIndex(a)] = Pointer(Pd1)
    BY <2>1, InTrampoline DEF Maps
  <2>3. t[Pd1][PdIndex(a)] = Huge(trampoline_aligned_addr)
    BY Zenon, <2>1, InTrampoline DEF Maps
  <2>4. PdWalk(t, Pd1, a) = a
    BY <2>1, <2>3, InTrampoline DEF PdWalk, Huge, Tables
  <2> QED BY <2>2, <2>4 DEF Walk, PdptWalk, Pointer, Tables
<1> QED BY Zenon, <1>1, <1>2

\* Addresses of one gigabyte with the same index are in the same huge page.
LEMMA SamePage ==
  ASSUME NEW a \in Nat, NEW b \in Nat, a \div k1GB = b \div k1GB, PdIndex(a) = PdIndex(b)
  PROVE  a \div k2MB = b \div k2MB
<1> DEFINE x == a \div k2MB
           y == b \div k2MB
<1>1. x \in Nat /\ y \in Nat /\ Entries \in Nat \ {0}
  BY Zenon, Sizes, Division, LayoutAssumption
<1>2. x \div Entries = y \div Entries /\ x % Entries = y % Entries
  BY Indices
<1> HIDE DEF x, y
<1>3. x = y
  BY <1>1, <1>2, Division
<1> QED BY <1>3 DEF x, y

\* The huge pages of the last loop lie in the friend memory as a whole.
LEMMA WholePage ==
  ASSUME NEW a \in Nat, NEW b \in HugePages, a \div k2MB = b \div k2MB
  PROVE  a \in Region
<1> DEFINE q == b \div k2MB
           e == DeployEnd \div k2MB
           r == a % k2MB
<1>1. /\ b \in Region /\ b \in Nat /\ b % k2MB = 0 /\ DeployStart <= b /\ b < DeployEnd
      /\ DeployStart \in Nat /\ DeployEnd \in Nat /\ DeployEnd % k2MB = 0 /\ k2MB \in Nat \ {0}
  BY InRegion, Sizes, LayoutAssumption DEF HugePages, Region
<1>2. q \in Nat /\ e \in Nat /\ r \in Nat /\ r < k2MB /\ a = k2MB * q + r
  BY <1>1, Division
<1>3. b = k2MB * q + (b % k2MB) /\ DeployEnd = k2MB * e + (DeployEnd % k2MB)
  BY <1>1, Division
<1> HIDE DEF q, e, r
<1>4. k2MB * q \in Nat /\ k2MB * e \in Nat
  BY <1>1, <1>2
<1>5. b = k2MB * q /\ DeployEnd = k2MB * e
  BY <1>1, <1>3, <1>4
<1>6. q < e
  <2>1. CASE e < q
    BY <1>1, <1>2, <1>5, <2>1, Apart
  <2>2. CASE e = q
    BY <1>1, <1>5, <2>2
  <2> QED BY <1>2, <2>1, <2>2
<1>7. k2MB * q + k2MB <= k2MB * e
  BY <1>1, <1>2, <1>6, Apart
<1> QED BY <1>1, <1>2, <1>4, <1>5, <1>7 DEF Region

\* When the tables have no other entries, nothing else is mapped below the end of
\* the top level entry.
LEMMA NothingElse ==
  ASSUME NEW t, MapsOnly(t),
         NEW a \in (k512GB * Pml4Index(DeployStart))..(k512GB * (Pml4Index(DeployStart) + 1) - 1),
         Walk(t, Pml4t, a) # Fault
  PROVE  a \in Region \/ a \div k2MB = TrampolineAddr \div k2MB
<1> DEFINE p == DeployStart \div k512GB
           r == a - k512GB * p
<1>1. /\ DeployStart \in Nat /\ DeployStart < k256TB /\ k512GB \in Nat \ {0}
      /\ TrampolineAddr \in Nat /\ TrampolineAddr < k256TB
  BY Sizes, LayoutAssumption
<1>2. p \in Nat /\ Pml4Index(DeployStart) = p
  BY <1>1, Division, TopLevel
<1>3. a \in Nat /\ a \div k512GB = p
  <2> HIDE DEF p
  <2>1. k512GB * p \in Nat /\ k512GB * (p + 1) = k512GB * p + k512GB /\ k512GB * (p + 1) \in Nat
    BY <1>1, <1>2
  <2>2. a \in k512GB * p..k512GB * (p + 1) - 1
    BY <1>2
  <2>3. a \in Nat /\ r \in Nat /\ r < k512GB /\ a = k512GB * p + r
    BY <1>1, <2>1, <2>2
  <2> HIDE DEF r
  <2> QED BY <1>1, <1>2, <2>3, Quotient
<1>4. TrampolineAddr \div k512GB = p
  BY Zenon, <1>1, TopLevel, LayoutAssumption DEF Pml4Index
<1>5. Pml4Index(a) = Pml4Index(DeployStart) /\ PdIndex(a) \in Index /\ PdptIndex(a) \in Index
  BY Zenon, <1>1, <1>3, Indices
<1>6. PdptWalk(t, Pdpt, a) # Fault
  BY <1>5 DEF Walk, MapsOnly, Maps, Pointer
<1>7. CASE PdptIndex(a) = PdptIndex(TrampolineAddr)
  <2>1. PdWalk(t, Pd1, a) # Fault
    BY <1>6, <1>7 DEF PdptWalk, MapsOnly, Maps, Pointer
  <2>2. PdIndex(a) = PdIndex(trampoline_aligned_addr)
    BY <1>5, <2>1 DEF PdWalk, MapsOnly, Empty
  <2>3. a \div k1GB = TrampolineAddr \div k1GB
    BY Zenon, <1>1, <1>3, <1>4, <1>7, Gigabytes
  <2>4. PdIndex(TrampolineAddr) = PdIndex(trampoline_aligned_addr)
    BY <1>1, InTrampoline
  <2> QED BY Zenon, <1>1, <1>3, <2>2, <2>3, <2>4, SamePage
<1>8. CASE PdptIndex(a) = PdptIndex(DeployStart)
  <2>1. PdWalk(t, Pd2, a) # Fault
    BY <1>6, <1>8 DEF PdptWalk, MapsOnly, Maps, Pointer
  <2>2. PICK b \in HugePages : PdIndex(b) = PdIndex(a)
    BY <1>5, <2>1 DEF PdWalk, MapsOnly, Empty
  <2>3. b \in Nat /\ b \div k1GB = DeployStart \div k1GB
    BY InRegion DEF HugePages, Region
  <2>4. a \div k1GB = DeployStart \div k1GB
    BY Zenon, <1>1, <1>3, <1>8, Gigabytes
  <2>5. a \div k2MB = b \div k2MB
    BY Zenon, <1>3, <2>2, <2>3, <2>4, SamePage
  <2> QED BY Zenon, <1>3, <2>5, WholePage
<1>9. CASE PdptIndex(a) \notin {PdptIndex(TrampolineAddr), PdptIndex(DeployStart)}
  BY <1>5, <1>6, <1>9 DEF PdptWalk, MapsOnly, Empty
<1> QED BY <1>7, <1>8, <1>9

\* The entries that are left to friend programs are not those of InitPageTables.
LEMMA SpareEntries ==
  ASSUME NEW t \in TableType, Maps(t), NEW x \in Tables, NEW k \in Spare(x)
  PROVE  [t EXCEPT ![x][k] = Junk] \in TableType /\ Maps([t EXCEPT ![x][k] = Junk])
<1> DEFINE b == [y \in Tables |-> Blank]
           v == InitPageTables(b)
           u == [t EXCEPT ![x][k] = Junk]
<1>1. b \in TableType
  <2>1. Empty \in TableEntry
    BY DEF Empty, TableEntry
  <2> QED BY <2>1 DEF TableType, Blank
<1>2. Maps(v)
  <2> HIDE DEF b
  <2> QED BY <1>1, InitTables
<1>3. k \in Index /\ v[x][k] = Empty
  BY DEF Spare
<1> HIDE DEF b, v
<1>4. Junk \in TableEntry
  BY DEF Junk, Huge, TableEntry
<1>5. u \in TableType
  BY <1>3, <1>4 DEF TableType
<1>6. ASSUME NEW y \in Tables, NEW j \in Index, v[y][j] # Empty
      PROVE  u[y][j] = t[y][j]
  BY Zenon, <1>3, <1>6 DEF TableType
<1>7. \A y : Pointer(y) # Empty /\ Huge(y) # Empty
  BY Zenon DEF Pointer, Huge, Empty
<1>8. /\ Pml4Index(DeployStart) \in Index /\ PdptIndex(TrampolineAddr) \in Index
      /\ PdptIndex(DeployStart) \in Index /\ PdIndex(trampoline_aligned_addr) \in Index
  BY Zenon, Sizes, Indices, InTrampoline
<1>9. \A a \in HugePages : PdIndex(a) \in Index
  BY Indices, InRegion DEF HugePages, Region
<1>10. Pml4t \in Tables /\ Pdpt \in Tables /\ Pd1 \in Tables /\ Pd2 \in Tables
  BY DEF Tables
<1> HIDE DEF u
<1>11. Maps(u)
  BY <1>2, <1>6, <1>7, <1>8, <1>9, <1>10 DEF Maps
<1> QED BY <1>5, <1>11 DEF u

-----------------------------------------------------------------------------
(* The friend memory *)

\* The n bytes of data are at address a, and the page tables among them are
\* cleared where the bytes are zero; everything else is as before.
Stores(a, n, data) ==
  /\ \A k \in 1..n : mem'[a + k - 1] = data[k]
  /\ \A b \in Cells : b \notin a..a + n - 1 => mem'[b] = mem[b]
  /\ \A t \in Tables : t \notin a..a + n - 1 => tables'[t] = tables[t]
  /\ \A t \in Tables : \A k \in 1..n : t = a + k - 1 /\ data[k] = "zero" => tables'[t] = Blank

\* The friend memory is among the addresses of the model.
LEMMA RegionCells == Region \subseteq Cells /\ Region \subseteq Int
  BY Sizes, BringupAssumption DEF Region, Cells

\* What a write leaves in memory, wherever it goes.
LEMMA PutWrites ==
  ASSUME mem \in [Cells -> Contents], tables \in TableType,
         NEW a \in Nat, NEW n \in Nat, NEW data \in [1..n -> {"zero", "image"}], Put(a, data)
  PROVE  /\ mem' \in [Cells -> Contents] /\ tables' \in TableType
         /\ mem' = [b \in Cells |-> IF b \in a..a + n - 1 THEN data[b - a + 1] ELSE mem[b]]
         /\ tables' = [t \in Tables |-> IF t \notin a..a + n - 1 THEN tables[t]
                                        ELSE IF data[t - a + 1] = "zero" THEN Blank
                                        ELSE [k \in Index |-> Junk]]
<1>1. Cells \subseteq Int /\ Tables \subseteq Int
  BY Sizes, BringupAssumption DEF Cells, Tables
<1>2. \A b \in Int : b - a + 1 \in DOMAIN data <=> b \in a..a + n - 1
  OBVIOUS
<1>3. mem' = [b \in Cells |-> IF b \in a..a + n - 1 THEN data[b - a + 1] ELSE mem[b]]
  BY <1>1, <1>2 DEF Put
<1>4. tables' = [t \in Tables |-> IF t \notin a..a + n - 1 THEN tables[t]
                                  ELSE IF data[t - a + 1] = "zero" THEN Blank
                                  ELSE [k \in Index |-> Junk]]
  BY <1>1, <1>2 DEF Put
<1>5. \A b \in a..a + n - 1 : b - a + 1 \in 1..n /\ data[b - a + 1] \in Contents
  BY DEF Contents
<1>6. mem' \in [Cells -> Contents]
  BY Zenon, <1>3, <1>5
<1>7. tables' \in TableType
  <2>1. Blank \in [Index -> TableEntry] /\ [k \in Index |-> Junk] \in [Index -> TableEntry]
    BY DEF Blank, Empty, Junk, Huge, TableEntry
  <2> QED BY <1>4, <2>1 DEF TableType
<1> QED BY Zenon, <1>3, <1>4, <1>6, <1>7

\* A write within the friend memory does what it is meant to and leaves the
\* program's other memory alone.
LEMMA PutInMemory ==
  ASSUME mem \in [Cells -> Contents], tables \in TableType, OwnMemoryUntouched, pc # "gone",
         NEW a \in Nat, NEW n \in Nat, NEW data \in [1..n -> {"zero", "image"}],
         a >= DeployStart, a + n <= DeployEnd, Put(a, data)
  PROVE  /\ mem' \in [Cells -> Contents] /\ tables' \in TableType /\ OwnMemoryUntouched'
         /\ Stores(a, n, data)
<1>1. DeployStart \in Nat /\ DeployEnd \in Nat /\ Cells \subseteq Int /\ Tables \subseteq Int
  BY Sizes, BringupAssumption DEF Cells, Tables
<1>2. /\ mem' \in [Cells -> Contents] /\ tables' \in TableType
      /\ mem' = [b \in Cells |-> IF b \in a..a + n - 1 THEN data[b - a + 1] ELSE mem[b]]
      /\ tables' = [t \in Tables |-> IF t \notin a..a + n - 1 THEN tables[t]
                                     ELSE IF data[t - a + 1] = "zero" THEN Blank
                                     ELSE [k \in Index |-> Junk]]
  BY PutWrites
<1>3. OwnMemoryUntouched'
  BY <1>1, <1>2 DEF OwnMemoryUntouched, Region
<1>4. \A k \in 1..n : a + k - 1 \in Region /\ a + k - 1 \in a..a + n - 1 /\ (a + k - 1) - a + 1 = k
  BY <1>1 DEF Region
<1>5. \A k \in 1..n : mem'[a + k - 1] = data[k]
  BY Zenon, <1>2, <1>4, RegionCells
<1>6. \A t \in Tables : \A k \in 1..n : t = a + k - 1 /\ data[k] = "zero" => tables'[t] = Blank
  BY <1>2, <1>4
<1> QED BY <1>2, <1>3, <1>5, <1>6 DEF Stores

\* A program killed by a write that reaches the end of the address space.
LEMMA OverrunEnds ==
  ASSUME mem \in [Cells -> Contents], tables \in TableType,
         NEW a \in Nat, NEW l \in Nat, NEW data \in [1..l -> {"zero", "image"}], Len(data) = l,
         Overrun(a, data)
  PROVE  mem' \in [Cells -> Contents] /\ tables' \in TableType /\ Ends
<1>1. PICK n \in 0..l : Put(a, [k \in 1..n |-> data[k]])
  BY Zenon DEF Overrun
<1>2. n \in Nat /\ [k \in 1..n |-> data[k]] \in [1..n -> {"zero", "image"}]
  OBVIOUS
<1>3. mem' \in [Cells -> Contents] /\ tables' \in TableType
  BY Zenon, <1>1, <1>2, PutWrites
<1> QED BY Zenon, <1>3 DEF Overrun

\* The loader's test of an address range.
LEMMA InsideRegion ==
  ASSUME NEW v \in Nat, NEW n \in Nat, v + n < AddressSpace, CheckMemoryRegion(v, n)
  PROVE  v >= DeployStart /\ v + n <= DeployEnd
<1> DEFINE e == v + n
<1>1. e \in Nat /\ AddressSpace \in Nat \ {0} /\ e < AddressSpace /\ e = AddressSpace * 0 + e
  BY BringupAssumption
<1>2. e % AddressSpace = e
  <2> HIDE DEF e
  <2> QED BY <1>1, Quotient
<1> QED BY <1>2, Sizes DEF CheckMemoryRegion

\* The bytes of a segment that fits are in the friend memory.
LEMMA Within ==
  ASSUME NEW v \in Nat, NEW n \in Nat, NEW k \in 1..n, v >= DeployStart, v + n <= DeployEnd
  PROVE  v + k - 1 \in Region
  BY Sizes DEF Region

\* The bytes of a segment are not those of one that does not overlap it.
LEMMA NoOverlap ==
  ASSUME NEW v \in Nat, NEW n \in Nat, NEW s \in Nat, n <= s, NEW k \in 1..n,
         NEW w \in Nat, NEW l \in Nat, NEW z \in Nat, l <= z, v + s <= w \/ w + z <= v
  PROVE  v + k - 1 \notin w..w + l - 1
  OBVIOUS

\* What a friend binary is made of.
LEMMA ImageParts ==
  ASSUME NEW m \in Images
  PROVE  /\ m.elf \in BOOLEAN /\ m.exec \in BOOLEAN /\ m.entry \in Int
         /\ Len(m.phdrs) \in Nat /\ DOMAIN m.phdrs = 1..Len(m.phdrs)
         /\ Len(m.shdrs) \in Nat /\ DOMAIN m.shdrs = 1..Len(m.shdrs)
         /\ \A k \in DOMAIN m.phdrs :
              /\ m.phdrs[k].load \in BOOLEAN /\ m.phdrs[k].vaddr \in Nat /\ m.phdrs[k].memsz \in Nat
              /\ Len(m.phdrs[k].data) \in Nat /\ m.phdrs[k].memsz >= Len(m.phdrs[k].data)
              /\ m.phdrs[k].data \in [1..Len(m.phdrs[k].data) -> {"zero", "image"}]
         /\ \A k \in DOMAIN m.shdrs :
              m.shdrs[k].bss \in BOOLEAN /\ m.shdrs[k].addr \in Nat /\ m.shdrs[k].size \in Nat
<1>1. ImageOK(m)
  BY BringupAssumption
<1>2. /\ m.elf \in BOOLEAN /\ m.exec \in BOOLEAN /\ m.entry \in Int
      /\ m.phdrs \in Seq(Phdr) /\ m.shdrs \in Seq(Shdr)
      /\ \A k \in DOMAIN m.phdrs : m.phdrs[k].memsz >= Len(m.phdrs[k].data)
  BY Zenon, <1>1 DEF ImageOK
<1>3. /\ Len(m.phdrs) \in Nat /\ DOMAIN m.phdrs = 1..Len(m.phdrs)
      /\ Len(m.shdrs) \in Nat /\ DOMAIN m.shdrs = 1..Len(m.shdrs)
      /\ \A k \in DOMAIN m.phdrs : m.phdrs[k] \in Phdr
      /\ \A k \in DOMAIN m.shdrs : m.shdrs[k] \in Shdr
  BY <1>2
<1>4. \A h \in Phdr :
         /\ h.load \in BOOLEAN /\ h.vaddr \in Nat /\ h.memsz \in Nat /\ Len(h.data) \in Nat
         /\ h.data \in [1..Len(h.data) -> {"zero", "image"}]
  BY DEF Phdr
<1>5. \A h \in Shdr : h.bss \in BOOLEAN /\ h.addr \in Nat /\ h.size \in Nat
  BY Zenon DEF Shdr
<1> QED BY Zenon, <1>2, <1>3, <1>4, <1>5

\* The entry of a linked binary is in the friend memory.
LEMMA EntryInRegion ==
  ASSUME NEW m \in Images, Fits(m), Linked(m)
  PROVE  m.entry \in Region
<1>1. PICK k \in DOMAIN m.phdrs : m.phdrs[k].load /\ \E n \in DOMAIN m.phdrs[k].data :
        m.entry = m.phdrs[k].vaddr + n - 1
  BY DEF Linked
<1>2. m.phdrs[k].vaddr >= DeployStart /\ m.phdrs[k].vaddr + Len(m.phdrs[k].data) <= DeployEnd
  BY <1>1 DEF Fits
<1>3. /\ m.phdrs[k].vaddr \in Nat /\ Len(m.phdrs[k].data) \in Nat
      /\ DOMAIN m.phdrs[k].data = 1..Len(m.phdrs[k].data)
  BY ImageParts
<1>4. PICK n \in 1..Len(m.phdrs[k].data) : m.entry = m.phdrs[k].vaddr + n - 1
  BY Zenon, <1>1, <1>3
<1> QED BY Zenon, <1>2, <1>3, <1>4, Within

-----------------------------------------------------------------------------
(* Hakase's steps *)

\* Until the friend memory is ready no core has been started, and the cores of a
\* program that ends are taken back.
LEMMA CoresOff ==
  ASSUME Types, \A c \in Cores : Prepared(c), Ends \/ (pc # "ready" /\ cpu' = cpu)
  PROVE  cpu' \in [Cores -> Registers] /\ \A c \in Cores : Prepared(c)'
<1>1. CASE Ends
  <2>1. cpu' = [c \in Cores |-> Off]
    BY Zenon, <1>1 DEF Ends
  <2>2. Off \in Registers
    BY DEF Off, Registers, Stages
  <2> QED BY <2>1, <2>2 DEF Prepared, Off
<1>2. CASE pc # "ready" /\ cpu' = cpu
  <2>1. \A c \in Cores : cpu[c].at = "off"
    BY <1>2 DEF Prepared
  <2> QED BY Zenon, <1>2, <2>1 DEF Types, Prepared
<1> QED BY <1>1, <1>2

\* A program that ends, or has not got to the loader, promises nothing but that
\* the program's own memory is untouched while it runs.
LEMMA Early ==
  ASSUME Inv, i' \in Nat, image' \in Images,
         mem' \in [Cells -> Contents], tables' \in TableType,
         \/ Ends
         \/ /\ pc # "ready" /\ cpu' = cpu /\ pc' \in {"version", "bootparam", "mmap", "header"}
            /\ OwnMemoryUntouched'
  PROVE  Inv'
<1>1. pc' \in {"gone", "version", "bootparam", "mmap", "header"}
  BY DEF Ends
<1>2. cpu' \in [Cores -> Registers] /\ \A c \in Cores : Prepared(c)'
  BY Zenon, CoresOff DEF Inv, Starting
<1>3. Types'
  BY Zenon, <1>1, <1>2 DEF Types
<1>4. Checked' /\ Mapping'
  BY Zenon, <1>1 DEF Checked, Mapping
<1>5. Deployed'
  BY <1>1 DEF Deployed, DeployedImage
<1>6. Starting'
  BY <1>1, <1>2 DEF Starting
<1>7. OwnMemoryUntouched'
  BY Zenon DEF Ends, OwnMemoryUntouched
<1> QED BY Zenon, <1>3, <1>4, <1>5, <1>6, <1>7 DEF Inv

\* The invariant holds at power-on.
LEMMA InitInv ==
  ASSUME Init
  PROVE  Inv
<1>1. pc = "gone" /\ i \in Nat /\ image \in Images
  BY DEF Init
<1>2. mem \in [Cells -> Contents] /\ OwnMemoryUntouched
  BY DEF Init, Contents, OwnMemoryUntouched
<1>3. tables \in TableType
  <2>1. Blank \in [Index -> TableEntry] /\ [k \in Index |-> Junk] \in [Index -> TableEntry]
    BY DEF Blank, Empty, Junk, Huge, TableEntry
  <2> QED BY <2>1 DEF Init, TableType
<1>4. cpu \in [Cores -> Registers] /\ \A c \in Cores : Prepared(c)
  <2>1. cpu = [c \in Cores |-> Off] /\ Off \in Registers
    BY DEF Init, Off, Registers, Stages
  <2> QED BY Zenon, <2>1 DEF Prepared, Off
<1>5. Types
  BY Zenon, <1>1, <1>2, <1>3, <1>4 DEF Types
<1>6. Checked /\ Mapping
  BY Zenon, <1>1 DEF Checked, Mapping
<1>7. Deployed
  BY Zenon, <1>1 DEF Deployed, DeployedImage
<1>8. Starting
  BY <1>1, <1>4 DEF Starting
<1> QED BY Zenon, <1>2, <1>5, <1>6, <1>7, <1>8 DEF Inv

\* The steps up to the loader, and those that end the program.
LEMMA EarlySteps ==
  ASSUME Inv, Exec \/ Exit \/ check_version \/ check_bootparam \/ mmap_friend_mem
  PROVE  Inv'
<1>1. /\ i \in Nat /\ image \in Images /\ OwnMemoryUntouched
      /\ mem \in [Cells -> Contents] /\ tables \in TableType
  BY DEF Inv, Types
<1>2. CASE Exec
  <2>1. /\ i' = i /\ image' \in Images /\ tables' = tables /\ cpu' = cpu /\ pc = "gone" /\ pc' = "version"
        /\ mem' = [a \in Cells |-> IF a \in Region THEN mem[a] ELSE "own"]
    BY Zenon, <1>2 DEF Exec, Goto
  <2>2. mem' \in [Cells -> Contents] /\ OwnMemoryUntouched'
    BY <1>1, <2>1 DEF Contents, OwnMemoryUntouched
  <2>3. pc # "ready" /\ pc' \in {"version", "bootparam", "mmap", "header"}
    BY <2>1
  <2> QED BY Zenon, <1>1, <2>1, <2>2, <2>3, Early
<1>3. CASE Exit \/ check_version \/ check_bootparam
  <2>1. i' = i /\ image' \in Images /\ mem' = mem /\ tables' = tables
    BY Zenon, <1>1, <1>3 DEF Exit, check_version, check_bootparam
  <2>2. \/ Ends
        \/ /\ pc # "ready" /\ cpu' = cpu /\ pc' \in {"version", "bootparam", "mmap", "header"}
           /\ pc # "gone"
    BY <1>3 DEF Exit, check_version, check_bootparam, Goto
  <2>3. pc # "gone" => OwnMemoryUntouched'
    BY Zenon, <1>1, <2>1 DEF OwnMemoryUntouched
  <2> QED BY Zenon, <1>1, <2>1, <2>2, <2>3, Early
<1>4. CASE mmap_friend_mem
  <2>1. pc = "mmap" /\ i' = i /\ image' = image
    BY <1>4 DEF mmap_friend_mem
  <2>2. CASE Ends /\ UNCHANGED <<mem, tables>>
    BY Zenon, <1>1, <2>1, <2>2, Early
  <2>3. CASE Goto("header") /\ Put(DeployStart, Zeros(ClearSize))
    <3>1. Zeros(ClearSize) \in [1..ClearSize -> {"zero", "image"}]
      BY Zenon DEF Zeros
    <3>2. /\ DeployStart \in Nat /\ ClearSize \in Nat /\ DeployStart >= DeployStart
          /\ DeployStart + ClearSize <= DeployEnd
      BY Sizes, BringupAssumption
    <3>3. mem' \in [Cells -> Contents] /\ tables' \in TableType /\ OwnMemoryUntouched'
      <4>1. pc # "gone"
        BY <2>1
      <4> QED BY Zenon, <1>1, <2>3, <3>1, <3>2, <4>1, PutInMemory
    <3>4. pc # "ready" /\ cpu' = cpu /\ pc' \in {"version", "bootparam", "mmap", "header"}
      BY <2>1, <2>3 DEF Goto
    <3> QED BY Zenon, <1>1, <2>1, <3>3, <3>4, Early
  <2> QED BY Zenon, <1>4, <2>2, <2>3 DEF mmap_friend_mem
<1> QED BY <1>2, <1>3, <1>4

\* While the loader works it answers for what it has checked and deployed only.
LEMMA Deploying ==
  ASSUME Inv, pc # "ready", cpu' = cpu, pc' \in {"phdr", "shdr", "loader16"},
         i' \in Nat, image' \in Images, mem' \in [Cells -> Contents], tables' \in TableType,
         OwnMemoryUntouched', Checked', Deployed'
  PROVE  Inv'
<1>1. cpu' \in [Cores -> Registers] /\ \A c \in Cores : Prepared(c)'
  BY Zenon, CoresOff DEF Inv, Starting
<1>2. Types'
  BY Zenon, <1>1 DEF Types
<1>3. Mapping' /\ Starting'
  BY Zenon, <1>1 DEF Mapping, Starting
<1> QED BY Zenon, <1>2, <1>3 DEF Inv

\* DeployHeader and PhdrsDone.
LEMMA DeployLoops ==
  ASSUME Inv, DeployHeader \/ PhdrsDone
  PROVE  Inv'
<1>1. /\ i \in Nat /\ image \in Images /\ OwnMemoryUntouched
      /\ mem \in [Cells -> Contents] /\ tables \in TableType
  BY DEF Inv, Types
<1>2. i' = 0 /\ image' = image /\ mem' = mem /\ tables' = tables
  BY Zenon DEF DeployHeader, PhdrsDone
<1>3. /\ Len(image.phdrs) \in Nat /\ DOMAIN image.phdrs = 1..Len(image.phdrs)
      /\ Len(image.shdrs) \in Nat /\ DOMAIN image.shdrs = 1..Len(image.shdrs)
  BY Zenon, <1>1, ImageParts
<1>4. OwnMemoryUntouched'
  <2>1. pc # "gone"
    BY DEF DeployHeader, PhdrsDone
  <2> QED BY Zenon, <1>1, <1>2, <2>1 DEF OwnMemoryUntouched
<1>5. CASE DeployHeader /\ Ends
  BY Zenon, <1>1, <1>2, <1>5, Early
<1>6. CASE DeployHeader /\ image.elf /\ image.exec /\ Goto("phdr")
  <2>1. pc = "header" /\ pc' = "phdr" /\ cpu' = cpu
    BY Zenon, <1>6 DEF DeployHeader, Goto
  <2>2. Checked'
    BY <1>2, <1>3, <1>6, <2>1 DEF Checked
  <2>3. Deployed'
    BY <1>2, <1>3, <2>1 DEF Deployed, DeployedImage
  <2> QED BY Zenon, <1>1, <1>2, <1>4, <2>1, <2>2, <2>3, Deploying
<1>7. CASE PhdrsDone
  <2>1. pc = "phdr" /\ pc' = "shdr" /\ cpu' = cpu /\ \A n \in DOMAIN image.phdrs : n <= i
    BY <1>1, <1>3, <1>7 DEF PhdrsDone, Goto
  <2>2. Checked'
    <3>1. image.elf /\ image.exec /\ \A n \in DOMAIN image.phdrs : FitsPhdr(n)
      BY Zenon, <2>1 DEF Inv, Checked
    <3> QED BY <1>2, <1>3, <2>1, <3>1 DEF Checked, FitsPhdr
  <2>3. Deployed'
    <3>1. Linked(image) => \A n \in DOMAIN image.phdrs : Loaded(n)
      BY Zenon, <2>1 DEF Inv, Deployed
    <3> QED BY <1>2, <1>3, <2>1, <3>1 DEF Deployed, DeployedImage, Loaded
  <2> QED BY Zenon, <1>1, <1>2, <1>4, <2>1, <2>2, <2>3, Deploying
<1> QED BY Zenon, <1>5, <1>6, <1>7 DEF DeployHeader

\* One program header: what was loaded before stays, since segments do not overlap.
LEMMA DeployPhdrStep ==
  ASSUME Inv, DeployPhdr
  PROVE  Inv'
<1> DEFINE h == image.phdrs[i + 1]
           l == Len(h.data)
<1>1. /\ i \in Nat /\ image \in Images /\ OwnMemoryUntouched
      /\ mem \in [Cells -> Contents] /\ tables \in TableType
  BY Zenon DEF Inv, Types
<1>2. pc = "phdr" /\ i' = i + 1 /\ i' \in Nat /\ image' = image /\ i < Len(image.phdrs)
  <2>1. pc = "phdr" /\ i' = i + 1 /\ image' = image /\ i < Len(image.phdrs)
    BY Zenon DEF DeployPhdr
  <2> QED BY <1>1, <2>1
<1>3. Len(image.phdrs) \in Nat /\ DOMAIN image.phdrs = 1..Len(image.phdrs)
  BY Zenon, <1>1, ImageParts
<1>4. i + 1 \in DOMAIN image.phdrs /\ \A n \in DOMAIN image.phdrs : n <= i + 1 => n <= i \/ n = i + 1
  BY <1>1, <1>2, <1>3
<1>5. h.load \in BOOLEAN /\ h.vaddr \in Nat /\ l \in Nat /\ h.data \in [1..l -> {"zero", "image"}]
  BY Zenon, <1>1, <1>4, ImageParts
<1>6. CASE /\ h.load /\ CheckMemoryRegion(h.vaddr, l) /\ ~Overruns(h.vaddr, l)
           /\ Put(h.vaddr, h.data) /\ Goto("phdr")
  <2>1. pc' = "phdr" /\ cpu' = cpu
    BY Zenon, <1>6 DEF Goto
  <2>2. h.vaddr >= DeployStart /\ h.vaddr + l <= DeployEnd
    <3> HIDE DEF h, l
    <3>1. CheckMemoryRegion(h.vaddr, l) /\ h.vaddr + l < AddressSpace
      BY <1>5, <1>6, BringupAssumption DEF Overruns
    <3> QED BY Zenon, <1>5, <3>1, InsideRegion
  <2>3. /\ mem' \in [Cells -> Contents] /\ tables' \in TableType /\ OwnMemoryUntouched'
        /\ Stores(h.vaddr, l, h.data)
    <3>1. pc # "gone"
      BY <1>2
    <3> HIDE DEF h, l
    <3> QED BY Zenon, <1>1, <1>5, <1>6, <2>2, <3>1, PutInMemory
  <2>4. Checked'
    <3>1. FitsPhdr(i + 1)
      BY <2>2 DEF FitsPhdr
    <3>2. \A n \in DOMAIN image.phdrs : n <= i + 1 => FitsPhdr(n)
      BY Zenon, <1>2, <1>4, <3>1 DEF Inv, Checked
    <3>3. image.elf /\ image.exec
      BY Zenon, <1>2 DEF Inv, Checked
    <3> QED BY <1>2, <2>1, <3>2, <3>3 DEF Checked, FitsPhdr
  <2>5. ASSUME Linked(image), NEW n \in DOMAIN image.phdrs, n <= i + 1
        PROVE  Loaded(n)'
    <3>1. CASE n = i + 1
      BY Zenon, <1>2, <2>3, <3>1 DEF Loaded, Stores
    <3>2. CASE n # i + 1 /\ image.phdrs[n].load
      <4> DEFINE g == image.phdrs[n]
                 o == Len(g.data)
      <4>1. n <= i /\ Loaded(n) /\ FitsPhdr(n)
        BY <1>2, <1>4, <2>5, <3>2 DEF Inv, Deployed, Checked
      <4>2. g.vaddr \in Nat /\ o \in Nat /\ g.memsz \in Nat /\ g.memsz >= o
        BY <1>1, ImageParts
      <4>3. h.memsz \in Nat /\ h.memsz >= l
        BY Zenon, <1>1, <1>4, ImageParts
      <4>4. g.vaddr + g.memsz <= h.vaddr \/ h.vaddr + h.memsz <= g.vaddr
        BY Zenon, <1>4, <1>6, <2>5, <3>2 DEF Linked
      <4>5. g.vaddr >= DeployStart /\ g.vaddr + o <= DeployEnd
        BY Zenon, <3>2, <4>1 DEF FitsPhdr
      <4> SUFFICES ASSUME NEW k \in 1..o PROVE mem'[g.vaddr + k - 1] = g.data[k]
        BY Zenon, <1>2 DEF Loaded
      <4>6. mem[g.vaddr + k - 1] = g.data[k]
        BY Zenon, <3>2, <4>1 DEF Loaded
      <4> HIDE DEF g, o, h, l
      <4>7. g.vaddr + k - 1 \notin h.vaddr..h.vaddr + l - 1
        BY Zenon, <1>5, <4>2, <4>3, <4>4, NoOverlap
      <4>8. g.vaddr + k - 1 \in Region
        BY <4>2, <4>5, Within
      <4> QED BY Zenon, <2>3, <4>6, <4>7, <4>8, RegionCells DEF Stores
    <3>3. CASE ~image.phdrs[n].load
      BY <1>2, <3>3 DEF Loaded
    <3> QED BY Zenon, <3>1, <3>2, <3>3
  <2>6. Deployed'
    BY Zenon, <1>2, <2>1, <2>5 DEF Deployed, DeployedImage
  <2> QED BY Zenon, <1>1, <1>2, <2>1, <2>3, <2>4, <2>6, Deploying
<1>7. CASE Ends /\ UNCHANGED <<mem, tables>>
  BY Zenon, <1>1, <1>2, <1>7, Early
<1>8. CASE ~h.load /\ Goto("phdr") /\ UNCHANGED <<mem, tables>>
  <2>1. pc' = "phdr" /\ cpu' = cpu /\ mem' = mem
    BY Zenon, <1>8 DEF Goto
  <2>2. OwnMemoryUntouched'
    BY <1>1, <1>2, <2>1 DEF OwnMemoryUntouched
  <2>3. FitsPhdr(i + 1) /\ Loaded(i + 1)
    BY Zenon, <1>8 DEF FitsPhdr, Loaded
  <2>4. Checked'
    BY Zenon, <1>2, <1>4, <2>1, <2>3 DEF Inv, Checked, FitsPhdr
  <2>5. Deployed'
    <3>1. Linked(image) => \A n \in DOMAIN image.phdrs : n <= i + 1 => Loaded(n)
      BY Zenon, <1>2, <1>4, <2>3 DEF Inv, Deployed
    <3> QED BY Zenon, <1>2, <2>1, <3>1 DEF Deployed, DeployedImage, Loaded
  <2> QED BY Zenon, <1>1, <1>2, <1>8, <2>1, <2>2, <2>4, <2>5, Deploying
<1>9. CASE Overrun(h.vaddr, h.data)
  <2>1. mem' \in [Cells -> Contents] /\ tables' \in TableType /\ Ends
    BY Zenon, <1>1, <1>5, <1>9, OverrunEnds
  <2> QED BY Zenon, <1>1, <1>2, <2>1, Early
<1> QED BY Zenon, <1>6, <1>7, <1>8, <1>9 DEF DeployPhdr

\* One section header: clearing .bss leaves what was loaded, since the file has no
\* other bytes there than zeros.
LEMMA DeployShdrStep ==
  ASSUME Inv, DeployShdr
  PROVE  Inv'
<1> DEFINE h == image.shdrs[i + 1]
<1>1. /\ i \in Nat /\ image \in Images /\ OwnMemoryUntouched
      /\ mem \in [Cells -> Contents] /\ tables \in TableType
  BY DEF Inv, Types
<1>2. pc = "shdr" /\ i' = i + 1 /\ i' \in Nat /\ image' = image /\ i < Len(image.shdrs)
  <2>1. pc = "shdr" /\ i' = i + 1 /\ image' = image /\ i < Len(image.shdrs)
    BY Zenon DEF DeployShdr
  <2> QED BY <1>1, <2>1
<1>3. Len(image.shdrs) \in Nat /\ DOMAIN image.shdrs = 1..Len(image.shdrs)
  BY Zenon, <1>1, ImageParts
<1>4. i + 1 \in DOMAIN image.shdrs /\ \A n \in DOMAIN image.shdrs : n <= i + 1 => n <= i \/ n = i + 1
  BY <1>1, <1>2, <1>3
<1>5. h.bss \in BOOLEAN /\ h.addr \in Nat /\ h.size \in Nat
  BY Zenon, <1>1, <1>4, ImageParts
<1>6. /\ image.elf /\ image.exec /\ \A n \in DOMAIN image.phdrs : FitsPhdr(n)
      /\ \A n \in DOMAIN image.shdrs : n <= i => FitsShdr(n) /\ Cleared(n) /\ Blanked(n)
      /\ Linked(image) => \A n \in DOMAIN image.phdrs : Loaded(n)
  BY Zenon, <1>2 DEF Inv, Checked, Deployed
<1>7. CASE /\ h.bss /\ CheckMemoryRegion(h.addr, h.size) /\ ~Overruns(h.addr, h.size)
           /\ Put(h.addr, Zeros(h.size)) /\ Goto("shdr")
  <2>1. pc' = "shdr" /\ cpu' = cpu
    BY Zenon, <1>7 DEF Goto
  <2>2. h.addr >= DeployStart /\ h.addr + h.size <= DeployEnd
    <3> HIDE DEF h
    <3>1. CheckMemoryRegion(h.addr, h.size) /\ h.addr + h.size < AddressSpace
      BY <1>5, <1>7, BringupAssumption DEF Overruns
    <3> QED BY Zenon, <1>5, <3>1, InsideRegion
  <2>3. Zeros(h.size) \in [1..h.size -> {"zero", "image"}] /\ \A k \in 1..h.size : Zeros(h.size)[k] = "zero"
    BY DEF Zeros
  <2>4. /\ mem' \in [Cells -> Contents] /\ tables' \in TableType /\ OwnMemoryUntouched'
        /\ Stores(h.addr, h.size, Zeros(h.size))
    <3>1. pc # "gone"
      BY <1>2
    <3> HIDE DEF h
    <3> QED BY Zenon, <1>1, <1>5, <1>7, <2>2, <2>3, <3>1, PutInMemory
  <2>5. /\ \A a \in Section(i + 1) : mem'[a] = "zero"
        /\ \A a \in Cells : a \notin Section(i + 1) => mem'[a] = mem[a]
        /\ \A t \in Tables : t \notin Section(i + 1) => tables'[t] = tables[t]
        /\ \A t \in Tables : t \in Section(i + 1) => tables'[t] = Blank
    <3>1. \A a \in Section(i + 1) : a - h.addr + 1 \in 1..h.size /\ a = h.addr + (a - h.addr + 1) - 1
      BY <1>5 DEF Section
    <3>2. Section(i + 1) = h.addr..h.addr + h.size - 1
      BY DEF Section
    <3> HIDE DEF h
    <3> QED BY ZenonT(40), <2>3, <2>4, <3>1, <3>2 DEF Stores
  <2>6. FitsShdr(i + 1)
    BY <2>2 DEF FitsShdr
  <2>7. Checked'
    <3>1. \A n \in DOMAIN image.shdrs : n <= i + 1 => FitsShdr(n)
      BY <1>4, <1>6, <2>6
    <3> QED BY <1>2, <1>6, <2>1, <3>1 DEF Checked, FitsPhdr, FitsShdr
  <2>8. ASSUME NEW n \in DOMAIN image.shdrs, n <= i + 1, image.shdrs[n].bss, NEW a \in Section(n)
        PROVE  mem'[a] = "zero" /\ (a \in Tables => tables'[a] = Blank)
    <3>1. CASE a \in Section(i + 1)
      BY <2>5, <3>1
    <3>2. CASE a \notin Section(i + 1)
      <4>1. FitsShdr(n) /\ Cleared(n) /\ Blanked(n)
        BY Zenon, <1>4, <1>6, <2>8, <3>2
      <4>2. image.shdrs[n].addr \in Nat /\ image.shdrs[n].size \in Nat
        BY Zenon, <1>1, ImageParts
      <4>3. a \in Region
        BY <2>8, <4>1, <4>2, Sizes DEF FitsShdr, Section, Region
      <4> QED BY <2>5, <2>8, <3>2, <4>1, <4>3, RegionCells DEF Cleared, Blanked
    <3> QED BY <3>1, <3>2
  <2>9. \A n \in DOMAIN image.shdrs : n <= i + 1 => Cleared(n)' /\ Blanked(n)'
    BY Zenon, <1>2, <2>8 DEF Cleared, Blanked, Section
  <2>10. ASSUME Linked(image), NEW n \in DOMAIN image.phdrs
         PROVE  Loaded(n)'
    <3> DEFINE g == image.phdrs[n]
    <3>1. SUFFICES ASSUME g.load, NEW k \in 1..Len(g.data)
                   PROVE  mem'[g.vaddr + k - 1] = g.data[k]
      BY Zenon, <1>2 DEF Loaded
    <3>2. g.vaddr \in Nat /\ Len(g.data) \in Nat /\ g.memsz \in Nat /\ g.memsz >= Len(g.data)
      BY Zenon, <1>1, ImageParts
    <3>3. CASE g.vaddr + k - 1 \in Section(i + 1)
      <4>1. InBss(image, g.vaddr + k - 1)
        BY Zenon, <1>4, <1>7, <3>3 DEF InBss, Section
      <4>2. k \in 1..g.memsz /\ ~(k > Len(g.data))
        BY <3>2
      <4>3. g.data[k] = "zero"
        BY Zenon, <2>10, <3>1, <4>1, <4>2 DEF Linked
      <4> QED BY Zenon, <2>5, <3>3, <4>3
    <3>4. CASE g.vaddr + k - 1 \notin Section(i + 1)
      <4>1. g.vaddr + k - 1 \in Region
        <5>1. g.vaddr >= DeployStart /\ g.vaddr + Len(g.data) <= DeployEnd
          BY <1>6, <3>1 DEF FitsPhdr
        <5> HIDE DEF g
        <5> QED BY Zenon, <3>2, <5>1, Within
      <4>2. mem[g.vaddr + k - 1] = g.data[k]
        BY Zenon, <1>6, <2>10, <3>1 DEF Loaded
      <4> HIDE DEF g
      <4> QED BY Zenon, <2>5, <3>4, <4>1, <4>2, RegionCells
    <3> QED BY Zenon, <3>3, <3>4
  <2>11. Deployed'
    BY Zenon, <1>2, <2>1, <2>9, <2>10 DEF Deployed, DeployedImage
  <2> QED BY Zenon, <1>1, <1>2, <2>1, <2>4, <2>7, <2>11, Deploying
<1>8. CASE Ends /\ UNCHANGED <<mem, tables>>
  BY Zenon, <1>1, <1>2, <1>8, Early
<1>9. CASE ~h.bss /\ Goto("shdr") /\ UNCHANGED <<mem, tables>>
  <2>1. pc' = "shdr" /\ cpu' = cpu /\ mem' = mem /\ tables' = tables
    BY Zenon, <1>9 DEF Goto
  <2>2. OwnMemoryUntouched'
    BY <1>1, <1>2, <2>1 DEF OwnMemoryUntouched
  <2>3. FitsShdr(i + 1) /\ Cleared(i + 1) /\ Blanked(i + 1)
    BY Zenon, <1>9 DEF FitsShdr, Cleared, Blanked
  <2>4. \A n \in DOMAIN image.shdrs : n <= i + 1 => FitsShdr(n) /\ Cleared(n) /\ Blanked(n)
    BY Zenon, <1>4, <1>6, <2>3
  <2>5. Checked'
    BY Zenon, <1>2, <1>6, <2>1, <2>4 DEF Checked, FitsPhdr, FitsShdr
  <2>6. Deployed'
    BY ZenonT(40), <1>2, <1>6, <2>1, <2>4 DEF Deployed, DeployedImage, Loaded, Cleared, Blanked, Section
  <2> QED BY Zenon, <1>1, <1>2, <2>1, <2>2, <2>5, <2>6, Deploying
<1>10. CASE Overrun(h.addr, Zeros(h.size))
  <2>1. Zeros(h.size) \in [1..h.size -> {"zero", "image"}] /\ Len(Zeros(h.size)) = h.size
    BY <1>5 DEF Zeros
  <2>2. mem' \in [Cells -> Contents] /\ tables' \in TableType /\ Ends
    <3> HIDE DEF h
    <3> QED BY Zenon, <1>1, <1>5, <1>10, <2>1, OverrunEnds
  <2> QED BY Zenon, <1>1, <1>2, <2>2, Early
<1> QED BY Zenon, <1>7, <1>8, <1>9, <1>10 DEF DeployShdr

\* When Deploy returns true the binary has passed all checks, so it is linked as
\* friend.ld says.
LEMMA ShdrsDoneStep ==
  ASSUME Inv, ShdrsDone
  PROVE  Inv'
<1>1. /\ i \in Nat /\ image \in Images /\ OwnMemoryUntouched
      /\ mem \in [Cells -> Contents] /\ tables \in TableType
  BY DEF Inv, Types
<1>2. /\ pc = "shdr" /\ pc' = "loader16" /\ cpu' = cpu /\ i' = i /\ image' = image
      /\ mem' = mem /\ tables' = tables
  BY DEF ShdrsDone, Goto
<1>3. \A n \in DOMAIN image.shdrs : n <= i
  BY <1>1, ImageParts DEF ShdrsDone
<1>4. /\ image.elf /\ image.exec /\ \A n \in DOMAIN image.phdrs : FitsPhdr(n)
      /\ \A n \in DOMAIN image.shdrs : FitsShdr(n) /\ Cleared(n) /\ Blanked(n)
      /\ Linked(image) => \A n \in DOMAIN image.phdrs : Loaded(n)
  BY Zenon, <1>2, <1>3 DEF Inv, Checked, Deployed
<1>5. Fits(image) /\ Linked(image)
  <2>1. Fits(image)
    BY Zenon, <1>4 DEF Fits, FitsPhdr, FitsShdr
  <2> QED BY Zenon, <1>1, <1>4, <2>1, BringupAssumption
<1>6. OwnMemoryUntouched'
  BY <1>1, <1>2 DEF OwnMemoryUntouched
<1>7. Checked'
  BY Zenon, <1>2, <1>5 DEF Checked
<1>8. Deployed'
  BY ZenonT(40), <1>2, <1>4 DEF Deployed, DeployedImage, Loaded, Cleared, Blanked, Section
<1> QED BY <1>1, <1>2, <1>6, <1>7, <1>8, Deploying

\* The trampoline gets the entry of the binary.
LEMMA InstallTrampolineStep ==
  ASSUME Inv, InstallTrampoline
  PROVE  Inv'
<1>1. /\ i \in Nat /\ image \in Images /\ OwnMemoryUntouched
      /\ mem \in [Cells -> Contents] /\ tables \in TableType
  BY DEF Inv, Types
<1>2. pc = "loader16" /\ i' = i /\ image' = image /\ mem' = mem /\ tables' = tables
  BY DEF InstallTrampoline
<1>3. OwnMemoryUntouched'
  BY <1>1, <1>2 DEF OwnMemoryUntouched
<1>4. CASE Ends
  BY Zenon, <1>1, <1>2, <1>3, <1>4, Early
<1>5. CASE Goto("tables") /\ code' = TRUE /\ addr' = image.entry
  <2>1. pc' = "tables" /\ cpu' = cpu
    BY <1>5 DEF Goto
  <2>2. cpu' \in [Cores -> Registers] /\ \A c \in Cores : Prepared(c)'
    BY <1>2, <2>1, CoresOff DEF Inv, Starting
  <2>3. Types'
    BY Zenon, <1>1, <1>2, <2>1, <2>2 DEF Types
  <2>4. Checked'
    BY Zenon, <1>2, <2>1 DEF Inv, Checked
  <2>5. Deployed'
    BY ZenonT(40), <1>2, <2>1 DEF Inv, Deployed, DeployedImage, Loaded, Cleared, Blanked, Section
  <2>6. Mapping'
    BY <2>1 DEF Mapping
  <2>7. Starting'
    BY <1>2, <1>5, <2>1, <2>2 DEF Starting
  <2> QED BY Zenon, <1>3, <2>3, <2>4, <2>5, <2>6, <2>7 DEF Inv
<1> QED BY Zenon, <1>4, <1>5 DEF InstallTrampoline

\* InitPageTables finds its tables cleared, since they are in .bss.
LEMMA InstallTablesStep ==
  ASSUME Inv, InstallTables
  PROVE  Inv'
<1>1. /\ i \in Nat /\ image \in Images /\ OwnMemoryUntouched
      /\ mem \in [Cells -> Contents] /\ tables \in TableType
  BY DEF Inv, Types
<1>2. /\ pc = "tables" /\ pc' = "export" /\ cpu' = cpu /\ i' = i /\ image' = image /\ mem' = mem
      /\ tables' = InitPageTables(tables) /\ code' = code /\ addr' = addr
  BY Zenon DEF InstallTables, Goto
<1>3. OwnMemoryUntouched'
  BY Zenon, <1>1, <1>2 DEF OwnMemoryUntouched
<1>4. cpu' \in [Cores -> Registers] /\ \A c \in Cores : Prepared(c)'
  BY <1>2, CoresOff DEF Inv, Starting
<1>5. tables' \in TableType /\ Maps(tables') /\ Keeps(tables, tables')
  BY Zenon, <1>1, <1>2, InitTables
<1>6. \A t \in {Pdpt, Pd1, Pd2} : tables[t] = Blank
  <2>1. Linked(image) /\ \A n \in DOMAIN image.shdrs : Blanked(n)
    BY Zenon, <1>2 DEF Inv, Checked, Deployed
  <2>2. {Pdpt, Pd1, Pd2} \subseteq Tables \ {Pml4t}
    <3>1. Pml4t \notin Region
      BY Zenon, InTrampoline, Sizes, LayoutAssumption
    <3> QED BY Zenon, <3>1, LayoutAssumption DEF Tables, Region
  <2>3. \A t \in {Pdpt, Pd1, Pd2} : InBss(image, t)
    BY Zenon, <2>1, <2>2 DEF Linked
  <2> QED BY Zenon, <2>1, <2>2, <2>3 DEF InBss, Blanked, Section
<1>7. MapsOnly(tables')
  BY <1>5, <1>6 DEF MapsOnly, Keeps, Blank
<1>8. Types'
  BY Zenon, <1>1, <1>2, <1>4, <1>5 DEF Types
<1>9. Checked'
  BY Zenon, <1>2 DEF Inv, Checked
<1>10. Deployed'
  <2>1. /\ \A n \in DOMAIN image.phdrs : Loaded(n)
        /\ \A n \in DOMAIN image.shdrs : Cleared(n)
    BY Zenon, <1>2 DEF Inv, Checked, Deployed
  <2>2. /\ \A n \in DOMAIN image'.phdrs : Loaded(n)'
        /\ \A n \in DOMAIN image'.shdrs : Cleared(n)'
    BY <1>2, <2>1 DEF Loaded, Cleared, Section
  <2> QED BY <1>2, <2>2 DEF Deployed, DeployedImage
<1>11. Mapping'
  <2> SUFFICES Maps(tables)' /\ MapsOnly(tables)'
    BY Zenon, <1>2 DEF Mapping
  <2> QED BY Zenon, <1>5, <1>7 DEF Maps, MapsOnly
<1>12. Starting'
  <2>1. code = TRUE /\ addr = image.entry
    BY Zenon, <1>2 DEF Inv, Starting
  <2> QED BY <1>2, <1>4, <2>1 DEF Starting
<1> QED BY Zenon, <1>3, <1>8, <1>9, <1>10, <1>11, <1>12 DEF Inv

\* The exported pointer is in .bss and not at the entry.
LEMMA ExportStep ==
  ASSUME Inv, export_init
  PROVE  Inv'
<1>1. /\ i \in Nat /\ image \in Images /\ OwnMemoryUntouched
      /\ mem \in [Cells -> Contents] /\ tables \in TableType
  BY DEF Inv, Types
<1>2. /\ pc = "export" /\ pc' = "ready" /\ cpu' = cpu /\ i' = i /\ image' = image
      /\ mem' = [mem EXCEPT ![ExportCell] = "pointer"]
      /\ tables' = tables /\ code' = code /\ addr' = addr
  BY DEF export_init, Goto
<1>3. ExportCell \in Region /\ ExportCell \in Cells
  BY Zenon, RegionCells, BringupAssumption
<1>4. mem' \in [Cells -> Contents] /\ OwnMemoryUntouched'
  BY Zenon, <1>1, <1>2, <1>3 DEF Contents, OwnMemoryUntouched
<1>5. mem'[ExportCell] = "pointer" /\ \A a \in Region : a # ExportCell => mem'[a] = mem[a]
  BY Zenon, <1>1, <1>2, <1>3, RegionCells
<1>6. cpu' \in [Cores -> Registers] /\ \A c \in Cores : Prepared(c)'
  BY Zenon, <1>2, CoresOff DEF Inv, Starting
<1>7. /\ Fits(image) /\ Linked(image)
      /\ \A n \in DOMAIN image.phdrs : Loaded(n)
      /\ \A n \in DOMAIN image.shdrs : Cleared(n)
  BY Zenon, <1>2 DEF Inv, Checked, Deployed
<1>8. \A a \in Int : InBss(image, a) => a \in Region /\ mem[a] = "zero"
  <2> SUFFICES ASSUME NEW a \in Int, NEW n \in DOMAIN image.shdrs, image.shdrs[n].bss,
                      a \in Section(n)
               PROVE  a \in Region /\ mem[a] = "zero"
    BY Zenon DEF InBss, Section
  <2>1. image.shdrs[n].addr >= DeployStart /\ image.shdrs[n].addr + image.shdrs[n].size <= DeployEnd
    BY Zenon, <1>7 DEF Fits
  <2>2. image.shdrs[n].addr \in Nat /\ image.shdrs[n].size \in Nat
    BY Zenon, <1>1, ImageParts
  <2>3. a \in Region
    BY <2>1, <2>2, Sizes DEF Section, Region
  <2> QED BY Zenon, <1>7, <2>3 DEF Cleared
<1>9. DeployedImage'
  <2> SUFFICES ASSUME NEW n \in DOMAIN image.phdrs, image.phdrs[n].load, NEW k \in 1..image.phdrs[n].memsz
               PROVE  mem'[image.phdrs[n].vaddr + k - 1] =
                        IF image.phdrs[n].vaddr + k - 1 = ExportCell THEN "pointer"
                        ELSE IF k <= Len(image.phdrs[n].data) THEN image.phdrs[n].data[k] ELSE "zero"
    BY <1>2 DEF DeployedImage
  <2> DEFINE v == image.phdrs[n].vaddr
             d == image.phdrs[n].data
             l == Len(d)
  <2>1. v \in Nat /\ image.phdrs[n].memsz \in Nat /\ l \in Nat /\ v + k - 1 \in Int
    BY <1>1, ImageParts
  <2>2. CASE k <= l
    <3>1. v >= DeployStart /\ v + l <= DeployEnd
      BY Zenon, <1>7 DEF Fits
    <3>2. k \in 1..l
      BY <2>1, <2>2
    <3>3. mem[v + k - 1] = d[k]
      BY Zenon, <1>7, <3>2 DEF Loaded
    <3> HIDE DEF v, l, d
    <3>4. v + k - 1 \in Region
      BY Zenon, <2>1, <3>1, <3>2, Within
    <3>5. mem'[v + k - 1] = IF v + k - 1 = ExportCell THEN "pointer" ELSE d[k]
      BY <1>5, <3>3, <3>4
    <3> QED BY Zenon, <2>2, <3>5 DEF v, l, d
  <2>3. CASE ~(k <= l)
    <3>1. k > l
      BY <2>1, <2>3
    <3>2. InBss(image, v + k - 1)
      BY Zenon, <1>7, <3>1 DEF Linked
    <3> HIDE DEF v, l, d
    <3>3. v + k - 1 \in Region /\ mem[v + k - 1] = "zero"
      BY Zenon, <1>8, <2>1, <3>2
    <3>4. mem'[v + k - 1] = IF v + k - 1 = ExportCell THEN "pointer" ELSE "zero"
      BY Zenon, <1>5, <3>3
    <3> QED BY <2>3, <3>4 DEF v, l, d
  <2> QED BY Zenon, <2>2, <2>3
<1>10. mem'[image.entry] = "image"
  <2>1. PICK n \in DOMAIN image.phdrs : image.phdrs[n].load /\ \E k \in DOMAIN image.phdrs[n].data :
          image.entry = image.phdrs[n].vaddr + k - 1 /\ image.phdrs[n].data[k] = "image"
    BY Zenon, <1>7 DEF Linked
  <2>2. DOMAIN image.phdrs[n].data = 1..Len(image.phdrs[n].data)
    BY Zenon, <1>1, ImageParts
  <2>3. mem[image.entry] = "image"
    BY <1>7, <2>1, <2>2 DEF Loaded
  <2>4. image.entry \in Region /\ image.entry # ExportCell
    BY Zenon, <1>1, <1>7, EntryInRegion DEF Linked
  <2> QED BY Zenon, <1>5, <2>3, <2>4
<1>11. Types'
  BY Zenon, <1>1, <1>2, <1>4, <1>6 DEF Types
<1>12. Checked'
  BY Zenon, <1>2, <1>7 DEF Checked
<1>13. Deployed'
  BY Zenon, <1>2, <1>9 DEF Deployed
<1>14. Mapping'
  BY Zenon, <1>2 DEF Inv, Mapping, Maps, MapsOnly
<1>15. Starting'
  BY <1>2, <1>6, <1>10 DEF Inv, Starting
<1> QED BY Zenon, <1>4, <1>11, <1>12, <1>13, <1>14, <1>15 DEF Inv

-----------------------------------------------------------------------------
(* The steps of the friend cores *)

\* The way of a core to the binary.
Way == {"entry16", "entry32", "cr3", "cr4", "efer", "paging", "start"}

\* A step of a core changes nothing else.
LEMMA CoreStep ==
  ASSUME Inv, UNCHANGED <<pc, i, image, mem, tables, code, addr, written>>,
         NEW c \in Cores, NEW r \in Registers, cpu' = [cpu EXCEPT ![c] = r],
         pc = "ready", Prepared(c)'
  PROVE  Inv'
<1>1. cpu \in [Cores -> Registers] /\ \A d \in Cores : Prepared(d)
  BY Zenon DEF Inv, Types, Starting
<1>2. cpu' \in [Cores -> Registers] /\ \A d \in Cores \ {c} : cpu'[d] = cpu[d]
  BY Zenon, <1>1
<1>3. \A d \in Cores : Prepared(d)'
  BY Zenon, <1>1, <1>2 DEF Prepared
<1>4. Types'
  BY Zenon, <1>2 DEF Inv, Types
<1>5. OwnMemoryUntouched'
  BY Zenon DEF Inv, OwnMemoryUntouched
<1>6. Checked'
  BY Zenon DEF Inv, Checked
<1>7. Deployed'
  BY Zenon DEF Inv, Deployed, DeployedImage
<1>8. Mapping'
  BY Zenon DEF Inv, Mapping, Maps, MapsOnly
<1>9. Starting'
  BY Zenon, <1>3 DEF Inv, Starting
<1> QED BY Zenon, <1>4, <1>5, <1>6, <1>7, <1>8, <1>9 DEF Inv

\* On its way a core can read the memory of the friend, with and without paging.
LEMMA Reads ==
  ASSUME Inv, NEW c \in Cores, cpu[c].at \in Way, NEW a \in Region \cup {TrampolineAddr}
  PROVE  Translate(c, a) = a
<1>1. Prepared(c)
  BY Zenon DEF Inv, Starting
<1>2. pc = "ready" /\ Maps(tables)
  BY Zenon, <1>1 DEF Prepared, Way, Inv, Mapping
<1>3. CASE cpu[c].at \in {"paging", "start"}
  <2>1. cpu[c].cr3 = Pml4t /\ Walk(tables, Pml4t, a) = a
    BY Zenon, <1>1, <1>2, <1>3, Walks DEF Prepared
  <2> QED BY Zenon, <2>1 DEF Translate
<1>4. CASE cpu[c].at \notin {"paging", "start"}
  <2>1. cpu[c].pg = FALSE
    BY <1>1, <1>4 DEF Prepared, Way
  <2> QED BY Zenon, <2>1 DEF Translate
<1> QED BY Zenon, <1>3, <1>4

\* So it finds the trampoline at each stage and goes on.
LEMMA Advances ==
  ASSUME Inv, NEW c \in Cores, NEW l \in Way, NEW r, Advance(c, l, r)
  PROVE  /\ cpu' = [cpu EXCEPT ![c] = r]
         /\ pc = "ready" /\ cpu[c].at = l /\ cpu[c] \in Registers /\ Prepared(c)
         /\ cpu \in [Cores -> Registers]
         /\ UNCHANGED <<pc, i, image, mem, tables, code, addr, written>>
<1>1. cpu[c].at = l /\ Prepared(c) /\ cpu \in [Cores -> Registers]
  BY Zenon DEF Inv, Types, Starting, Advance
<1>2. pc = "ready" /\ code = TRUE
  BY Zenon, <1>1 DEF Prepared, Way, Inv, Starting
<1>3. Translate(c, TrampolineAddr) = TrampolineAddr
  BY Zenon, <1>1, Reads
<1> QED BY Zenon, <1>1, <1>2, <1>3 DEF Advance

\* Each stage of the trampoline sets the registers that the next ones need.
LEMMA TrampolineStep ==
  ASSUME Inv, NEW c \in Cores, Trampoline(c)
  PROVE  Inv'
<1>1. CASE Entry16(c)
  <2> DEFINE r == [cpu[c] EXCEPT !.at = "entry32"]
  <2>1. "entry16" \in Way /\ Advance(c, "entry16", r)
    BY <1>1 DEF Entry16, Way
  <2> HIDE DEF r
  <2>2. /\ cpu' = [cpu EXCEPT ![c] = r] /\ pc = "ready" /\ cpu[c].at = "entry16"
        /\ cpu[c] \in Registers /\ Prepared(c) /\ cpu \in [Cores -> Registers]
        /\ UNCHANGED <<pc, i, image, mem, tables, code, addr, written>>
    BY Zenon, <2>1, Advances
  <2>3. r \in Registers /\ cpu'[c] = r
    BY <2>2 DEF r, Registers, Stages
  <2>4. Prepared(c)'
    BY <2>2, <2>3 DEF Prepared, r, Registers
  <2> QED BY Zenon, <2>2, <2>3, <2>4, CoreStep
<1>2. CASE LoadCr3(c)
  <2> DEFINE r == [cpu[c] EXCEPT !.at = "cr3", !.cr3 = Pml4t]
  <2>1. "entry32" \in Way /\ Advance(c, "entry32", r)
    BY <1>2 DEF LoadCr3, Way
  <2> HIDE DEF r
  <2>2. /\ cpu' = [cpu EXCEPT ![c] = r] /\ pc = "ready" /\ cpu[c].at = "entry32"
        /\ cpu[c] \in Registers /\ Prepared(c) /\ cpu \in [Cores -> Registers]
        /\ UNCHANGED <<pc, i, image, mem, tables, code, addr, written>>
    BY Zenon, <2>1, Advances
  <2>3. r \in Registers /\ cpu'[c] = r
    <3>1. Pml4t \in Int
      BY Sizes
    <3>2. r \in Registers
      BY Zenon, <2>2, <3>1 DEF r, Registers, Stages
    <3> QED BY Zenon, <2>2, <3>2
  <2>4. Prepared(c)'
    BY <2>2, <2>3 DEF Prepared, r, Registers
  <2> QED BY Zenon, <2>2, <2>3, <2>4, CoreStep
<1>3. CASE SetCr4(c)
  <2> DEFINE r == [cpu[c] EXCEPT !.at = "cr4", !.pae = TRUE]
  <2>1. "cr3" \in Way /\ Advance(c, "cr3", r)
    BY <1>3 DEF SetCr4, Way
  <2> HIDE DEF r
  <2>2. /\ cpu' = [cpu EXCEPT ![c] = r] /\ pc = "ready" /\ cpu[c].at = "cr3"
        /\ cpu[c] \in Registers /\ Prepared(c) /\ cpu \in [Cores -> Registers]
        /\ UNCHANGED <<pc, i, image, mem, tables, code, addr, written>>
    BY Zenon, <2>1, Advances
  <2>3. r \in Registers /\ cpu'[c] = r
    BY Zenon, <2>2 DEF r, Registers, Stages
  <2>4. Prepared(c)'
    BY <2>2, <2>3 DEF Prepared, r, Registers
  <2> QED BY Zenon, <2>2, <2>3, <2>4, CoreStep
<1>4. CASE SetEfer(c)
  <2> DEFINE r == [cpu[c] EXCEPT !.at = "efer", !.lme = TRUE]
  <2>1. "cr4" \in Way /\ Advance(c, "cr4", r)
    BY <1>4 DEF SetEfer, Way
  <2> HIDE DEF r
  <2>2. /\ cpu' = [cpu EXCEPT ![c] = r] /\ pc = "ready" /\ cpu[c].at = "cr4"
        /\ cpu[c] \in Registers /\ Prepared(c) /\ cpu \in [Cores -> Registers]
        /\ UNCHANGED <<pc, i, image, mem, tables, code, addr, written>>
    BY Zenon, <2>1, Advances
  <2>3. r \in Registers /\ cpu'[c] = r
    BY Zenon, <2>2 DEF r, Registers, Stages
  <2>4. Prepared(c)'
    BY <2>2, <2>3 DEF Prepared, r, Registers
  <2> QED BY Zenon, <2>2, <2>3, <2>4, CoreStep
<1>5. CASE SetPaging(c)
  <2> DEFINE p == [cpu[c] EXCEPT !.at = "paging", !.pg = TRUE]
             r == IF cpu[c].pae /\ cpu[c].lme THEN p ELSE [cpu[c] EXCEPT !.at = "fault"]
  <2>1. "efer" \in Way /\ Advance(c, "efer", r)
    BY <1>5 DEF SetPaging, Way
  <2> HIDE DEF r
  <2>2. /\ cpu' = [cpu EXCEPT ![c] = r] /\ pc = "ready" /\ cpu[c].at = "efer"
        /\ cpu[c] \in Registers /\ Prepared(c) /\ cpu \in [Cores -> Registers]
        /\ UNCHANGED <<pc, i, image, mem, tables, code, addr, written>>
    BY Zenon, <2>1, Advances
  <2>3. r = p
    BY <2>2 DEF r, Prepared
  <2>4. r \in Registers /\ cpu'[c] = r
    <3>1. r \in Registers
      BY Zenon, <2>2, <2>3 DEF Registers, Stages
    <3> QED BY <2>2, <3>1
  <2>5. Prepared(c)'
    BY <2>2, <2>3, <2>4 DEF Prepared, Registers
  <2> QED BY Zenon, <2>2, <2>4, <2>5, CoreStep
<1>6. CASE LongJump(c)
  <2> DEFINE r == [cpu[c] EXCEPT !.at = "start"]
  <2>1. "paging" \in Way /\ Advance(c, "paging", r)
    BY <1>6 DEF LongJump, Way
  <2> HIDE DEF r
  <2>2. /\ cpu' = [cpu EXCEPT ![c] = r] /\ pc = "ready" /\ cpu[c].at = "paging"
        /\ cpu[c] \in Registers /\ Prepared(c) /\ cpu \in [Cores -> Registers]
        /\ UNCHANGED <<pc, i, image, mem, tables, code, addr, written>>
    BY Zenon, <2>1, Advances
  <2>3. r \in Registers /\ cpu'[c] = r
    BY <2>2 DEF r, Registers, Stages
  <2>4. Prepared(c)'
    BY <2>2, <2>3 DEF Prepared, r, Registers
  <2> QED BY Zenon, <2>2, <2>3, <2>4, CoreStep
<1>7. CASE JumpToFriend(c)
  <2> DEFINE f == [cpu[c] EXCEPT !.at = "friend", !.rip = addr]
             r == IF Translate(c, addr) = addr THEN f ELSE [cpu[c] EXCEPT !.at = "fault"]
  <2>1. "start" \in Way /\ Advance(c, "start", r)
    BY <1>7 DEF JumpToFriend, Way
  <2> HIDE DEF r
  <2>2. /\ cpu' = [cpu EXCEPT ![c] = r] /\ pc = "ready" /\ cpu[c].at = "start"
        /\ cpu[c] \in Registers /\ Prepared(c) /\ cpu \in [Cores -> Registers]
        /\ UNCHANGED <<pc, i, image, mem, tables, code, addr, written>>
    BY Zenon, <2>1, Advances
  <2>3. addr = image.entry /\ addr \in Region /\ addr \in Int
    <3>1. image \in Images /\ Fits(image) /\ Linked(image) /\ addr = image.entry
      BY <2>2 DEF Inv, Types, Checked, Starting
    <3> QED BY Zenon, <3>1, EntryInRegion, RegionCells
  <2>4. r = f
    BY <2>1, <2>2, <2>3, Reads DEF r
  <2>5. r \in Registers /\ cpu'[c] = r
    <3>1. r \in Registers
      BY Zenon, <2>2, <2>3, <2>4 DEF Registers, Stages
    <3> QED BY <2>2, <3>1
  <2>6. Prepared(c)'
    BY <2>2, <2>3, <2>4, <2>5 DEF Prepared, Registers
  <2> QED BY Zenon, <2>2, <2>5, <2>6, CoreStep
<1> QED BY Zenon, <1>1, <1>2, <1>3, <1>4, <1>5, <1>6, <1>7 DEF Trampoline

\* boot() starts a core in real mode at the trampoline.
LEMMA StartStep ==
  ASSUME Inv, NEW c \in Cores, Start(c)
  PROVE  Inv'
<1> DEFINE r == [Off EXCEPT !.at = "entry16", !.rip = TrampolineAddr]
<1>1. /\ pc = "ready" /\ cpu' = [cpu EXCEPT ![c] = r] /\ cpu \in [Cores -> Registers]
      /\ UNCHANGED <<pc, i, image, mem, tables, code, addr, written>>
  BY DEF Start, Inv, Types
<1>2. r \in Registers
  <2>1. TrampolineAddr \in Int
    BY Sizes
  <2>2. Off \in Registers
    BY DEF Off, Registers, Stages
  <2> QED BY Zenon, <2>1, <2>2 DEF Registers, Stages
<1>3. Prepared(c)'
  <2>1. cpu'[c] = r
    BY <1>1
  <2> QED BY <1>1, <2>1 DEF Prepared, Off
<1> HIDE DEF r
<1> QED BY Zenon, <1>1, <1>2, <1>3, CoreStep

\* Friend code leaves the text of the binary and the entries of InitPageTables.
LEMMA FriendStep ==
  ASSUME Inv, NEW c \in Cores, FriendWrites(c)
  PROVE  Inv'
<1>1. /\ cpu[c].at = "friend" /\ written' = TRUE
      /\ UNCHANGED <<pc, i, image, code, addr, cpu>>
  BY Zenon DEF FriendWrites
<1>2. /\ pc = "ready" /\ image \in Images /\ Fits(image) /\ Linked(image)
      /\ mem \in [Cells -> Contents] /\ tables \in TableType /\ OwnMemoryUntouched
      /\ Maps(tables) /\ mem[image.entry] = "image"
  <2>1. pc = "ready"
    BY Zenon, <1>1 DEF Inv, Starting, Prepared
  <2> QED BY Zenon, <2>1 DEF Inv, Types, Checked, Mapping, Starting
<1>3. mem' \in [Cells -> Contents] /\ OwnMemoryUntouched' /\ mem'[image.entry] = "image"
  <2>1. CASE mem' = mem
    BY Zenon, <1>2, <2>1 DEF OwnMemoryUntouched
  <2>2. CASE mem' = [a \in Cells |-> IF a \in Region /\ mem[a] # "image" THEN "junk" ELSE mem[a]]
    <3>1. image.entry \in Cells
      BY Zenon, <1>2, EntryInRegion, RegionCells
    <3>2. mem'[image.entry] = "image"
      BY <1>2, <2>2, <3>1
    <3>3. mem' \in [Cells -> Contents]
      BY <1>2, <2>2 DEF Contents
    <3> QED BY Zenon, <1>2, <2>2, <3>2, <3>3 DEF OwnMemoryUntouched
  <2> QED BY Zenon, <2>1, <2>2 DEF FriendWrites
<1>4. tables' \in TableType /\ Maps(tables')
  <2>1. CASE tables' = tables
    BY <1>2, <2>1 DEF Maps
  <2>2. CASE \E t \in Tables : \E k \in Spare(t) : tables' = [tables EXCEPT ![t][k] = Junk]
    <3>1. PICK t \in Tables : \E k \in Spare(t) : tables' = [tables EXCEPT ![t][k] = Junk]
      BY Zenon, <2>2
    <3>2. PICK k \in Spare(t) : tables' = [tables EXCEPT ![t][k] = Junk]
      BY Zenon, <3>1
    <3> QED BY Zenon, <1>2, <3>2, SpareEntries
  <2> QED BY <2>1, <2>2 DEF FriendWrites
<1>5. Types'
  BY <1>1, <1>3, <1>4 DEF Inv, Types
<1>6. Checked'
  <2>1. pc' = "ready" /\ Fits(image') /\ Linked(image')
    BY Zenon, <1>1, <1>2
  <2> QED BY <2>1 DEF Checked
<1>7. Deployed'
  <2>1. pc' = "ready" /\ written' = TRUE
    BY Zenon, <1>1, <1>2
  <2> QED BY <2>1 DEF Deployed, DeployedImage
<1>8. Mapping'
  BY Zenon, <1>1, <1>2, <1>4 DEF Mapping, Maps
<1>9. Starting'
  <2>1. /\ code = TRUE /\ addr = image.entry /\ \A d \in Cores : Prepared(d)
        /\ pc' = pc /\ code' = code /\ addr' = addr /\ image' = image /\ cpu' = cpu
    BY Zenon, <1>1, <1>2 DEF Inv, Starting
  <2>2. \A d \in Cores : Prepared(d)'
    BY Zenon, <2>1 DEF Prepared
  <2> QED BY Zenon, <1>3, <2>1, <2>2 DEF Starting
<1> QED BY Zenon, <1>3, <1>5, <1>6, <1>7, <1>8, <1>9 DEF Inv

-----------------------------------------------------------------------------
(* The theorems *)

\* A step that changes nothing.
LEMMA StutterStep ==
  ASSUME Inv, UNCHANGED vars
  PROVE  Inv'
<1>1. Types' /\ OwnMemoryUntouched' /\ Checked'
  BY Zenon DEF vars, Inv, Types, OwnMemoryUntouched, Checked, FitsPhdr, FitsShdr
<1>2. Deployed'
  BY ZenonT(40) DEF vars, Inv, Deployed, DeployedImage, Loaded, Cleared, Blanked, Section
<1>3. Mapping'
  BY Zenon DEF vars, Inv, Mapping, Maps, MapsOnly
<1>4. Starting'
  BY Zenon DEF vars, Inv, Starting, Prepared
<1> QED BY Zenon, <1>1, <1>2, <1>3, <1>4 DEF Inv

\* The invariant is inductive.
LEMMA StepInv ==
  ASSUME Inv, [Next]_vars
  PROVE  Inv'
<1>1. CASE Hakase
  BY Zenon, <1>1, EarlySteps, DeployLoops, DeployPhdrStep, DeployShdrStep, ShdrsDoneStep,
     InstallTrampolineStep, InstallTablesStep, ExportStep DEF Hakase
<1>2. CASE \E c \in Cores : Start(c) \/ Trampoline(c) \/ FriendWrites(c)
  BY Zenon, <1>2, StartStep, TrampolineStep, FriendStep
<1>3. CASE UNCHANGED vars
  BY <1>3, StutterStep
<1> QED BY Zenon, <1>1, <1>2, <1>3 DEF Next

\* So it holds in all states.
LEMMA AlwaysInv == Spec => []Inv
<1>1. Init => Inv
  BY Zenon, InitInv
<1>2. Inv /\ [Next]_vars => Inv'
  BY StepInv
<1> QED BY <1>1, <1>2, PTL DEF Spec

\* As long as the program runs it has written nothing outside of the friend memory,
\* whatever binary it loads, one whose headers wrap around in the loader's test
\* (elf_loader.h) included.
THEOREM OnlyFriendMemory == Spec => []OwnMemoryUntouched
<1>1. Inv => OwnMemoryUntouched
  BY Zenon DEF Inv
<1> QED BY <1>1, AlwaysInv, PTL

\* After InitPageTables every address of the friend memory and of the trampoline
\* means itself on the friend cores, whatever friend programs do to the entries
\* that are left to them.
THEOREM AddressesAgree == Spec => []IdentityMap
<1>1. Inv => IdentityMap
  BY Zenon, Walks DEF Inv, Mapping, IdentityMap
<1> QED BY <1>1, AlwaysInv, PTL

\* When setup() succeeds the top level entry of the friend memory maps nothing
\* else, although InitPageTables clears none of its tables.
THEOREM NoOtherMapping == Spec => []NothingElseMapped
<1>1. Inv => NothingElseMapped
  BY Zenon, NothingElse DEF Inv, Mapping, NothingElseMapped
<1> QED BY <1>1, AlwaysInv, PTL

\* When setup() succeeds the memory holds the friend binary as the ELF format says,
\* whatever an earlier run left there.
THEOREM ImageIsDeployed == Spec => []DeployedImage
<1>1. Inv => DeployedImage
  BY Zenon DEF Inv, Deployed
<1> QED BY <1>1, AlwaysInv, PTL

\* No core faults on its way through the trampoline, and each one starts at the
\* entry of the binary, where its code is.
THEOREM CoresStart == Spec => []CoresStartInImage
<1>1. Inv => CoresStartInImage
  <2>1. ASSUME Starting, NEW c \in Cores
        PROVE  /\ cpu[c].at # "fault"
               /\ cpu[c].at = "friend" => cpu[c].rip = image.entry /\ mem[image.entry] = "image"
    <3>1. Prepared(c) /\ (pc = "ready" => mem[image.entry] = "image")
      BY Zenon, <2>1 DEF Starting
    <3> QED BY <3>1 DEF Prepared
  <2> QED BY Zenon, <2>1 DEF Inv, CoresStartInImage
<1> QED BY <1>1, AlwaysInv, PTL
=============================================================================
