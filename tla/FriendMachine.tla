---------------------------- MODULE FriendMachine ---------------------------
(***************************************************************************)
(* A friend core that runs one of the programs that use one core, of the   *)
(* tutorial, the tests and sample_old, and the hakase process that waits   *)
(* for it (the programs that count cores are in CountTest and StackTest).  *)
(* The core has an address space it edits itself, a TLB, an interrupt      *)
(* table and a stack.                                                      *)
(*                                                                         *)
(* The TLB keeps a translation until invlpg or a load of cr3 drops it, or  *)
(* until the core replaces it at will; an access may use a kept            *)
(* translation, or one the tables give now.                                *)
(***************************************************************************)
EXTENDS TutorialPrograms, OldSamplePrograms

Main == [
  address_space |-> address_space_friend_main, mapping |-> mapping_friend_main,
  hierarchy |-> hierarchy_friend_main,
  generate_pagetable |-> generate_pagetable_friend_main,
  pagefault |-> pagefault_friend_main, copy_on_write |-> copy_on_write_friend_main,
  jump |-> jump_friend_main, exception_recovery |-> exception_recovery_friend_main,
  friend |-> friend_friend_main, monitor |-> monitor_friend_main,
  offloading |-> offloading_friend_main,
  symbol_resolution |-> symbol_resolution_friend_main,
  offload |-> offload_friend_main, vmx |-> vmx_friend_main,
  intro_001 |-> intro_001_main, intro_011 |-> intro_011_main,
  paging_001 |-> paging_001_main, paging_002 |-> paging_002_main,
  paging_003 |-> paging_003_main, paging_011 |-> paging_011_main,
  paging_013 |-> paging_013_main, paging_014 |-> paging_014_main,
  paging_021 |-> paging_021_main, paging_022 |-> paging_022_main,
  paging_023 |-> paging_023_main, paging_024 |-> paging_024_main,
  paging_031 |-> paging_031_main, paging_032 |-> paging_032_main,
  paging_035 |-> paging_035_main, paging_041 |-> paging_041_main,
  paging_042 |-> paging_042_main, paging_100 |-> paging_100_main ]

Tests == [
  address_space |-> address_space_test_main, mapping |-> mapping_test_main,
  hierarchy |-> hierarchy_test_main,
  generate_pagetable |-> generate_pagetable_test_main,
  pagefault |-> pagefault_test_main, copy_on_write |-> copy_on_write_test_main,
  jump |-> jump_test_main, exception_recovery |-> exception_recovery_test_main,
  friend |-> friend_test_main, monitor |-> monitor_test_main,
  offloading |-> offloading_test_main,
  symbol_resolution |-> symbol_resolution_test_main,
  offload |-> offload_test_main, vmx |-> vmx_test_main ]

Programs == DOMAIN Main
\* Programs for the present runtime: the tutorial and the tests.
Tutorials == DOMAIN Tests

\* The handlers of int.S, by program and name.
Handlers == [
  pagefault |-> [int_handler1 |-> pagefault_int_handler1,
                 int_handler2 |-> pagefault_int_handler2],
  exception_recovery |-> [int_handler1 |-> exception_recovery_int_handler1,
                          int_handler2 |-> exception_recovery_int_handler2],
  jump |-> [int_handler |-> jump_int_handler] ]

Code(program, name) ==
  IF name = "main" THEN Main[program] ELSE Handlers[program][name]

-----------------------------------------------------------------------------

VARIABLES
  prog,    \* the program
  core,    \* the friend core: at, mode, registers, stack, IDT, cr3, TLB, ...
  mem,     \* the memory: tables, other pages, shared variables, contexts
  hakase   \* the hakase process: pc, what it has printed, state, its verdict

vars == <<prog, core, mem, hakase>>

\* The protection of read-only pages from the kernel is never switched on.
CR0_WP == FALSE

\* What Loader16::InitPageTables leaves: the trampoline and the friend memory.
BootTables ==
  (<<INITIAL_PML4T, 0>> :> Page(pdpt)) @@ (<<pdpt, 0>> :> Page(pd1))
    @@ (<<pdpt, PdptIndex(DEPLOY_PHYS_ADDR_START)>> :> Page(pd2))
    @@ (<<pd1, 0>> :> Large(0))
    @@ [e \in {pd2} \X (0..511) |-> Large(DEPLOY_PHYS_ADDR_START + 512 * e[2])]

\* The translation of page v by the tables at cr3 (external): no element for
\* a page fault, or the one translation.
Look(t, i) ==
  {e \in {mem.tables[k] : k \in {<<t, i>>} \cap DOMAIN mem.tables} : e.to # -1}
Leaf(e, size, v) ==
  IF e.to % size = 0 THEN {[v |-> v, p |-> e.to + (v % size), rw |-> e.rw]} ELSE {}
PtWalk(t, v) == UNION {Leaf(e, 1, v) : e \in Look(t, PtIndex(v))}
PdWalk(t, v) ==
  UNION {IF e.ps THEN Leaf(e, k2MB, v) ELSE PtWalk(e.to, v) : e \in Look(t, PdIndex(v))}
PdptWalk(t, v) ==
  UNION {IF e.ps THEN Leaf(e, k1GB, v) ELSE PdWalk(e.to, v) : e \in Look(t, PdptIndex(v))}
WalkFrom(cr3, v) == UNION {PdptWalk(e.to, v) : e \in Look(cr3, v \div k512GB)}

Walk(v) == WalkFrom(core.cr3, v)
Cached(v) == {t \in core.tlb : t.v = v}
Allowed(t, write) == ~write \/ t.rw \/ ~CR0_WP
Translations(v, write) == {t \in Cached(v) \cup Walk(v) : Allowed(t, write)}
MayFault(v, write) == {t \in Walk(v) : Allowed(t, write)} = {}
Keep(t) == {u \in core.tlb : u.v # t.v} \cup {t}

Contents(p) == IF p \in DOMAIN mem.ram THEN mem.ram[p] ELSE p

-----------------------------------------------------------------------------
(* The core *)

Running == core.mode = "run" /\ core.at.k <= Len(Code(prog, core.at.code))
Op == Code(prog, core.at.code)[core.at.k]
Next1(c) == [c EXCEPT !.at.k = @ + 1]
\* What was typed at the console; 0 before that.
Choice == IF core.input = 0 THEN 1 ELSE core.input

\* An exception (external): the core saves where it was, and goes to the
\* handler; without one it shuts down.
Raise(vector, error) ==
  core' = IF core.idtr /\ vector \in DOMAIN core.idt
            THEN [core EXCEPT !.stack = error \o <<[frame |-> TRUE, at |-> core.at,
                                                    regs |-> core.regs]>> \o @,
                              !.at = [code |-> core.idt[vector], k |-> 1]]
            ELSE [core EXCEPT !.mode = "dead"]
Word(w) == [frame |-> FALSE, word |-> w]
PageFault == Raise(14, <<Word(0)>>)

\* The stores of the programs find a mapping: one that did not would be
\* stuck here, and EndsPassed would not hold.
SetEntries ==
  /\ Running /\ Op.op = "set"
  /\ \E t \in Walk(Op.t) :
       LET Slot(i) == <<t.p + (i \div 512), i % 512>> IN
       mem' = [mem EXCEPT !.tables =
                 [s \in {Slot(i) : i \in DOMAIN Op.es} |-> Op.es[512 * (s[1] - t.p) + s[2]]] @@ @]
  /\ core' = Next1(core)
  /\ UNCHANGED <<prog, hakase>>

ClearTables ==
  /\ Running /\ Op.op = "clear"
  /\ \E t \in Walk(Op.t) :
       mem' = [mem EXCEPT !.tables =
                 [s \in {s \in DOMAIN @ : s[1] \notin t.p..t.p + Op.n - 1} |-> @[s]]]
  /\ core' = Next1(core)
  /\ UNCHANGED <<prog, hakase>>

DoLoad ==
  /\ Running /\ Op.op = "load"
  /\ \/ /\ \E t \in Translations(Op.v, FALSE) :
             core' = [Next1(core) EXCEPT !.tlb = Keep(t), !.x = Contents(t.p)]
     \/ MayFault(Op.v, FALSE) /\ PageFault
  /\ UNCHANGED <<prog, mem, hakase>>

DoStore ==
  /\ Running /\ Op.op = "store"
  /\ \E t \in Translations(Op.v, TRUE) :
       /\ core' = [Next1(core) EXCEPT !.tlb = Keep(t)]
       /\ mem' = [mem EXCEPT !.ram = (t.p :> Op.c) @@ @]
  /\ UNCHANGED <<prog, hakase>>

DoCopy ==
  /\ Running /\ Op.op = "copy"
  /\ \E s \in Translations(Op.from, FALSE), t \in Translations(Op.v, TRUE) :
       /\ core' = [Next1(core) EXCEPT !.tlb = {u \in Keep(t) : u.v # s.v} \cup {s}]
       /\ mem' = [mem EXCEPT !.ram = (t.p :> IF Op.all THEN Contents(s.p) ELSE Partial) @@ @]
  /\ UNCHANGED <<prog, hakase>>

\* The instruction after a load of cr3 is fetched through the new tables.
LoadsCr3 ==
  /\ Running /\ Op.op = "cr3"
  /\ LET code == IF prog \in Tutorials THEN FriendCode ELSE OldCode IN
     core' = [Next1(core) EXCEPT !.cr3 = Op.p, !.tlb = {},
                !.mode = IF WalkFrom(Op.p, code) = {} THEN "dead" ELSE "run"]
  /\ UNCHANGED <<prog, mem, hakase>>

DoInvlpg ==
  /\ Running /\ Op.op = "invlpg"
  /\ core' = [Next1(core) EXCEPT !.tlb = {u \in @ : u.v # Op.v}]
  /\ UNCHANGED <<prog, mem, hakase>>

\* The core may keep a translation it has not been asked for.
Prefetch ==
  /\ Running /\ Op.op \in {"set", "invlpg", "load", "store", "call"}
  /\ \E v \in {BufPage, AppPage, vaddr1, vaddr1 + 1, vaddr1 + 2} :
       /\ Cached(v) = {} /\ Walk(v) # {}
       /\ core' = [core EXCEPT !.tlb = @ \cup Walk(v)]
  /\ UNCHANGED <<prog, mem, hakase>>

SetsGate ==
  /\ Running /\ Op.op = "gate"
  /\ core' = [Next1(core) EXCEPT !.idt = (Op.vector :> Op.handlers[Choice]) @@ @]
  /\ UNCHANGED <<prog, mem, hakase>>

DoLidt ==
  /\ Running /\ Op.op = "lidt"
  /\ core' = [Next1(core) EXCEPT !.idtr = TRUE]
  /\ UNCHANGED <<prog, mem, hakase>>

\* Interrupts are off in the tutorial, and its hlt stands in a loop; whether
\* something wakes the core in the old samples is not known.
Halts ==
  /\ Running /\ Op.op = "hlt"
  /\ core' = [core EXCEPT !.mode = "halted"]
  /\ UNCHANGED <<prog, mem, hakase>>
Wakes ==
  /\ core.mode = "halted" /\ prog \notin Tutorials
  /\ core' = [Next1(core) EXCEPT !.mode = "run"]
  /\ UNCHANGED <<prog, mem, hakase>>

MovesRegister ==
  /\ Running
  /\ \/ /\ Op.op = "mov"
        /\ core' = [Next1(core) EXCEPT !.regs[Op.r] = Op.values[Choice]]
     \/ /\ Op.op = "push"
        /\ core' = [Next1(core) EXCEPT !.stack = <<Word(core.regs[Op.r])>> \o @]
     \/ /\ Op.op = "pop"
        /\ core' = [Next1(core) EXCEPT !.regs[Op.r] = Head(core.stack).word,
                                       !.stack = Tail(@)]
     \/ /\ Op.op = "cpuid"
        /\ \E bit \in 0..1 : core' = [Next1(core) EXCEPT !.x = bit]
     \/ /\ Op.op = "drop"
        /\ core' = [Next1(core) EXCEPT !.stack = Tail(@)]
  /\ UNCHANGED <<prog, mem, hakase>>

Divides ==
  /\ Running /\ Op.op = "div"
  /\ IF core.regs.rbx = 0 THEN Raise(0, << >>) ELSE core' = Next1(core)
  /\ UNCHANGED <<prog, mem, hakase>>

\* iretq takes what is on top of the stack for the frame of the exception.
Irets ==
  /\ Running /\ Op.op = "iret"
  /\ core' = IF Head(core.stack).frame
               THEN [core EXCEPT !.at = Head(core.stack).at, !.stack = Tail(@)]
               ELSE [core EXCEPT !.mode = "dead"]
  /\ UNCHANGED <<prog, mem, hakase>>

\* Shared variables.
Assigns ==
  /\ Running
  /\ \/ Op.op = "assign" /\ mem' = [mem EXCEPT !.variable = Op.n]
     \/ Op.op = "assignx" /\ mem' = [mem EXCEPT !.variable = core.x \div Op.d]
     \/ Op.op = "increment" /\ mem' = [mem EXCEPT !.variable = @ + 1]
  /\ core' = Next1(core)
  /\ UNCHANGED <<prog, hakase>>

\* The core waits for hakase to run a block, or to answer a call.
Asks ==
  /\ Running /\ Op.op \in {"offload", "do", "show_i"}
  /\ core' = [core EXCEPT !.mode = "waiting"]
  /\ UNCHANGED <<prog, mem, hakase>>

\* while (CAS(&print_flag, 0, 1)): the loop ends when the flag was set already.
Spins ==
  /\ Running /\ Op.op = "spin"
  /\ core' = IF mem.flag = 0 THEN core ELSE Next1(core)
  /\ mem' = [mem EXCEPT !.flag = 1]
  /\ UNCHANGED <<prog, hakase>>
Unspins ==
  /\ Running /\ Op.op = "unspin"
  /\ core' = Next1(core) /\ mem' = [mem EXCEPT !.flag = 0]
  /\ UNCHANGED <<prog, hakase>>

MakesContext ==
  /\ Running /\ Op.op = "context"
  /\ mem' = [mem EXCEPT !.ctx = (Op.n :> [page |-> Op.v, entry |-> 1, i |-> 0]) @@ @]
  /\ core' = Next1(core)
  /\ UNCHANGED <<prog, hakase>>

\* c = c.next(c): what runs is the image that the page of c.next shows.
Calls ==
  /\ Running /\ Op.op = "call"
  /\ LET c == mem.ctx[Op.n] IN
     \E t \in Translations(c.page, FALSE) :
       LET image == Contents(t.p)
           r == Run(image, c.entry, c.i)
           buf == prog = "paging_042" /\ <<image, c.entry>> \in {entry1_042, entry4_042}
           done == [mem EXCEPT !.ctx[Op.n] = [page |-> c.page, entry |-> r.next, i |-> r.i]]
       IN IF image \notin {App1, App2} \/ c.entry = 0 \/ (buf /\ MayFault(BufPage, TRUE)
                                                           /\ Cached(BufPage) = {})
            THEN core' = [core EXCEPT !.mode = "dead"] /\ UNCHANGED mem
            ELSE IF buf
            THEN \E b \in Translations(BufPage, TRUE) :
                   /\ core' = [Next1(core) EXCEPT !.tlb = {u \in Keep(t) : u.v # b.v} \cup {b}]
                   /\ mem' = [done EXCEPT !.ram = (b.p :> Buffer) @@ @]
            ELSE core' = [Next1(core) EXCEPT !.tlb = Keep(t)] /\ mem' = done
  /\ UNCHANGED <<prog, hakase>>

\* if (c.i != i) { return_value(f2h, 1); return 1; }
Tests1 ==
  /\ Running /\ Op.op = "expect"
  /\ core' = IF mem.ctx[Op.n].i = Op.i THEN Next1(core)
                                       ELSE [core EXCEPT !.mode = "failing"]
  /\ UNCHANGED <<prog, mem, hakase>>

\* The end of main() or friend_main(); friend_init then tells hakase.
Returns ==
  /\ core.mode = "run" /\ core.at.code = "main" /\ core.at.k > Len(Main[prog])
  /\ core' = [core EXCEPT !.mode = "done"]
  /\ mem' = [mem EXCEPT !.stopped = prog \in Tutorials]
  /\ UNCHANGED <<prog, hakase>>

-----------------------------------------------------------------------------
(* hakase *)

\* boot(1) counts the device; whether its core starts is not reported.
Boots ==
  /\ hakase.pc = "start"
  /\ IF prog \in Tutorials
       THEN mem' = [mem EXCEPT !.variable = Tests[prog].value] ELSE UNCHANGED mem
  /\ hakase' = [hakase EXCEPT !.pc = "loop"]
  /\ \/ core' = [core EXCEPT !.mode = "run"]
     \/ prog \in Tutorials /\ UNCHANGED core
  /\ UNCHANGED prog

\* setup() returns a negative value.
SetupFails ==
  /\ hakase.pc = "start" /\ prog \in Tutorials
  /\ hakase' = [hakase EXCEPT !.pc = "end", !.verdict = "FAILED"]
  /\ UNCHANGED <<prog, core, mem>>

\* exec.cc: there is no file, or Init, Deploy or Execute return an error.
LoadFails ==
  /\ hakase.pc = "start" /\ prog \notin Tutorials
  /\ hakase' = [hakase EXCEPT !.pc = "end", !.verdict = "FAILED"]
  /\ UNCHANGED <<prog, core, mem>>

\* offloader_tryreceive(): hakase runs the block, with the console.
Serves ==
  /\ hakase.pc = "loop" /\ prog \in Tutorials /\ Tests[prog].until = "stopped"
  /\ core.mode = "waiting"
  /\ LET resumed == [Next1(core) EXCEPT !.mode = "run"] IN
     \/ /\ Op.block = "show" /\ core' = resumed
        /\ hakase' = [hakase EXCEPT !.out = Append(@, core.x)]
     \/ /\ Op.block = "hello" /\ core' = resumed
        /\ hakase' = [hakase EXCEPT !.out = Append(@, Greeting)]
     \/ /\ Op.block = "func" /\ core' = [resumed EXCEPT !.x = 1]
        /\ hakase' = [hakase EXCEPT !.out = Append(@, Greeting)]
     \/ /\ Op.block = "compute" /\ core' = [resumed EXCEPT !.x = 100]
        /\ hakase' = [hakase EXCEPT !.state = 11 - 10]
     \/ /\ Op.block = "enter" /\ core' = resumed /\ UNCHANGED hakase
     \/ /\ Op.block = "choose" /\ \E i \in 1..2 : core' = [resumed EXCEPT !.input = i]
        /\ UNCHANGED hakase
  /\ UNCHANGED <<prog, mem>>

\* What test_main returns, and main() tests for being positive.
Passed ==
  \/ Tests[prog].returns = "1"
  \/ Tests[prog].returns = "variable" /\ mem.variable > 0
  \/ Tests[prog].returns = "value != 0" /\ mem.variable # 0
  \/ Tests[prog].returns = "state == 1 && sync_flag == 1" /\ hakase.state = 1 /\ mem.variable = 1

LoopEnds ==
  /\ hakase.pc = "loop" /\ prog \in Tutorials
  /\ \/ Tests[prog].until = "stopped" /\ mem.stopped
     \/ Tests[prog].until = "two" /\ mem.variable = 2
  /\ hakase' = [hakase EXCEPT !.pc = "end", !.verdict = IF Passed THEN "PASSED" ELSE "FAILED"]
  /\ UNCHANGED <<prog, core, mem>>

\* exec.cc: a signal of type 2 is answered, then its character is printed; a
\* signal of type 1 is the result, and is never answered.
SignalPrints ==
  /\ hakase.pc = "loop" /\ prog \notin Tutorials /\ core.mode = "waiting"
  /\ \/ Op.op = "do" /\ Op.type = 2 /\ hakase' = [hakase EXCEPT !.pc = "put", !.char = Op.value]
     \/ Op.op = "show_i" /\ hakase' = [hakase EXCEPT !.pc = "put", !.char = mem.ctx[Op.n].i]
  /\ core' = [Next1(core) EXCEPT !.mode = "run"]
  /\ UNCHANGED <<prog, mem>>
Putchar ==
  /\ hakase.pc = "put"
  /\ hakase' = [hakase EXCEPT !.pc = "loop", !.out = Append(@, hakase.char)]
  /\ UNCHANGED <<prog, core, mem>>
Result ==
  IF core.mode = "failing" THEN {1}
  ELSE IF core.mode = "waiting" /\ Op.op = "do" /\ Op.type = 1 THEN {Op.value} ELSE {}
SignalReturns ==
  /\ hakase.pc = "loop" /\ prog \notin Tutorials
  /\ \E rval \in Result :
       hakase' = [hakase EXCEPT !.pc = "end",
                    !.verdict = IF rval = 0 THEN "PASSED" ELSE "FAILED"]
  /\ UNCHANGED <<prog, core, mem>>

-----------------------------------------------------------------------------

Init ==
  /\ prog \in Programs
  /\ core = [at |-> [code |-> "main", k |-> 1], mode |-> "off", input |-> 0, x |-> 0,
             regs |-> [rax |-> 7, rbx |-> 8], stack |-> << >>,
             idt |-> << >>, idtr |-> FALSE, tlb |-> {},
             cr3 |-> IF prog \in Tutorials THEN INITIAL_PML4T ELSE OldCr3]
  /\ mem = [tables |-> IF prog \in Tutorials THEN BootTables ELSE OldBootTables,
            ram |-> << >>, variable |-> 0, flag |-> 0, ctx |-> << >>, stopped |-> FALSE]
  /\ hakase = [pc |-> "start", out |-> << >>, state |-> 0, verdict |-> "none", char |-> 0]

CoreNext ==
  \/ SetEntries \/ ClearTables \/ DoLoad \/ DoStore \/ DoCopy
  \/ LoadsCr3 \/ DoInvlpg \/ SetsGate \/ DoLidt \/ Halts
  \/ MovesRegister \/ Divides \/ Irets \/ Assigns \/ Asks
  \/ Spins \/ Unspins \/ MakesContext \/ Calls \/ Tests1 \/ Returns
HakaseNext ==
  \/ Boots \/ Serves \/ LoopEnds \/ SignalPrints \/ Putchar \/ SignalReturns
Next == CoreNext \/ HakaseNext \/ Prefetch \/ Wakes \/ SetupFails \/ LoadFails

\* The core runs on its own, and hakase polls: both go on.  The user types
\* what is asked for.
Spec == Init /\ [][Next]_vars /\ WF_vars(CoreNext) /\ WF_vars(HakaseNext)

-----------------------------------------------------------------------------
(* Properties *)

AppRun == <<Greeting, Newline, 1, Newline, 9, Newline, 2, Newline, 8, Newline,
            Greeting, Newline>>
\* What a run of each program prints from its start to its end.
Expected ==
  [p \in Programs |->
    CASE p = "mapping" -> <<Frame, Frame + 1, Frame, Frame + 1>>
      [] p \in {"address_space", "pagefault"} -> <<Frame>>
      [] p \in {"friend", "offloading"} -> <<Greeting>>
      [] p \in {"paging_022", "paging_023", "paging_024", "paging_041", "paging_042"} -> AppRun
      [] p = "paging_021" -> <<Greeting, Newline, 1, Newline, 2, Newline, Greeting, Newline>>
      [] p = "paging_100" -> <<Greeting, Newline>>
      [] p \in Tutorials \ {"mapping", "address_space", "pagefault", "friend", "offloading"} -> << >>
      [] OTHER -> <<Greeting, Newline, Greeting, Newline>>]

\* Exercises whose tables the reader is to complete, and programs that end
\* with hlt.
Exercises == {"generate_pagetable", "paging_100"}
Halting == {"address_space", "monitor", "intro_011", "paging_002", "paging_003",
            "paging_011", "paging_013", "paging_014"}

\* Whether the program, with the choice made on the console, comes to its end.
\* The test vmx needs a processor that has VMX.
Ends ==
  /\ prog \notin Exercises \cup Halting
  /\ prog = "jump" => core.input = 1
  /\ prog \in {"pagefault", "exception_recovery"} => core.input = 2
  /\ prog = "vmx" => core.x = 1

\* No access goes through a translation that the tables no longer give: a
\* program that changes an entry in use flushes it (mapping, 024), or loads
\* cr3 before the page is used again (042, whose unmap_page flushes another
\* page than the one it unmaps).  copy_on_write does not.
NoStaleAccess ==
  (Running /\ prog # "copy_on_write") =>
    /\ Op.op \in {"load", "store", "copy"} => Cached(Op.v) \subseteq Walk(Op.v)
    /\ Op.op = "copy" => Cached(Op.from) \subseteq Walk(Op.from)
    /\ Op.op = "call" => Cached(AppPage) \cup Cached(BufPage)
                           \subseteq Walk(AppPage) \cup Walk(BufPage)

\* What hakase prints is, at all times, the beginning of what the program is
\* to print: contents 1 = 5 and 3 = 6 of the mapping tutorial, and the
\* counters of the applications, whose code is found at one virtual address.
\* A test that reports PASSED has printed all of it, and is one that ends.
OutputCorrect ==
  /\ Len(hakase.out) <= Len(Expected[prog])
  /\ hakase.out = SubSeq(Expected[prog], 1, Len(hakase.out))
  /\ hakase.verdict = "PASSED" =>
       hakase.out = Expected[prog] /\ (prog \in Tutorials => Ends)

\* The page fault handlers return to the instruction that faulted with its
\* registers as they were, and with no word of theirs on the stack.
HandlerTransparent ==
  (Running /\ prog = "pagefault" /\ Op.op = "iret") =>
    /\ Len(core.stack) = 1 /\ core.stack[1].frame
    /\ core.stack[1].regs = core.regs

\* Every program that uses one core and has an end reaches it, and hakase reports
\* PASSED, if the core has started (for some, once the choice that makes them end
\* has been typed).
EndsPassed ==
  (hakase.pc = "loop" /\ core.mode # "off" /\ Ends) ~> (hakase.verdict = "PASSED")

=============================================================================
