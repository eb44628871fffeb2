-------------------------- MODULE TutorialPrograms --------------------------
(***************************************************************************)
(* The programs of the tutorial and the tests that use one friend core:    *)
(* what friend_main does on it, the exception handlers of int.S, and what  *)
(* test_main waits for and returns.                                        *)
(***************************************************************************)
EXTENDS FriendOps

CONSTANT CowPages   \* pages in each half of the table of copy_on_write (256)

ASSUME CowAssumption == CowPages \in 1..256

\* The start of the friend memory, and where the linker may have put the
\* tables.
DEPLOY_PHYS_ADDR_START == \h100000
FriendCode == DEPLOY_PHYS_ADDR_START + 1
pml4t == DEPLOY_PHYS_ADDR_START + 15
pdpt == DEPLOY_PHYS_ADDR_START + 16
pd1 == DEPLOY_PHYS_ADDR_START + 17
pd2 == DEPLOY_PHYS_ADDR_START + 18
pd == DEPLOY_PHYS_ADDR_START + 19
pt == DEPLOY_PHYS_ADDR_START + 20
pt2 == DEPLOY_PHYS_ADDR_START + 21
INITIAL_PML4T == \h71

\* "assume physical memory is mapped straight to virtual memory"
v2p(vaddr) == vaddr

vaddr1 == \h80000
Frame == DEPLOY_PHYS_ADDR_START    \* 0x100000000

-----------------------------------------------------------------------------
(* paging *)

address_space_friend_main ==
  << Set(pdpt, PdptIndex(vaddr1), Page(v2p(pd))),
     Set(pd, PdIndex(vaddr1), Large(Frame)),
     Load(vaddr1), Offload("show"), Hlt >>

mapping_show_memdata(vaddr) == << Load(vaddr), Offload("show") >>
mapping_wait_input == << Offload("enter") >>

\* Mutation: the TLB entry is not flushed after the page has been remapped.
mapping_friend_main_NoInvlpg ==
  << Set(pdpt, PdptIndex(vaddr1), Page(v2p(pd))),
     Set(pd, PdIndex(vaddr1), Page(v2p(pt))),
     Set(pt, PtIndex(vaddr1), Page(Frame)) >>
  \o mapping_show_memdata(vaddr1) \o mapping_wait_input
  \o << Set(pt, PtIndex(vaddr1), Page(Frame + 1)) >>
  \o mapping_show_memdata(vaddr1) \o mapping_wait_input
  \o << Set(pt, PtIndex(vaddr1 + 1), Page(Frame)),
        Set(pt, PtIndex(vaddr1 + 2), Page(Frame + 1)) >>
  \o mapping_show_memdata(vaddr1 + 1) \o mapping_show_memdata(vaddr1 + 2)
  \o mapping_wait_input

mapping_friend_main ==
  << Set(pdpt, PdptIndex(vaddr1), Page(v2p(pd))),
     Set(pd, PdIndex(vaddr1), Page(v2p(pt))),
     Set(pt, PtIndex(vaddr1), Page(Frame)) >>
  \o mapping_show_memdata(vaddr1) \o mapping_wait_input
  \o << Set(pt, PtIndex(vaddr1), Page(Frame + 1)), Invlpg(vaddr1) >>
  \o mapping_show_memdata(vaddr1) \o mapping_wait_input
  \o << Set(pt, PtIndex(vaddr1 + 1), Page(Frame)),
        Set(pt, PtIndex(vaddr1 + 2), Page(Frame + 1)) >>
  \o mapping_show_memdata(vaddr1 + 1) \o mapping_show_memdata(vaddr1 + 2)
  \o mapping_wait_input

hierarchy_vaddr2 == \h80200
hierarchy_wait_input == << Offload("enter") >>
hierarchy_friend_main ==
  << Set(pdpt, PdptIndex(vaddr1), Page(v2p(pd))),
     Set(pd, PdIndex(vaddr1), Page(v2p(pt))),
     Set(pt, PtIndex(vaddr1), Page(Frame)) >>
  \o hierarchy_wait_input
  \o << Set(pd, PdIndex(hierarchy_vaddr2), Page(v2p(pt2))),
        Set(pt2, PtIndex(hierarchy_vaddr2), Page(Frame)) >>
  \o hierarchy_wait_input

\* An exercise: the reader is to fill the tables before cr3 is loaded.
generate_pagetable_friend_main ==
  << MovCr3(v2p(pml4t)), Load(\h40000), Offload("show") >>

\* setup_inthandler makes the gate of one vector; the handler is the one that
\* was chosen on the console.
pagefault_wait_input == << Offload("choose") >>
pagefault_setup_inthandler(handlers) == << Gate(14, handlers) >>
pagefault_friend_main ==
  pagefault_wait_input
  \o pagefault_setup_inthandler(<<"int_handler1", "int_handler2">>)
  \o << Lidt,
        Set(pdpt, PdptIndex(vaddr1), Page(v2p(pd))),
        Set(pd, PdIndex(vaddr1), Page(v2p(pt))),
        Set(pt, PtIndex(vaddr1), NotPresent),
        Load(vaddr1), Offload("show") >>

pagefault_int_handler1 == << Drop, Iret >>

\* Mutation: the registers are restored in the order they were saved in.
pagefault_int_handler2_PopOrder ==
  << Push("rax"), Push("rbx"), Mov("rax", <<pt, pt>>), Mov("rbx", <<Frame, Frame>>),
     Set(pt, PtIndex(vaddr1), Page(Frame)),
     Mov("rax", <<vaddr1, vaddr1>>), Invlpg(vaddr1),
     Pop("rax"), Pop("rbx"), Drop, Iret >>

\* pt_entry points to the entry of vaddr1.
pagefault_int_handler2 ==
  << Push("rax"), Push("rbx"), Mov("rax", <<pt, pt>>), Mov("rbx", <<Frame, Frame>>),
     Set(pt, PtIndex(vaddr1), Page(Frame)),
     Mov("rax", <<vaddr1, vaddr1>>), Invlpg(vaddr1),
     Pop("rbx"), Pop("rax"), Drop, Iret >>

-----------------------------------------------------------------------------
(* paging/copy_on_write: pages i and 256 + i, for i below CowPages *)

Low == 0..CowPages - 1
High == {256 + i : i \in Low}
Source == \h50000    \* 0x50000000

\* The loop adds 8 to the index of a word: every eighth word is copied.
my_memcpy(dst, src) == [i \in 1..CowPages |-> Copy(dst + i - 1, src + i - 1, FALSE)]
WriteCopies == [i \in 1..CowPages |-> Store(vaddr1 + 256 + i - 1, Zero)]

copy_on_write_setup_inthandler(handler) == << Gate(14, <<handler, handler>>) >>
copy_on_write_friend_main ==
  copy_on_write_setup_inthandler("int_handler")
  \o << Lidt,
        Set(pdpt, PdptIndex(vaddr1), Page(v2p(pd))),
        Set(pd, PdIndex(vaddr1), Page(v2p(pt))),
        Fill(pt, [i \in Low |-> Page(Source + i)]),
        Fill(pt, [i \in High |-> Page(Source + i)]) >>
  \o my_memcpy(vaddr1 + 256, vaddr1) \o WriteCopies
  \o << Offload("enter"),
        Fill(pt, [i \in Low |-> ReadOnly(Source + i)]),
        Fill(pt, [i \in High |-> ReadOnly(Source + i - 256)]) >>
  \o WriteCopies \o << Offload("enter") >>

-----------------------------------------------------------------------------
(* interrupt *)

jump_wait_input == << Offload("choose") >>
jump_setup_inthandler(handler) == << Gate(0, <<handler, handler>>) >>
jump_friend_main ==
  jump_setup_inthandler("int_handler") \o << Lidt >> \o jump_wait_input
  \o << Mov("rbx", <<1, 0>>), Div >>
jump_int_handler == << Hlt >>

exception_recovery_wait_input == << Offload("choose") >>
exception_recovery_setup_inthandler(handlers) == << Gate(0, handlers) >>
exception_recovery_friend_main ==
  exception_recovery_wait_input
  \o exception_recovery_setup_inthandler(<<"int_handler1", "int_handler2">>)
  \o << Lidt, Mov("rbx", <<0, 0>>), Div >>
exception_recovery_int_handler1 == << Iret >>
exception_recovery_int_handler2 == << Mov("rbx", <<1, 1>>), Iret >>

-----------------------------------------------------------------------------
(* toshokan *)

friend_friend_main == << Offload("hello"), Assign(1) >>
monitor_friend_main == << Hlt >>
offloading_friend_main == << Offload("func"), AssignX(1) >>
\* Mutation: the shared variable is set, not incremented.
symbol_resolution_friend_main_Set == << Assign(1) >>
symbol_resolution_friend_main == << Increment >>

-----------------------------------------------------------------------------
(* Tests with boot(1) *)

\* func(11, 10) sets state, and x becomes 100; sync_flag = x / 100.
offload_friend_main == << Offload("compute"), AssignX(100) >>
\* is_vmx_available is false, and set if the bit is.
vmx_friend_main == << Cpuid, AssignX(1) >>

\* test_main: the value given to the shared variable before boot(), the
\* condition that ends the loop, and the expression that is returned then.
TestMain(value, until, returns) ==
  [value |-> value, until |-> until, returns |-> returns]

address_space_test_main == TestMain(0, "stopped", "1")
mapping_test_main == TestMain(0, "stopped", "1")
hierarchy_test_main == TestMain(0, "stopped", "1")
generate_pagetable_test_main == TestMain(0, "stopped", "1")
pagefault_test_main == TestMain(0, "stopped", "1")
copy_on_write_test_main == TestMain(0, "stopped", "1")
jump_test_main == TestMain(0, "stopped", "1")
exception_recovery_test_main == TestMain(0, "stopped", "1")
friend_test_main == TestMain(0, "stopped", "variable")
\* The one program here with boot(0): hakase and every core loop for ever.
monitor_test_main == TestMain(0, "never", "1")
offloading_test_main == TestMain(0, "stopped", "value != 0")
offload_test_main == TestMain(0, "stopped", "state == 1 && sync_flag == 1")
vmx_test_main == TestMain(0, "stopped", "variable")
symbol_resolution_test_main == TestMain(1, "two", "1")
=============================================================================
