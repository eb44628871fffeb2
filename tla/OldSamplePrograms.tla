-------------------------- MODULE OldSamplePrograms -------------------------
(***************************************************************************)
(* The programs of sample_old.  They are written for an older Toshokan,    *)
(* whose runtime is not in the repository: virtual address v below 1 GiB   *)
(* is physical address v + 0x80000000, and the program calls hakase        *)
(* through a channel, with a type and a value (1 returns the result of the *)
(* program, 2 prints a character).                                         *)
(*                                                                         *)
(* The definition of a main() that has its own puts(), return_value(),     *)
(* memset(), show_i() or create_pagetable() in its file stands for these.  *)
(***************************************************************************)
EXTENDS FriendOps

\* The physical address of page v of the old address space.
Phys(v) == v + \h80000
OldCode == \h200
OldCr3 == Phys(1)

\* The runtime's address space at the start of main().
OldBootTables ==
  (<<Phys(1), 0>> :> Page(Phys(2))) @@ (<<Phys(2), 0>> :> Page(Phys(3)))
    @@ [e \in {Phys(3)} \X (0..511) |-> Large(Phys(512 * e[2]))]

-----------------------------------------------------------------------------
(* common.cc *)

return_value(i) == << Do(1, i) >>

\* The flag is swapped until the swap FAILS.
puts(message) == << SpinOnFlag, Do(2, message), Do(2, Newline), ClearFlag >>
show_i(n) == << SpinOnFlag, ShowI(n), Do(2, Newline), ClearFlag >>

\* The puts() of the samples without common.cc.
PlainPuts(message) == << Do(2, message), Do(2, Newline) >>

\* A call of an application, with the message and the test that follow it.
\* The statements in "then" stand between the call and the message.
CallAndTest(n, then, i) == << Call(n) >> \o then \o show_i(n) \o << Expect(n, i) >>

Bye == puts(Greeting) \o return_value(0)

-----------------------------------------------------------------------------
(* intro, and the first paging samples *)

PlainBye == PlainPuts(Greeting) \o return_value(0)

intro_001_main == PlainPuts(Greeting) \o PlainBye
intro_011_main == PlainPuts(Greeting) \o << Hlt >> \o PlainBye

pml4t_ == \h310
pdpt_ == \h311
pd1_ == \h312
pd2_ == \h313
pt1_ == \h314
pt2_ == \h315

\* The directory of 0-1 GiB.
Baremetal == [i \in 0..511 |-> Large(Phys(512 * i))]
PagesFrom(first, n) == [i \in 0..n - 1 |-> Page(Phys(first + i))]

\* memset() and the entries that all the samples with one address space set.
Structures(more) ==
  << Clear(pml4t_, 5),
     Set(pml4t_, 0, Page(Phys(pdpt_))), Set(pdpt_, 0, Page(Phys(pd1_))),
     Set(pdpt_, 3, Page(Phys(pd2_))), Set(pd2_, 0, Page(Phys(pt1_))) >>
  \o more \o << Fill(pd1_, Baremetal) >>
LoadCr3 == << MovCr3(Phys(pml4t_)) >>

paging_001_main ==
  PlainPuts(Greeting) \o Structures(<< >>) \o << Fill(pt1_, PagesFrom(0, 512)) >>
  \o LoadCr3 \o PlainBye
paging_002_main ==
  PlainPuts(Greeting) \o Structures(<< >>) \o << Fill(pt1_, PagesFrom(0, 512)) >>
  \o LoadCr3 \o << Hlt >> \o PlainBye
paging_003_main ==
  PlainPuts(Greeting) \o Structures(<< >>) \o LoadCr3 \o << Hlt >> \o PlainBye
paging_011_main ==
  PlainPuts(Greeting) \o Structures(<< >>) \o << Set(pt1_, 0, Page(Phys(1))) >>
  \o LoadCr3 \o << Hlt >> \o PlainBye
paging_013_main ==
  PlainPuts(Greeting) \o Structures(<< >>)
  \o << Set(pt1_, 0, Page(Phys(0))), Set(pt1_, 1, Page(Phys(1))) >>
  \o LoadCr3 \o << Hlt >> \o PlainBye
paging_014_main ==
  PlainPuts(Greeting) \o Structures(<< >>)
  \o << Set(pt1_, 0, Page(Phys(0))), Set(pt1_, 1, Page(Phys(2))) >>
  \o LoadCr3 \o << Hlt >> \o PlainBye

-----------------------------------------------------------------------------
(* Applications that are called in turn, 021 to 024 *)

paging_021_main ==
  puts(Greeting) \o << Store(\h400, App1), NewContext(1, \h400) >>
  \o CallAndTest(1, << >>, 1) \o CallAndTest(1, << >>, 2) \o Bye

paging_022_main ==
  puts(Greeting) \o << Store(\h400, App1), Store(\h500, App2), NewContext(1, \h400) >>
  \o CallAndTest(1, << >>, 1) \o << NewContext(2, \h500) >>
  \o CallAndTest(2, << >>, 9) \o CallAndTest(1, << >>, 2) \o CallAndTest(2, << >>, 8)
  \o Bye

\* The application is copied to where it runs, and back.
SwapIn(place) == << Copy(\h400, place, TRUE) >>
SwapOut(place) == << Copy(place, \h400, TRUE) >>

\* Mutation: app2 is not copied in for its second call.
paging_023_main_NoSwapIn ==
  puts(Greeting) \o << Store(\h500, App1), Store(\h600, App2), NewContext(1, \h400) >>
  \o SwapIn(\h500) \o CallAndTest(1, SwapOut(\h500), 1) \o << NewContext(2, \h400) >>
  \o SwapIn(\h600) \o CallAndTest(2, SwapOut(\h600), 9)
  \o SwapIn(\h500) \o CallAndTest(1, SwapOut(\h500), 2)
  \o CallAndTest(2, SwapOut(\h600), 8) \o Bye
paging_023_main ==
  puts(Greeting) \o << Store(\h500, App1), Store(\h600, App2), NewContext(1, \h400) >>
  \o SwapIn(\h500) \o CallAndTest(1, SwapOut(\h500), 1) \o << NewContext(2, \h400) >>
  \o SwapIn(\h600) \o CallAndTest(2, SwapOut(\h600), 9)
  \o SwapIn(\h500) \o CallAndTest(1, SwapOut(\h500), 2)
  \o SwapIn(\h600) \o CallAndTest(2, SwapOut(\h600), 8) \o Bye

\* The application is mapped to where it runs.
AppPage == \hC0000
Switch(page) == << Set(pt1_, 0, Page(Phys(page))), Invlpg(AppPage) >>
paging_024_main ==
  puts(Greeting) \o Structures(<< >>) \o LoadCr3
  \o << Store(\h500, App1), Store(\h600, App2), NewContext(1, AppPage) >>
  \o Switch(\h500) \o CallAndTest(1, << >>, 1) \o << NewContext(2, AppPage) >>
  \o Switch(\h600) \o CallAndTest(2, << >>, 9)
  \o Switch(\h500) \o CallAndTest(1, << >>, 2)
  \o Switch(\h600) \o CallAndTest(2, << >>, 8) \o Bye

-----------------------------------------------------------------------------
(* More entries and larger pages, 031 to 035 *)

\* The loop runs to 1024: it fills the page after pt1 as well.
paging_031_main ==
  puts(Greeting) \o Structures(<< >>) \o LoadCr3
  \o << Fill(pt1_, PagesFrom(\h500, 1024)), Store(\hC0000, Zero) >> \o Bye
paging_032_main ==
  puts(Greeting) \o Structures(<< Set(pd2_, 1, Page(Phys(pt2_))) >>) \o LoadCr3
  \o << Fill(pt1_, PagesFrom(\h500, 512)), Set(pt2_, 0, Page(Phys(\h700))),
        Store(\hC0200, Zero) >> \o Bye
paging_035_main ==
  puts(Greeting) \o Structures(<< Set(pd2_, 1, Large(Phys(\h800))) >>) \o LoadCr3
  \o << Fill(pt1_, PagesFrom(\h500, 512)), Store(\hC0200, Zero) >> \o Bye

-----------------------------------------------------------------------------
(* An address space for each application, 041 and 042 *)

page_structures_for_app1 == \h310
page_structures_for_app2 == \h314
pd_for_baremetal == \h318

create_pagetable(structures, page_for_app) ==
  << Set(structures, 0, Page(Phys(structures + 1))),
     Set(structures + 1, 0, Page(Phys(pd_for_baremetal))),
     Set(structures + 1, 3, Page(Phys(structures + 2))),
     Set(structures + 2, 0, Page(Phys(structures + 3))),
     Set(structures + 3, 0, Page(page_for_app)) >>

TwoSpaces ==
  puts(Greeting) \o << Clear(page_structures_for_app1, 9), Fill(pd_for_baremetal, Baremetal) >>
  \o create_pagetable(page_structures_for_app1, Phys(\h500))
  \o create_pagetable(page_structures_for_app2, Phys(\h600))
  \o << Store(\h500, App1), Store(\h600, App2), NewContext(1, AppPage) >>
SpaceOf(structures) == << MovCr3(Phys(structures)) >>

paging_041_main ==
  TwoSpaces
  \o SpaceOf(page_structures_for_app1) \o CallAndTest(1, << >>, 1)
  \o << NewContext(2, AppPage) >>
  \o SpaceOf(page_structures_for_app2) \o CallAndTest(2, << >>, 9)
  \o SpaceOf(page_structures_for_app1) \o CallAndTest(1, << >>, 2)
  \o SpaceOf(page_structures_for_app2) \o CallAndTest(2, << >>, 8) \o Bye

\* The page of buf, 0xC0001000; what is flushed is the page before it.
BufPage == \hC0001
map_page(structures) == << Set(structures + 3, 1, Page(Phys(\h700))), Invlpg(AppPage) >>
unmap_page(structures) == << Set(structures + 3, 1, NotPresent), Invlpg(AppPage) >>

paging_042_main ==
  TwoSpaces
  \o SpaceOf(page_structures_for_app1) \o map_page(page_structures_for_app1)
  \o CallAndTest(1, unmap_page(page_structures_for_app1), 1)
  \o << NewContext(2, AppPage) >>
  \o SpaceOf(page_structures_for_app2) \o CallAndTest(2, << >>, 9)
  \o SpaceOf(page_structures_for_app1) \o CallAndTest(1, << >>, 2)
  \o SpaceOf(page_structures_for_app2) \o map_page(page_structures_for_app2)
  \o CallAndTest(2, unmap_page(page_structures_for_app2), 8) \o Bye

\* What the functions of the applications do to the context: i, and which
\* function of the same application is next (0 for nullptr).
entry1(i) == [i |-> 1, next |-> 2]
entry2(i) == [i |-> i + 1, next |-> 0]
entry3(i) == [i |-> 9, next |-> 2]
entry4(i) == [i |-> i - 1, next |-> 0]
Run(image, entry, i) ==
  IF image = App1 THEN (IF entry = 1 THEN entry1(i) ELSE entry2(i))
                  ELSE (IF entry = 1 THEN entry3(i) ELSE entry4(i))

\* In 042, entry1 and entry4 write to buf.
entry1_042 == <<App1, 1>>
entry4_042 == <<App2, 2>>

-----------------------------------------------------------------------------
(* 100: an exercise.  The entry of the page directory pointer table has    *)
(* the bit that makes it a page, and 0x40000000 is not mapped.             *)

paging_100_main ==
  PlainPuts(Greeting)
  \o << Clear(\h301, 3),
        Set(\h301, 0, Page(Phys(\h302))), Set(\h302, 0, Large(Phys(\h303))),
        Set(\h303, 0, Large(Phys(0))), Set(\h303, 1, Large(Phys(512))),
        MovCr3(Phys(\h301)), Load(\h200), Load(\h40000) >>
=============================================================================
