------------------------------ MODULE StackTest -----------------------------
(***************************************************************************)
(* The test of the stacks (tests/stack) on top of FriendBoot: friend_main  *)
(* stores the address of its stack into a shared array, at an index taken  *)
(* from a counter, and hakase examines the array when the friend cores     *)
(* have stopped.  The test calls boot(0); every limit is kept here.        *)
(*                                                                         *)
(* Addresses count pages from friend_binary_end.  friend_init and          *)
(* friend_main use less than a page of stack.  Each loop of test_main over *)
(* the array is one step.                                                  *)
(***************************************************************************)
EXTENDS FriendBoot

CONSTANT kCoreCountMax

\* More devices than entries would make friend_main store behind the array.
\* The first stack ends above friend_binary_end.
ASSUME StackTestAssumption ==
  /\ kCoreCountMax \in Nat /\ NumDevices <= kCoreCountMax
  /\ FirstOffset > 0

VARIABLES
  cnt, stack_addr,   \* the variables of tests/stack/friend.cc
  at,                \* at[c]: next statement of c's friend_main
  x,                 \* x[c]: the index c has taken
  tpc, verdict,      \* test_main: next statement, and what it returned
  inTime             \* history: all started cores had returned when it looked

friend == <<cnt, stack_addr, at, x>>
test == <<tpc, verdict, inTime>>
tvars == <<vars, friend, test>>

Indices == 0..kCoreCountMax - 1
Unset == 1000000     \* ~0, larger than any address

\* setup() has succeeded, and test_main has filled the array.
TestInit ==
  /\ Init
  /\ cnt = 0 /\ stack_addr = [i \in Indices |-> Unset]
  /\ at = [c \in Cores |-> "count"] /\ x = [c \in Cores |-> 0]
  /\ tpc = "boot" /\ verdict = 0 /\ inTime = FALSE

-----------------------------------------------------------------------------
(* friend_main *)

\* Mutation: add-and-fetch in place of fetch-and-add.
TakeNewIndex(c) ==
  /\ pc[c] = "friend_main" /\ at[c] = "count"
  /\ x' = [x EXCEPT ![c] = cnt + 1] /\ cnt' = cnt + 1
  /\ at' = [at EXCEPT ![c] = "store"]
  /\ UNCHANGED <<vars, stack_addr, test>>

\* int x = __sync_fetch_and_add(&cnt, 1);
TakeIndex(c) ==
  /\ pc[c] = "friend_main" /\ at[c] = "count"
  /\ x' = [x EXCEPT ![c] = cnt] /\ cnt' = cnt + 1
  /\ at' = [at EXCEPT ![c] = "store"]
  /\ UNCHANGED <<vars, stack_addr, test>>

\* rsp is in the page below the top; the address stored is that page's end.
PageOf(top) == top - 1
StoreAddress(c) ==
  /\ pc[c] = "friend_main" /\ at[c] = "store"
  /\ stack_addr' = [stack_addr EXCEPT ![x[c]] = PageOf(rsp[c]) + 1]
  /\ at' = [at EXCEPT ![c] = "return"]
  /\ UNCHANGED <<vars, cnt, x, test>>

TestCore(c) ==
  \/ TakeIndex(c) \/ StoreAddress(c)
  \/ /\ CoreStep(c) /\ (pc[c] = "friend_main" => at[c] = "return")
     /\ UNCHANGED <<friend, test>>

-----------------------------------------------------------------------------
(* test_main *)

Return(r) == tpc' = "done" /\ verdict' = r
Goes(ok, next) == IF ok THEN tpc' = next /\ UNCHANGED verdict ELSE Return(-1)

\* if (cpunum > kCoreCountMax)
ChecksCpunum ==
  /\ tpc = "boot" /\ hpc = "poll"
  /\ Goes(cpunum <= kCoreCountMax, "wait")
  /\ UNCHANGED <<vars, friend, inTime>>

StopsWaiting ==
  /\ tpc = "wait" /\ SeesStopped
  /\ tpc' = "entries"
  /\ inTime' = (started \subseteq Returned)
  /\ UNCHANGED <<friend, verdict>>

\* "Invalid entry"
ChecksEntries ==
  /\ tpc = "entries"
  /\ Goes(\A i \in Indices : IF i < cpunum THEN stack_addr[i] # 0 ELSE stack_addr[i] = Unset,
          "sort")
  /\ UNCHANGED <<vars, friend, inTime>>

\* qsort() of the first cpunum entries: the one ascending arrangement of them.
Ascending(a, n) ==
  LET Below(i, j) == a[i] < a[j] \/ (a[i] = a[j] /\ i < j)
      Rank(i) == Cardinality({j \in 0..n - 1 : Below(j, i)})
  IN [k \in Indices |-> IF k < n THEN a[CHOOSE i \in 0..n - 1 : Rank(i) = k] ELSE a[k]]
Sorts ==
  /\ tpc = "sort"
  /\ stack_addr' = Ascending(stack_addr, cpunum)
  /\ tpc' = "duplicates"
  /\ UNCHANGED <<vars, cnt, at, x, verdict, inTime>>

\* "Duplicate stack address": neighbours are compared.
ChecksDuplicates ==
  /\ tpc = "duplicates"
  /\ Goes(\A i \in 1..cpunum - 1 : stack_addr[i - 1] # stack_addr[i], "range")
  /\ UNCHANGED <<vars, friend, inTime>>

\* "Invalid stack address"
ChecksRange ==
  /\ tpc = "range"
  /\ IF \A i \in 0..cpunum - 1 : stack_addr[i] > 0 THEN Return(1) ELSE Return(-1)
  /\ UNCHANGED <<vars, friend, inTime>>

TestHakase ==
  \/ (OpenDevice \/ NoMoreDevices) /\ UNCHANGED <<friend, test>>
  \/ ChecksCpunum \/ StopsWaiting \/ ChecksEntries \/ Sorts \/ ChecksDuplicates
  \/ ChecksRange

TestNext == TestHakase \/ \E c \in Cores : TestCore(c)

\* As in FriendBoot; that friend_main returns is now part of the core's steps.
TestSpec ==
  /\ TestInit /\ [][TestNext]_tvars
  /\ WF_tvars(TestHakase) /\ \A c \in Cores : WF_tvars(TestCore(c))

-----------------------------------------------------------------------------
(* Property *)

\* The test fails only for the two reasons other runs show, a device that was
\* counted without its core or a flag that was raised too early: whatever the
\* order in which cores take stacks and indices, otherwise it returns 1.
StackTestPasses ==
  tpc = "done" /\ inTime /\ cpunum = Cardinality(started) => verdict = 1
=============================================================================
