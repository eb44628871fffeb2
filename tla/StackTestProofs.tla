--------------------------- MODULE StackTestProofs ---------------------------
(***************************************************************************)
(* For any number of cores, any limit and any size of the array: the test  *)
(* of the stacks passes unless the flag was early or a core did not start. *)
(* For any number of cores, the programs of CountTest report PASSED if and *)
(* only if all of them were counted in time.                               *)
(***************************************************************************)
EXTENDS StackTest, CountTest, FriendBootProofs

-----------------------------------------------------------------------------
(* qsort *)

\* The order by which Ascending arranges the entries of a, and the place it
\* gives to entry i.
Below(a, i, j) == a[i] < a[j] \/ (a[i] = a[j] /\ i < j)
Lower(a, n, i) == {j \in 0..n - 1 : Below(a, j, i)}
Rank(a, n, i) == Cardinality(Lower(a, n, i))

\* Places are numbers below n.
LEMMA RankType ==
  ASSUME NEW n \in Nat, NEW a \in [Indices -> Int], 0..n - 1 \subseteq Indices, NEW i \in 0..n - 1
  PROVE  IsFiniteSet(Lower(a, n, i)) /\ Rank(a, n, i) \in 0..n - 1
<1> DEFINE S == 0..n - 1
<1>1. IsFiniteSet(S) /\ Cardinality(S) = n
  BY FS_Interval
<1>2. Lower(a, n, i) \subseteq S \ {i} /\ i \in S
  BY DEF Lower, Below
<1> HIDE DEF S
<1>3. IsFiniteSet(S \ {i}) /\ Cardinality(S \ {i}) = n - 1
  BY <1>1, <1>2, FS_RemoveElement
<1>4. IsFiniteSet(Lower(a, n, i)) /\ Cardinality(Lower(a, n, i)) <= n - 1
  BY <1>2, <1>3, FS_Subset
<1>5. Cardinality(Lower(a, n, i)) \in Nat
  BY <1>4, FS_CardinalityType
<1> QED BY <1>4, <1>5 DEF Rank

\* A lower entry gets a lower place.
LEMMA RankOrder ==
  ASSUME NEW n \in Nat, NEW a \in [Indices -> Int], 0..n - 1 \subseteq Indices,
         NEW i \in 0..n - 1, NEW j \in 0..n - 1, Below(a, i, j)
  PROVE  Rank(a, n, i) < Rank(a, n, j)
<1>1. Lower(a, n, i) \subseteq Lower(a, n, j)
  BY DEF Lower, Below
<1>2. i \in Lower(a, n, j) /\ i \notin Lower(a, n, i)
  BY DEF Lower, Below
<1>3. /\ IsFiniteSet(Lower(a, n, i)) /\ IsFiniteSet(Lower(a, n, j))
      /\ Rank(a, n, i) \in Int /\ Rank(a, n, j) \in Int
  BY RankType
<1>4. Rank(a, n, i) <= Rank(a, n, j) /\ Rank(a, n, i) # Rank(a, n, j)
  BY <1>1, <1>2, <1>3, FS_Subset DEF Rank
<1> QED BY <1>3, <1>4

\* Every place is taken: ranks are different, and there are as many places as
\* entries.
LEMMA RankOnto ==
  ASSUME NEW n \in Nat, NEW a \in [Indices -> Int], 0..n - 1 \subseteq Indices, NEW k \in 0..n - 1
  PROVE  \E i \in 0..n - 1 : Rank(a, n, i) = k
<1> DEFINE S == 0..n - 1
           rank == [i \in S |-> Rank(a, n, i)]
<1>1. rank \in [S -> S]
  BY RankType
<1>2. ASSUME NEW i \in S, NEW j \in S, rank[i] = rank[j] PROVE i = j
  <2>1. i # j => Below(a, i, j) \/ Below(a, j, i)
    BY DEF Below
  <2>2. Rank(a, n, i) = Rank(a, n, j) /\ Rank(a, n, i) \in Int
    BY <1>2, RankType
  <2> QED BY <2>1, <2>2, RankOrder
<1>3. rank \in Injection(S, S)
  BY <1>1, <1>2 DEF Injection, IsInjective
<1>4. IsFiniteSet(S)
  BY FS_Interval
<1>5. rank \in Surjection(S, S)
  BY <1>3, <1>4, FS_Injection
<1> QED BY Zenon, <1>5 DEF Surjection

\* Ascending rearranges the first n entries, and sorts them when they differ.
LEMMA AscendingSorts ==
  ASSUME NEW n \in Nat, NEW a \in [Indices -> Int], 0..n - 1 \subseteq Indices
  PROVE  LET b == Ascending(a, n)
         IN  /\ b \in [Indices -> Int]
             /\ \A k \in 0..n - 1 : \E i \in 0..n - 1 : b[k] = a[i]
             /\ (\A i, j \in 0..n - 1 : a[i] = a[j] => i = j) =>
                  \A k \in 1..n - 1 : b[k - 1] < b[k]
<1> DEFINE b == Ascending(a, n)
           place(k) == CHOOSE i \in 0..n - 1 : Rank(a, n, i) = k
<1>1. b = [k \in Indices |-> IF k < n THEN a[place(k)] ELSE a[k]]
  BY DEF Ascending, Rank, Lower, Below
<1>2. \A k \in 0..n - 1 : place(k) \in 0..n - 1 /\ Rank(a, n, place(k)) = k
  BY Zenon, RankOnto
<1> HIDE DEF place
<1>3. \A k \in 0..n - 1 : b[k] = a[place(k)]
  BY <1>1
<1>4. b \in [Indices -> Int]
  BY <1>1, <1>2 DEF Indices
<1>5. ASSUME \A i, j \in 0..n - 1 : a[i] = a[j] => i = j, NEW k \in 1..n - 1
      PROVE  b[k - 1] < b[k]
  <2> DEFINE i == place(k - 1)
             j == place(k)
  <2>1. i \in 0..n - 1 /\ j \in 0..n - 1 /\ Rank(a, n, i) = k - 1 /\ Rank(a, n, j) = k
    BY <1>2
  <2>2. b[k - 1] = a[i] /\ b[k] = a[j]
    BY <1>3
  <2> HIDE DEF i, j
  <2>3. ~Below(a, j, i) /\ i # j
    BY <2>1, RankOrder
  <2>4. a[i] \in Int /\ a[j] \in Int /\ a[i] # a[j]
    BY <1>5, <2>1, <2>3
  <2> QED BY <2>1, <2>2, <2>3, <2>4 DEF Below
<1> QED BY <1>2, <1>3, <1>4, <1>5

-----------------------------------------------------------------------------
(* The invariant *)

Took == {c \in Cores : at[c] # "count"}
Stored == {c \in Cores : at[c] = "return"}

\* Indices are given out without gaps and only once; a core is inside or behind
\* friend_main when it has one, and has stored its address when it returns.
Taking ==
  /\ at \in [Cores -> {"count", "store", "return"}]
  /\ x \in [Cores -> Nat]
  /\ \A c \in Cores : pc[c] # "off" => c \in started
  /\ \A c \in Took : pc[c] = "friend_main" \/ c \in Returned
  /\ Returned \subseteq Stored
  /\ cnt = Cardinality(Took)
  /\ \A c \in Took : x[c] < cnt
  /\ \A c, d \in Took : x[c] = x[d] => c = d
  /\ \A i \in 0..cnt - 1 : \E c \in Took : x[c] = i

\* The array, before hakase sorts it.
Filling ==
  /\ stack_addr \in [Indices -> Int]
  /\ tpc \in {"boot", "wait", "entries", "sort"} =>
       /\ \A c \in Stored : stack_addr[x[c]] = rsp[c]
       /\ \A i \in Indices : i >= cnt => stack_addr[i] = Unset

\* All devices that were counted have a core, and all cores have returned.
Complete == hpc = "end" /\ started \subseteq Returned /\ cpunum = Cardinality(started)

Positive == \A i \in 0..cpunum - 1 : stack_addr[i] > 0
Different == \A i \in 1..cpunum - 1 : stack_addr[i - 1] # stack_addr[i]

\* Where test_main is, and what it must then find.
Judging ==
  /\ tpc \in {"boot", "wait", "entries", "sort", "duplicates", "range", "done"}
  /\ tpc # "boot" => hpc # "boot"
  /\ tpc \in {"boot", "wait"} => ~inTime
  /\ inTime => hpc = "end" /\ started \subseteq Returned
  /\ inTime /\ Complete => /\ tpc = "duplicates" => Positive /\ Different
                           /\ tpc = "range" => Positive
                           /\ tpc = "done" => verdict = 1

TestInv == Taking /\ Filling /\ Judging

\* What FriendBootProofs shows of the boot and of the counters.
BootInv == Inv /\ Counting

\* The deployed image and the filled array satisfy the invariant.
LEMMA TestStarts == TestInit => BootInv /\ TestInv
<1> SUFFICES ASSUME TestInit PROVE BootInv /\ TestInv
  OBVIOUS
<1>1. BootInv
  BY InitInv, CountingInit DEF TestInit, BootInv
<1>2. /\ cnt = 0 /\ stack_addr = [i \in Indices |-> Unset] /\ tpc = "boot"
      /\ at = [c \in Cores |-> "count"] /\ x = [c \in Cores |-> 0]
      /\ pc = [c \in Cores |-> "off"]
  BY Zenon DEF TestInit, Init
<1>3. Took = {} /\ Stored = {} /\ Returned = {}
  BY <1>2 DEF Took, Stored, Returned
<1>4. Taking
  BY <1>2, <1>3, FS_EmptySet DEF Taking
<1>5. Filling
  BY <1>2, <1>3 DEF Filling, Unset
<1>6. ~inTime
  BY Zenon DEF TestInit
<1>7. Judging
  BY <1>2, <1>6 DEF Judging
<1> QED BY <1>1, <1>4, <1>5, <1>7 DEF TestInv

\* The test only adds to the behaviour of FriendBoot.
LEMMA TestRefines == [TestNext]_tvars => [Next]_vars
<1> SUFFICES ASSUME [TestNext]_tvars PROVE [Next]_vars
  OBVIOUS
<1>1. CASE TestHakase
  BY Zenon, <1>1 DEF TestHakase, ChecksCpunum, StopsWaiting, ChecksEntries, Sorts, ChecksDuplicates,
     ChecksRange, Next, HakaseStep
<1>2. ASSUME NEW c \in Cores, TestCore(c) PROVE [Next]_vars
  BY <1>2 DEF TestCore, TakeIndex, StoreAddress, Next
<1>3. CASE UNCHANGED tvars
  BY <1>3 DEF tvars
<1> QED BY <1>1, <1>2, <1>3 DEF TestNext

-----------------------------------------------------------------------------
(* friend_main *)

\* Whoever is inside friend_main makes hakase's look a premature one.
LEMMA NotInTime ==
  ASSUME Taking, Judging, NEW c \in Cores, pc[c] = "friend_main"
  PROVE  ~inTime /\ c \notin Returned
<1>1. c \in started /\ c \notin Returned
  BY DEF Taking, Returned
<1> QED BY <1>1 DEF Judging

\* The counter of the test, and the room in the array.
LEMMA TookFinite ==
  ASSUME Taking
  PROVE  /\ IsFiniteSet(Took) /\ cnt \in Nat /\ cnt <= NumDevices
         /\ \A c \in Took : x[c] \in Indices
<1>1. IsFiniteSet(Cores) /\ Cardinality(Cores) = NumDevices /\ NumDevices \in Nat
  BY BootAssumption, FS_Interval DEF Cores
<1>2. Took \subseteq Cores
  BY DEF Took
<1>3. IsFiniteSet(Took) /\ Cardinality(Took) <= NumDevices /\ Cardinality(Took) \in Nat
  BY <1>1, <1>2, FS_Subset, FS_CardinalityType
<1>4. \A c \in Took : x[c] \in Nat /\ x[c] < cnt
  BY <1>2 DEF Taking
<1>5. cnt \in Nat /\ cnt <= NumDevices /\ kCoreCountMax \in Nat /\ NumDevices <= kCoreCountMax
  BY <1>3, StackTestAssumption DEF Taking
<1>6. \A c \in Took : x[c] \in Indices
  BY <1>1, <1>4, <1>5 DEF Indices
<1> QED BY <1>3, <1>5, <1>6

\* The fetch-and-add gives out the next index.
LEMMA TakeIndexKeeps ==
  ASSUME TestInv, NEW c \in Cores, TakeIndex(c)
  PROVE  TestInv'
<1> USE DEF TestInv
<1>1. /\ pc[c] = "friend_main" /\ at[c] = "count" /\ cnt' = cnt + 1
      /\ x' = [x EXCEPT ![c] = cnt] /\ at' = [at EXCEPT ![c] = "store"]
      /\ UNCHANGED <<pc, started, rsp, hpc, cpunum, stack_addr, tpc, verdict, inTime>>
  BY DEF TakeIndex, vars, test
<1>2. at \in [Cores -> {"count", "store", "return"}] /\ x \in [Cores -> Nat] /\ cnt \in Nat
  BY TookFinite DEF Taking
<1>3. /\ at' \in [Cores -> {"count", "store", "return"}] /\ at'[c] = "store"
      /\ \A d \in Cores : d # c => at'[d] = at[d]
  BY <1>1, <1>2
<1>4. /\ x' \in [Cores -> Nat] /\ x'[c] = cnt
      /\ \A d \in Cores : d # c => x'[d] = x[d]
  BY <1>1, <1>2
<1>5. Took' = Took \cup {c} /\ c \notin Took /\ Stored' = Stored /\ Returned' = Returned
      /\ Took \subseteq Cores /\ c \notin Stored
  BY <1>1, <1>3 DEF Took, Stored, Returned
<1>6. cnt' = Cardinality(Took')
  BY Zenon, <1>1, <1>5, TookFinite, FS_AddElement DEF Taking
<1>7. \A d \in Took : x'[d] = x[d] /\ x[d] \in Nat /\ x[d] < cnt
  BY <1>2, <1>4, <1>5 DEF Taking
<1>8. /\ \A d \in Took' : x'[d] < cnt'
      /\ \A d, e \in Took' : x'[d] = x'[e] => d = e
  BY <1>1, <1>2, <1>4, <1>5, <1>7 DEF Taking
<1>9. ASSUME NEW i \in 0..cnt' - 1 PROVE \E d \in Took' : x'[d] = i
  <2>1. CASE i = cnt
    BY <1>4, <1>5, <2>1
  <2>2. CASE i # cnt
    <3>1. i \in 0..cnt - 1
      BY <1>1, <1>2, <2>2
    <3> QED BY <3>1, <1>5, <1>7 DEF Taking
  <2> QED BY <2>1, <2>2
<1>10. Taking'
  BY <1>1, <1>3, <1>4, <1>5, <1>6, <1>8, <1>9 DEF Taking
<1>11. Filling'
  <2>1. \A d \in Stored : x'[d] = x[d]
    BY <1>4, <1>5 DEF Stored
  <2>2. \A i \in Indices : i >= cnt + 1 => i >= cnt
    BY <1>2 DEF Indices
  <2> QED BY <1>1, <1>5, <2>1, <2>2 DEF Filling
<1>12. ~inTime'
  <2>1. ~inTime
    BY <1>1, NotInTime
  <2> QED BY <1>1, <2>1
<1>13. Judging'
  BY <1>1, <1>12 DEF Judging
<1> QED BY <1>10, <1>11, <1>13

\* The store goes to the core's own entry.
LEMMA StoreAddressKeeps ==
  ASSUME Inv, TestInv, NEW c \in Cores, StoreAddress(c)
  PROVE  TestInv'
<1> USE DEF TestInv
<1>1. /\ pc[c] = "friend_main" /\ at[c] = "store" /\ at' = [at EXCEPT ![c] = "return"]
      /\ stack_addr' = [stack_addr EXCEPT ![x[c]] = PageOf(rsp[c]) + 1]
      /\ UNCHANGED <<pc, started, rsp, hpc, cpunum, cnt, x, tpc, verdict, inTime>>
  BY DEF StoreAddress, vars, test
<1>2. /\ at \in [Cores -> {"count", "store", "return"}] /\ stack_addr \in [Indices -> Int]
      /\ rsp[c] \in Int /\ PageOf(rsp[c]) + 1 = rsp[c]
  BY DEF Taking, Filling, Inv, Stacks, PageOf
<1>3. /\ at' \in [Cores -> {"count", "store", "return"}] /\ at'[c] = "return"
      /\ \A d \in Cores : d # c => at'[d] = at[d]
  BY <1>1, <1>2
<1>4. Took' = Took /\ c \in Took /\ Stored' = Stored \cup {c} /\ c \notin Stored
      /\ Returned' = Returned /\ Stored \subseteq Took
  BY <1>1, <1>3 DEF Took, Stored, Returned
<1>5. Taking'
  BY <1>1, <1>3, <1>4 DEF Taking
<1>6. x[c] \in Indices /\ x[c] < cnt /\ cnt \in Nat /\ x[c] \in Nat
  BY <1>4, TookFinite DEF Taking
<1>7. /\ stack_addr' \in [Indices -> Int] /\ stack_addr'[x[c]] = rsp[c]
      /\ \A i \in Indices : i # x[c] => stack_addr'[i] = stack_addr[i]
  BY <1>1, <1>2, <1>6
<1>8. \A d \in Stored : x[d] # x[c] /\ x[d] \in Indices
  BY <1>4, TookFinite DEF Taking
<1>9. Filling'
  <2>1. \A i \in Indices : i >= cnt => i # x[c]
    BY <1>6 DEF Indices
  <2> QED BY <1>1, <1>4, <1>7, <1>8, <2>1 DEF Filling
<1>10. ~inTime'
  <2>1. ~inTime
    BY <1>1, NotInTime
  <2> QED BY <1>1, <2>1
<1>11. Judging'
  BY <1>1, <1>10 DEF Judging
<1> QED BY <1>5, <1>9, <1>11

\* A step that changes neither the variables of the test nor the number of
\* cores, by which cores only get further.
LEMMA ProgressKeeps ==
  ASSUME TestInv, UNCHANGED <<friend, test>>, Returned \subseteq Returned', Returned' \subseteq Stored,
         \A d \in Took : pc'[d] = "friend_main" \/ d \in Returned',
         \A d \in Cores : pc'[d] # "off" => d \in started',
         \A d \in Stored : rsp'[d] = rsp[d],
         tpc # "boot" => UNCHANGED <<hpc, started, cpunum>>
  PROVE  TestInv'
<1> USE DEF TestInv
<1>1. UNCHANGED <<cnt, stack_addr, at, x, tpc, verdict, inTime>>
  BY DEF friend, test
<1>2. Took' = Took /\ Stored' = Stored
  BY <1>1 DEF Took, Stored
<1>3. Taking'
  BY <1>1, <1>2 DEF Taking
<1>4. Filling'
  BY <1>1, <1>2 DEF Filling
<1>5. CASE tpc = "boot"
  <2>1. ~inTime' /\ tpc' = "boot"
    BY <1>1, <1>5 DEF Judging
  <2> QED BY <1>3, <1>4, <2>1 DEF Judging
<1>6. CASE tpc # "boot"
  <2>1. inTime /\ Complete' => Complete
    BY <1>6 DEF Judging, Complete
  <2>2. Judging'
    BY <1>1, <1>6, <2>1 DEF Judging, Positive, Different
  <2> QED BY <1>3, <1>4, <2>2
<1> QED BY <1>5, <1>6

\* The statements of friend_init and entry64.
LEMMA CoreKeeps ==
  ASSUME BootInv, TestInv, NEW c \in Cores, CoreStep(c), pc[c] = "friend_main" => at[c] = "return",
         UNCHANGED <<friend, test>>
  PROVE  TestInv'
<1> USE DEF TestInv, BootInv
<1>1. UNCHANGED <<hpc, started, cpunum>>
  BY DEF CoreStep, Entry64, FriendInit, Constructors, MainReturns, Compare, Destructors, Signal,
     hakase
<1>2. /\ pc[c] # "off" /\ pc'[c] # "off"
      /\ \A d \in Cores : d # c => pc'[d] = pc[d]
      /\ pc[c] = "friend_main" => pc'[c] = "compare"
      /\ c \in Returned => pc'[c] \in {"dtors", "signal", "stop"}
      /\ pc'[c] = "compare" => pc[c] = "friend_main"
      /\ pc'[c] \in {"dtors", "signal", "stop"} => c \in Returned
  <2>1. pc \in [Cores -> CorePC]
    BY DEF Counting
  <2> QED BY <2>1 DEF CoreStep, Entry64, FriendInit, Constructors, MainReturns, Compare,
              Destructors, Signal, Step, Returned
<1>3. Returned \subseteq Returned' /\ Returned' \subseteq Stored
  BY <1>2 DEF Returned, Stored, Taking
<1>4. \A d \in Took : pc'[d] = "friend_main" \/ d \in Returned'
  BY <1>2, <1>3 DEF Taking, Took, Returned
<1>5. \A d \in Stored : rsp'[d] = rsp[d]
  <2>1. CASE Entry64(c)
    <3>1. c \notin Stored
      BY <2>1 DEF Entry64, Step, Taking, Took, Stored, Returned
    <3>2. rsp' = [rsp EXCEPT ![c] = stack_offset] /\ rsp \in [Cores -> Int]
      BY <2>1 DEF Entry64, Inv, Stacks
    <3> QED BY <3>1, <3>2 DEF Stored
  <2>2. CASE ~Entry64(c)
    BY <2>2 DEF CoreStep, FriendInit, Constructors, MainReturns, Compare, Destructors, Signal
  <2> QED BY <2>1, <2>2
<1>6. \A d \in Cores : pc'[d] # "off" => d \in started'
  BY <1>1, <1>2 DEF Taking
<1> QED BY <1>1, <1>3, <1>4, <1>5, <1>6, ProgressKeeps

\* The loop of boot(): the core of a device that is opened was off.
LEMMA BootKeeps ==
  ASSUME BootInv, TestInv, OpenDevice \/ NoMoreDevices, UNCHANGED <<friend, test>>
  PROVE  TestInv'
<1> USE DEF TestInv, BootInv
<1>1. tpc = "boot" /\ rsp' = rsp
  BY DEF OpenDevice, NoMoreDevices, Judging
<1>2. \A d \in Cores : \/ (pc'[d] = pc[d] /\ (d \in started => d \in started'))
                        \/ (pc[d] = "off" /\ pc'[d] = "entry64" /\ d \in started')
  <2>1. CASE NoMoreDevices
    BY <2>1 DEF NoMoreDevices
  <2>2. CASE OpenDevice
    <3>1. device \in Cores /\ pc[device] = "off" /\ pc \in [Cores -> CorePC]
      BY <2>2, BootAssumption DEF OpenDevice, Inv, Booting, Counting, Cores
    <3>2. \/ (pc' = pc /\ started' = started)
          \/ (pc' = [pc EXCEPT ![device] = "entry64"] /\ started' = started \cup {device})
      BY <2>2 DEF OpenDevice
    <3> QED BY <3>1, <3>2
  <2> QED BY <2>1, <2>2
<1>3. Returned' = Returned
  BY <1>2 DEF Returned
<1>4. \A d \in Took : pc'[d] = "friend_main" \/ d \in Returned'
  BY <1>2, <1>3 DEF Taking, Took, Returned
<1>5. \A d \in Cores : pc'[d] # "off" => d \in started'
  BY <1>2 DEF Taking
<1>6. Returned \subseteq Returned' /\ Returned' \subseteq Stored
  BY <1>3 DEF Taking
<1> QED BY <1>1, <1>4, <1>5, <1>6, ProgressKeeps

-----------------------------------------------------------------------------
(* test_main *)

\* When all counted devices have a core and all cores have returned, the first
\* cpunum entries are the different stacks of the cores, the others unset.
LEMMA CompleteArray ==
  ASSUME BootInv, TestInv, Complete, tpc \in {"boot", "wait", "entries", "sort"}
  PROVE  /\ cpunum \in Nat /\ 0..cpunum - 1 \subseteq Indices
         /\ Positive
         /\ \A i \in Indices : i >= cpunum => stack_addr[i] = Unset
         /\ \A i, j \in 0..cpunum - 1 : stack_addr[i] = stack_addr[j] => i = j
<1> USE DEF TestInv, BootInv
<1>1. Took = Stored /\ Took = started /\ Took \subseteq HasStack
  <2>1. Stored \subseteq Took /\ Took \subseteq Cores
    BY DEF Stored, Took
  <2>2. Took \subseteq started
    BY <2>1 DEF Taking, Returned
  <2>3. Took \subseteq HasStack
    BY <2>1 DEF Taking, Returned, HasStack
  <2> QED BY <2>1, <2>2, <2>3 DEF Taking, Complete
<1>2. cpunum = cnt /\ cnt \in Nat
  BY <1>1, TookFinite DEF Complete, Taking
<1>3. 0..cpunum - 1 \subseteq Indices
  BY <1>2, TookFinite, BootAssumption, StackTestAssumption DEF Indices
<1>4. ASSUME NEW i \in 0..cpunum - 1
      PROVE  \E c \in Took : x[c] = i /\ stack_addr[i] = rsp[c]
  BY <1>1, <1>2 DEF Taking, Filling
<1>5. /\ FirstOffset \in Nat \ {0} /\ StackSize \in Nat \ {0}
      /\ \A c \in Took : rsp[c] \in Int /\ rsp[c] >= FirstOffset
      /\ \A c, d \in Took : c # d => rsp[c] - rsp[d] >= StackSize \/ rsp[d] - rsp[c] >= StackSize
  <2>1. rsp \in [Cores -> Int] /\ HasStack \subseteq Cores
    BY DEF Inv, Stacks, HasStack
  <2> QED BY <1>1, <2>1, BootAssumption, StackTestAssumption DEF Inv, Stacks, StacksApart
<1>6. Positive
  BY <1>4, <1>5 DEF Positive
<1>7. ASSUME NEW i \in 0..cpunum - 1, NEW j \in 0..cpunum - 1, stack_addr[i] = stack_addr[j]
      PROVE  i = j
  <2>1. PICK c \in Took : x[c] = i /\ stack_addr[i] = rsp[c]
    BY <1>4
  <2>2. PICK d \in Took : x[d] = j /\ stack_addr[j] = rsp[d]
    BY <1>4
  <2>3. rsp[c] = rsp[d] /\ rsp[c] \in Int
    BY Zenon, <1>5, <1>7, <2>1, <2>2
  <2>4. c = d
    BY <1>5, <2>3
  <2> QED BY <2>1, <2>2, <2>4
<1>8. \A i \in Indices : i >= cpunum => stack_addr[i] = Unset
  BY <1>2 DEF Filling
<1> QED BY <1>2, <1>3, <1>6, <1>7, <1>8

\* The steps of test_main leave the cores and the test's counter alone.
LEMMA LooksOnly ==
  ASSUME TestInv, UNCHANGED <<vars, cnt, at, x, inTime>>
  PROVE  Taking' /\ Complete' = Complete
BY DEF TestInv, Taking, Complete, Took, Stored, Returned, vars, hakase, shared

\* The test of the number of cores comes before the wait.
LEMMA ChecksCpunumKeeps ==
  ASSUME TestInv, ChecksCpunum
  PROVE  TestInv'
<1>1. /\ tpc = "boot" /\ hpc = "poll" /\ tpc' \in {"wait", "done"}
      /\ UNCHANGED <<vars, cnt, stack_addr, at, x, inTime>>
  BY DEF ChecksCpunum, Goes, Return, friend
<1>2. UNCHANGED <<hpc, rsp, started, cpunum>> /\ Stored' = Stored
  BY <1>1 DEF vars, hakase, Stored
<1>3. ~inTime'
  BY <1>1 DEF TestInv, Judging
<1>4. Filling'
  BY <1>1, <1>2 DEF TestInv, Filling
<1>5. Judging'
  BY <1>1, <1>2, <1>3 DEF Judging
<1> QED BY <1>1, <1>4, <1>5, LooksOnly DEF TestInv

\* The end of the wait, at which the history variable is set.
LEMMA StopsWaitingKeeps ==
  ASSUME TestInv, StopsWaiting
  PROVE  TestInv'
<1>1. /\ tpc = "wait" /\ tpc' = "entries" /\ hpc' = "end"
      /\ UNCHANGED <<pc, started, rsp, cpunum, cnt, stack_addr, at, x, verdict>>
      /\ inTime' = (started \subseteq Returned)
  BY DEF StopsWaiting, SeesStopped, friend
<1>2. Stored' = Stored /\ Took' = Took /\ Returned' = Returned
  BY <1>1 DEF Stored, Took, Returned
<1>3. inTime' => started' \subseteq Returned'
  BY Zenon, <1>1, <1>2
<1>4. Taking'
  BY <1>1, <1>2 DEF TestInv, Taking
<1>5. Filling'
  BY <1>1, <1>2 DEF TestInv, Filling
<1>6. Judging'
  BY <1>1, <1>3 DEF Judging
<1> QED BY <1>4, <1>5, <1>6 DEF TestInv

\* A complete array has no invalid entry.
LEMMA ChecksEntriesKeeps ==
  ASSUME BootInv, TestInv, ChecksEntries
  PROVE  TestInv'
<1> DEFINE ok == \A i \in Indices : IF i < cpunum THEN stack_addr[i] # 0 ELSE stack_addr[i] = Unset
<1>1. /\ tpc = "entries" /\ tpc' \in {"sort", "done"} /\ (ok => tpc' = "sort")
      /\ UNCHANGED <<vars, cnt, stack_addr, at, x, inTime>>
  BY DEF ChecksEntries, Goes, Return, friend
<1>2. UNCHANGED <<hpc, rsp, started, cpunum, pc>> /\ Stored' = Stored /\ Returned' = Returned
  BY <1>1 DEF vars, hakase, Stored, Returned
<1>3. Complete => ok
  <2> SUFFICES ASSUME Complete PROVE ok
    OBVIOUS
  <2>1. /\ cpunum \in Nat /\ Positive /\ stack_addr \in [Indices -> Int]
        /\ \A i \in Indices : i >= cpunum => stack_addr[i] = Unset
    BY <1>1, CompleteArray DEF TestInv, Filling
  <2> QED BY <2>1 DEF Positive, Indices
<1> HIDE DEF ok
<1>4. Filling'
  BY <1>1, <1>2 DEF TestInv, Filling
<1>5. Complete' = Complete /\ Taking'
  BY <1>1, LooksOnly
<1>6. Judging'
  BY <1>1, <1>2, <1>3, <1>5 DEF TestInv, Judging
<1> QED BY <1>4, <1>5, <1>6 DEF TestInv

\* Sorting a complete array makes equal entries neighbours, and there are none.
LEMMA SortsKeeps ==
  ASSUME BootInv, TestInv, Sorts
  PROVE  TestInv'
<1>1. /\ tpc = "sort" /\ tpc' = "duplicates" /\ stack_addr' = Ascending(stack_addr, cpunum)
      /\ UNCHANGED <<vars, cnt, at, x, inTime>>
  BY DEF Sorts
<1>2. UNCHANGED <<hpc, rsp, started, cpunum, pc>> /\ Stored' = Stored /\ Returned' = Returned
  BY <1>1 DEF vars, hakase, Stored, Returned
<1>3. cpunum \in Nat /\ 0..cpunum - 1 \subseteq Indices
  BY <1>1, BootAssumption, StackTestAssumption
  DEF TestInv, Judging, BootInv, Inv, Booting, BootLimit, Cores, Indices
<1>4. stack_addr \in [Indices -> Int]
  BY DEF TestInv, Filling
<1>5. /\ stack_addr' \in [Indices -> Int]
      /\ \A k \in 0..cpunum - 1 : \E i \in 0..cpunum - 1 : stack_addr'[k] = stack_addr[i]
      /\ (\A i, j \in 0..cpunum - 1 : stack_addr[i] = stack_addr[j] => i = j) =>
           \A k \in 1..cpunum - 1 : stack_addr'[k - 1] < stack_addr'[k]
  BY <1>1, <1>3, <1>4, AscendingSorts
<1>6. Complete => Positive' /\ Different'
  <2> SUFFICES ASSUME Complete PROVE Positive' /\ Different'
    OBVIOUS
  <2>1. /\ Positive
        /\ \A i, j \in 0..cpunum - 1 : stack_addr[i] = stack_addr[j] => i = j
    BY <1>1, CompleteArray
  <2>2. Positive'
    BY <1>2, <1>5, <2>1 DEF Positive
  <2>3. ASSUME NEW k \in 1..cpunum - 1 PROVE stack_addr'[k - 1] # stack_addr'[k]
    <3>1. stack_addr'[k - 1] < stack_addr'[k] /\ stack_addr'[k - 1] \in Int
      BY <1>3, <1>5, <2>1
    <3> QED BY <3>1
  <2> QED BY <1>2, <2>2, <2>3 DEF Different
<1>7. Filling'
  BY <1>1, <1>5 DEF Filling
<1>8. Complete' = Complete /\ Taking'
  BY <1>1, LooksOnly
<1>9. Judging'
  BY <1>1, <1>2, <1>6, <1>8 DEF TestInv, Judging
<1> QED BY <1>7, <1>8, <1>9 DEF TestInv

\* The two loops over the sorted array.
LEMMA ChecksSortedKeeps ==
  ASSUME TestInv, ChecksDuplicates \/ ChecksRange
  PROVE  TestInv'
<1>1. /\ tpc \in {"duplicates", "range"} /\ tpc' \in {"range", "done"}
      /\ UNCHANGED <<vars, cnt, stack_addr, at, x, inTime>>
      /\ tpc = "duplicates" /\ Different => tpc' = "range"
      /\ tpc = "range" /\ Positive => tpc' = "done" /\ verdict' = 1
      /\ tpc = "range" => tpc' = "done"
  BY DEF ChecksDuplicates, ChecksRange, Goes, Return, friend, Different, Positive
<1>2. UNCHANGED <<hpc, rsp, started, cpunum, pc>> /\ Stored' = Stored /\ Returned' = Returned
  BY <1>1 DEF vars, hakase, Stored, Returned
<1>3. Positive' = Positive
  BY <1>1, <1>2 DEF Positive
<1>4. Filling'
  BY <1>1, <1>2 DEF TestInv, Filling
<1>5. Complete' = Complete /\ Taking'
  BY <1>1, LooksOnly
<1>6. Judging'
  BY <1>1, <1>2, <1>3, <1>5 DEF TestInv, Judging
<1> QED BY <1>4, <1>5, <1>6 DEF TestInv

-----------------------------------------------------------------------------
(* The theorem *)

\* Every step of the test keeps the invariant.
LEMMA TestStep == BootInv /\ TestInv /\ [TestNext]_tvars => TestInv'
<1> SUFFICES ASSUME BootInv, TestInv, [TestNext]_tvars PROVE TestInv'
  OBVIOUS
<1>1. CASE TestHakase
  BY Zenon, <1>1, BootKeeps, ChecksCpunumKeeps, StopsWaitingKeeps, ChecksEntriesKeeps, SortsKeeps,
     ChecksSortedKeeps DEF TestHakase
<1>2. ASSUME NEW c \in Cores, TestCore(c) PROVE TestInv'
  BY Zenon, <1>2, TakeIndexKeeps, StoreAddressKeeps, CoreKeeps DEF TestCore, BootInv
<1>3. CASE UNCHANGED tvars
  BY <1>3 DEF tvars, vars, hakase, shared, friend, test, TestInv, Taking, Filling, Judging, Took,
     Stored, Returned, Complete, Positive, Different
<1> QED BY <1>1, <1>2, <1>3 DEF TestNext

\* Whatever the order in which the cores take their stacks and their indices,
\* the stacks test returns 1 when every counted device has its core and all
\* cores had returned when hakase looked.
THEOREM StackTestIsPassed == TestSpec => []StackTestPasses
<1>1. BootInv /\ [Next]_vars => BootInv'
  BY NextInv, CountingStep DEF BootInv
<1>2. TestInv => StackTestPasses
  BY DEF TestInv, Judging, Complete, StackTestPasses
<1> QED BY <1>1, <1>2, TestStarts, TestRefines, TestStep, PTL DEF TestSpec

-----------------------------------------------------------------------------
(* The programs of CountTest *)

\* The variable that hakase looks at is the number of the cores that have added
\* themselves (in symbol it is set once one has stored), a core has done so before
\* it returns from friend_main, and hakase waits for the flag of friend_init.
CountInv ==
  /\ stage \in [Cores -> {"offload", "waiting", "add", "return"}]
  /\ \A c \in Cores : pc[c] # "off" => c \in started
  /\ \A c \in Added : pc[c] # "off"
  /\ prog # "symbol" => flag = Cardinality(Added)
  /\ prog = "symbol" /\ Added # {} => flag = 1
  /\ prog # "elf" => Returned \subseteq Added
  /\ prog # "elf" /\ hpc = "end" => sync = 1
  /\ result # "none" => hpc = "end"
  /\ CountVerdict

\* The set that is counted is finite.
LEMMA AddedFinite == Added \subseteq Cores /\ IsFiniteSet(Added) /\ Cardinality(Added) \in Nat
<1>1. Added \subseteq Cores /\ IsFiniteSet(Cores)
  BY BootAssumption, FS_Interval DEF Cores, Added
<1> QED BY <1>1, FS_Subset, FS_CardinalityType

\* n of n cores are all of them.
LEMMA AllCounted ==
  ASSUME NEW n \in Nat, NEW S \in SUBSET (1..n)
  PROVE  Cardinality(S) = n <=> S = 1..n
<1>1. IsFiniteSet(1..n) /\ Cardinality(1..n) = n
  BY FS_Interval
<1> QED BY <1>1, FS_Subset

\* The deployed image satisfies the invariant.
LEMMA CountStarts == CountInit => BootInv /\ CountInv
<1> SUFFICES ASSUME CountInit PROVE BootInv /\ CountInv
  OBVIOUS
<1>1. BootInv
  BY InitInv, CountingInit DEF CountInit, BootInv
<1>2. /\ pc = [c \in Cores |-> "off"] /\ hpc = "boot" /\ flag = 0 /\ result = "none"
      /\ stage = [c \in Cores |-> IF prog = "sample" THEN "offload" ELSE "add"]
  BY DEF CountInit, Init
<1>3. Added = {} /\ Returned = {}
  BY <1>2 DEF Added, Returned
<1>4. CountInv
  BY <1>2, <1>3, FS_EmptySet DEF CountInv, CountVerdict
<1> QED BY <1>1, <1>4

\* The programs only add to the behaviour of FriendBoot, but for the end of sleep(1).
LEMMA CountRefines == [CountNext]_cvars => [Next]_vars \/ Sleeps
<1> SUFFICES ASSUME [CountNext]_cvars PROVE [Next]_vars \/ Sleeps
  OBVIOUS
<1>1. CASE CountHakase
  BY Zenon, <1>1 DEF CountHakase, ServesOffload, LeavesLoop, Compares, Next, HakaseStep
<1>2. ASSUME NEW c \in Cores, CountCore(c) PROVE [Next]_vars
  BY <1>2 DEF CountCore, Offloads, Adds, RuntimeStep, Next
<1>3. CASE UNCHANGED cvars
  BY <1>3 DEF cvars
<1> QED BY <1>1, <1>2, <1>3 DEF CountNext

\* So they keep what FriendBootProofs shows.
LEMMA CountKeepsBoot == BootInv /\ [CountNext]_cvars => BootInv'
<1>1. BootInv /\ [Next]_vars => BootInv'
  BY NextInv, CountingStep DEF BootInv
<1>2. ASSUME BootInv, Sleeps PROVE BootInv'
  <2>1. /\ hpc = "poll" /\ hpc' = "end"
        /\ UNCHANGED <<max, device, cpunum, started, pc, rsp, returned, counted>>
        /\ UNCHANGED <<stack_offset, init_count, returned_count, sync>>
    BY <1>2 DEF Sleeps, shared
  <2>2. Booting' /\ Stacks'
    BY <1>2, <2>1 DEF BootInv, Inv, Booting, BootLimit, Stacks, StacksApart, HasStack
  <2>3. Counting'
    BY <1>2, <2>1 DEF BootInv, Counting, Entered, Returned
  <2> QED BY <2>2, <2>3 DEF BootInv, Inv
<1> QED BY <1>1, <1>2, CountRefines

\* A step of OFFLOAD adds nothing.
LEMMA OffloadKeepsCount ==
  ASSUME CountInv, NEW c \in Cores, NEW s \in {"waiting", "add"}, stage[c] # "return",
         stage' = [stage EXCEPT ![c] = s], UNCHANGED <<vars, prog, flag, result, seen>>
  PROVE  CountInv'
<1>1. UNCHANGED <<pc, started, hpc, sync, cpunum>>
  BY DEF vars
<1>2. stage' \in [Cores -> {"offload", "waiting", "add", "return"}]
  BY DEF CountInv
<1>3. Added' = Added
  BY <1>2 DEF Added, CountInv
<1>4. Returned' = Returned
  BY <1>1 DEF Returned
<1> QED BY <1>1, <1>2, <1>3, <1>4 DEF CountInv, CountVerdict

\* The atomic addition counts a core that was not counted before.
LEMMA AddsKeepsCount ==
  ASSUME CountInv, NEW c \in Cores, Adds(c)
  PROVE  CountInv'
<1>1. /\ UNCHANGED <<pc, started, hpc, sync, cpunum, prog, result, seen>> /\ pc[c] # "off"
      /\ stage[c] = "add" /\ stage' = [stage EXCEPT ![c] = "return"]
      /\ flag' = IF prog = "symbol" THEN 1 ELSE flag + 1
  BY DEF Adds, AtMain, vars
<1>2. stage' \in [Cores -> {"offload", "waiting", "add", "return"}]
  BY <1>1 DEF CountInv
<1>3. Added' = Added \cup {c} /\ c \notin Added
  BY <1>1, <1>2 DEF Added, CountInv
<1>4. Cardinality(Added') = Cardinality(Added) + 1
  BY <1>3, AddedFinite, FS_AddElement
<1>5. Returned' = Returned
  BY <1>1 DEF Returned
<1>6. \A d \in Added' : pc'[d] # "off"
  BY <1>1, <1>3 DEF CountInv
<1>7. /\ prog' # "symbol" => flag' = Cardinality(Added')
      /\ prog' = "symbol" /\ Added' # {} => flag' = 1
  BY <1>1, <1>4 DEF CountInv
<1>8. prog' # "elf" => Returned' \subseteq Added'
  BY <1>1, <1>3, <1>5 DEF CountInv
<1>9. CountVerdict'
  BY <1>1 DEF CountInv, CountVerdict
<1> QED BY <1>1, <1>2, <1>6, <1>7, <1>8, <1>9 DEF CountInv

\* A core that returns from friend_main has counted itself.
LEMMA RuntimeKeepsCount ==
  ASSUME BootInv, CountInv, NEW c \in Cores, RuntimeStep(c)
  PROVE  CountInv'
<1>1. /\ UNCHANGED <<started, hpc, cpunum, prog, flag, stage, result, seen>>
      /\ sync' = sync \/ sync' = 1
  BY Zenon DEF RuntimeStep, CoreStep, Entry64, FriendInit, Constructors, MainReturns, Compare,
     Destructors, Signal, hakase, shared, count
<1>2. /\ prog # "elf" /\ (pc[c] = "friend_main" => stage[c] = "return")
      /\ pc[c] # "off" /\ pc' = [pc EXCEPT ![c] = pc'[c]] /\ pc'[c] # "off"
      /\ pc'[c] \in {"compare", "dtors", "signal", "stop"} => pc[c] = "friend_main" \/ c \in Returned
  <2>1. pc \in [Cores -> CorePC]
    BY DEF BootInv, Counting
  <2> QED BY <2>1 DEF RuntimeStep, CoreStep, Entry64, FriendInit, Constructors, MainReturns, Compare,
                      Destructors, Signal, Step, Returned, CorePC
<1>3. \A d \in Cores : d # c => pc'[d] = pc[d]
  BY <1>2 DEF BootInv, Counting
<1>4. Added' = Added
  BY <1>1 DEF Added
<1>5. Returned' \subseteq Added
  <2>1. Returned \subseteq Added
    BY <1>2 DEF CountInv
  <2> QED BY <1>2, <1>3, <2>1 DEF Returned, Added
<1>6. \A d \in Cores : pc'[d] # "off" <=> pc[d] # "off"
  BY <1>2, <1>3
<1>7. Added \subseteq Cores
  BY DEF Added
<1>8. CountVerdict'
  BY <1>1 DEF CountInv, CountVerdict
<1> QED BY <1>1, <1>4, <1>5, <1>6, <1>7, <1>8 DEF CountInv

\* boot() starts cores that have counted nothing yet.
LEMMA BootKeepsCount ==
  ASSUME BootInv, CountInv, OpenDevice \/ NoMoreDevices, UNCHANGED count
  PROVE  CountInv'
<1>1. /\ hpc = "boot" /\ hpc' # "end" /\ result = "none"
      /\ UNCHANGED <<sync, prog, flag, stage, result, seen>>
  BY DEF OpenDevice, NoMoreDevices, BootReturns, shared, count, CountInv
<1>2. \A c \in Cores : \/ pc'[c] = pc[c] /\ (c \in started => c \in started')
                       \/ pc[c] = "off" /\ pc'[c] = "entry64" /\ c \in started'
  <2>1. pc \in [Cores -> CorePC] /\ \A c \in Cores : c >= device => pc[c] = "off"
    BY DEF BootInv, Counting
  <2>2. device \in Int
    BY BootAssumption DEF BootInv, Inv, Booting
  <2> QED BY <2>1, <2>2 DEF OpenDevice, NoMoreDevices
<1>3. Added' = Added /\ Added \subseteq Cores
  BY <1>1 DEF Added
<1>4. Returned' = Returned
  BY <1>2 DEF Returned
<1>5. CountVerdict'
  BY <1>1 DEF CountVerdict
<1> QED BY <1>1, <1>2, <1>3, <1>4, <1>5 DEF CountInv

\* The loop ends when the flag is raised; sleep(1) ends at any time.
LEMMA WaitKeepsCount ==
  ASSUME CountInv, LeavesLoop \/ Sleeps
  PROVE  CountInv'
<1>1. /\ UNCHANGED <<pc, started, sync, cpunum, prog, flag, stage, result, seen>>
      /\ hpc = "poll" /\ hpc' = "end" /\ (prog # "elf" => sync = 1)
  BY DEF LeavesLoop, Sleeps, SeesStopped, shared, count
<1>2. Added' = Added /\ Returned' = Returned
  BY <1>1 DEF Added, Returned
<1>3. CountVerdict'
  BY <1>1 DEF CountInv, CountVerdict
<1> QED BY <1>1, <1>2, <1>3 DEF CountInv

\* What hakase finds: as many as it opened devices only if all have counted
\* themselves, and in symbol the address, since the flag was raised for a core
\* that had returned.
LEMMA ComparesKeepsCount ==
  ASSUME BootInv, CountInv, Compares
  PROVE  CountInv'
<1>1. /\ hpc = "end" /\ seen' = Added
      /\ UNCHANGED <<pc, started, hpc, sync, cpunum, prog, flag, stage>>
      /\ result' = IF flag = IF prog = "symbol" THEN 1 ELSE cpunum THEN "PASSED" ELSE "FAILED"
  BY DEF Compares, vars
<1>2. Added' = Added /\ Returned' = Returned
  BY <1>1 DEF Added, Returned
<1>3. CASE prog = "symbol"
  <2>1. sync = 1 /\ Returned \subseteq Added
    BY <1>1, <1>3 DEF CountInv
  <2>2. Added # {}
    BY <2>1 DEF BootInv, Counting
  <2>3. flag = 1
    BY <1>3, <2>2 DEF CountInv
  <2> QED BY <1>1, <1>2, <1>3, <2>3 DEF CountInv, CountVerdict
<1>4. CASE prog # "symbol"
  <2>1. cpunum \in Nat /\ started \subseteq 1..cpunum
    BY <1>1, BootAssumption DEF BootInv, Inv, Booting, BootLimit, Cores
  <2>2. Added \subseteq 1..cpunum
    BY <2>1 DEF CountInv, Added
  <2>3. flag = cpunum <=> Added = 1..cpunum
    BY <1>4, <2>1, <2>2, AllCounted DEF CountInv
  <2> QED BY <1>1, <1>2, <1>4, <2>3 DEF CountInv, CountVerdict
<1> QED BY <1>3, <1>4

\* Every step of the programs keeps the invariant.
LEMMA CountStep == BootInv /\ CountInv /\ [CountNext]_cvars => CountInv'
<1> SUFFICES ASSUME BootInv, CountInv, [CountNext]_cvars PROVE CountInv'
  OBVIOUS
<1>1. CASE CountHakase
  <2>1. CASE ServesOffload
    <3>1. PICK c \in Cores : stage[c] = "waiting" /\ stage' = [stage EXCEPT ![c] = "add"]
      BY <2>1 DEF ServesOffload
    <3>2. stage[c] # "return" /\ UNCHANGED <<vars, prog, flag, result, seen>>
      BY <2>1, <3>1 DEF ServesOffload
    <3> QED BY <3>1, <3>2, OffloadKeepsCount
  <2> QED BY Zenon, <1>1, <2>1, BootKeepsCount, WaitKeepsCount, ComparesKeepsCount DEF CountHakase
<1>2. ASSUME NEW c \in Cores, CountCore(c) PROVE CountInv'
  <2>1. CASE Offloads(c)
    <3>1. /\ stage[c] # "return" /\ stage' = [stage EXCEPT ![c] = "waiting"]
          /\ UNCHANGED <<vars, prog, flag, result, seen>>
      BY <2>1 DEF Offloads
    <3> QED BY <3>1, OffloadKeepsCount
  <2> QED BY Zenon, <1>2, <2>1, AddsKeepsCount, RuntimeKeepsCount DEF CountCore
<1>3. CASE UNCHANGED cvars
  BY <1>3 DEF cvars, vars, count, CountInv, CountVerdict, Added, Returned
<1> QED BY <1>1, <1>2, <1>3 DEF CountNext

\* The sample and the tests clang and elf report PASSED if and only if the cores
\* of all opened devices have counted themselves in time, and symbol reports
\* PASSED whenever the loop ends, for any number of cores.
THEOREM CountsAreRight == CountSpec => []CountVerdict
<1>1. CountInv => CountVerdict
  BY DEF CountInv
<1> QED BY <1>1, CountStarts, CountKeepsBoot, CountStep, PTL DEF CountSpec
=============================================================================
