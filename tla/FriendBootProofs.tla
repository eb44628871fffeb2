-------------------------- MODULE FriendBootProofs --------------------------
(***************************************************************************)
(* Proofs about FriendBoot, for any number of devices, any limits passed   *)
(* to boot() and any stack size.                                           *)
(***************************************************************************)
EXTENDS FriendBoot, FiniteSetTheorems, TLAPS

CorePC == {"off", "entry64", "friend_init", "ctors", "friend_main", "compare",
           "dtors", "signal", "stop"}

\* What boot() has done so far: it is at a device within its limit, and the
\* cores that run are those of devices it has opened.
Booting ==
  /\ max \in Int
  /\ device \in 1..NumDevices + 1
  /\ started \subseteq Cores
  /\ hpc \in {"boot", "poll", "end"}
  /\ hpc = "boot" /\ max > 0 => device <= max
  /\ BootLimit

\* Every stack handed out lies below stack_offset, a whole stack apart.
Stacks ==
  /\ pc \in [Cores -> CorePC]
  /\ rsp \in [Cores -> Int]
  /\ stack_offset \in Int /\ stack_offset >= FirstOffset
  /\ \A c \in HasStack : rsp[c] + StackSize <= stack_offset
  /\ StacksApart

Inv == Booting /\ Stacks

\* The deployed image satisfies the invariant.
LEMMA InitInv == Init => Inv
<1> SUFFICES ASSUME Init PROVE Inv
  OBVIOUS
<1>1. Booting
  BY BootAssumption DEF Init, Booting, BootLimit, Cores
<1>2. HasStack = {}
  BY DEF Init, HasStack
<1>3. Stacks
  BY <1>2, BootAssumption DEF Init, Stacks, StacksApart, CorePC
<1> QED BY <1>1, <1>3 DEF Inv

\* A round of the loop in boot() keeps what is known of boot(), whatever limit
\* was passed to it.
LEMMA OpenKeepsBooting == Booting /\ OpenDevice => Booting'
<1> SUFFICES ASSUME Booting, OpenDevice PROVE Booting'
  OBVIOUS
<1>1. /\ device \in Int /\ 1 <= device /\ device <= NumDevices /\ max \in Int
      /\ hpc = "boot" /\ max' = max /\ device' = device + 1
      /\ max > 0 => device <= max
  BY BootAssumption DEF Booting, OpenDevice
<1>2. started' \subseteq started \cup {device}
  BY DEF OpenDevice
<1>3. started' \subseteq 1..device
  BY <1>1, <1>2 DEF Booting, BootLimit
<1>4. started' \subseteq Cores /\ (max > 0 => started' \subseteq 1..max)
  BY <1>1, <1>3, BootAssumption DEF Cores
<1>5. CASE device = max
  <2>1. hpc' = "poll" /\ cpunum' = device
    BY <1>5 DEF OpenDevice, BootReturns
  <2> QED BY <1>1, <1>3, <1>4, <1>5, <2>1, BootAssumption DEF Booting, BootLimit, Cores
<1>6. CASE device # max
  <2>1. hpc' = hpc
    BY <1>6 DEF OpenDevice
  <2> QED BY <1>1, <1>3, <1>4, <1>6, <2>1, BootAssumption DEF Booting, BootLimit, Cores
<1> QED BY <1>5, <1>6

\* No other step of hakase disturbs it.
LEMMA HakaseKeepsBooting == Booting /\ HakaseStep => Booting'
<1> SUFFICES ASSUME Booting, HakaseStep PROVE Booting'
  OBVIOUS
<1>1. CASE OpenDevice
  BY <1>1, OpenKeepsBooting
<1>2. CASE NoMoreDevices
  BY <1>2, BootAssumption DEF NoMoreDevices, BootReturns, Booting, BootLimit, Cores
<1>3. CASE SeesStopped
  BY <1>3 DEF SeesStopped, Booting, BootLimit, Cores
<1> QED BY <1>1, <1>2, <1>3 DEF HakaseStep

\* The steps of hakase hand out no stack and do not move the next one.
LEMMA HakaseKeepsStacks == Stacks /\ HakaseStep => Stacks'
<1> SUFFICES ASSUME Stacks, HakaseStep PROVE Stacks'
  OBVIOUS
<1>1. rsp' = rsp /\ stack_offset' = stack_offset
  BY DEF HakaseStep, OpenDevice, NoMoreDevices, SeesStopped, shared
<1>2. pc' \in [Cores -> CorePC] /\ HasStack' \subseteq HasStack
  BY DEF CorePC, Stacks, HasStack, HakaseStep, OpenDevice, NoMoreDevices, SeesStopped
<1> QED BY <1>1, <1>2 DEF Stacks, StacksApart

\* A core that takes its stack takes it above all others.
LEMMA EntryKeepsStacks == ASSUME NEW c \in Cores PROVE Stacks /\ Entry64(c) => Stacks'
<1> SUFFICES ASSUME Stacks, Entry64(c) PROVE Stacks'
  OBVIOUS
<1>1. /\ rsp' = [rsp EXCEPT ![c] = stack_offset] /\ rsp \in [Cores -> Int]
      /\ stack_offset' = stack_offset + StackSize
      /\ stack_offset \in Int /\ stack_offset >= FirstOffset
      /\ StackSize \in Int /\ StackSize > 0 /\ FirstOffset \in Int
  BY BootAssumption DEF Entry64, Stacks
<1>2. pc' \in [Cores -> CorePC] /\ HasStack' = HasStack \cup {c} /\ c \notin HasStack
  BY DEF Entry64, Step, Stacks, HasStack, CorePC
<1>3. rsp'[c] = stack_offset
  BY <1>1
<1>4. \A d \in HasStack : rsp'[d] = rsp[d] /\ rsp[d] \in Int /\ rsp[d] + StackSize <= stack_offset
  BY <1>1, <1>2 DEF Stacks, HasStack
<1>5. \A d \in HasStack' : rsp'[d] + StackSize <= stack_offset'
  BY <1>1, <1>2, <1>3, <1>4
<1>6. StacksApart'
  BY <1>1, <1>2, <1>3, <1>4 DEF Stacks, StacksApart
<1>7. rsp' \in [Cores -> Int] /\ stack_offset' \in Int /\ stack_offset' >= FirstOffset
  BY <1>1
<1> QED BY <1>2, <1>5, <1>6, <1>7 DEF Stacks

\* In friend_init a core keeps the stack it has.
LEMMA InitKeepsStacks ==
  ASSUME NEW c \in Cores
  PROVE  Stacks /\ CoreStep(c) /\ ~Entry64(c) => Stacks'
<1> SUFFICES ASSUME Stacks, CoreStep(c), ~Entry64(c) PROVE Stacks'
  OBVIOUS
<1>1. rsp' = rsp /\ stack_offset' = stack_offset
  BY DEF CoreStep, FriendInit, Constructors, MainReturns, Compare, Destructors, Signal, shared
<1>2. pc' \in [Cores -> CorePC] /\ HasStack' = HasStack
  BY DEF CoreStep, FriendInit, Constructors, MainReturns, Compare, Destructors, Signal, Step,
         Stacks, HasStack, CorePC
<1> QED BY <1>1, <1>2 DEF Stacks, StacksApart

\* Every step keeps the invariant.
LEMMA NextInv == Inv /\ [Next]_vars => Inv'
<1> SUFFICES ASSUME Inv, [Next]_vars PROVE Inv'
  OBVIOUS
<1>1. CASE HakaseStep
  BY <1>1, HakaseKeepsBooting, HakaseKeepsStacks DEF Inv
<1>2. ASSUME NEW c \in Cores, CoreStep(c) PROVE Inv'
  <2>1. UNCHANGED hakase
    BY <1>2 DEF CoreStep, Entry64, FriendInit, Constructors, MainReturns, Compare, Destructors,
                Signal
  <2>2. Booting'
    BY <2>1 DEF Inv, Booting, BootLimit, hakase
  <2>3. Stacks'
    BY Zenon, <1>2, EntryKeepsStacks, InitKeepsStacks DEF Inv
  <2> QED BY Zenon, <2>2, <2>3 DEF Inv
<1>3. CASE UNCHANGED vars
  BY <1>3 DEF vars, Inv, Booting, BootLimit, Stacks, StacksApart, HasStack
<1> QED BY <1>1, <1>2, <1>3 DEF Next

\* The invariant holds throughout.
LEMMA Invariance == Spec => []Inv
BY InitInv, NextInv, PTL DEF Spec

\* boot() never starts more cores than it was asked to, and what it returns is
\* the limit or the number of devices, for every limit: negative, zero, within
\* the number of devices, or beyond it.
THEOREM BootRespectsLimit == Spec => []BootLimit
<1>1. Inv => BootLimit BY DEF Inv, Booting
<1> QED BY <1>1, Invariance, PTL

\* However many cores race through entry64, their stack tops are STACK_SIZE
\* apart and not below the first offset.
THEOREM StacksAreApart == Spec => []StacksApart
<1>1. Inv => StacksApart BY DEF Inv, Stacks
<1> QED BY <1>1, Invariance, PTL

-----------------------------------------------------------------------------
(* The counters of friend_init *)

\* Each counter is the number of cores that have passed its add, and no core
\* holds a result larger than the counter.  Cores of unopened devices are off.
\* Whoever is on the way to raise the flag found that all who had entered had
\* returned.
Counting ==
  /\ pc \in [Cores -> CorePC]
  /\ returned \in [Cores -> Nat]
  /\ \A c \in Cores : c >= device => pc[c] = "off"
  /\ init_count = Cardinality(Entered)
  /\ returned_count = Cardinality(Returned)
  /\ \A c \in Cores : returned[c] <= returned_count
  /\ counted \subseteq Returned
  /\ \A c \in Cores : pc[c] \in {"dtors", "signal"} => counted # {}
  /\ sync = 1 => counted # {}

\* The sets that are counted are finite.
LEMMA CountedFinite ==
  /\ IsFiniteSet(Entered) /\ IsFiniteSet(Returned) /\ Returned \subseteq Entered
  /\ Cardinality(Entered) \in Nat /\ Cardinality(Returned) \in Nat
<1>1. IsFiniteSet(Cores)
  BY BootAssumption, FS_Interval DEF Cores
<1>2. Entered \subseteq Cores /\ Returned \subseteq Cores /\ Returned \subseteq Entered
  BY DEF Entered, Returned
<1> QED BY <1>1, <1>2, FS_Subset, FS_CardinalityType

\* Before boot() everything is zero and every core off.
LEMMA CountingInit == Init => Counting
<1> SUFFICES ASSUME Init PROVE Counting
  OBVIOUS
<1>1. Entered = {} /\ Returned = {}
  BY DEF Init, Entered, Returned
<1>2. Cardinality({}) = 0
  BY FS_EmptySet
<1> QED BY <1>1, <1>2 DEF Init, Counting, CorePC

\* Opening a device makes a core run that is not yet counted anywhere.
LEMMA HakaseKeepsCounting == Booting /\ Counting /\ HakaseStep => Counting'
<1> SUFFICES ASSUME Booting, Counting, HakaseStep PROVE Counting'
  OBVIOUS
<1>1. /\ UNCHANGED <<init_count, returned_count, returned, counted, sync>>
      /\ device \in Int /\ device' \in Int /\ device <= device'
  BY BootAssumption DEF HakaseStep, OpenDevice, NoMoreDevices, SeesStopped, shared, Booting
<1>2. /\ pc' \in [Cores -> CorePC]
      /\ \A c \in Cores : pc'[c] = pc[c] \/ (pc[c] = "off" /\ pc'[c] = "entry64")
      /\ \A c \in Cores : c >= device' => pc'[c] = pc[c]
  <2>1. CASE OpenDevice
    <3>1. device \in Cores /\ pc[device] = "off" /\ device' = device + 1
      BY <2>1, BootAssumption DEF OpenDevice, Booting, Counting, Cores
    <3>2. pc' = pc \/ pc' = [pc EXCEPT ![device] = "entry64"]
      BY <2>1 DEF OpenDevice
    <3>3. pc \in [Cores -> CorePC] /\ "entry64" \in CorePC
      BY DEF Counting, CorePC
    <3>4. pc' \in [Cores -> CorePC]
      BY <3>1, <3>2, <3>3
    <3>5. \A c \in Cores : c # device => pc'[c] = pc[c]
      BY <3>1, <3>2, <3>3
    <3>6. pc'[device] = pc[device] \/ pc'[device] = "entry64"
      BY <3>1, <3>2, <3>3
    <3>7. \A c \in Cores : c >= device' => c # device
      BY <3>1 DEF Cores
    <3>8. \A c \in Cores : pc'[c] = pc[c] \/ (pc[c] = "off" /\ pc'[c] = "entry64")
      BY <3>1, <3>5, <3>6
    <3>9. \A c \in Cores : c >= device' => pc'[c] = pc[c]
      BY <3>5, <3>7
    <3> QED BY Zenon, <3>4, <3>8, <3>9
  <2>2. CASE NoMoreDevices \/ SeesStopped
    <3>1. pc' = pc
      BY <2>2 DEF NoMoreDevices, SeesStopped
    <3>2. pc \in [Cores -> CorePC]
      BY DEF Counting
    <3> QED BY <3>1, <3>2
  <2> QED BY <2>1, <2>2 DEF HakaseStep
<1>3. Entered' = Entered /\ Returned' = Returned
  BY <1>2 DEF Entered, Returned
<1>4. \A c \in Cores : c >= device' => pc'[c] = "off"
  BY <1>1, <1>2 DEF Counting, Cores
<1>5. \A c \in Cores : pc'[c] \in {"dtors", "signal"} => counted' # {}
  BY <1>1, <1>2 DEF Counting
<1> QED BY <1>1, <1>2, <1>3, <1>4, <1>5 DEF Counting

\* A core that moves from a to b: what it changes in the sets of cores.
LEMMA CoreMoves ==
  ASSUME Counting, NEW c \in Cores, NEW a \in CorePC, NEW b \in CorePC \ {"off"}, Step(c, a, b),
         a # "off"
  PROVE  /\ pc' \in [Cores -> CorePC] /\ pc[c] = a /\ pc'[c] = b
         /\ \A d \in Cores : d # c => pc'[d] = pc[d]
         /\ \A d \in Cores : d >= device => pc'[d] = "off"
<1>1. pc \in [Cores -> CorePC] /\ pc[c] = a /\ pc' = [pc EXCEPT ![c] = b]
  BY DEF Counting, Step
<1>2. \A d \in Cores : d >= device => d # c
  BY <1>1 DEF Counting
<1>3. pc'[c] = b /\ \A d \in Cores : d # c => pc'[d] = pc[d]
  BY <1>1
<1>4. pc' \in [Cores -> CorePC]
  BY Zenon, <1>1
<1> QED BY Zenon, <1>1, <1>2, <1>3, <1>4 DEF Counting

\* The add to init_count counts a core that was not counted before.
LEMMA FriendInitKeepsCounting ==
  ASSUME Counting, NEW c \in Cores, FriendInit(c)
  PROVE  Counting'
<1>1. /\ UNCHANGED <<device, returned_count, returned, counted, sync>>
      /\ init_count' = init_count + 1
  BY DEF FriendInit, hakase
<1>2. /\ pc' \in [Cores -> CorePC] /\ pc[c] = "friend_init" /\ pc'[c] \in {"ctors", "friend_main"}
      /\ \A d \in Cores : d # c => pc'[d] = pc[d]
      /\ \A d \in Cores : d >= device => pc'[d] = "off"
  BY CoreMoves DEF FriendInit, CorePC
<1>3. Entered' = Entered \cup {c} /\ c \notin Entered /\ Returned' = Returned
  BY <1>2 DEF Entered, Returned
<1>4. Cardinality(Entered') = Cardinality(Entered) + 1
  BY Zenon, <1>3, CountedFinite, FS_AddElement
<1>5. \A d \in Cores : pc'[d] \in {"dtors", "signal"} => counted' # {}
  BY <1>1, <1>2 DEF Counting
<1> QED BY Zenon, <1>1, <1>2, <1>3, <1>4, <1>5 DEF Counting

\* The add to returned_count likewise; its result is the new value.
LEMMA MainReturnsKeepsCounting ==
  ASSUME Counting, NEW c \in Cores, MainReturns(c)
  PROVE  Counting'
<1>1. /\ UNCHANGED <<device, init_count, counted, sync>>
      /\ returned_count' = returned_count + 1
      /\ returned' = [returned EXCEPT ![c] = returned_count + 1]
  BY DEF MainReturns, hakase
<1>2. /\ pc' \in [Cores -> CorePC] /\ pc[c] = "friend_main" /\ pc'[c] = "compare"
      /\ \A d \in Cores : d # c => pc'[d] = pc[d]
      /\ \A d \in Cores : d >= device => pc'[d] = "off"
  BY CoreMoves DEF MainReturns, CorePC
<1>3. Returned' = Returned \cup {c} /\ c \notin Returned /\ Entered' = Entered
  BY <1>2 DEF Entered, Returned
<1>4. Cardinality(Returned') = Cardinality(Returned) + 1
  BY Zenon, <1>3, CountedFinite, FS_AddElement
<1>5. \A d \in Cores : pc'[d] \in {"dtors", "signal"} => counted' # {}
  BY <1>1, <1>2 DEF Counting
<1>6. /\ returned' \in [Cores -> Nat] /\ returned_count \in Nat
      /\ \A d \in Cores : returned'[d] <= returned_count'
  <2>1. returned_count \in Nat /\ returned \in [Cores -> Nat]
    BY CountedFinite DEF Counting
  <2>2. returned'[c] = returned_count + 1 /\ \A d \in Cores : d # c => returned'[d] = returned[d]
    BY <1>1, <2>1
  <2>3. returned' \in [Cores -> Nat]
    BY <1>1, <2>1
  <2>4. \A d \in Cores : returned[d] <= returned_count /\ returned[d] \in Nat
    BY <2>1 DEF Counting
  <2> QED BY <1>1, <2>1, <2>2, <2>3, <2>4
<1> QED BY <1>1, <1>2, <1>3, <1>4, <1>5, <1>6 DEF Counting

\* The heart of the matter: the comparison is of a result that may be old with
\* a counter that is read later, and still, if they are equal, every core that
\* has entered has returned.
LEMMA EqualMeansAllReturned ==
  ASSUME Counting, NEW c \in Cores, returned[c] = init_count
  PROVE  Entered = Returned
<1>1. Cardinality(Entered) <= Cardinality(Returned)
  BY CountedFinite DEF Counting
<1>2. Cardinality(Returned) <= Cardinality(Entered)
  BY CountedFinite, FS_Subset
<1>3. Cardinality(Entered) = Cardinality(Returned)
  BY <1>1, <1>2, CountedFinite
<1> QED BY <1>3, CountedFinite, FS_Subset

\* So a successful comparison records a set of cores that have all returned.
LEMMA CompareKeepsCounting ==
  ASSUME Counting, NEW c \in Cores, Compare(c)
  PROVE  Counting'
<1>1. UNCHANGED <<device, init_count, returned_count, returned, sync>>
  BY Zenon DEF Compare, hakase, shared
<1>2. /\ pc' \in [Cores -> CorePC] /\ pc[c] = "compare" /\ pc'[c] \in {"dtors", "stop"}
      /\ \A d \in Cores : d # c => pc'[d] = pc[d]
      /\ \A d \in Cores : d >= device => pc'[d] = "off"
  BY CoreMoves DEF Compare, CorePC
<1>3. Returned' = Returned /\ Entered' = Entered
  BY Zenon, <1>2 DEF Entered, Returned
<1>4. CASE returned[c] = init_count
  <2>1. counted' = Entered /\ c \in Entered /\ Entered = Returned
    BY Zenon, <1>2, <1>4, EqualMeansAllReturned DEF Compare, Entered
  <2> QED BY Zenon, <1>1, <1>2, <1>3, <2>1 DEF Counting
<1>5. CASE returned[c] # init_count
  <2>1. counted' = counted /\ pc'[c] = "stop"
    <3>1. Step(c, "compare", "stop") /\ pc \in [Cores -> CorePC]
      BY <1>5 DEF Compare, Counting
    <3> QED BY Zenon, <1>5, <3>1 DEF Compare, Step
  <2>2. \A d \in Cores : pc'[d] \in {"dtors", "signal"} => counted' # {}
    BY Zenon, <1>2, <2>1 DEF Counting
  <2> QED BY Zenon, <1>1, <1>2, <1>3, <2>1, <2>2 DEF Counting
<1> QED BY <1>4, <1>5

\* The other statements of a core leave the counters alone.
LEMMA OthersKeepCounting ==
  ASSUME Counting, NEW c \in Cores, Entry64(c) \/ Constructors(c) \/ Destructors(c) \/ Signal(c)
  PROVE  Counting'
<1>1. /\ UNCHANGED <<device, init_count, returned_count, returned, counted>>
      /\ sync' = sync \/ pc[c] = "signal"
  BY Zenon DEF Entry64, Constructors, Destructors, Signal, Step, hakase, shared
<1>2. /\ pc' \in [Cores -> CorePC]
      /\ <<pc[c], pc'[c]>> \in {<<"entry64", "friend_init">>, <<"ctors", "friend_main">>,
                                <<"dtors", "signal">>, <<"signal", "stop">>}
      /\ \A d \in Cores : d # c => pc'[d] = pc[d]
      /\ \A d \in Cores : d >= device => pc'[d] = "off"
  BY CoreMoves DEF Entry64, Constructors, Destructors, Signal, CorePC
<1>3. Returned' = Returned /\ Entered' = Entered
  BY Zenon, <1>2 DEF Entered, Returned
<1>4. \A d \in Cores : pc'[d] \in {"dtors", "signal"} => counted' # {}
  BY Zenon, <1>1, <1>2 DEF Counting
<1>5. sync' = 1 => counted' # {}
  BY <1>1 DEF Counting
<1> QED BY Zenon, <1>1, <1>2, <1>3, <1>4, <1>5 DEF Counting

\* Every step keeps the counters in order.
LEMMA CountingStep == Inv /\ Counting /\ [Next]_vars => Counting'
<1> SUFFICES ASSUME Inv, Counting, [Next]_vars PROVE Counting'
  OBVIOUS
<1>1. CASE HakaseStep
  BY <1>1, HakaseKeepsCounting DEF Inv
<1>2. ASSUME NEW c \in Cores, CoreStep(c) PROVE Counting'
  BY Zenon, <1>2, FriendInitKeepsCounting, MainReturnsKeepsCounting, CompareKeepsCounting,
     OthersKeepCounting DEF CoreStep
<1>3. CASE UNCHANGED vars
  BY <1>3 DEF vars, Counting, Entered, Returned
<1> QED BY <1>1, <1>2, <1>3 DEF Next

\* The flag that is_friend_stopped reads is raised only when all cores counted
\* at the comparison have returned from friend_main, for any number of cores
\* and however often the counters become equal.
THEOREM SignalIsCovered == Spec => []SignalCoversCounted
<1>1. Counting => SignalCoversCounted
  BY DEF Counting, SignalCoversCounted
<1> QED BY <1>1, CountingInit, CountingStep, Invariance, PTL DEF Spec
=============================================================================
