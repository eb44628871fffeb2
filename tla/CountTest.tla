----------------------------- MODULE CountTest ------------------------------
(***************************************************************************)
(* The programs that start every core and count them, on top of            *)
(* FriendBoot: the sample and the tests clang, symbol and elf.  Each core  *)
(* adds itself to a shared variable, and hakase compares the sum with what *)
(* boot(0) returned; in symbol each core stores the address of a function  *)
(* instead.  The sample offloads a block before that (the number it prints *)
(* is left out).  The friend binary of elf has an entry64 of its own, and  *)
(* no friend_init: its cores stop when they have counted themselves, and   *)
(* hakase sleeps for a second instead of waiting for them.                 *)
(***************************************************************************)
EXTENDS FriendBoot

CountPrograms == {"clang", "sample", "symbol", "elf"}

VARIABLES
  prog,     \* the program
  flag,     \* sync_flag; in symbol, 1 if notify is the address of func
  stage,    \* stage[c]: the next statement of friend_main on core c
  result,   \* what main() reports
  seen      \* history: the cores that had counted themselves when it looked

count == <<prog, flag, stage, result, seen>>
cvars == <<vars, count>>

Added == {c \in Cores : stage[c] = "return"}

\* setup() has succeeded; the program calls boot(0).
CountInit ==
  /\ Init /\ max = 0
  /\ prog \in CountPrograms
  /\ flag = 0
  /\ stage = [c \in Cores |-> IF prog = "sample" THEN "offload" ELSE "add"]
  /\ result = "none" /\ seen = {}

-----------------------------------------------------------------------------
(* friend_main, or the entry64 of elf *)

AtMain(c) == pc[c] = IF prog = "elf" THEN "entry64" ELSE "friend_main"

\* OFFLOAD: the core waits for hakase to execute the block.
Offloads(c) ==
  /\ AtMain(c) /\ stage[c] = "offload"
  /\ stage' = [stage EXCEPT ![c] = "waiting"]
  /\ UNCHANGED <<vars, prog, flag, result, seen>>

\* Mutation: an addition that is not atomic can be lost.
AddsUnlocked(c) ==
  /\ AtMain(c) /\ stage[c] = "add"
  /\ flag' \in IF prog = "symbol" THEN {1} ELSE {flag, flag + 1}
  /\ stage' = [stage EXCEPT ![c] = "return"]
  /\ UNCHANGED <<vars, prog, result, seen>>

\* __sync_fetch_and_add(&sync_flag, 1), lock addq $1 (elf), notify = func (symbol)
Adds(c) ==
  /\ AtMain(c) /\ stage[c] = "add"
  /\ flag' = IF prog = "symbol" THEN 1 ELSE flag + 1
  /\ stage' = [stage EXCEPT ![c] = "return"]
  /\ UNCHANGED <<vars, prog, result, seen>>

\* The runtime around friend_main, which elf does not have.
RuntimeStep(c) ==
  /\ prog # "elf"
  /\ pc[c] = "friend_main" => stage[c] = "return"
  /\ CoreStep(c)
  /\ UNCHANGED count

CountCore(c) == Offloads(c) \/ Adds(c) \/ RuntimeStep(c)

-----------------------------------------------------------------------------
(* test_main *)

\* offloader_tryreceive() in the loop of the sample: hakase executes a block.
ServesOffload ==
  /\ prog = "sample" /\ hpc = "poll"
  /\ \E c \in Cores : stage[c] = "waiting" /\ stage' = [stage EXCEPT ![c] = "add"]
  /\ UNCHANGED <<vars, prog, flag, result, seen>>

\* while (!is_friend_stopped())
LeavesLoop == prog # "elf" /\ SeesStopped /\ UNCHANGED count

\* sleep(1): however far the cores have got.
Sleeps ==
  /\ prog = "elf" /\ hpc = "poll"
  /\ hpc' = "end"
  /\ UNCHANGED <<max, device, cpunum, started, pc, shared, rsp, returned, counted, count>>

\* The comparison test_main returns, and what main() makes of it.
Compares ==
  /\ hpc = "end" /\ result = "none"
  /\ result' = IF flag = IF prog = "symbol" THEN 1 ELSE cpunum THEN "PASSED" ELSE "FAILED"
  /\ seen' = Added
  /\ UNCHANGED <<vars, prog, flag, stage>>

CountHakase ==
  \/ (OpenDevice \/ NoMoreDevices) /\ UNCHANGED count
  \/ ServesOffload \/ LeavesLoop \/ Sleeps \/ Compares

CountNext == CountHakase \/ \E c \in Cores : CountCore(c)

\* As in FriendBoot.
CountSpec ==
  /\ CountInit /\ [][CountNext]_cvars
  /\ WF_cvars(CountHakase) /\ \A c \in Cores : WF_cvars(CountCore(c))

-----------------------------------------------------------------------------
(* Property *)

\* A program that counts reports PASSED exactly if the core of every device that
\* boot(0) opened had counted itself when hakase looked: it reports FAILED if the
\* core of a device did not start, if the loop ended before a late core was in
\* friend_init, or if a second was too short.  symbol reports PASSED whenever
\* its loop has ended, since one core is enough.
CountVerdict ==
  result # "none" =>
    IF prog = "symbol" THEN result = "PASSED"
                       ELSE result = "PASSED" <=> seen = 1..cpunum
=============================================================================
