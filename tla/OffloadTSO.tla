----------------------------- MODULE OffloadTSO -----------------------------
(***************************************************************************)
(* The OFFLOAD protocol on the memory of an x86 processor.  Neither _lock  *)
(* nor the words of the contexts are protected by fences: a store waits in *)
(* the FIFO store buffer of its CPU, where only that CPU sees it, until    *)
(* the hardware writes it to memory.  Only the compare-and-swap on _lock   *)
(* is a locked instruction.  Statements and their order are those of       *)
(* module Offload.  In addition the block stores into a variable x of the  *)
(* friend's frame, as in the tutorial: `int x = 0; OFFLOAD({ x = 1; });`.  *)
(***************************************************************************)
EXTENDS Naturals, Sequences

CONSTANTS
  Friends,      \* the friend cores
  Hakase,       \* the CPU the hakase process runs on
  NoFrame,      \* content of a context nobody has saved yet
  MaxOffloads,  \* bound: OFFLOAD statements executed by one friend_main
  BufferSize    \* entries of a store buffer; a store waits while it is full

CPU == Friends \cup {Hakase}

\* The words of the Offloader object, and the variable x of every frame.
Words == {"lock", "friend_frame", "friend_rip", "request", "resume",
          "hakase_frame", "hakase_rip"}
Locations == Words \cup CPU

ASSUME TSOAssumption ==
  /\ Hakase \notin Friends
  /\ NoFrame \notin CPU
  /\ Words \cap CPU = {}
  /\ MaxOffloads \in Nat
  /\ BufferSize \in Nat \ {0}

VARIABLES
  mem,      \* shared memory
  buffer,   \* buffer[c]: stores of CPU c not yet in memory, oldest first
  pc,       \* pc[c]: the statement CPU c is about to execute
  frame,    \* frame[c]: the stack CPU c is running on
  target,   \* target[c]: return address CPU c has pushed, not yet popped
  left,     \* left[s]: OFFLOADs still to come in the program on stack s
  ran       \* history: executions of the block of the latest OFFLOAD of s

vars == <<mem, buffer, pc, frame, target, left, ran>>

ReturnAddress == {"wait_ret", "set_ret", "try_ret"}
CodePC == {"code", "set_frame", "set_rip", "back_frame", "back_rip"}
PC == {"main", "test", "cas", "wait_frame", "wait_rip", "wait_post", "spin",
       "wake_frame", "wake_rip", "wake_clear", "wake_ret", "unlock",
       "app", "poll", "take", "try_frame", "try_rip", "jump_frame", "jump_rip",
       "finish"} \cup CodePC

Init ==
  /\ mem = [l \in Locations |->
              IF l \in {"lock", "request", "resume"} \cup CPU THEN 0 ELSE NoFrame]
  /\ buffer = [c \in CPU |-> <<>>]
  /\ pc = [c \in CPU |-> IF c = Hakase THEN "app" ELSE "main"]
  /\ frame = [c \in CPU |-> c]
  /\ target = [c \in CPU |-> NoFrame]
  /\ left = [c \in CPU |-> MaxOffloads]
  /\ ran = [c \in CPU |-> 0]

-----------------------------------------------------------------------------
(* The memory *)

\* The hardware writes the oldest store of c to memory.
Flush(c) ==
  /\ buffer[c] # <<>>
  /\ mem' = [mem EXCEPT ![Head(buffer[c]).at] = Head(buffer[c]).value]
  /\ buffer' = [buffer EXCEPT ![c] = Tail(@)]
  /\ UNCHANGED <<pc, frame, target, left, ran>>

\* What c reads at l: its own latest store if there is one.
Read(c, l) ==
  LET own == {k \in 1..Len(buffer[c]) : buffer[c][k].at = l}
  IN  IF own = {} THEN mem[l]
      ELSE buffer[c][CHOOSE k \in own : \A j \in own : j <= k].value

Step(c, a, b) ==
  /\ pc[c] = a
  /\ pc' = [pc EXCEPT ![c] = b]

\* A store statement.
Store(c, a, b, l, v) ==
  /\ Step(c, a, b)
  /\ Len(buffer[c]) < BufferSize
  /\ buffer' = [buffer EXCEPT ![c] = Append(@, [at |-> l, value |-> v])]
  /\ UNCHANGED mem

\* A statement that only changes registers or branches.
Local(c, a, b) == Step(c, a, b) /\ UNCHANGED <<mem, buffer>>

\* A load of the stack pointer.
LoadFrame(c, a, b, l) ==
  /\ Local(c, a, b)
  /\ frame' = [frame EXCEPT ![c] = Read(c, l)]
  /\ UNCHANGED <<target, left, ran>>

registers == <<frame, target, left, ran>>

\* Where a CPU goes on returning to address ra with value v in rax.
Resumed(ra, v) ==
  CASE ra = "wait_ret" -> IF v # 0 THEN "code" ELSE "unlock"
    [] ra = "set_ret"  -> IF v = 0 THEN "back_frame" ELSE "unlock"
    [] ra = "try_ret"  -> IF v = 0 THEN "jump_frame" ELSE "finish"
    [] OTHER           -> "wild"

-----------------------------------------------------------------------------
(* _OFFLOAD and setjmp_with_wait *)

\* `int x = 0;` and the OFFLOAD statement.
EnterOffload(c) ==
  /\ Store(c, "main", "test", frame[c], 0)
  /\ left[frame[c]] > 0
  /\ left' = [left EXCEPT ![frame[c]] = @ - 1]
  /\ ran' = [ran EXCEPT ![frame[c]] = 0]
  /\ UNCHANGED <<frame, target>>

TestLock(c) ==
  /\ Local(c, "test", "cas")
  /\ Read(c, "lock") = 0
  /\ UNCHANGED registers

\* Mutation: an ordinary store in place of the locked instruction.
CasLockPlainStore(c) ==
  Store(c, "cas", "wait_frame", "lock", 1) /\ UNCHANGED registers

\* The locked instruction: drains the buffer and is atomic.
CasLock(c) ==
  /\ buffer[c] = <<>>
  /\ \/ mem["lock"] = 0 /\ mem' = [mem EXCEPT !["lock"] = 1] /\ Step(c, "cas", "wait_frame")
     \/ mem["lock"] # 0 /\ UNCHANGED mem /\ Step(c, "cas", "test")
  /\ UNCHANGED <<buffer, registers>>

WaitFrame(c) ==
  Store(c, "wait_frame", "wait_rip", "friend_frame", frame[c]) /\ UNCHANGED registers

WaitRip(c) ==
  Store(c, "wait_rip", "wait_post", "friend_rip", "wait_ret") /\ UNCHANGED registers

WaitPost(c) ==
  Store(c, "wait_post", "spin", "request", 1) /\ UNCHANGED registers

\* Mutation: no wait loop.
SpinNot(c) ==
  /\ Local(c, "spin", "wake_frame")
  /\ UNCHANGED registers

Spin(c) ==
  /\ Local(c, "spin", "wake_frame")
  /\ Read(c, "resume") # 0
  /\ UNCHANGED registers

WakeFrame(c) == LoadFrame(c, "wake_frame", "wake_rip", "friend_frame")

WakeRip(c) ==
  /\ Local(c, "wake_rip", "wake_clear")
  /\ target' = [target EXCEPT ![c] = Read(c, "friend_rip")]
  /\ UNCHANGED <<frame, left, ran>>

\* Mutation: word 9 stays raised.
WakeClearNot(c) ==
  Local(c, "wake_clear", "wake_ret") /\ UNCHANGED registers

WakeClear(c) ==
  Store(c, "wake_clear", "wake_ret", "resume", 0) /\ UNCHANGED registers

WakeRet(c) ==
  Local(c, "wake_ret", Resumed(target[c], 1)) /\ UNCHANGED registers

\* Mutation: the lock is never given back.
UnlockNot(c) ==
  Local(c, "unlock", "main") /\ UNCHANGED registers

Unlock(c) ==
  Store(c, "unlock", "main", "lock", 0) /\ UNCHANGED registers

-----------------------------------------------------------------------------
(* The block, TryReceive and offloader_tryreceive *)

Code(c) ==
  /\ Store(c, "code", "set_frame", frame[c], 1)
  /\ ran' = [ran EXCEPT ![frame[c]] = @ + 1]
  /\ UNCHANGED <<frame, target, left>>

SetFrame(c) ==
  Store(c, "set_frame", "set_rip", "friend_frame", frame[c]) /\ UNCHANGED registers

SetRip(c) ==
  Store(c, "set_rip", Resumed("set_ret", 0), "friend_rip", "set_ret") /\ UNCHANGED registers

BackFrame(c) == LoadFrame(c, "back_frame", "back_rip", "hakase_frame")

BackRip(c) ==
  Local(c, "back_rip", Resumed(Read(c, "hakase_rip"), 1)) /\ UNCHANGED registers

CallTryReceive(c) ==
  Local(c, "app", "poll") /\ UNCHANGED registers

Poll(c) ==
  /\ Local(c, "poll", IF Read(c, "request") = 0 THEN "app" ELSE "take")
  /\ UNCHANGED registers

\* Mutation: word 9 is raised on taking the request.
TakeAndResume(c) ==
  Store(c, "take", "try_frame", "resume", 1) /\ UNCHANGED registers

Take(c) ==
  Store(c, "take", "try_frame", "request", 0) /\ UNCHANGED registers

TryFrame(c) ==
  Store(c, "try_frame", "try_rip", "hakase_frame", frame[c]) /\ UNCHANGED registers

TryRip(c) ==
  Store(c, "try_rip", Resumed("try_ret", 0), "hakase_rip", "try_ret") /\ UNCHANGED registers

JumpFrame(c) == LoadFrame(c, "jump_frame", "jump_rip", "friend_frame")

JumpRip(c) ==
  Local(c, "jump_rip", Resumed(Read(c, "friend_rip"), 1)) /\ UNCHANGED registers

Finish(c) ==
  Store(c, "finish", "poll", "resume", 1) /\ UNCHANGED registers

CpuStep(c) ==
  \/ EnterOffload(c) \/ TestLock(c) \/ CasLock(c)
  \/ WaitFrame(c) \/ WaitRip(c) \/ WaitPost(c)
  \/ Spin(c) \/ WakeFrame(c) \/ WakeRip(c) \/ WakeClear(c) \/ WakeRet(c)
  \/ Code(c) \/ SetFrame(c) \/ SetRip(c) \/ BackFrame(c) \/ BackRip(c) \/ Unlock(c)
  \/ CallTryReceive(c) \/ Poll(c) \/ Take(c) \/ TryFrame(c) \/ TryRip(c)
  \/ JumpFrame(c) \/ JumpRip(c) \/ Finish(c)

Next == \E c \in CPU : CpuStep(c) \/ Flush(c)

Spec == Init /\ [][Next]_vars

\* CPUs keep executing and store buffers drain.
FairSpec == Spec /\ \A c \in CPU : WF_vars(CpuStep(c)) /\ WF_vars(Flush(c))

-----------------------------------------------------------------------------
(* Properties *)

\* Without a single fence, no two CPUs execute on one stack: of two CPUs with
\* the same stack one is in the wait loop of setjmp_with_wait.
OneCpuPerStack ==
  \A c, d \in CPU :
    c # d /\ frame[c] = frame[d] => pc[c] = "spin" \/ pc[d] = "spin"

\* However late the stores become visible, a core that leaves an OFFLOAD is on
\* its own stack and its block was executed exactly once, by hakase.
ExactlyOnce ==
  /\ \A c \in CPU : pc[c] = "unlock" => frame[c] = c /\ ran[c] = 1
  /\ \A f \in Friends : pc[f] \notin CodePC

\* What the tutorial promises behind the statement: the core reads the value
\* that the block stored on the hakase CPU, not an older one.
ResultVisible ==
  \A f \in Friends : pc[f] = "unlock" => Read(f, f) = 1

\* Every core gets through all its OFFLOADs; no flag update is lost between
\* store buffers.
AllOffloadsComplete ==
  <>[](\A f \in Friends : pc[f] = "main" /\ left[f] = 0)

callBar ==
  [f \in Friends |->
     IF pc[f] = "main" THEN "idle"
     ELSE IF ran[f] # 0 THEN "executed"
     ELSE IF frame[Hakase] = f THEN "running" ELSE "pending"]

Service == INSTANCE OffloadService
             WITH call <- callBar, ran <- [f \in Friends |-> ran[f]]

\* With store buffers, too, the protocol implements the service.
ServiceSpec == Service!Spec
=============================================================================
