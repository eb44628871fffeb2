------------------------------ MODULE Offload ------------------------------
(***************************************************************************)
(* The OFFLOAD protocol of common/offload.h and common/offload.S.  A       *)
(* friend core that reaches an OFFLOAD statement takes a spin lock, saves  *)
(* its context in the shared buffer _friend_ctx, raises word 8 of that     *)
(* buffer and spins on word 9.  Hakase, polling in TryReceive, saves its   *)
(* own context in _hakase_ctx and jumps INTO the friend's context: the     *)
(* block runs on the hakase CPU, on the friend's stack.  The end of the    *)
(* block overwrites _friend_ctx with the continuation behind the block,    *)
(* hakase jumps back and raises word 9; the friend then continues from     *)
(* whatever _friend_ctx holds.                                             *)
(*                                                                         *)
(* Which code a CPU runs, and on whose stack, depends only on the contexts *)
(* it loads, so every action is written for an arbitrary CPU.  A context   *)
(* is abstracted to two words, stored and loaded separately: the frame     *)
(* (stack pointer, frame pointer and callee-saved registers), which only   *)
(* matters by the stack it belongs to, and the return address.             *)
(* Memory is sequentially consistent here.                                 *)
(***************************************************************************)
EXTENDS Naturals

CONSTANTS
  Friends,      \* the friend cores
  Hakase,       \* the CPU the hakase process runs on
  NoFrame,      \* content of a context nobody has saved yet
  MaxOffloads   \* bound: OFFLOAD statements executed by one friend_main

CPU == Friends \cup {Hakase}

ASSUME OffloadAssumption ==
  /\ Hakase \notin Friends
  /\ NoFrame \notin CPU
  /\ MaxOffloads \in Nat

VARIABLES
  lock,         \* _lock
  friend_ctx,   \* _friend_ctx[0..7]: [frame, rip]
  request,      \* _friend_ctx[8]
  resume,       \* _friend_ctx[9]
  hakase_ctx,   \* _hakase_ctx: [frame, rip]
  pc,           \* pc[c]: the statement CPU c is about to execute
  frame,        \* frame[c]: the stack CPU c is running on
  target,       \* target[c]: return address CPU c has pushed, not yet popped
  left,         \* left[s]: OFFLOADs still to come in the program on stack s
  ran           \* history: executions of the block of the latest OFFLOAD of s

vars == <<lock, friend_ctx, request, resume, hakase_ctx, pc, frame, target,
          left, ran>>

\* Everything but the program counters: what a pure branch leaves alone.
data == <<lock, friend_ctx, request, resume, hakase_ctx, frame, target,
          left, ran>>

-----------------------------------------------------------------------------
\* The return addresses that setjmp stores: behind the setjmp_with_wait and
\* behind the setjmp of _OFFLOAD, and behind the setjmp of TryReceive.
ReturnAddress == {"wait_ret", "set_ret", "try_ret"}

\* Where a CPU goes on returning to address ra with value v in rax: the
\* branches on the results of the three setjmp calls.  "wild", a jump through
\* a context nobody saved, is no program point: TypeOK excludes it.
Resumed(ra, v) ==
  CASE ra = "wait_ret" -> IF v # 0 THEN "code" ELSE "unlock"
    [] ra = "set_ret"  -> IF v = 0 THEN "back_frame" ELSE "unlock"
    [] ra = "try_ret"  -> IF v = 0 THEN "jump_frame" ELSE "finish"
    [] OTHER           -> "wild"

\* Program points of _OFFLOAD up to the block, of the wait inside
\* setjmp_with_wait, behind the block, and of TryReceive.
EntryPC  == {"main", "test", "cas"}
PostPC   == {"wait_frame", "wait_rip", "wait_post"}
WakePC   == {"wake_frame", "wake_rip", "wake_ret"}
CodePC   == {"code", "set_frame", "set_rip", "back_frame", "back_rip"}
HakasePC == {"app", "poll", "take", "try_frame", "try_rip", "jump_frame",
             "jump_rip", "finish"}
PC == EntryPC \cup PostPC \cup {"spin"} \cup WakePC \cup CodePC
        \cup {"unlock"} \cup HakasePC

Context == [frame : CPU \cup {NoFrame}, rip : ReturnAddress \cup {NoFrame}]

TypeOK ==
  /\ lock \in {0, 1}
  /\ friend_ctx \in Context
  /\ hakase_ctx \in Context
  /\ request \in {0, 1}
  /\ resume \in {0, 1}
  /\ pc \in [CPU -> PC]
  /\ frame \in [CPU -> CPU]
  /\ target \in [CPU -> ReturnAddress \cup {NoFrame}]
  /\ left \in [CPU -> 0..MaxOffloads]
  /\ ran \in [CPU -> Nat]

\* The friend image is deployed afresh before the cores start, so that the
\* shared Offloader is all zero.  Every CPU runs on its own stack.
Init ==
  /\ lock = 0
  /\ friend_ctx = [frame |-> NoFrame, rip |-> NoFrame]
  /\ hakase_ctx = [frame |-> NoFrame, rip |-> NoFrame]
  /\ request = 0
  /\ resume = 0
  /\ pc = [c \in CPU |-> IF c = Hakase THEN "app" ELSE "main"]
  /\ frame = [c \in CPU |-> c]
  /\ target = [c \in CPU |-> NoFrame]
  /\ left = [c \in CPU |-> MaxOffloads]
  /\ ran = [c \in CPU |-> 0]

-----------------------------------------------------------------------------
\* CPU c goes from statement a to statement b.
Step(c, a, b) ==
  /\ pc[c] = a
  /\ pc' = [pc EXCEPT ![c] = b]

\* setjmp's stores into a buffer, and longjmp's loads from one.
SaveFrame(c, ctx) == [ctx EXCEPT !.frame = frame[c]]
SaveRip(ctx, ra)  == [ctx EXCEPT !.rip = ra]
LoadFrame(c, ctx) == frame' = [frame EXCEPT ![c] = ctx.frame]

-----------------------------------------------------------------------------
(* _OFFLOAD, executed by a friend core up to the wait.                     *)

\* friend_main reaches its next OFFLOAD statement.
EnterOffload(c) ==
  /\ Step(c, "main", "test")
  /\ left[frame[c]] > 0
  /\ left' = [left EXCEPT ![frame[c]] = @ - 1]
  /\ ran' = [ran EXCEPT ![frame[c]] = 0]
  /\ UNCHANGED <<lock, friend_ctx, request, resume, hakase_ctx, frame, target>>

\* The plain read of _lock; while it is not zero the core pauses.
TestLock(c) ==
  /\ Step(c, "test", "cas")
  /\ lock = 0
  /\ UNCHANGED data

\* Mutation: test and set as two plain accesses.
CasLockPlainStore(c) ==
  /\ Step(c, "cas", "wait_frame")
  /\ lock' = 1
  /\ UNCHANGED <<friend_ctx, request, resume, hakase_ctx, frame, target, left, ran>>

\* The compare-and-swap; if it fails the loop tests again.
CasLock(c) ==
  /\ \/ lock = 0 /\ lock' = 1 /\ Step(c, "cas", "wait_frame")
     \/ lock # 0 /\ UNCHANGED lock /\ Step(c, "cas", "test")
  /\ UNCHANGED <<friend_ctx, request, resume, hakase_ctx, frame, target, left, ran>>

\* Mutation: word 8 is raised before the return address is in the buffer.
WaitFrameAnnouncing(c) ==
  /\ Step(c, "wait_frame", "wait_rip")
  /\ friend_ctx' = SaveFrame(c, friend_ctx)
  /\ request' = 1
  /\ UNCHANGED <<lock, resume, hakase_ctx, frame, target, left, ran>>

\* setjmp_with_wait: store registers and stack pointer ...
WaitFrame(c) ==
  /\ Step(c, "wait_frame", "wait_rip")
  /\ friend_ctx' = SaveFrame(c, friend_ctx)
  /\ UNCHANGED <<lock, request, resume, hakase_ctx, frame, target, left, ran>>

\* ... store the return address ...
WaitRip(c) ==
  /\ Step(c, "wait_rip", "wait_post")
  /\ friend_ctx' = SaveRip(friend_ctx, "wait_ret")
  /\ UNCHANGED <<lock, request, resume, hakase_ctx, frame, target, left, ran>>

\* ... and announce the request.
WaitPost(c) ==
  /\ Step(c, "wait_post", "spin")
  /\ request' = 1
  /\ UNCHANGED <<lock, friend_ctx, resume, hakase_ctx, frame, target, left, ran>>

\* Mutation: the wait loop is gone.
SpinNot(c) ==
  /\ Step(c, "spin", "wake_frame")
  /\ UNCHANGED data

\* The core leaves the wait loop once word 9 is raised.
Spin(c) ==
  /\ Step(c, "spin", "wake_frame")
  /\ resume # 0
  /\ UNCHANGED data

\* It loads whatever context the buffer holds now: the stack ...
WakeFrame(c) ==
  /\ Step(c, "wake_frame", "wake_rip")
  /\ LoadFrame(c, friend_ctx)
  /\ UNCHANGED <<lock, friend_ctx, request, resume, hakase_ctx, target, left, ran>>

\* ... and the return address ...
WakeRip(c) ==
  /\ Step(c, "wake_rip", "wake_ret")
  /\ target' = [target EXCEPT ![c] = friend_ctx.rip]
  /\ UNCHANGED <<lock, friend_ctx, request, resume, hakase_ctx, frame, left, ran>>

\* Mutation: word 9 is left raised for the next core.
WakeRetNoClear(c) ==
  /\ Step(c, "wake_ret", Resumed(target[c], 1))
  /\ UNCHANGED data

\* ... lowers word 9 and returns there with 1.
WakeRet(c) ==
  /\ Step(c, "wake_ret", Resumed(target[c], 1))
  /\ resume' = 0
  /\ UNCHANGED <<lock, friend_ctx, request, hakase_ctx, frame, target, left, ran>>

-----------------------------------------------------------------------------
(* The block and what follows it, executed by whichever CPU got there.     *)

\* The offloaded block, on the stack the CPU is running on.
Code(c) ==
  /\ Step(c, "code", "set_frame")
  /\ ran' = [ran EXCEPT ![frame[c]] = @ + 1]
  /\ UNCHANGED <<lock, friend_ctx, request, resume, hakase_ctx, frame, target, left>>

\* The setjmp behind the block overwrites _friend_ctx ...
SetFrame(c) ==
  /\ Step(c, "set_frame", "set_rip")
  /\ friend_ctx' = SaveFrame(c, friend_ctx)
  /\ UNCHANGED <<lock, request, resume, hakase_ctx, frame, target, left, ran>>

\* ... and returns 0.
SetRip(c) ==
  /\ Step(c, "set_rip", Resumed("set_ret", 0))
  /\ friend_ctx' = SaveRip(friend_ctx, "set_ret")
  /\ UNCHANGED <<lock, request, resume, hakase_ctx, frame, target, left, ran>>

\* longjmp(_hakase_ctx, 1).
BackFrame(c) ==
  /\ Step(c, "back_frame", "back_rip")
  /\ LoadFrame(c, hakase_ctx)
  /\ UNCHANGED <<lock, friend_ctx, request, resume, hakase_ctx, target, left, ran>>

BackRip(c) ==
  /\ Step(c, "back_rip", Resumed(hakase_ctx.rip, 1))
  /\ UNCHANGED data

\* The end of _OFFLOAD: _lock = 0.
Unlock(c) ==
  /\ Step(c, "unlock", "main")
  /\ lock' = 0
  /\ UNCHANGED <<friend_ctx, request, resume, hakase_ctx, frame, target, left, ran>>

-----------------------------------------------------------------------------
(* Hakase: the polling loop of the application, offloader_tryreceive and   *)
(* TryReceive.                                                             *)

\* The application's loop calls offloader_tryreceive.
CallTryReceive(c) ==
  /\ Step(c, "app", "poll")
  /\ UNCHANGED data

\* TryReceive reads word 8; without a request it returns false, and so does
\* offloader_tryreceive.
Poll(c) ==
  /\ \/ request = 0 /\ Step(c, "poll", "app")
     \/ request # 0 /\ Step(c, "poll", "take")
  /\ UNCHANGED data

\* Mutation: word 8 stays raised.
TakeNoClear(c) ==
  /\ Step(c, "take", "try_frame")
  /\ UNCHANGED data

\* Mutation: word 9 is raised on taking the request, before the block ran.
TakeAndResume(c) ==
  /\ Step(c, "take", "try_frame")
  /\ request' = 0
  /\ resume' = 1
  /\ UNCHANGED <<lock, friend_ctx, hakase_ctx, frame, target, left, ran>>

\* Mutation: the setjmp on _hakase_ctx is left out.
TakeWithoutSetjmp(c) ==
  /\ Step(c, "take", "jump_frame")
  /\ request' = 0
  /\ UNCHANGED <<lock, friend_ctx, resume, hakase_ctx, frame, target, left, ran>>

\* It lowers word 8 ...
Take(c) ==
  /\ Step(c, "take", "try_frame")
  /\ request' = 0
  /\ UNCHANGED <<lock, friend_ctx, resume, hakase_ctx, frame, target, left, ran>>

\* ... saves its own context with setjmp, which returns 0 ...
TryFrame(c) ==
  /\ Step(c, "try_frame", "try_rip")
  /\ hakase_ctx' = SaveFrame(c, hakase_ctx)
  /\ UNCHANGED <<lock, friend_ctx, request, resume, frame, target, left, ran>>

TryRip(c) ==
  /\ Step(c, "try_rip", Resumed("try_ret", 0))
  /\ hakase_ctx' = SaveRip(hakase_ctx, "try_ret")
  /\ UNCHANGED <<lock, friend_ctx, request, resume, frame, target, left, ran>>

\* ... and jumps into the friend's context: longjmp(_friend_ctx, 1).
JumpFrame(c) ==
  /\ Step(c, "jump_frame", "jump_rip")
  /\ LoadFrame(c, friend_ctx)
  /\ UNCHANGED <<lock, friend_ctx, request, resume, hakase_ctx, target, left, ran>>

JumpRip(c) ==
  /\ Step(c, "jump_rip", Resumed(friend_ctx.rip, 1))
  /\ UNCHANGED data

\* Mutation: the friend is never told.
FinishSilently(c) ==
  /\ Step(c, "finish", "poll")
  /\ UNCHANGED data

\* Back from the jump it raises word 9 and returns true, which makes
\* offloader_tryreceive call TryReceive again.
Finish(c) ==
  /\ Step(c, "finish", "poll")
  /\ resume' = 1
  /\ UNCHANGED <<lock, friend_ctx, request, hakase_ctx, frame, target, left, ran>>

-----------------------------------------------------------------------------
CpuStep(c) ==
  \/ EnterOffload(c) \/ TestLock(c) \/ CasLock(c)
  \/ WaitFrame(c) \/ WaitRip(c) \/ WaitPost(c)
  \/ Spin(c) \/ WakeFrame(c) \/ WakeRip(c) \/ WakeRet(c)
  \/ Code(c) \/ SetFrame(c) \/ SetRip(c) \/ BackFrame(c) \/ BackRip(c) \/ Unlock(c)
  \/ CallTryReceive(c) \/ Poll(c) \/ Take(c) \/ TryFrame(c) \/ TryRip(c)
  \/ JumpFrame(c) \/ JumpRip(c) \/ Finish(c)

Next == \E c \in CPU : CpuStep(c)

Spec == Init /\ [][Next]_vars

\* Every CPU keeps executing: friend cores run nothing but friend code, and
\* Linux schedules the hakase process again and again.
FairSpec == Spec /\ \A c \in CPU : WF_vars(CpuStep(c))

-----------------------------------------------------------------------------
(* Properties                                                              *)

\* The program points between taking and releasing _lock.
Holding == PostPC \cup {"spin", "unlock"} \cup WakePC

\* _lock arbitrates: at most one core is between the successful
\* compare-and-swap and the release, hence at most one core uses the shared
\* context buffer.
MutualExclusion ==
  \A c, d \in CPU : pc[c] \in Holding /\ pc[d] \in Holding => c = d

\* The jump of hakase into a friend's context never puts two CPUs on one
\* stack: whenever two CPUs share a stack, one of them is parked in the wait
\* loop of setjmp_with_wait, which touches no stack.
OneCpuPerStack ==
  \A c, d \in CPU :
    c # d /\ frame[c] = frame[d] => pc[c] = "spin" \/ pc[d] = "spin"

\* The block of an OFFLOAD runs on the hakase CPU, never on the friend core
\* that wrote it, whatever context that core finds in the buffer on waking.
BlockRunsOnHakase ==
  \A f \in Friends : pc[f] \notin CodePC

\* Behind an OFFLOAD, about to release _lock, a core is back on its own stack
\* and its block has been executed exactly once.
ExactlyOnce ==
  \A c \in CPU :
    /\ ran[c] <= 1
    /\ pc[c] = "unlock" => frame[c] = c /\ ran[c] = 1

\* While either flag is up the context is somebody else's to load: nobody
\* stores into _friend_ctx.
ContextStable ==
  [][request = 1 \/ resume = 1 => UNCHANGED friend_ctx]_vars

\* A core waiting in setjmp_with_wait is eventually past its OFFLOAD.
RequestServed ==
  \A f \in Friends : pc[f] = "spin" ~> pc[f] = "main"

-----------------------------------------------------------------------------
(* The hand-shake, stage by stage, from the view of the core f that holds  *)
(* the lock.  Its disjunction is the inductive invariant of the protocol.  *)

HakaseAway == pc[Hakase] \in {"app", "poll"} /\ frame[Hakase] = Hakase

\* No request is under way.
Quiet == request = 0 /\ resume = 0 /\ HakaseAway

\* _friend_ctx leads to the stack of f at return address ra.
Leads(f, ra) == friend_ctx.frame = f /\ friend_ctx.rip = ra

\* _hakase_ctx leads back to TryReceive.
LeadsBack == hakase_ctx.frame = Hakase /\ hakase_ctx.rip = "try_ret"

Preparing(f) ==
  /\ pc[f] \in PostPC /\ Quiet /\ ran[f] = 0
  /\ pc[f] # "wait_frame" => friend_ctx.frame = f
  /\ pc[f] = "wait_post" => friend_ctx.rip = "wait_ret"

Posted(f) ==
  /\ pc[f] = "spin" /\ request = 1 /\ resume = 0
  /\ pc[Hakase] \in {"app", "poll", "take"} /\ frame[Hakase] = Hakase
  /\ Leads(f, "wait_ret") /\ ran[f] = 0

\* Hakase, between taking the request and entering the stack of f ...
Accepting(f) ==
  /\ pc[f] = "spin" /\ request = 0 /\ resume = 0
  /\ pc[Hakase] \in {"try_frame", "try_rip", "jump_frame"}
  /\ frame[Hakase] = Hakase
  /\ pc[Hakase] # "try_frame" => hakase_ctx.frame = Hakase
  /\ pc[Hakase] = "jump_frame" => LeadsBack
  /\ Leads(f, "wait_ret") /\ ran[f] = 0

\* ... on the stack of f ...
Visiting(f) ==
  /\ pc[f] = "spin" /\ request = 0 /\ resume = 0
  /\ frame[Hakase] = f /\ friend_ctx.frame = f /\ LeadsBack
  /\ \/ pc[Hakase] \in {"jump_rip", "code"} /\ Leads(f, "wait_ret") /\ ran[f] = 0
     \/ pc[Hakase] \in {"set_frame", "set_rip"} /\ ran[f] = 1
     \/ pc[Hakase] = "back_frame" /\ Leads(f, "set_ret") /\ ran[f] = 1

\* ... and back on its own.
Returning(f) ==
  /\ pc[f] = "spin" /\ request = 0 /\ resume = 0
  /\ pc[Hakase] \in {"back_rip", "finish"} /\ frame[Hakase] = Hakase /\ LeadsBack
  /\ Leads(f, "set_ret") /\ ran[f] = 1

Waking(f) ==
  /\ pc[f] \in {"spin"} \cup WakePC /\ request = 0 /\ resume = 1 /\ HakaseAway
  /\ pc[f] = "wake_ret" => target[f] = "set_ret"
  /\ Leads(f, "set_ret") /\ ran[f] = 1

Leaving(f) == pc[f] = "unlock" /\ Quiet /\ ran[f] = 1

Stage(f) ==
  \/ Preparing(f) \/ Posted(f) \/ Accepting(f) \/ Visiting(f)
  \/ Returning(f) \/ Waking(f) \/ Leaving(f)

\* The core holding the lock and hakase are always in matching stages of one
\* hand-shake, and without a holder both flags are down and hakase is home:
\* no flag, context or jump is ever left over from an earlier request.
Handshake ==
  /\ \A f \in Friends :
       /\ pc[f] \in EntryPC \cup Holding /\ frame[f] = f
       /\ ran[f] \in {0, 1} /\ (pc[f] \in {"test", "cas"} => ran[f] = 0)
       /\ pc[f] \in Holding => lock = 1 /\ Stage(f)
  /\ \A f, g \in Friends : pc[f] \in Holding /\ pc[g] \in Holding => f = g
  /\ pc[Hakase] \in HakasePC \cup CodePC /\ ran[Hakase] = 0
  /\ (\A f \in Friends : pc[f] \notin Holding) => Quiet

-----------------------------------------------------------------------------
(* Refinement.  A call is pending from the OFFLOAD statement until hakase  *)
(* has loaded the frame of the core, and running until the block ran.      *)

callBar ==
  [f \in Friends |->
     IF pc[f] = "main" THEN "idle"
     ELSE IF ran[f] # 0 THEN "executed"
     ELSE IF frame[Hakase] = f THEN "running" ELSE "pending"]

Service == INSTANCE OffloadService
             WITH call <- callBar, ran <- [f \in Friends |-> ran[f]]

\* Lock, flags and context switching together implement the service that
\* friend code relies on.
ServiceSpec == Service!Spec
=============================================================================
