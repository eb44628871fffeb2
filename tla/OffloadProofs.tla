---------------------------- MODULE OffloadProofs ----------------------------
(***************************************************************************)
(* Proofs about Offload, for any number of friend cores and of OFFLOADs.   *)
(* The inductive invariant is TypeOK /\ Handshake; all safety properties   *)
(* are read off it, and it makes every step of Offload a step of           *)
(* OffloadService.                                                         *)
(***************************************************************************)
EXTENDS Offload, TLAPS

Inv == TypeOK /\ Handshake

\* The deployed, zeroed Offloader satisfies the invariant.
LEMMA InitInv == Init => Inv
  BY OffloadAssumption DEF Init, Inv, TypeOK, Handshake, Context, CPU, PC, EntryPC, HakasePC,
     CodePC, Quiet, HakaseAway, Holding, PostPC, WakePC, ReturnAddress

-----------------------------------------------------------------------------
\* What a CPU may do is limited by where the invariant lets it be: a friend
\* core executes _OFFLOAD and the wait, never the block ...
LEMMA FriendActions ==
  ASSUME Inv, NEW f \in Friends, CpuStep(f)
  PROVE  \/ EnterOffload(f) \/ TestLock(f) \/ CasLock(f) \/ WaitFrame(f) \/ WaitRip(f) \/ WaitPost(f)
         \/ Spin(f) \/ WakeFrame(f) \/ WakeRip(f) \/ WakeRet(f) \/ Unlock(f)
  BY Zenon DEF Inv, Handshake, EntryPC, Holding, PostPC, WakePC, CpuStep, Step,
     Code, SetFrame, SetRip, BackFrame, BackRip, CallTryReceive, Poll, Take, TryFrame, TryRip, JumpFrame, JumpRip, Finish

\* ... and hakase executes TryReceive and the block.
LEMMA HakaseActions ==
  ASSUME Inv, CpuStep(Hakase)
  PROVE  \/ Code(Hakase) \/ SetFrame(Hakase) \/ SetRip(Hakase) \/ BackFrame(Hakase) \/ BackRip(Hakase)
         \/ CallTryReceive(Hakase) \/ Poll(Hakase) \/ Take(Hakase) \/ TryFrame(Hakase)
         \/ TryRip(Hakase) \/ JumpFrame(Hakase) \/ JumpRip(Hakase) \/ Finish(Hakase)
  BY Zenon DEF Inv, Handshake, HakasePC, CodePC, CpuStep, Step,
     EnterOffload, TestLock, CasLock, WaitFrame, WaitRip, WaitPost, Spin, WakeFrame, WakeRip, WakeRet, Unlock

\* A step of a friend core preserves the invariant.
LEMMA FriendStep ==
  ASSUME Inv, NEW f \in Friends, CpuStep(f)
  PROVE  Inv'
<1> USE OffloadAssumption DEF Inv, TypeOK, Context, ReturnAddress, CPU, PC, EntryPC, PostPC,
      WakePC, CodePC, HakasePC, Holding, Handshake, Stage, Preparing, Posted, Accepting,
      Visiting, Returning, Waking, Leaving, Quiet, HakaseAway, Leads, LeadsBack, Step,
      Resumed, SaveFrame, SaveRip, LoadFrame, data
<1>1. CASE EnterOffload(f)
  BY <1>1 DEF EnterOffload
<1>2. CASE TestLock(f)
  BY <1>2 DEF TestLock
<1>3. CASE CasLock(f)
  BY <1>3 DEF CasLock
<1>4. CASE WaitFrame(f)
  BY <1>4 DEF WaitFrame
<1>5. CASE WaitRip(f)
  BY <1>5 DEF WaitRip
<1>6. CASE WaitPost(f)
  BY <1>6 DEF WaitPost
<1>7. CASE Spin(f)
  BY <1>7 DEF Spin
<1>8. CASE WakeFrame(f)
  BY <1>8 DEF WakeFrame
<1>9. CASE WakeRip(f)
  BY <1>9 DEF WakeRip
<1>10. CASE WakeRet(f)
  BY <1>10 DEF WakeRet
<1>11. CASE Unlock(f)
  BY <1>11 DEF Unlock
<1>12. QED BY Zenon, <1>1, <1>2, <1>3, <1>4, <1>5, <1>6, <1>7, <1>8, <1>9, <1>10, <1>11, FriendActions

\* A step of hakase preserves the invariant.
LEMMA HakaseStep ==
  ASSUME Inv, CpuStep(Hakase)
  PROVE  Inv'
<1> USE OffloadAssumption DEF Inv, TypeOK, Context, ReturnAddress, CPU, PC, EntryPC, PostPC,
      WakePC, CodePC, HakasePC, Holding, Handshake, Stage, Preparing, Posted, Accepting,
      Visiting, Returning, Waking, Leaving, Quiet, HakaseAway, Leads, LeadsBack, Step,
      Resumed, SaveFrame, SaveRip, LoadFrame, data
<1>1. CASE Code(Hakase)
  BY <1>1 DEF Code
<1>2. CASE SetFrame(Hakase)
  BY <1>2 DEF SetFrame
<1>3. CASE SetRip(Hakase)
  BY <1>3 DEF SetRip
<1>4. CASE BackFrame(Hakase)
  BY <1>4 DEF BackFrame
<1>5. CASE BackRip(Hakase)
  BY <1>5 DEF BackRip
<1>6. CASE CallTryReceive(Hakase)
  BY <1>6 DEF CallTryReceive
<1>7. CASE Poll(Hakase)
  BY <1>7 DEF Poll
<1>8. CASE Take(Hakase)
  BY <1>8 DEF Take
<1>9. CASE TryFrame(Hakase)
  BY <1>9 DEF TryFrame
<1>10. CASE TryRip(Hakase)
  BY <1>10 DEF TryRip
<1>11. CASE JumpFrame(Hakase)
  BY <1>11 DEF JumpFrame
<1>12. CASE JumpRip(Hakase)
  BY <1>12 DEF JumpRip
<1>13. CASE Finish(Hakase)
  BY <1>13 DEF Finish
<1>14. QED BY Zenon, <1>1, <1>2, <1>3, <1>4, <1>5, <1>6, <1>7, <1>8, <1>9, <1>10, <1>11, <1>12, <1>13, HakaseActions

\* The invariant is inductive.
LEMMA StepInv == Inv /\ [Next]_vars => Inv'
<1> SUFFICES ASSUME Inv, [Next]_vars PROVE Inv'
  OBVIOUS
<1>1. CASE UNCHANGED vars
  BY <1>1 DEF vars, Inv, TypeOK, Handshake, Stage, Preparing, Posted, Accepting, Visiting,
     Returning, Waking, Leaving, Quiet, HakaseAway, Leads, LeadsBack
<1>2. ASSUME NEW c \in CPU, CpuStep(c) PROVE Inv'
  BY <1>2, FriendStep, HakaseStep DEF CPU
<1>3. QED BY <1>1, <1>2 DEF Next

-----------------------------------------------------------------------------
\* The shared Offloader and both sides of the protocol keep their types: no
\* CPU ever loads a context nobody has saved or returns to a wild address.
THEOREM TypeCorrect == Spec => []TypeOK
<1>1. Inv => TypeOK BY DEF Inv
<1>2. QED BY <1>1, InitInv, StepInv, PTL DEF Spec

\* Core and hakase stay in matching stages of one hand-shake.
THEOREM HandshakeHolds == Spec => []Handshake
<1>1. Inv => Handshake BY DEF Inv
<1>2. QED BY <1>1, InitInv, StepInv, PTL DEF Spec

\* _lock gives the shared context buffer to one core at a time.
THEOREM LockExcludes == Spec => []MutualExclusion
<1>1. Inv => MutualExclusion
  BY Zenon DEF Inv, Handshake, MutualExclusion, CPU, HakasePC, CodePC, Holding, PostPC, WakePC
<1>2. QED BY <1>1, InitInv, StepInv, PTL DEF Spec

\* No two CPUs execute on one stack.
THEOREM StackExclusive == Spec => []OneCpuPerStack
<1>1. Inv => OneCpuPerStack
  BY OffloadAssumption DEF Inv, Handshake, OneCpuPerStack, CPU, Stage, Preparing, Posted,
     Accepting, Visiting, Returning, Waking, Leaving, Quiet, HakaseAway
<1>2. QED BY <1>1, InitInv, StepInv, PTL DEF Spec

\* Only the hakase CPU executes offloaded blocks.
THEOREM BlocksOnHakase == Spec => []BlockRunsOnHakase
<1>1. Inv => BlockRunsOnHakase
  BY DEF Inv, Handshake, BlockRunsOnHakase, CodePC, EntryPC, Holding, PostPC, WakePC
<1>2. QED BY <1>1, InitInv, StepInv, PTL DEF Spec

\* An OFFLOAD is left on the core's own stack after exactly one execution of
\* its block.
THEOREM BlockExactlyOnce == Spec => []ExactlyOnce
<1>1. Inv => ExactlyOnce
  BY DEF Inv, TypeOK, Handshake, ExactlyOnce, CPU, HakasePC, CodePC, Holding, Stage, Preparing,
     PostPC, WakePC, Posted, Accepting, Visiting, Returning, Waking, Leaving
<1>2. QED BY <1>1, InitInv, StepInv, PTL DEF Spec

-----------------------------------------------------------------------------
\* The stages in which a core may store into _friend_ctx have both flags down.
LEMMA ContextStep ==
  Inv /\ Next => (request = 1 \/ resume = 1 => UNCHANGED friend_ctx)
<1> SUFFICES ASSUME Inv, Next, request = 1 \/ resume = 1
             PROVE  friend_ctx' = friend_ctx
  OBVIOUS
<1> USE DEF Inv, Handshake, Stage, Preparing, Posted, Accepting, Visiting, Returning, Waking,
      Leaving, Quiet, HakaseAway, Step, data
<1>1. ASSUME NEW f \in Friends, CpuStep(f) PROVE friend_ctx' = friend_ctx
  <2>1. ~ (WaitFrame(f) \/ WaitRip(f))
    BY <1>1 DEF WaitFrame, WaitRip, Holding, PostPC, WakePC
  <2>2. QED BY Zenon, <1>1, <2>1, FriendActions DEF EnterOffload, TestLock, CasLock, WaitPost, Spin,
                WakeFrame, WakeRip, WakeRet, Unlock
<1>2. ASSUME CpuStep(Hakase) PROVE friend_ctx' = friend_ctx
  <2>1. ~ (SetFrame(Hakase) \/ SetRip(Hakase))
    BY <1>2 DEF SetFrame, SetRip
  <2>2. QED BY Zenon, <1>2, <2>1, HakaseActions DEF Code, BackFrame, BackRip, CallTryReceive, Poll,
                Take, TryFrame, TryRip, JumpFrame, JumpRip, Finish
<1>3. QED BY <1>1, <1>2 DEF Next, CPU

\* Nobody stores into _friend_ctx while a flag offers it to the other side.
THEOREM ContextIsStable == Spec => ContextStable
<1>1. Inv /\ [Next]_vars => [request = 1 \/ resume = 1 => UNCHANGED friend_ctx]_vars
  BY Zenon, ContextStep
<1>2. QED BY <1>1, InitInv, StepInv, PTL DEF Spec, ContextStable

-----------------------------------------------------------------------------
(* Refinement *)

\* Hakase is on the stack of a core only while it serves that core.
LEMMA VisitsServed ==
  ASSUME Inv, NEW f \in Friends, frame[Hakase] = f
  PROVE  Visiting(f)
<1>1. PICK g \in Friends : pc[g] \in Holding /\ Stage(g)
  BY Zenon, OffloadAssumption DEF Inv, Handshake, Quiet, HakaseAway
<1>2. Visiting(g)
  BY Zenon, <1>1, OffloadAssumption DEF Stage, Preparing, Posted, Accepting, Returning, Waking, Leaving,
     Quiet, HakaseAway
<1>3. QED BY Zenon, <1>2 DEF Visiting

\* A friend core issues and returns from calls; all its other steps are
\* invisible.
LEMMA FriendRefines ==
  ASSUME Inv, NEW f \in Friends, CpuStep(f)
  PROVE  [Service!Next]_(Service!vars)
<1> USE OffloadAssumption DEF Inv, TypeOK, CPU, Step, data
<1>1. CASE EnterOffload(f)
  <2>1. pc[f] = "main" /\ frame[f] = f /\ frame[Hakase] # f
    BY <1>1, VisitsServed DEF EnterOffload, Handshake, Visiting
  <2>2. pc' = [pc EXCEPT ![f] = "test"] /\ ran' = [ran EXCEPT ![f] = 0] /\ frame' = frame
    BY <1>1, <2>1 DEF EnterOffload
  <2>3. callBar' = [callBar EXCEPT ![f] = "pending"]
    BY Zenon, <2>1, <2>2 DEF callBar
  <2>4. [g \in Friends |-> ran[g]]' = [[g \in Friends |-> ran[g]] EXCEPT ![f] = 0]
    BY Zenon, <2>2
  <2>5. Service!Issue(f)
    BY <2>1, <2>3, <2>4 DEF Service!Issue, callBar
  <2>6. QED BY Zenon, <2>5 DEF Service!Next
<1>2. CASE Unlock(f)
  <2>1. pc[f] = "unlock" /\ ran[f] = 1
    BY <1>2 DEF Unlock, Handshake, Holding, Stage, Preparing, Posted, Accepting, Visiting,
       Returning, Waking, Leaving, PostPC, WakePC
  <2>2. pc' = [pc EXCEPT ![f] = "main"] /\ ran' = ran /\ frame' = frame
    BY <1>2 DEF Unlock
  <2>3. callBar' = [callBar EXCEPT ![f] = "idle"]
    BY Zenon, <2>1, <2>2 DEF callBar
  <2>4. Service!Return(f)
    BY <2>1, <2>2, <2>3 DEF Service!Return, callBar
  <2>5. QED BY Zenon, <2>4 DEF Service!Next
<1>3. CASE \/ TestLock(f) \/ CasLock(f) \/ WaitFrame(f) \/ WaitRip(f) \/ WaitPost(f)
           \/ Spin(f) \/ WakeFrame(f) \/ WakeRip(f) \/ WakeRet(f)
  <2>1. pc[f] # "main" /\ pc'[f] # "main" /\ \A g \in Friends : g # f => pc'[g] = pc[g]
    BY <1>3 DEF TestLock, CasLock, WaitFrame, WaitRip, WaitPost, Spin, WakeFrame, WakeRip,
       WakeRet, Resumed
  <2>2. ran' = ran /\ frame'[Hakase] = frame[Hakase]
    BY <1>3 DEF TestLock, CasLock, WaitFrame, WaitRip, WaitPost, Spin, WakeFrame, WakeRip,
       WakeRet, LoadFrame
  <2>3. callBar' = callBar
    BY <2>1, <2>2 DEF callBar
  <2>4. QED BY <2>2, <2>3 DEF Service!vars
<1>4. QED BY <1>1, <1>2, <1>3, FriendActions

\* Hakase begins a call by entering the stack of the core and executes it
\* there; leaving the stack is invisible because the block has run.
LEMMA HakaseRefines ==
  ASSUME Inv, CpuStep(Hakase)
  PROVE  [Service!Next]_(Service!vars)
<1> USE OffloadAssumption DEF Inv, TypeOK, CPU, Step, data
<1>1. CASE JumpFrame(Hakase)
  <2>1. PICK f \in Friends : Accepting(f)
    BY <1>1 DEF JumpFrame, Handshake, Stage, Preparing, Posted, Visiting, Returning, Waking,
       Leaving, Quiet, HakaseAway
  <2>2. frame' = [frame EXCEPT ![Hakase] = f] /\ ran' = ran
        /\ \A g \in Friends : pc'[g] = pc[g]
    BY <1>1, <2>1 DEF JumpFrame, LoadFrame, Accepting, Leads
  <2>3. pc[f] = "spin" /\ ran[f] = 0 /\ frame[Hakase] = Hakase
    BY Zenon, <2>1 DEF Accepting
  <2>4. callBar' = [callBar EXCEPT ![f] = "running"]
    BY ZenonT(40), <2>2, <2>3 DEF callBar
  <2>5. Service!Begin(f)
    BY <2>2, <2>3, <2>4 DEF Service!Begin, callBar
  <2>6. QED BY <2>5 DEF Service!Next
<1>2. CASE Code(Hakase)
  <2>1. PICK f \in Friends : Visiting(f)
    BY <1>2 DEF Code, Handshake, Stage, Preparing, Posted, Accepting, Returning, Waking,
       Leaving, Quiet, HakaseAway
  <2>2. frame[Hakase] = f /\ pc[f] = "spin" /\ ran[f] = 0
    BY <1>2, <2>1 DEF Visiting, Code
  <2>3. /\ frame' = frame
        /\ ran'[f] = 1
        /\ \A g \in Friends : pc'[g] = pc[g] /\ (g # f => ran'[g] = ran[g])
    BY <1>2, <2>2 DEF Code
  <2>4. callBar' = [callBar EXCEPT ![f] = "executed"]
    <3>1. callBar'[f] = "executed"
      BY <2>2, <2>3 DEF callBar
    <3>2. ASSUME NEW g \in Friends, g # f PROVE callBar'[g] = callBar[g]
      BY <2>2, <2>3, <3>2 DEF callBar
    <3>3. /\ callBar = [g \in Friends |-> callBar[g]]
          /\ callBar' = [g \in Friends |-> callBar'[g]]
      BY DEF callBar
    <3>4. QED BY <3>1, <3>2, <3>3
  <2>5. [g \in Friends |-> ran[g]]' = [[g \in Friends |-> ran[g]] EXCEPT ![f] = @ + 1]
    <3>1. \A g \in Friends : ran'[g] = IF g = f THEN ran[g] + 1 ELSE ran[g]
      BY <2>2, <2>3
    <3>2. QED BY Zenon, <3>1
  <2>6. Service!Execute(f)
    BY <2>2, <2>4, <2>5 DEF Service!Execute, callBar
  <2>7. QED BY <2>6 DEF Service!Next
<1>3. CASE BackFrame(Hakase)
  <2>1. PICK f \in Friends : Visiting(f)
    BY Zenon, <1>3 DEF BackFrame, Handshake, Stage, Preparing, Posted, Accepting, Returning, Waking,
       Leaving, Quiet, HakaseAway
  <2>2. frame[Hakase] = f /\ ran[f] = 1 /\ hakase_ctx.frame = Hakase
    BY Zenon, <1>3, <2>1 DEF Visiting, LeadsBack, BackFrame
  <2>3. frame'[Hakase] = Hakase /\ ran' = ran /\ \A g \in Friends : pc'[g] = pc[g]
    BY Zenon, <1>3, <2>2 DEF BackFrame, LoadFrame
  <2>4. callBar' = callBar
    BY <2>2, <2>3 DEF callBar
  <2>5. QED BY <2>3, <2>4 DEF Service!vars
<1>4. CASE \/ SetFrame(Hakase) \/ SetRip(Hakase) \/ BackRip(Hakase)
           \/ CallTryReceive(Hakase) \/ Poll(Hakase) \/ Take(Hakase) \/ TryFrame(Hakase)
           \/ TryRip(Hakase) \/ JumpRip(Hakase) \/ Finish(Hakase)
  <2>1. ran' = ran /\ frame' = frame /\ \A g \in Friends : pc'[g] = pc[g]
    BY Zenon, <1>4 DEF SetFrame, SetRip, BackRip, CallTryReceive, Poll, Take, TryFrame, TryRip, JumpRip,
       Finish
  <2>2. callBar' = callBar
    BY <2>1 DEF callBar
  <2>3. QED BY Zenon, <2>1, <2>2 DEF Service!vars
<1>5. QED BY <1>1, <1>2, <1>3, <1>4, HakaseActions

\* The protocol implements the service: every OFFLOAD is one execution of its
\* block by hakase, blocks are executed one at a time, and the core continues
\* only afterwards.
THEOREM OffloadImplementsService == Spec => ServiceSpec
<1>1. Init => Service!Init
  BY OffloadAssumption DEF Init, Service!Init, callBar, CPU
<1>2. Inv /\ [Next]_vars => [Service!Next]_(Service!vars)
  <2> SUFFICES ASSUME Inv, [Next]_vars PROVE [Service!Next]_(Service!vars)
    OBVIOUS
  <2>1. CASE UNCHANGED vars
    BY <2>1 DEF vars, Service!vars, callBar
  <2>2. CASE Next
    BY <2>2, FriendRefines, HakaseRefines DEF Next, CPU
  <2>3. QED BY <2>1, <2>2
<1>3. QED BY <1>1, <1>2, InitInv, StepInv, PTL DEF Spec, ServiceSpec, Service!Spec
=============================================================================
