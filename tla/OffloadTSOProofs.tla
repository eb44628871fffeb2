-------------------------- MODULE OffloadTSOProofs --------------------------
(***************************************************************************)
(* Proofs about OffloadTSO: the steps of hakase under the invariant of     *)
(* OffloadTSOFriends, the invariant itself, the safety properties read off *)
(* it, and that it makes every step of OffloadTSO a step of                *)
(* OffloadService.                                                         *)
(***************************************************************************)
EXTENDS OffloadTSOFriends

-----------------------------------------------------------------------------
(* Steps of hakase *)

\* Hakase goes on in the hand-shake with core f.
Serves(f) ==
  /\ Stage(f)' /\ Types' /\ OwnFrames' /\ mem' = mem
  /\ \A d \in Friends : pc'[d] = pc[d] /\ buffer'[d] = buffer[d]
  /\ \A d \in Friends \ {f} : ran'[d] = ran[d]

\* A step of hakase that leaves the state of the friend cores alone.
Undisturbed ==
  /\ Types' /\ mem' = mem
  /\ \A d \in Friends : /\ pc'[d] = pc[d] /\ buffer'[d] = buffer[d] /\ ran'[d] = ran[d]
                        /\ frame'[d] = frame[d] /\ target'[d] = target[d]

\* What a store of hakase leaves alone.
LEMMA HakaseStores ==
  ASSUME Types, UNCHANGED <<frame, target, left, ran>>, NEW b, NEW s, NEW n,
         Issues(Hakase, b, s, n)
  PROVE  Undisturbed
<1>1. Types'
  BY DEF Types, Issues
<1>2. \A d \in Friends : d \in CPU \ {Hakase}
  BY TSOAssumption DEF CPU
<1> QED BY <1>1, <1>2 DEF Issues, Undisturbed

\* While hakase reads no request it stays in its main loop.
LEMMA HomeStep ==
  ASSUME Types, Home, Read(Hakase, "request") = 0, CpuStep(Hakase)
  PROVE  Undisturbed /\ Home' /\ UNCHANGED <<buffer, frame, target, ran>>
<1>1. Hakase \in CPU /\ {"app", "poll"} \subseteq PC /\ \A d \in Friends : d \in CPU \ {Hakase}
  BY TSOAssumption DEF CPU, PC
<1>2. CallTryReceive(Hakase) \/ Poll(Hakase)
  BY <1>1, StatementOf DEF Home
<1>3. /\ Local(Hakase, "app", "poll") \/ Local(Hakase, "poll", "app")
      /\ UNCHANGED <<frame, target, left, ran>>
  BY <1>2 DEF CallTryReceive, Poll, registers
<1>4. /\ pc'[Hakase] \in {"app", "poll"} /\ pc' \in [CPU -> PC] /\ mem' = mem /\ buffer' = buffer
      /\ \A d \in CPU \ {Hakase} : pc'[d] = pc[d]
  <2>1. CASE Local(Hakase, "app", "poll")
    BY <1>1, <2>1, LocalEffect
  <2>2. CASE Local(Hakase, "poll", "app")
    BY Zenon, <1>1, <2>2, LocalEffect
  <2> QED BY <1>3, <2>1, <2>2
<1>5. Types'
  BY <1>3, <1>4 DEF Types
<1> QED BY <1>1, <1>3, <1>4, <1>5 DEF Undisturbed, Home

\* Without a request in memory hakase reads none.
LEMMA DrainedReads ==
  ASSUME Types, Drained
  PROVE  Home /\ Read(Hakase, "request") = 0
<1>1. Hakase \in CPU /\ 0 \in Nat
  BY DEF CPU
<1>2. Issued(Hakase, <<>>, 0) /\ \A k \in 1..0 : <<>>[k].at # "request"
  BY <1>1, IssuedNone DEF Drained
<1>3. Read(Hakase, "request") = mem["request"]
  BY <1>1, <1>2, ReadMemory
<1> QED BY <1>3 DEF Drained

\* A core that hakase has nothing to do with.
LEMMA HakaseWaits ==
  ASSUME Types, OwnFrames, NEW f \in Friends, Preparing(f) \/ Waking(f) \/ Releasing(f),
         CpuStep(Hakase)
  PROVE  Serves(f)
<1>1. Drained
  BY DEF Preparing, Waking, Releasing, Quiet
<1>2. Undisturbed /\ Home' /\ UNCHANGED <<mem, buffer, frame, target, ran>>
  BY <1>1, DrainedReads, HomeStep DEF Undisturbed
<1>3. Drained' /\ (Quiet => Quiet') /\ OwnFrames' /\ Types' /\ pc'[f] = pc[f]
  BY Zenon, <1>1, <1>2 DEF Drained, Quiet, OwnFrames, Undisturbed
<1>4. \A s : \A n \in 0..3 : Issued(f, s, n) => Issued(f, s, n)'
  BY Zenon, <1>2 DEF Issued
<1>5. CASE Preparing(f)
  BY <1>2, <1>3, <1>4, <1>5 DEF Preparing, Stage, Serves, Undisturbed
<1>6. CASE Waking(f)
  BY <1>2, <1>3, <1>4, <1>6 DEF Waking, Stage, Serves, Undisturbed
<1>7. CASE Releasing(f)
  BY <1>2, <1>3, <1>4, <1>7 DEF Releasing, Stage, Serves, Undisturbed
<1> QED BY Zenon, <1>5, <1>6, <1>7

\* Hakase finds the request, when all that belongs to it is in memory.
LEMMA PostedServe ==
  ASSUME Types, OwnFrames, NEW f \in Friends, Posted(f), CpuStep(Hakase)
  PROVE  Serves(f)
<1>1. /\ Hakase \in CPU /\ f \in CPU \ {Hakase} /\ {"app", "poll", "take", "try_frame"} \subseteq PC
      /\ Proper(Serve(f), 1) /\ Serve(f)[1] = To("request", 0)
  BY TSOAssumption, ProperSequences DEF CPU, PC, Serve
<1>2. CASE pc[Hakase] \in {"app", "poll"}
  <2>1. Read(Hakase, "request") = mem["request"]
    <3>1. 0 \in Nat /\ Issued(Hakase, <<>>, 0) /\ \A k \in 1..0 : <<>>[k].at # "request"
      BY <1>1, IssuedNone DEF Posted
    <3> QED BY <1>1, <3>1, ReadMemory
  <2>2. CASE mem["request"] = 0 \/ pc[Hakase] = "app"
    <3>1. /\ Local(Hakase, "app", "poll") \/ Local(Hakase, "poll", "app")
          /\ UNCHANGED <<frame, target, left, ran>>
      BY Zenon, <1>1, <1>2, <2>1, <2>2, StatementOf DEF CallTryReceive, Poll, registers
    <3>2. /\ pc'[Hakase] \in {"app", "poll"} /\ pc' \in [CPU -> PC] /\ mem' = mem
          /\ buffer' = buffer /\ \A d \in CPU \ {Hakase} : pc'[d] = pc[d]
      <4>1. CASE Local(Hakase, "app", "poll")
        BY Zenon, <1>1, <4>1, LocalEffect
      <4>2. CASE Local(Hakase, "poll", "app")
        BY Zenon, <1>1, <4>2, LocalEffect
      <4> QED BY Zenon, <3>1, <4>1, <4>2
    <3>3. Types' /\ OwnFrames'
      BY <3>1, <3>2 DEF Types, OwnFrames
    <3>4. Issued(f, Post(f), 3)'
      BY Zenon, <3>2 DEF Posted, Issued
    <3>5. Posted(f)'
      BY Zenon, <1>1, <3>1, <3>2, <3>4 DEF Posted
    <3> QED BY Zenon, <3>1, <3>2, <3>3, <3>5, TSOAssumption DEF Serves, Stage, CPU
  <2>3. CASE mem["request"] # 0 /\ pc[Hakase] = "poll"
    <3>1. Local(Hakase, "poll", "take") /\ UNCHANGED <<frame, target, left, ran>>
      BY Zenon, <1>1, <2>1, <2>3, StatementOf DEF Poll, registers
    <3>2. /\ pc'[Hakase] = "take" /\ pc' \in [CPU -> PC] /\ mem' = mem
          /\ buffer' = buffer /\ \A d \in CPU \ {Hakase} : pc'[d] = pc[d]
      BY Zenon, <1>1, <3>1 DEF Local, Step, Types
    <3>3. Types' /\ OwnFrames'
      BY <3>1, <3>2 DEF Types, OwnFrames
    <3>4. Issued(f, Post(f), 3)'
      BY Zenon, <3>2 DEF Posted, Issued
    <3>5. Posted(f)'
      BY Zenon, <1>1, <2>3, <3>1, <3>2, <3>4 DEF Posted
    <3> QED BY Zenon, <3>1, <3>2, <3>3, <3>5, TSOAssumption DEF Serves, Stage, CPU
  <2> QED BY Zenon, <1>2, <2>2, <2>3
<1>3. CASE pc[Hakase] = "take"
  <2>1. /\ Store(Hakase, "take", "try_frame", "request", 0)
        /\ UNCHANGED <<frame, target, left, ran>> /\ Issued(Hakase, Serve(f), 0)
    BY Zenon, <1>1, <1>3, StatementOf, IssuedNone DEF Take, registers, Posted
  <2>2. Issues(Hakase, "try_frame", Serve(f), 1)
    <3>1. 0 \in Nat /\ 1 \in Nat /\ 1 = 0 + 1
      OBVIOUS
    <3> QED BY Zenon, <1>1, <2>1, <3>1, StoreEffect
  <2>3. Undisturbed
    BY Zenon, <2>1, <2>2, HakaseStores
  <2>4. mem["friend_frame"] = f /\ mem["friend_rip"] = "wait_ret" /\ buffer[f] = <<>>
    <3>1. \A k \in 1..3 : mem[Post(f)[k].at] = Post(f)[k].value
      BY <1>1, <1>3, IssuedAll DEF Posted
    <3>2. Post(f)[1] = To("friend_frame", f) /\ Post(f)[2] = To("friend_rip", "wait_ret")
      BY Zenon DEF Post
    <3> QED BY <1>3, <3>1, <3>2 DEF Posted, To
  <2>5. Serving(f)'
    BY Zenon, <1>3, <2>1, <2>2, <2>3, <2>4 DEF Posted, Serving, ServePC, Issues, Undisturbed
  <2>6. OwnFrames'
    BY Zenon, <2>1 DEF OwnFrames
  <2> QED BY Zenon, <2>3, <2>5, <2>6 DEF Serves, Stage, Undisturbed
<1> QED BY Zenon, <1>2, <1>3 DEF Posted

\* Having served, hakase does not find the request again.
LEMMA ServedHome ==
  ASSUME Types, OwnFrames, NEW f \in Friends, Served(f), CpuStep(Hakase)
  PROVE  Serves(f)
<1>1. /\ Hakase \in CPU /\ f \in CPU /\ 7 \in Nat /\ 1 \in 1..7 /\ Proper(Serve(f), 7)
      /\ Serve(f)[1].at = "request" /\ Serve(f)[1].value = 0
  BY ProperSequences DEF CPU, Serve, To
<1>2. Read(Hakase, "request") = 0
  <2>1. Read(Hakase, Serve(f)[1].at) = Serve(f)[1].value
    BY Zenon, <1>1, ReadIssued DEF Served
  <2> QED BY <1>1, <2>1
<1>3. Undisturbed /\ Home' /\ UNCHANGED <<mem, buffer, frame, target, ran>>
  BY <1>2, HomeStep DEF Served, Undisturbed
<1>4. Issued(Hakase, Serve(f), 7)'
  BY Zenon, <1>3 DEF Served, Issued
<1>5. Served(f)'
  BY Zenon, <1>3, <1>4 DEF Served, Undisturbed
<1>6. OwnFrames'
  BY Zenon, <1>3 DEF OwnFrames
<1> QED BY Zenon, <1>3, <1>5, <1>6 DEF Serves, Stage, Undisturbed

\* Hakase saves its own context, enters the one of the core, executes the block
\* there, saves the context again and returns to its own.
LEMMA ServingStep ==
  ASSUME Types, OwnFrames, NEW f \in Friends, Serving(f), CpuStep(Hakase)
  PROVE  Serves(f)
<1>1. /\ Hakase \in CPU /\ f \in CPU \ {Hakase} /\ f # Hakase
      /\ \A d \in Friends : d \in CPU \ {Hakase} /\ frame[d] = d
  BY Zenon, TSOAssumption DEF CPU, OwnFrames
<1>2. /\ ServePC \subseteq PC /\ {"app", "poll"} \subseteq PC
      /\ \A n \in 0..7 : Proper(Serve(f), n)
  BY Zenon, ProperSequences DEF PC, ServePC, CodePC
<1>3. /\ Serve(f)[1] = To("request", 0) /\ Serve(f)[2] = To("hakase_frame", Hakase)
      /\ Serve(f)[3] = To("hakase_rip", "try_ret") /\ Serve(f)[4] = To(f, 1)
      /\ Serve(f)[5] = To("friend_frame", f) /\ Serve(f)[6] = To("friend_rip", "set_ret")
      /\ Serve(f)[7] = To("resume", 1)
  BY Zenon DEF Serve
<1>4. CASE pc[Hakase] = "try_frame"
  <2>1. /\ Store(Hakase, "try_frame", "try_rip", "hakase_frame", Hakase)
        /\ UNCHANGED <<frame, target, left, ran>> /\ Issued(Hakase, Serve(f), 1)
    BY Zenon, <1>1, <1>4, StatementOf DEF TryFrame, registers, Serving, Resumed
  <2>2. Issues(Hakase, "try_rip", Serve(f), 2)
    <3>1. 1 \in Nat /\ 2 \in Nat /\ 2 = 1 + 1
      OBVIOUS
    <3>2. Hakase \in CPU /\ "try_rip" \in PC /\ Proper(Serve(f), 2) /\ Serve(f)[2] = To("hakase_frame", Hakase)
      BY <1>1, <1>2, <1>3 DEF ServePC
    <3> QED BY Zenon, <2>1, <3>1, <3>2, StoreEffect
  <2>3. Undisturbed /\ OwnFrames'
    BY Zenon, <2>1, <2>2, HakaseStores DEF OwnFrames
  <2>4. Serving(f)'
    BY Zenon, <1>1, <1>4, <2>1, <2>2, <2>3 DEF Serving, ServePC, Issues, Undisturbed
  <2> QED BY Zenon, <2>2, <2>3, <2>4 DEF Serves, Stage, Issues, Undisturbed
<1>5. CASE pc[Hakase] = "try_rip"
  <2>1. /\ Store(Hakase, "try_rip", "jump_frame", "hakase_rip", "try_ret")
        /\ UNCHANGED <<frame, target, left, ran>> /\ Issued(Hakase, Serve(f), 2)
    BY Zenon, <1>1, <1>5, StatementOf DEF TryRip, registers, Serving, Resumed
  <2>2. Issues(Hakase, "jump_frame", Serve(f), 3)
    <3>1. 2 \in Nat /\ 3 \in Nat /\ 3 = 2 + 1
      OBVIOUS
    <3>2. Hakase \in CPU /\ "jump_frame" \in PC /\ Proper(Serve(f), 3) /\ Serve(f)[3] = To("hakase_rip", "try_ret")
      BY <1>1, <1>2, <1>3 DEF ServePC
    <3> QED BY Zenon, <2>1, <3>1, <3>2, StoreEffect
  <2>3. Undisturbed /\ OwnFrames'
    BY Zenon, <2>1, <2>2, HakaseStores DEF OwnFrames
  <2>4. Serving(f)'
    BY Zenon, <1>1, <1>5, <2>1, <2>2, <2>3 DEF Serving, ServePC, Issues, Undisturbed
  <2> QED BY Zenon, <2>2, <2>3, <2>4 DEF Serves, Stage, Issues, Undisturbed
<1>6. CASE pc[Hakase] \in {"jump_frame", "jump_rip"}
  <2>1. Read(Hakase, "friend_frame") = f /\ Read(Hakase, "friend_rip") = "wait_ret"
    <3>1. 3 \in Nat /\ Issued(Hakase, Serve(f), 3) /\ \A k \in 1..3 : Serve(f)[k].at \in Words
      BY <1>3, <1>6 DEF Serving, To, Words
    <3>2. \A k \in 1..3 : Serve(f)[k].at # "friend_frame" /\ Serve(f)[k].at # "friend_rip"
      BY <1>3 DEF To
    <3>3. /\ Read(Hakase, "friend_frame") = mem["friend_frame"]
          /\ Read(Hakase, "friend_rip") = mem["friend_rip"]
      BY <1>1, <3>1, <3>2, ReadMemory
    <3> QED BY Zenon, <1>6, <3>3 DEF Serving
  <2>2. CASE pc[Hakase] = "jump_frame"
    <3>1. /\ Local(Hakase, "jump_frame", "jump_rip") /\ UNCHANGED <<target, left, ran>>
          /\ frame' = [frame EXCEPT ![Hakase] = f]
      BY Zenon, <1>1, <2>1, <2>2, StatementOf DEF JumpFrame, LoadFrame
    <3>2. /\ pc'[Hakase] = "jump_rip" /\ pc' \in [CPU -> PC] /\ mem' = mem /\ buffer' = buffer
          /\ \A d \in CPU \ {Hakase} : pc'[d] = pc[d]
      BY Zenon, <1>1, <1>2, <3>1, LocalEffect DEF ServePC
    <3>3. /\ frame' \in [CPU -> CPU] /\ frame'[Hakase] = f
          /\ \A d \in CPU \ {Hakase} : frame'[d] = frame[d]
      BY Zenon, <1>1, <3>1 DEF Types
    <3>4. Undisturbed /\ OwnFrames'
      BY Zenon, <1>1, <3>1, <3>2, <3>3 DEF Types, Undisturbed, OwnFrames
    <3>5. Issued(Hakase, Serve(f), 3)'
      BY Zenon, <2>2, <3>2 DEF Serving, Issued
    <3>6. Serving(f)'
      BY Zenon, <1>1, <2>2, <3>1, <3>2, <3>3, <3>5 DEF Serving, ServePC
    <3> QED BY <3>4, <3>6 DEF Serves, Stage, Undisturbed
  <2>3. CASE pc[Hakase] = "jump_rip"
    <3>1. /\ Local(Hakase, "jump_rip", Resumed("wait_ret", 1))
          /\ UNCHANGED <<frame, target, left, ran>>
      BY Zenon, <1>1, <2>1, <2>3, StatementOf DEF JumpRip, registers
    <3>2. /\ pc'[Hakase] = "code" /\ pc' \in [CPU -> PC] /\ mem' = mem /\ buffer' = buffer
          /\ \A d \in CPU \ {Hakase} : pc'[d] = pc[d]
      BY <1>1, <1>2, <3>1, LocalEffect DEF ServePC, Resumed
    <3>3. Undisturbed /\ OwnFrames'
      BY Zenon, <1>1, <3>1, <3>2 DEF Types, Undisturbed, OwnFrames
    <3>4. Issued(Hakase, Serve(f), 3)'
      BY ZenonT(40), <2>3, <3>2 DEF Serving, Issued
    <3>5. Serving(f)'
      BY Zenon, <1>1, <2>3, <3>1, <3>2, <3>4 DEF Serving, ServePC
    <3> QED BY <3>3, <3>5 DEF Serves, Stage, Undisturbed
  <2> QED BY Zenon, <1>6, <2>2, <2>3
<1>7. CASE pc[Hakase] = "code"
  <2>1. /\ Store(Hakase, "code", "set_frame", f, 1) /\ frame[Hakase] = f
        /\ ran' = [ran EXCEPT ![f] = @ + 1] /\ UNCHANGED <<frame, target, left>>
        /\ Issued(Hakase, Serve(f), 3) /\ ran[f] = 0
    BY Zenon, <1>1, <1>7, StatementOf DEF Code, Serving
  <2>2. Issues(Hakase, "set_frame", Serve(f), 4)
    <3>1. 3 \in Nat /\ 4 \in Nat /\ 4 = 3 + 1
      OBVIOUS
    <3>2. "set_frame" \in PC /\ Proper(Serve(f), 4) /\ Serve(f)[4] = To(f, 1)
      BY <1>2, <1>3 DEF ServePC
    <3> QED BY <1>1, <2>1, <3>1, <3>2, StoreEffect
  <2>3. ran' \in [CPU -> Nat] /\ ran'[f] = 1 /\ \A d \in CPU \ {f} : ran'[d] = ran[d]
    BY <1>1, <2>1 DEF Types
  <2>4. Types' /\ OwnFrames'
    BY Zenon, <2>1, <2>2, <2>3 DEF Types, OwnFrames, Issues
  <2>5. Serving(f)'
    BY Zenon, <1>1, <1>7, <2>1, <2>2, <2>3 DEF Serving, ServePC, Issues
  <2> QED BY Zenon, <1>1, <2>2, <2>3, <2>4, <2>5 DEF Serves, Stage, Issues
<1>8. CASE pc[Hakase] \in {"back_frame", "back_rip"}
  <2>1. Read(Hakase, "hakase_frame") = Hakase /\ Read(Hakase, "hakase_rip") = "try_ret"
    <3>1. /\ 6 \in Nat /\ Issued(Hakase, Serve(f), 6) /\ Proper(Serve(f), 6)
          /\ 2 \in 1..6 /\ 3 \in 1..6
      BY <1>2, <1>8 DEF Serving
    <3>2. /\ Read(Hakase, Serve(f)[2].at) = Serve(f)[2].value
          /\ Read(Hakase, Serve(f)[3].at) = Serve(f)[3].value
      BY <1>1, <3>1, ReadIssued
    <3> QED BY <1>3, <3>2 DEF To
  <2>2. CASE pc[Hakase] = "back_frame"
    <3>1. /\ Local(Hakase, "back_frame", "back_rip") /\ UNCHANGED <<target, left, ran>>
          /\ frame' = [frame EXCEPT ![Hakase] = Hakase]
      BY Zenon, <1>1, <2>1, <2>2, StatementOf DEF BackFrame, LoadFrame
    <3>2. /\ pc'[Hakase] = "back_rip" /\ pc' \in [CPU -> PC] /\ mem' = mem /\ buffer' = buffer
          /\ \A d \in CPU \ {Hakase} : pc'[d] = pc[d]
      BY Zenon, <1>1, <1>2, <3>1, LocalEffect DEF ServePC
    <3>3. /\ frame' \in [CPU -> CPU] /\ frame'[Hakase] = Hakase
          /\ \A d \in CPU \ {Hakase} : frame'[d] = frame[d]
      BY Zenon, <1>1, <3>1 DEF Types
    <3>4. Undisturbed /\ OwnFrames'
      BY Zenon, <1>1, <3>1, <3>2, <3>3 DEF Types, Undisturbed, OwnFrames
    <3>5. Issued(Hakase, Serve(f), 6)'
      BY Zenon, <2>2, <3>2 DEF Serving, Issued
    <3>6. Serving(f)'
      BY Zenon, <1>1, <2>2, <3>1, <3>2, <3>3, <3>5 DEF Serving, ServePC
    <3> QED BY <3>4, <3>6 DEF Serves, Stage, Undisturbed
  <2>3. CASE pc[Hakase] = "back_rip"
    <3>1. /\ Local(Hakase, "back_rip", Resumed("try_ret", 1))
          /\ UNCHANGED <<frame, target, left, ran>>
      BY Zenon, <1>1, <2>1, <2>3, StatementOf DEF BackRip, registers
    <3>2. /\ pc'[Hakase] = "finish" /\ pc' \in [CPU -> PC] /\ mem' = mem /\ buffer' = buffer
          /\ \A d \in CPU \ {Hakase} : pc'[d] = pc[d]
      BY <1>1, <1>2, <3>1, LocalEffect DEF ServePC, Resumed
    <3>3. Undisturbed /\ OwnFrames'
      BY Zenon, <1>1, <3>1, <3>2 DEF Types, Undisturbed, OwnFrames
    <3>4. Issued(Hakase, Serve(f), 6)'
      BY Zenon, <2>3, <3>2 DEF Serving, Issued
    <3>5. Serving(f)'
      BY Zenon, <1>1, <2>3, <3>1, <3>2, <3>4 DEF Serving, ServePC
    <3> QED BY <3>3, <3>5 DEF Serves, Stage, Undisturbed
  <2> QED BY Zenon, <1>8, <2>2, <2>3
<1>9. CASE pc[Hakase] = "set_frame"
  <2>1. /\ Store(Hakase, "set_frame", "set_rip", "friend_frame", f)
        /\ UNCHANGED <<frame, target, left, ran>> /\ Issued(Hakase, Serve(f), 4)
    BY Zenon, <1>1, <1>9, StatementOf DEF SetFrame, registers, Serving, Resumed
  <2>2. Issues(Hakase, "set_rip", Serve(f), 5)
    <3>1. 4 \in Nat /\ 5 \in Nat /\ 5 = 4 + 1
      OBVIOUS
    <3>2. Hakase \in CPU /\ "set_rip" \in PC /\ Proper(Serve(f), 5) /\ Serve(f)[5] = To("friend_frame", f)
      BY <1>1, <1>2, <1>3 DEF ServePC
    <3> QED BY Zenon, <2>1, <3>1, <3>2, StoreEffect
  <2>3. Undisturbed /\ OwnFrames'
    BY Zenon, <2>1, <2>2, HakaseStores DEF OwnFrames
  <2>4. Serving(f)'
    BY Zenon, <1>1, <1>9, <2>1, <2>2, <2>3 DEF Serving, ServePC, Issues, Undisturbed
  <2> QED BY Zenon, <2>2, <2>3, <2>4 DEF Serves, Stage, Issues, Undisturbed
<1>10. CASE pc[Hakase] = "set_rip"
  <2>1. /\ Store(Hakase, "set_rip", "back_frame", "friend_rip", "set_ret")
        /\ UNCHANGED <<frame, target, left, ran>> /\ Issued(Hakase, Serve(f), 5)
    BY Zenon, <1>1, <1>10, StatementOf DEF SetRip, registers, Serving, Resumed
  <2>2. Issues(Hakase, "back_frame", Serve(f), 6)
    <3>1. 5 \in Nat /\ 6 \in Nat /\ 6 = 5 + 1
      OBVIOUS
    <3>2. Hakase \in CPU /\ "back_frame" \in PC /\ Proper(Serve(f), 6) /\ Serve(f)[6] = To("friend_rip", "set_ret")
      BY <1>1, <1>2, <1>3 DEF ServePC
    <3> QED BY Zenon, <2>1, <3>1, <3>2, StoreEffect
  <2>3. Undisturbed /\ OwnFrames'
    BY Zenon, <2>1, <2>2, HakaseStores DEF OwnFrames
  <2>4. Serving(f)'
    BY Zenon, <1>1, <1>10, <2>1, <2>2, <2>3 DEF Serving, ServePC, Issues, Undisturbed
  <2> QED BY Zenon, <2>2, <2>3, <2>4 DEF Serves, Stage, Issues, Undisturbed
<1>11. CASE pc[Hakase] = "finish"
  <2>1. /\ Store(Hakase, "finish", "poll", "resume", 1)
        /\ UNCHANGED <<frame, target, left, ran>> /\ Issued(Hakase, Serve(f), 6)
    BY Zenon, <1>1, <1>11, StatementOf DEF Finish, registers, Serving
  <2>2. Issues(Hakase, "poll", Serve(f), 7)
    <3>1. 6 \in Nat /\ 7 \in Nat /\ 7 = 6 + 1
      OBVIOUS
    <3>2. "poll" \in PC /\ Proper(Serve(f), 7) /\ Serve(f)[7] = To("resume", 1)
      BY <1>2, <1>3
    <3> QED BY <1>1, <2>1, <3>1, <3>2, StoreEffect
  <2>3. Undisturbed /\ OwnFrames'
    BY Zenon, <2>1, <2>2, HakaseStores DEF OwnFrames
  <2>4. Served(f)'
    BY <1>1, <1>11, <2>1, <2>2, <2>3 DEF Serving, Served, Home, Issues, Undisturbed
  <2> QED BY Zenon, <2>2, <2>3, <2>4 DEF Serves, Stage, Issues, Undisturbed
<1> QED BY Zenon, <1>4, <1>5, <1>6, <1>7, <1>8, <1>9, <1>10, <1>11 DEF Serving, ServePC

\* The stores of hakase get to memory in their order, resume last.
LEMMA ServeFlush ==
  ASSUME Types, NEW f \in Friends, Serving(f) \/ Served(f), Flush(Hakase)
  PROVE  Stage(f)' /\ \E l \in (Words \ {"lock"}) \cup {f} : Lets(Hakase, l)
<1>1. /\ Hakase \in CPU /\ f \in CPU \ {Hakase}
      /\ {"friend_frame", "friend_rip", "resume"} \subseteq Locations
      /\ \A n \in 0..7 : Proper(Serve(f), n)
  BY Zenon, TSOAssumption, ProperSequences DEF CPU, Locations, Words
<1>2. /\ \A k \in 1..7 : Serve(f)[k].at \in (Words \ {"lock"}) \cup {f}
      /\ \A k \in 1..6 : Serve(f)[k].at # "resume"
      /\ \A k \in 1..3 : Serve(f)[k].at \notin {"friend_frame", "friend_rip"}
      /\ Serve(f)[7] = To("resume", 1)
  <2>1. f \notin Words
    BY Zenon, TSOAssumption DEF CPU
  <2> QED BY <2>1 DEF Serve, To, Words
<1>3. PICK n \in 1..7 :
        /\ Issued(Hakase, Serve(f), n)
        /\ Served(f) <=> n = 7
        /\ pc[Hakase] \in {"try_frame", "try_rip", "jump_frame", "jump_rip", "code"} => n <= 3
        /\ pc[Hakase] = "try_frame" => n = 1
        /\ pc[Hakase] = "try_rip" => n = 2
        /\ pc[Hakase] \in {"jump_frame", "jump_rip", "code"} => n = 3
        /\ pc[Hakase] = "set_frame" => n = 4
        /\ pc[Hakase] = "set_rip" => n = 5
        /\ pc[Hakase] \in {"back_frame", "back_rip", "finish"} => n = 6
  <2>1. CASE Served(f)
    BY <2>1 DEF Served, Home
  <2>2. CASE Serving(f)
    <3>1. ~Served(f) /\ pc[Hakase] \in ServePC
      BY Zenon, <2>2 DEF Serving, Served, Home, ServePC
    <3>2. CASE pc[Hakase] = "try_frame"
      BY <2>2, <3>1, <3>2 DEF Serving
    <3>3. CASE pc[Hakase] = "try_rip"
      BY <2>2, <3>1, <3>3 DEF Serving
    <3>4. CASE pc[Hakase] \in {"jump_frame", "jump_rip", "code"}
      BY <2>2, <3>1, <3>4 DEF Serving
    <3>5. CASE pc[Hakase] = "set_frame"
      BY <2>2, <3>1, <3>5 DEF Serving
    <3>6. CASE pc[Hakase] = "set_rip"
      BY <2>2, <3>1, <3>6 DEF Serving
    <3>7. CASE pc[Hakase] \in {"back_frame", "back_rip", "finish"}
      BY <2>2, <3>1, <3>7 DEF Serving
    <3> QED BY Zenon, <3>1, <3>2, <3>3, <3>4, <3>5, <3>6, <3>7 DEF ServePC
  <2> QED BY Zenon, <2>1, <2>2
<1>4. PICK k \in 1..n : Lands(Hakase, Serve(f), n, k)
  <2>1. n \in Nat /\ Proper(Serve(f), n)
    BY <1>1
  <2> QED BY Zenon, <1>1, <1>3, <2>1, FlushIssued
<1> DEFINE l == Serve(f)[k].at
           v == Serve(f)[k].value
<1>5. /\ l \in (Words \ {"lock"}) \cup {f} /\ l \in Locations
      /\ k # 7 => l # "resume"
      /\ k <= 3 => l \notin {"friend_frame", "friend_rip"}
      /\ k = 7 => l = "resume" /\ v = 1
  BY <1>1, <1>2, <1>4 DEF To, Locations
<1>6. /\ Types' /\ UNCHANGED <<pc, frame, target, left, ran>>
      /\ \A d \in CPU \ {Hakase} : Apart(d)
      /\ \A m \in Locations \ {l} : mem'[m] = mem[m]
      /\ mem'[l] = v
      /\ Issued(Hakase, Serve(f), n)'
  <2>1. n \in Nat
    OBVIOUS
  <2>2. Writes(Hakase, Serve(f)[k].at, Serve(f)[k].value) /\ Issued(Hakase, Serve(f), n)'
    BY Zenon, <1>1, <1>4, <2>1, FlushKeeps
  <2> QED BY <1>5, <2>2 DEF Writes
<1> HIDE DEF l, v
<1>7. Lets(Hakase, l) /\ buffer'[f] = buffer[f]
  BY Zenon, <1>1, <1>6 DEF Lets, Apart
<1>8. k # 7 => mem'["resume"] = mem["resume"]
  BY Zenon, <1>1, <1>5, <1>6
<1>9. CASE Serving(f) /\ ~Served(f)
  <2>1. n # 7 /\ k # 7
    BY <1>3, <1>9
  <2>2. pc[Hakase] \in {"try_frame", "try_rip", "jump_frame", "jump_rip", "code"} =>
          mem'["friend_frame"] = mem["friend_frame"] /\ mem'["friend_rip"] = mem["friend_rip"]
    BY <1>1, <1>3, <1>4, <1>5, <1>6
  <2>3. Serving(f)'
    BY ZenonT(40), <1>3, <1>6, <1>7, <1>8, <1>9, <2>1, <2>2 DEF Serving
  <2> QED BY Zenon, <1>5, <1>7, <2>3 DEF Stage
<1>10. CASE Served(f)
  <2>1. n = 7 /\ buffer[Hakase] # <<>> /\ mem["resume"] = 0
    BY Zenon, <1>3, <1>10 DEF Served, Flush
  <2>2. k = 7 => mem'["resume"] = 1 /\ buffer'[Hakase] = <<>>
    <3>1. buffer'[Hakase] \in Seq(Entry)
      BY Zenon, <1>1, <1>6 DEF Types
    <3>2. k = 7 => Len(buffer'[Hakase]) = 0
      BY <1>4, <2>1, <3>1 DEF Lands
    <3> QED BY <1>5, <1>6, <3>1, <3>2
  <2>3. Served(f)'
    BY Zenon, <1>6, <1>7, <1>8, <1>10, <2>1, <2>2 DEF Served, Home
  <2> QED BY Zenon, <1>5, <1>7, <2>3 DEF Stage
<1> QED BY Zenon, <1>9, <1>10

\* In the other stages there is nothing in hakase's buffer.
LEMMA HakaseFlushes ==
  ASSUME NEW f \in Friends, Stage(f), Flush(Hakase)
  PROVE  Serving(f) \/ Served(f)
BY Zenon DEF Stage, Preparing, Posted, Waking, Releasing, Quiet, Drained, Flush

-----------------------------------------------------------------------------
(* The invariant is inductive *)

\* Initially the lock is free, and nobody has stored anything.
LEMMA InitInv == Init => Inv
<1> SUFFICES ASSUME Init PROVE Inv
  OBVIOUS
<1>1. /\ Hakase \in CPU /\ Hakase \notin Friends /\ Friends \subseteq CPU
      /\ {"app", "main"} \subseteq PC /\ {0, NoFrame} \subseteq Value
      /\ {"lock", "request", "resume"} \subseteq Locations
  BY Zenon, TSOAssumption DEF CPU, PC, Value, Locations, Words
<1>2. /\ mem \in [Locations -> Value] /\ mem["lock"] = 0 /\ mem["request"] = 0
      /\ mem["resume"] = 0
  BY <1>1 DEF Init
<1>3. buffer \in [CPU -> Seq(Entry)] /\ \A c \in CPU : buffer[c] = <<>>
  BY DEF Init
<1>4. pc \in [CPU -> PC] /\ pc[Hakase] = "app" /\ \A f \in Friends : pc[f] = "main"
  BY Zenon, <1>1 DEF Init
<1>5. /\ frame \in [CPU -> CPU] /\ \A c \in CPU : frame[c] = c
      /\ target \in [CPU -> Value] /\ left \in [CPU -> Nat] /\ ran \in [CPU -> Nat]
  BY Zenon, <1>1, TSOAssumption DEF Init
<1>6. Types
  BY Zenon, <1>2, <1>3, <1>4, <1>5 DEF Types
<1>7. \A f \in Friends : Idle(f)
  BY Zenon, <1>1, <1>3, <1>4, <1>6, IssuedNone DEF Idle, EntryPC
<1> QED BY Zenon, <1>1, <1>2, <1>3, <1>4, <1>5, <1>6, <1>7
       DEF Inv, OwnFrames, Free, Quiet, Drained, Home

\* Every step of a core or of its buffer preserves the invariant.
LEMMA FriendInv ==
  ASSUME Inv, NEW f \in Friends, CpuStep(f) \/ Flush(f)
  PROVE  Inv'
<1>1. /\ Types /\ OwnFrames /\ f \in CPU /\ Hakase \in CPU \ {f}
      /\ \A g \in Friends : g \in CPU /\ g \in Locations \ Words
      /\ Words \subseteq Locations /\ {"lock", "request", "resume"} \subseteq Words \ {f}
  BY Zenon, TSOAssumption DEF Inv, CPU, Locations, Words
<1>2. CASE Idle(f) /\ ~(CpuStep(f) /\ pc[f] = "cas" /\ mem["lock"] = 0)
  <2>1. /\ Idle(f)' /\ Types' /\ frame' = frame
        /\ \A l \in Locations \ {f} : mem'[l] = mem[l]
        /\ \A d \in CPU \ {f} : Apart(d)
    BY Zenon, <1>1, <1>2, IdleStep, IdleFlush
  <2>2. OwnFrames'
    BY Zenon, <1>1, <2>1 DEF OwnFrames
  <2>3. \A g \in Friends : Idle(g) => Idle(g)'
    BY Zenon, <1>1, <2>1, IdleKept DEF Apart
  <2>4. CASE Free
    BY Zenon, <1>1, <2>1, <2>2, <2>3, <2>4 DEF Inv, Free, Quiet, Drained, Home, Apart
  <2>5. ASSUME NEW h \in Friends, Held(h), h # f PROVE Inv'
    <3>1. \A l \in Words \cup {h} : mem'[l] = mem[l]
      BY Zenon, <1>1, <2>1, <2>5
    <3>2. Stage(h)'
      BY Zenon, <1>1, <2>1, <2>5, <3>1, StageKept DEF Held, Apart
    <3>3. Held(h)'
      BY Zenon, <1>1, <2>3, <2>5, <3>1, <3>2 DEF Held
    <3> QED BY Zenon, <2>1, <2>2, <3>3 DEF Inv
  <2>6. ASSUME Held(f) PROVE Inv'
    <3>1. Releasing(f)
      BY Zenon, <1>2, <2>6 DEF Held, Stage, Idle, EntryPC, Preparing, Posted, Serving, Served, Waking
    <3>2. Len(buffer[f]) \in Nat
      BY <1>1 DEF Types
    <3>3. pc[f] = "main" => Len(buffer[f]) <= 0 /\ Len(buffer[f]) >= 1
      <4>1. pc[f] = "main" => Issued(f, Enter(f), 0) /\ Len(buffer[f]) >= 1
        BY Zenon, <1>2, <3>1 DEF Releasing, Idle
      <4> QED BY <4>1 DEF Issued
    <3>4. pc[f] # "main" => Len(buffer[f]) <= 1 /\ Len(buffer[f]) >= 2
      BY Zenon, <1>2, <3>1 DEF Releasing, Idle, Issued
    <3> QED BY <3>2, <3>3, <3>4
  <2> QED BY Zenon, <2>4, <2>5, <2>6 DEF Inv
<1>3. CASE Idle(f) /\ CpuStep(f) /\ pc[f] = "cas" /\ mem["lock"] = 0
  <2>1. Free
    BY <1>3 DEF Inv, Held
  <2> QED BY Zenon, <1>1, <1>3, <2>1, Acquires DEF Inv
<1>4. CASE ~Idle(f)
  <2>1. Held(f)
    BY Zenon, <1>4 DEF Inv, Free, Held
  <2>2. ASSUME NEW l \in Words, Lets(f, l) PROVE /\ Types' /\ OwnFrames'
                                                /\ \A g \in Friends \ {f} : Idle(g)'
    <3>1. \A g \in Friends \ {f} : mem'[g] = mem[g]
      BY Zenon, <1>1, <2>2 DEF Lets
    <3>2. \A g \in Friends \ {f} : Idle(g)'
      BY Zenon, <1>1, <2>1, <2>2, <3>1, IdleKept DEF Held, Lets, Apart
    <3> QED BY Zenon, <1>1, <2>2, <3>2 DEF Lets, OwnFrames
  <2>3. CASE Proceeds(f)
    <3>1. \A g \in Friends \ {f} : Idle(g)'
      BY Zenon, <1>1, <2>1, <2>3, IdleKept DEF Held, Proceeds, Apart
    <3>2. OwnFrames' /\ Held(f)'
      BY Zenon, <1>1, <2>1, <2>3, <3>1 DEF Held, Proceeds, OwnFrames
    <3> QED BY Zenon, <2>3, <3>2 DEF Inv, Proceeds
  <2>4. ASSUME NEW l \in Words \ {"lock"}, Stage(f)', Lets(f, l) PROVE Inv'
    <3>1. mem'["lock"] = 1
      BY Zenon, <1>1, <2>1, <2>4 DEF Lets, Held
    <3>2. Held(f)' /\ Types' /\ OwnFrames'
      BY Zenon, <2>2, <2>4, <3>1 DEF Held
    <3> QED BY Zenon, <3>2 DEF Inv
  <2>5. CASE Idle(f)' /\ Quiet' /\ mem'["lock"] = 0 /\ Lets(f, "lock")
    <3>1. Free' /\ Types' /\ OwnFrames'
      BY Zenon, <1>1, <2>2, <2>5 DEF Free
    <3> QED BY Zenon, <3>1 DEF Inv
  <2>6. CASE CpuStep(f)
    BY Zenon, <1>1, <2>1, <2>3, <2>6, PreparingStep, SpinWaits, ServedStep, WakingStep, ReleasingStep
       DEF Held, Stage
  <2>7. CASE Flush(f)
    <3>1. CASE Preparing(f) \/ Posted(f)
      <4>1. {"friend_frame", "friend_rip", "request"} \subseteq Words \ {"lock"}
        BY Zenon DEF Words
      <4> QED BY Zenon, <1>1, <2>4, <2>7, <3>1, <4>1, PostFlush
    <3>2. CASE Waking(f) \/ Releasing(f)
      <4>1. "resume" \in Words \ {"lock"}
        BY DEF Words
      <4> QED BY Zenon, <1>1, <2>4, <2>5, <2>7, <3>2, <4>1, WakingFlush, ReleasingFlush
    <3> QED BY Zenon, <2>1, <2>7, <3>1, <3>2, NothingToFlush DEF Held, Stage
  <2> QED BY Zenon, <2>6, <2>7
<1> QED BY Zenon, <1>2, <1>3, <1>4

\* Every step of hakase or of its buffer preserves the invariant.
LEMMA HakaseInv ==
  ASSUME Inv, CpuStep(Hakase) \/ Flush(Hakase)
  PROVE  Inv'
<1>1. /\ Types /\ OwnFrames /\ Hakase \in CPU /\ Hakase \notin Friends
      /\ \A g \in Friends : g \in CPU \ {Hakase} /\ g \in Locations \ Words
      /\ "lock" \in Locations /\ "lock" \in Words
  BY TSOAssumption DEF Inv, CPU, Locations, Words
<1>2. CASE Free
  <2>1. Drained /\ ~Flush(Hakase)
    BY Zenon, <1>2 DEF Free, Quiet, Drained, Flush
  <2>2. Undisturbed /\ Home' /\ UNCHANGED <<mem, buffer, frame, target, ran>>
    BY Zenon, <1>1, <2>1, DrainedReads, HomeStep DEF Undisturbed
  <2>3. \A g \in Friends : Idle(g)'
    BY Zenon, <1>1, <1>2, <2>2, IdleKept DEF Free, Undisturbed
  <2>4. Free' /\ OwnFrames' /\ Types'
    BY Zenon, <1>1, <1>2, <2>2, <2>3 DEF Free, Quiet, Drained, Undisturbed, OwnFrames
  <2> QED BY Zenon, <2>4 DEF Inv
<1>3. ASSUME NEW f \in Friends, Held(f) PROVE Inv'
  <2>1. CASE CpuStep(Hakase)
    <3>1. Serves(f)
      BY Zenon, <1>1, <1>3, <2>1, HakaseWaits, PostedServe, ServingStep, ServedHome DEF Held, Stage
    <3>2. \A g \in Friends \ {f} : Idle(g)'
      BY Zenon, <1>1, <1>3, <3>1, IdleKept DEF Held, Serves
    <3>3. Held(f)' /\ Types' /\ OwnFrames'
      BY Zenon, <1>3, <3>1, <3>2 DEF Held, Serves
    <3> QED BY Zenon, <3>3 DEF Inv
  <2>2. CASE Flush(Hakase)
    <3>1. Stage(f)' /\ \E l \in (Words \ {"lock"}) \cup {f} : Lets(Hakase, l)
      BY Zenon, <1>1, <1>3, <2>2, HakaseFlushes, ServeFlush DEF Held
    <3>2. PICK l \in (Words \ {"lock"}) \cup {f} : Lets(Hakase, l)
      BY Zenon, <3>1
    <3>3. mem'["lock"] = 1 /\ \A g \in Friends \ {f} : mem'[g] = mem[g]
      BY Zenon, <1>1, <1>3, <3>2 DEF Lets, Held
    <3>4. \A g \in Friends \ {f} : Idle(g)'
      BY Zenon, <1>1, <1>3, <3>2, <3>3, IdleKept DEF Held, Lets, Apart
    <3>5. Held(f)' /\ Types' /\ OwnFrames'
      BY Zenon, <1>1, <3>1, <3>2, <3>3, <3>4 DEF Held, Lets, OwnFrames
    <3> QED BY Zenon, <3>5 DEF Inv
  <2> QED BY Zenon, <2>1, <2>2
<1> QED BY Zenon, <1>2, <1>3 DEF Inv

\* Nothing changes when nothing changes.
LEMMA StutterInv ==
  ASSUME Inv, UNCHANGED vars
  PROVE  Inv'
<1>1. UNCHANGED <<mem, buffer, pc, frame, target, left, ran>>
  BY Zenon DEF vars
<1>2. Types' /\ OwnFrames'
  BY Zenon, <1>1 DEF Inv, Types, OwnFrames
<1>3. \A g \in Friends : Idle(g) => Idle(g)'
  BY Zenon, <1>1, IdleKept DEF Inv
<1>4. \A f \in Friends : Stage(f) => Stage(f)'
  BY Zenon, <1>1, StageKept DEF Inv
<1>5. Free => Free'
  BY Zenon, <1>1, <1>3 DEF Free, Quiet, Drained, Home
<1>6. \A f \in Friends : Held(f) => Held(f)'
  BY Zenon, <1>1, <1>3, <1>4 DEF Held
<1> QED BY Zenon, <1>2, <1>5, <1>6 DEF Inv

\* The invariant is inductive.
LEMMA StepInv == Inv /\ [Next]_vars => Inv'
<1> SUFFICES ASSUME Inv, [Next]_vars PROVE Inv'
  OBVIOUS
<1>1. ASSUME NEW c \in CPU, CpuStep(c) \/ Flush(c) PROVE Inv'
  BY Zenon, <1>1, FriendInv, HakaseInv DEF CPU
<1> QED BY <1>1, StutterInv DEF Next

-----------------------------------------------------------------------------
(* The theorems *)

\* Hakase is on the stack of a core only while it serves it.
LEMMA VisitsServed ==
  ASSUME Inv, NEW f \in Friends, frame[Hakase] = f
  PROVE  Serving(f) /\ frame[Hakase] # Hakase
<1>1. f # Hakase
  BY Zenon, TSOAssumption
<1>2. ~Home
  BY Zenon, <1>1 DEF Home
<1>3. PICK g \in Friends : Stage(g)
  BY Zenon, <1>2 DEF Inv, Free, Quiet, Drained, Held
<1>4. Serving(g)
  BY Zenon, <1>1, <1>2, <1>3 DEF Stage, Preparing, Posted, Served, Waking, Releasing, Quiet, Drained
<1> QED BY Zenon, <1>1, <1>4 DEF Serving

\* Without fences, no two CPUs execute on one stack.
THEOREM StackExclusive == Spec => []OneCpuPerStack
<1>1. Inv => OneCpuPerStack
  <2> SUFFICES ASSUME Inv, NEW c \in CPU, NEW d \in CPU, c # d, frame[c] = frame[d]
               PROVE  pc[c] = "spin" \/ pc[d] = "spin"
    BY DEF OneCpuPerStack
  <2>1. \A f \in Friends : frame[f] = f
    BY Zenon DEF Inv, OwnFrames
  <2>2. ASSUME NEW f \in Friends, frame[Hakase] = f PROVE pc[f] = "spin"
    BY Zenon, <2>2, VisitsServed DEF Serving
  <2> QED BY <2>1, <2>2 DEF CPU
<1> QED BY Zenon, <1>1, InitInv, StepInv, PTL DEF Spec

\* However late stores get to memory, an OFFLOAD is left on the core's own
\* stack after exactly one execution of its block, on hakase.
THEOREM BlockExactlyOnce == Spec => []ExactlyOnce
<1>1. Inv => ExactlyOnce
  <2> SUFFICES ASSUME Inv PROVE ExactlyOnce
    OBVIOUS
  <2>1. ASSUME NEW f \in Friends
        PROVE  /\ pc[f] \notin CodePC
               /\ pc[f] = "unlock" => frame[f] = f /\ ran[f] = 1
    <3>1. Idle(f) \/ Stage(f)
      BY Zenon DEF Inv, Free, Held
    <3>2. CASE Idle(f)
      BY Zenon, <3>2 DEF Idle, EntryPC, CodePC
    <3>3. CASE Stage(f)
      BY Zenon, <3>3 DEF Stage, Preparing, Posted, Serving, Served, Waking, Releasing, EntryPC, CodePC,
         Inv, OwnFrames
    <3> QED BY Zenon, <3>1, <3>2, <3>3
  <2>2. pc[Hakase] # "unlock"
    BY ZenonT(40) DEF Inv, Free, Held, Stage, Preparing, Posted, Serving, Served, Waking, Releasing, Quiet,
       Drained, Home, ServePC
  <2> QED BY <2>1, <2>2 DEF ExactlyOnce, CPU
<1> QED BY <1>1, InitInv, StepInv, PTL DEF Spec

\* The core that leaves an OFFLOAD reads what the block has stored on the
\* hakase CPU.
THEOREM ResultIsVisible == Spec => []ResultVisible
<1>1. Inv => ResultVisible
  <2> SUFFICES ASSUME Inv, NEW f \in Friends, pc[f] = "unlock" PROVE Read(f, f) = 1
    BY Zenon DEF ResultVisible
  <2>1. Waking(f) /\ Types /\ f \in CPU
    BY Zenon DEF Inv, Free, Held, Idle, EntryPC, Stage, Preparing, Posted, Serving, Served, Releasing,
       CPU
  <2>2. 1 \in Nat /\ \A k \in 1..1 : Leave(f)[k].at # f
    <3>1. f # "resume"
      BY Zenon, TSOAssumption DEF Words, CPU
    <3> QED BY <3>1 DEF Leave, To
  <2>3. Read(f, f) = mem[f]
    BY <2>1, <2>2, ReadMemory DEF Waking
  <2> QED BY Zenon, <2>1, <2>3 DEF Waking
<1> QED BY <1>1, InitInv, StepInv, PTL DEF Spec

-----------------------------------------------------------------------------
(* Refinement *)

\* The state of the service depends on these variables only.
LEMMA Invisible ==
  ASSUME \A f \in Friends : (pc'[f] = "main") <=> (pc[f] = "main"),
         \A f \in Friends : ran'[f] = ran[f], frame'[Hakase] = frame[Hakase]
  PROVE  UNCHANGED Service!vars
<1>1. callBar' = callBar
  BY Zenon DEF callBar
<1>2. [f \in Friends |-> ran[f]]' = [f \in Friends |-> ran[f]]
  OBVIOUS
<1> QED BY Zenon, <1>1, <1>2 DEF Service!vars

\* A core issues a call and returns from it; its other steps are invisible.
LEMMA FriendRefines ==
  ASSUME Inv, NEW f \in Friends, CpuStep(f)
  PROVE  [Service!Next]_(Service!vars)
<1>1. /\ f \in CPU /\ Hakase \in CPU \ {f} /\ frame[f] = f
      /\ pc \in [CPU -> PC] /\ ran \in [CPU -> Nat] /\ frame \in [CPU -> CPU]
      /\ \A g \in Friends : g \in CPU
  BY Zenon, TSOAssumption DEF Inv, OwnFrames, Types, CPU
<1>2. CASE EnterOffload(f)
  <2>1. pc[f] = "main" /\ frame[Hakase] # f
    BY Zenon, <1>2, VisitsServed DEF EnterOffload, Store, Step, Serving
  <2>2. pc' = [pc EXCEPT ![f] = "test"] /\ ran' = [ran EXCEPT ![f] = 0] /\ frame' = frame
    BY <1>1, <1>2 DEF EnterOffload, Store, Step
  <2>3. callBar' = [callBar EXCEPT ![f] = "pending"]
    BY Zenon, <1>1, <2>1, <2>2 DEF callBar
  <2>4. [g \in Friends |-> ran[g]]' = [[g \in Friends |-> ran[g]] EXCEPT ![f] = 0]
    BY Zenon, <1>1, <2>2
  <2>5. Service!Issue(f)
    BY Zenon, <2>1, <2>3, <2>4 DEF Service!Issue, callBar
  <2> QED BY Zenon, <2>5 DEF Service!Next
<1>3. CASE Unlock(f)
  <2>1. pc[f] = "unlock"
    BY Zenon, <1>3 DEF Unlock, Store, Step
  <2>2. ran[f] = 1
    BY Zenon, <2>1 DEF Inv, Free, Held, Idle, EntryPC, Stage, Preparing, Posted, Serving, Served, Waking,
       Releasing
  <2>3. pc' = [pc EXCEPT ![f] = "main"] /\ ran' = ran /\ frame' = frame
    BY <1>3 DEF Unlock, Store, Step, registers
  <2>4. callBar' = [callBar EXCEPT ![f] = "idle"]
    BY Zenon, <1>1, <2>1, <2>3 DEF callBar
  <2>5. Service!Return(f)
    BY <2>1, <2>2, <2>3, <2>4 DEF Service!Return, callBar
  <2> QED BY Zenon, <2>5 DEF Service!Next
<1>4. CASE \/ TestLock(f) \/ CasLock(f) \/ WaitFrame(f) \/ WaitRip(f) \/ WaitPost(f)
           \/ Spin(f) \/ WakeFrame(f) \/ WakeRip(f) \/ WakeClear(f) \/ WakeRet(f)
  <2>1. /\ pc[f] # "main" /\ \E b : b # "main" /\ pc' = [pc EXCEPT ![f] = b]
        /\ ran' = ran
    BY ZenonT(40), <1>4 DEF TestLock, CasLock, WaitFrame, WaitRip, WaitPost, Spin, WakeFrame, WakeRip,
       WakeClear, WakeRet, Resumed, LoadFrame, Local, Store, Step, registers
  <2>2. frame'[Hakase] = frame[Hakase]
    BY Zenon, <1>1, <1>4 DEF TestLock, CasLock, WaitFrame, WaitRip, WaitPost, Spin, WakeFrame, WakeRip,
       WakeClear, WakeRet, LoadFrame, registers
  <2>3. \A g \in Friends : (pc'[g] = "main") <=> (pc[g] = "main")
    BY Zenon, <1>1, <2>1
  <2> QED BY Zenon, <2>1, <2>2, <2>3, Invisible
<1>5. pc[f] \in EntryPC \/ pc[f] \in {"wait_frame", "wait_rip", "wait_post", "spin", "wake_frame",
        "wake_rip", "wake_clear", "wake_ret", "unlock"}
  BY Zenon DEF Inv, Free, Held, Idle, Stage, Preparing, Posted, Serving, Served, Waking, Releasing
<1> QED BY Zenon, <1>1, <1>2, <1>3, <1>4, <1>5, StatementOf, EntrySteps

\* Hakase begins a call by entering the stack of the core, and executes it
\* there; leaving the stack is invisible, as the block has run.
LEMMA HakaseRefines ==
  ASSUME Inv, CpuStep(Hakase)
  PROVE  [Service!Next]_(Service!vars)
<1>1. /\ Hakase \in CPU /\ \A g \in Friends : g \in CPU \ {Hakase}
      /\ Types /\ OwnFrames
      /\ pc \in [CPU -> PC] /\ ran \in [CPU -> Nat] /\ frame \in [CPU -> CPU]
  BY Zenon, TSOAssumption DEF Inv, Types, CPU
<1>2. \/ Home
      \/ pc[Hakase] = "take" /\ frame[Hakase] = Hakase
      \/ \E f \in Friends : Serving(f)
  BY Zenon DEF Inv, Free, Held, Stage, Preparing, Posted, Served, Waking, Releasing, Quiet, Drained, Home
<1>3. CASE Home \/ (pc[Hakase] = "take" /\ frame[Hakase] = Hakase)
  <2>1. CallTryReceive(Hakase) \/ Poll(Hakase) \/ Take(Hakase)
    BY Zenon, <1>1, <1>3, StatementOf DEF Home
  <2>2. ran' = ran /\ frame' = frame /\ \E b : pc' = [pc EXCEPT ![Hakase] = b]
    BY Zenon, <2>1 DEF CallTryReceive, Poll, Take, Local, Store, Step, registers
  <2>3. \A g \in Friends : pc'[g] = pc[g]
    BY <1>1, <2>2
  <2> QED BY Zenon, <2>2, <2>3, Invisible
<1>4. ASSUME NEW f \in Friends, Serving(f) PROVE [Service!Next]_(Service!vars)
  <2>1. \A g \in Friends : pc'[g] = pc[g]
    BY Zenon, <1>1, <1>4, ServingStep DEF Serves
  <2>2. pc[f] = "spin" /\ f # Hakase
    BY Zenon, <1>4, TSOAssumption DEF Serving
  <2>3. CASE JumpFrame(Hakase)
    <3>1. pc[Hakase] = "jump_frame" /\ ran' = ran
      BY Zenon, <2>3 DEF JumpFrame, LoadFrame, Local, Step
    <3>2. ran[f] = 0 /\ frame[Hakase] = Hakase
      BY Zenon, <1>4, <3>1 DEF Serving
    <3>3. pc'[Hakase] = "jump_rip"
      BY Zenon, <1>1, <2>3 DEF JumpFrame, LoadFrame, Local, Step
    <3>4. frame'[Hakase] = f
      <4>1. 3 \in Nat /\ Issued(Hakase, Serve(f), 3) /\ mem["friend_frame"] = f
        BY Zenon, <1>4, <3>1 DEF Serving
      <4>2. \A k \in 1..3 : Serve(f)[k].at # "friend_frame"
        BY DEF Serve, To
      <4>3. Read(Hakase, "friend_frame") = f
        BY <1>1, <4>1, <4>2, ReadMemory
      <4> QED BY Zenon, <1>1, <2>3, <4>3 DEF JumpFrame, LoadFrame
    <3>5. callBar' = [callBar EXCEPT ![f] = "running"]
      BY Zenon, <1>1, <2>1, <2>2, <3>1, <3>2, <3>4 DEF callBar
    <3>6. Service!Begin(f)
      <4>1. \A g \in Friends : frame[Hakase] # g
        BY Zenon, <1>1, <3>2
      <4>2. callBar[f] = "pending" /\ \A g \in Friends : callBar[g] # "running"
        BY Zenon, <2>2, <3>2, <4>1 DEF callBar
      <4> QED BY <3>1, <3>5, <4>2 DEF Service!Begin
    <3> QED BY Zenon, <3>6 DEF Service!Next
  <2>4. CASE Code(Hakase)
    <3>1. pc[Hakase] = "code" /\ frame' = frame /\ ran' = [ran EXCEPT ![frame[Hakase]] = @ + 1]
      BY Zenon, <2>4 DEF Code, Store, Step
    <3>2. frame[Hakase] = f /\ ran[f] = 0
      BY Zenon, <1>4, <3>1 DEF Serving
    <3>3. ran'[f] = 1 /\ \A g \in Friends \ {f} : ran'[g] = ran[g]
      BY <1>1, <3>1, <3>2
    <3>4. callBar' = [callBar EXCEPT ![f] = "executed"]
      <4>1. callBar'[f] = "executed"
        BY <2>1, <2>2, <3>3 DEF callBar
      <4>2. \A g \in Friends \ {f} : callBar'[g] = callBar[g]
        BY Zenon, <2>1, <3>1, <3>3 DEF callBar
      <4>3. /\ callBar = [g \in Friends |-> callBar[g]]
            /\ callBar' = [g \in Friends |-> callBar'[g]]
        BY DEF callBar
      <4> QED BY Zenon, <4>1, <4>2, <4>3
    <3>5. [g \in Friends |-> ran[g]]' = [[g \in Friends |-> ran[g]] EXCEPT ![f] = @ + 1]
      <4>1. \A g \in Friends : ran'[g] = IF g = f THEN ran[g] + 1 ELSE ran[g]
        BY <3>2, <3>3
      <4> QED BY Zenon, <4>1
    <3>6. callBar[f] = "running"
      BY Zenon, <2>2, <3>2 DEF callBar
    <3>7. Service!Execute(f)
      BY Zenon, <3>4, <3>5, <3>6 DEF Service!Execute
    <3> QED BY Zenon, <3>7 DEF Service!Next
  <2>5. CASE BackFrame(Hakase)
    <3>1. pc[Hakase] = "back_frame" /\ ran' = ran
      BY Zenon, <2>5 DEF BackFrame, LoadFrame, Local, Step
    <3>2. frame[Hakase] = f /\ ran[f] = 1
      BY Zenon, <1>4, <3>1 DEF Serving
    <3>3. frame'[Hakase] = Hakase
      <4>1. 6 \in Nat /\ 2 \in 1..6 /\ Issued(Hakase, Serve(f), 6) /\ Proper(Serve(f), 6)
        BY <1>4, <3>1, ProperSequences DEF Serving
      <4>2. Serve(f)[2].at = "hakase_frame" /\ Serve(f)[2].value = Hakase
        BY Zenon DEF Serve, To
      <4>3. Read(Hakase, Serve(f)[2].at) = Serve(f)[2].value
        BY <1>1, <4>1, ReadIssued
      <4>4. Read(Hakase, "hakase_frame") = Hakase
        BY <4>2, <4>3
      <4> QED BY Zenon, <1>1, <2>5, <4>4 DEF BackFrame, LoadFrame
    <3>4. \A g \in Friends : Hakase # g
      BY Zenon, <1>1
    <3>5. callBar' = callBar
      BY <2>1, <3>1, <3>2, <3>3, <3>4 DEF callBar
    <3> QED BY Zenon, <3>1, <3>5 DEF Service!vars
  <2>6. CASE \/ TryFrame(Hakase) \/ TryRip(Hakase) \/ JumpRip(Hakase) \/ SetFrame(Hakase)
             \/ SetRip(Hakase) \/ BackRip(Hakase) \/ Finish(Hakase)
    <3>1. ran' = ran /\ frame' = frame
      BY <2>6 DEF TryFrame, TryRip, JumpRip, SetFrame, SetRip, BackRip, Finish, registers
    <3> QED BY Zenon, <2>1, <3>1, Invisible
  <2> QED BY ZenonT(40), <1>1, <1>4, <2>3, <2>4, <2>5, <2>6, StatementOf DEF Serving, ServePC
<1> QED BY Zenon, <1>2, <1>3, <1>4

\* The protocol implements the service although it uses no fence: every OFFLOAD
\* is one execution of its block by hakase, one at a time, and the core goes on
\* only afterwards.
THEOREM TSOImplementsService == Spec => ServiceSpec
<1>1. Init => Service!Init
  <2> SUFFICES ASSUME Init PROVE Service!Init
    OBVIOUS
  <2>1. \A f \in Friends : pc[f] = "main" /\ ran[f] = 0
    BY TSOAssumption DEF Init, CPU
  <2> QED BY Zenon, <2>1 DEF Service!Init, callBar
<1>2. Inv /\ [Next]_vars => [Service!Next]_(Service!vars)
  <2> SUFFICES ASSUME Inv, [Next]_vars PROVE [Service!Next]_(Service!vars)
    OBVIOUS
  <2>1. CASE UNCHANGED vars
    BY Zenon, <2>1, Invisible DEF vars
  <2>2. ASSUME NEW c \in CPU, Flush(c) PROVE [Service!Next]_(Service!vars)
    BY Zenon, <2>2, Invisible DEF Flush
  <2>3. ASSUME NEW c \in CPU, CpuStep(c) PROVE [Service!Next]_(Service!vars)
    BY <2>3, FriendRefines, HakaseRefines DEF CPU
  <2> QED BY Zenon, <2>1, <2>2, <2>3 DEF Next
<1> QED BY Zenon, <1>1, <1>2, InitInv, StepInv, PTL DEF Spec, ServiceSpec, Service!Spec
=============================================================================
