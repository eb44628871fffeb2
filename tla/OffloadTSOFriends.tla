-------------------------- MODULE OffloadTSOFriends --------------------------
(***************************************************************************)
(* The inductive invariant of OffloadTSO, for any number of friend cores,  *)
(* of OFFLOADs and of store buffer entries, and the steps of the friends   *)
(* under it.  The idea: between two drained buffers a CPU issues the       *)
(* stores of a fixed sequence, and as buffers are FIFO a prefix of it is   *)
(* in memory and the rest in the buffer.  The flag is the last of its      *)
(* sequence, so whoever sees it sees all that came before.                 *)
(***************************************************************************)
EXTENDS OffloadTSO, TLAPS

To(l, v) == [at |-> l, value |-> v]

\* The stores between two points at which the buffer is known to be empty: the
\* friend's on entering OFFLOAD and on posting the request, hakase's on serving
\* it, and the friend's from its wake-up to its next OFFLOAD.
Enter(f) == <<To(f, 0)>>
Post(f) == <<To("friend_frame", f), To("friend_rip", "wait_ret"), To("request", 1)>>
Serve(f) == <<To("request", 0), To("hakase_frame", Hakase), To("hakase_rip", "try_ret"),
              To(f, 1), To("friend_frame", f), To("friend_rip", "set_ret"), To("resume", 1)>>
Leave(f) == <<To("resume", 0), To("lock", 0), To(f, 0)>>

\* CPU c has issued the first n stores of s, one after the other.
Issued(c, s, n) ==
  /\ Len(buffer[c]) <= n
  /\ \A k \in 1..Len(buffer[c]) : buffer[c][k] = s[n - Len(buffer[c]) + k]
  /\ \A k \in 1..n - Len(buffer[c]) : mem[s[k].at] = s[k].value

-----------------------------------------------------------------------------
(* The invariant *)

EntryPC == {"main", "test", "cas"}
ServePC == {"try_frame", "try_rip", "jump_frame", "jump_rip", "code", "set_frame", "set_rip",
            "back_frame", "back_rip", "finish"}

Value == {0, 1, NoFrame} \cup CPU \cup ReturnAddress

Entry == [at : Locations, value : Value]

Types ==
  /\ mem \in [Locations -> Value]
  /\ buffer \in [CPU -> Seq(Entry)]
  /\ pc \in [CPU -> PC]
  /\ frame \in [CPU -> CPU]
  /\ target \in [CPU -> Value]
  /\ left \in [CPU -> Nat]
  /\ ran \in [CPU -> Nat]

\* Hakase is in its main loop, or about to serve, with nothing in its buffer.
Home == frame[Hakase] = Hakase /\ pc[Hakase] \in {"app", "poll"}
Drained == Home /\ buffer[Hakase] = <<>> /\ mem["request"] = 0
Quiet == Drained /\ mem["resume"] = 0

\* The lock has nothing to do with core f.
Idle(f) ==
  /\ pc[f] \in EntryPC
  /\ pc[f] = "main" => Issued(f, Enter(f), 0)
  /\ pc[f] # "main" => Issued(f, Enter(f), 1) /\ ran[f] = 0

Preparing(f) ==
  /\ pc[f] \in {"wait_frame", "wait_rip", "wait_post"}
  /\ pc[f] = "wait_frame" => Issued(f, Post(f), 0)
  /\ pc[f] = "wait_rip" => Issued(f, Post(f), 1)
  /\ pc[f] = "wait_post" => Issued(f, Post(f), 2)
  /\ ran[f] = 0 /\ Quiet

Posted(f) ==
  /\ pc[f] = "spin" /\ ran[f] = 0
  /\ Issued(f, Post(f), 3)
  /\ frame[Hakase] = Hakase /\ pc[Hakase] \in {"app", "poll", "take"}
  /\ buffer[Hakase] = <<>> /\ mem["resume"] = 0 /\ mem["request"] \in {0, 1}
  /\ mem["request"] = 1 => buffer[f] = <<>>
  /\ pc[Hakase] = "take" => mem["request"] = 1

Serving(f) ==
  /\ pc[f] = "spin" /\ buffer[f] = <<>> /\ mem["resume"] = 0
  /\ pc[Hakase] \in ServePC
  /\ pc[Hakase] = "try_frame" => Issued(Hakase, Serve(f), 1)
  /\ pc[Hakase] = "try_rip" => Issued(Hakase, Serve(f), 2)
  /\ pc[Hakase] \in {"jump_frame", "jump_rip", "code"} => Issued(Hakase, Serve(f), 3)
  /\ pc[Hakase] = "set_frame" => Issued(Hakase, Serve(f), 4)
  /\ pc[Hakase] = "set_rip" => Issued(Hakase, Serve(f), 5)
  /\ pc[Hakase] \in {"back_frame", "back_rip", "finish"} => Issued(Hakase, Serve(f), 6)
  /\ pc[Hakase] \in {"try_frame", "try_rip", "jump_frame", "jump_rip", "code"} =>
       ran[f] = 0 /\ mem["friend_frame"] = f /\ mem["friend_rip"] = "wait_ret"
  /\ pc[Hakase] \in {"set_frame", "set_rip", "back_frame", "back_rip", "finish"} => ran[f] = 1
  /\ frame[Hakase] = IF pc[Hakase] \in {"jump_rip", "code", "set_frame", "set_rip", "back_frame"}
                     THEN f ELSE Hakase

Served(f) ==
  /\ pc[f] = "spin" /\ buffer[f] = <<>> /\ ran[f] = 1
  /\ Home /\ Issued(Hakase, Serve(f), 7)
  /\ mem["resume"] \in {0, 1}
  /\ mem["resume"] = 1 => buffer[Hakase] = <<>>

Waking(f) ==
  /\ pc[f] \in {"wake_frame", "wake_rip", "wake_clear", "wake_ret", "unlock"}
  /\ pc[f] \in {"wake_frame", "wake_rip", "wake_clear"} => Issued(f, Leave(f), 0)
  /\ pc[f] \in {"wake_ret", "unlock"} => Issued(f, Leave(f), 1)
  /\ pc[f] \in {"wake_clear", "wake_ret"} => target[f] = "set_ret"
  /\ mem[f] = 1 /\ mem["friend_frame"] = f /\ mem["friend_rip"] = "set_ret"
  /\ ran[f] = 1 /\ Drained

\* Core f has left OFFLOAD, perhaps entered the next one, and the store that
\* frees the lock is still in its buffer.
Releasing(f) ==
  /\ pc[f] \in EntryPC
  /\ pc[f] = "main" => Issued(f, Leave(f), 2) /\ Len(buffer[f]) >= 1
  /\ pc[f] # "main" => Issued(f, Leave(f), 3) /\ Len(buffer[f]) >= 2 /\ ran[f] = 0
  /\ Drained

Stage(f) ==
  Preparing(f) \/ Posted(f) \/ Serving(f) \/ Served(f) \/ Waking(f) \/ Releasing(f)

OwnFrames == \A f \in Friends : frame[f] = f
Free == mem["lock"] = 0 /\ Quiet /\ \A f \in Friends : Idle(f)
Held(f) == mem["lock"] = 1 /\ Stage(f) /\ \A g \in Friends \ {f} : Idle(g)

Inv == Types /\ OwnFrames /\ (Free \/ \E f \in Friends : Held(f))

-----------------------------------------------------------------------------
(* Store buffers *)

\* A sequence of stores to different locations.
Proper(s, n) ==
  /\ \A k \in 1..n : s[k] \in Entry
  /\ \A j, k \in 1..n : s[j].at = s[k].at => j = k

\* The next store of the sequence.
LEMMA StoreIssues ==
  ASSUME Types, NEW c \in CPU, NEW n \in Nat, NEW s, Issued(c, s, n), s[n + 1] \in Entry,
         buffer' = [buffer EXCEPT ![c] = Append(@, s[n + 1])], UNCHANGED mem
  PROVE  /\ Issued(c, s, n + 1)' /\ buffer' \in [CPU -> Seq(Entry)]
         /\ Len(buffer'[c]) = Len(buffer[c]) + 1
<1> DEFINE b == buffer[c]
<1>1. b \in Seq(Entry) /\ buffer \in [CPU -> Seq(Entry)]
  BY DEF Types
<1>2. buffer'[c] = Append(b, s[n + 1])
  BY <1>1
<1>3. buffer' \in [CPU -> Seq(Entry)]
  BY <1>1
<1>4. /\ Len(b) \in Nat /\ Len(buffer'[c]) = Len(b) + 1 /\ buffer'[c][Len(b) + 1] = s[n + 1]
      /\ \A k \in 1..Len(b) : buffer'[c][k] = b[k]
  BY <1>1, <1>2
<1>5. /\ Len(b) <= n /\ \A k \in 1..Len(b) : b[k] = s[n - Len(b) + k]
      /\ \A k \in 1..n - Len(b) : mem[s[k].at] = s[k].value
  BY Zenon DEF Issued
<1> HIDE DEF b
<1>6. \A k \in 1..Len(b) + 1 : buffer'[c][k] = s[n - Len(b) + k]
  <2>1. ASSUME NEW k \in 1..Len(b) + 1 PROVE buffer'[c][k] = s[n - Len(b) + k]
    <3>1. CASE k = Len(b) + 1
      <4>1. n - Len(b) + k = n + 1
        BY <1>4, <3>1
      <4> QED BY <1>4, <3>1, <4>1
    <3>2. CASE k # Len(b) + 1
      <4>1. k \in 1..Len(b)
        BY <1>4, <3>2
      <4> QED BY <1>4, <1>5, <4>1
    <3> QED BY Zenon, <3>1, <3>2
  <2> QED BY Zenon, <2>1
<1>7. Len(buffer'[c]) <= n + 1 /\ (n + 1) - Len(buffer'[c]) = n - Len(b)
  <2> DEFINE m == Len(b)
             m1 == Len(buffer'[c])
  <2>1. m \in Nat /\ m1 = m + 1 /\ m <= n
    BY <1>4, <1>5
  <2> HIDE DEF m, m1
  <2>2. m1 <= n + 1 /\ (n + 1) - m1 = n - m
    BY <2>1
  <2> QED BY <2>2 DEF m, m1
<1>8. \A k \in 1..Len(buffer'[c]) : buffer'[c][k] = s[(n + 1) - Len(buffer'[c]) + k]
  BY Zenon, <1>4, <1>6, <1>7
<1>9. \A k \in 1..(n + 1) - Len(buffer'[c]) : mem'[s[k].at] = s[k].value
  BY Zenon, <1>5, <1>7
<1>10. Issued(c, s, n + 1)'
  BY Zenon, <1>7, <1>8, <1>9 DEF Issued
<1> QED BY <1>3, <1>4, <1>10 DEF b

\* Store k of the first n stores of s gets from the buffer of c into memory.
Lands(c, s, n, k) ==
  /\ k = n - Len(buffer'[c]) /\ Len(buffer[c]) = n - k + 1
  /\ mem' = [mem EXCEPT ![s[k].at] = s[k].value]
  /\ mem' \in [Locations -> Value] /\ buffer' \in [CPU -> Seq(Entry)]
  /\ \A d \in CPU : d # c => buffer'[d] = buffer[d]
  /\ Issued(c, s, n)'

\* The oldest store that is not in memory gets there.
LEMMA FlushIssued ==
  ASSUME Types, NEW c \in CPU, NEW n \in Nat, NEW s, Issued(c, s, n), Proper(s, n), Flush(c)
  PROVE  \E k \in 1..n : Lands(c, s, n, k)
<1> DEFINE b == buffer[c]
           k == n - Len(b) + 1
<1>1. b \in Seq(Entry) /\ b # <<>> /\ buffer \in [CPU -> Seq(Entry)] /\ mem \in [Locations -> Value]
  BY DEF Types, Flush
<1>2. buffer' = [buffer EXCEPT ![c] = Tail(b)] /\ mem' = [mem EXCEPT ![Head(b).at] = Head(b).value]
  BY DEF Flush
<1>3. /\ buffer'[c] = Tail(b) /\ buffer' \in [CPU -> Seq(Entry)]
      /\ \A d \in CPU : d # c => buffer'[d] = buffer[d]
  BY <1>1, <1>2
<1>4. /\ Len(b) \in Nat /\ Len(b) > 0 /\ Len(buffer'[c]) = Len(b) - 1 /\ Head(b) = b[1]
      /\ \A j \in 1..Len(b) - 1 : buffer'[c][j] = b[j + 1]
  BY <1>1, <1>3
<1>5. /\ Len(b) <= n /\ \A j \in 1..Len(b) : b[j] = s[n - Len(b) + j]
      /\ \A j \in 1..n - Len(b) : mem[s[j].at] = s[j].value
  BY Zenon DEF Issued
<1> HIDE DEF b
<1>6. k \in 1..n /\ k = n - Len(buffer'[c]) /\ Len(b) = n - k + 1
  BY <1>4, <1>5
<1>14. 1 \in 1..Len(b) /\ Head(b) = s[k]
  BY <1>4, <1>5
<1> HIDE DEF k
<1>7. s[k] \in Entry /\ mem' = [mem EXCEPT ![s[k].at] = s[k].value]
  BY Zenon, <1>2, <1>6, <1>14 DEF Proper
<1>8. s[k].at \in Locations /\ s[k].value \in Value
  BY <1>7 DEF Entry
<1>9. mem' \in [Locations -> Value] /\ mem'[s[k].at] = s[k].value
  BY <1>1, <1>7, <1>8
<1>10. ASSUME NEW j \in 1..n, j # k PROVE mem'[s[j].at] = mem[s[j].at]
  <2>1. s[j].at # s[k].at
    BY Zenon, <1>6, <1>10 DEF Proper
  <2>2. s[j].at \in Locations
    BY DEF Entry, Proper
  <2> QED BY <1>1, <1>7, <2>1, <2>2
<1>11. ASSUME NEW j \in 1..n - (Len(b) - 1) PROVE mem'[s[j].at] = s[j].value
  <2>1. j \in 1..n /\ (j # k => j \in 1..n - Len(b))
    <3> DEFINE m == Len(b)
    <3>1. m \in Nat /\ m > 0 /\ m = n - k + 1 /\ k \in 1..n /\ j \in 1..n - (m - 1)
      BY Zenon, <1>4, <1>6
    <3> HIDE DEF m
    <3>2. j \in 1..n /\ (j # k => j \in 1..n - m)
      BY <3>1
    <3> QED BY <3>2 DEF m
  <2> QED BY <1>5, <1>9, <1>10, <2>1
<1>12. ASSUME NEW j \in 1..Len(b) - 1 PROVE buffer'[c][j] = s[n - (Len(b) - 1) + j]
  <2>1. j + 1 \in 1..Len(b) /\ n - Len(b) + (j + 1) = n - (Len(b) - 1) + j
    BY <1>4
  <2> QED BY <1>4, <1>5, <2>1
<1>13. Issued(c, s, n)'
  <2>1. Len(b) - 1 <= n
    BY <1>4, <1>5
  <2> QED BY <1>4, <1>11, <1>12, <2>1 DEF Issued
<1>15. Lands(c, s, n, k)
  BY <1>3, <1>6, <1>7, <1>9, <1>13 DEF b, Lands
<1> QED BY <1>6, <1>15

\* A CPU reads what it has stored, in its buffer or in memory ...
LEMMA ReadIssued ==
  ASSUME Types, NEW c \in CPU, NEW n \in Nat, NEW s, Issued(c, s, n), Proper(s, n),
         NEW k \in 1..n
  PROVE  Read(c, s[k].at) = s[k].value
<1> DEFINE b == buffer[c]
           own == {j \in 1..Len(b) : b[j].at = s[k].at}
           q == k - (n - Len(b))
<1>1. Len(b) \in Nat
  BY DEF Types
<1>2. /\ Len(b) <= n /\ \A j \in 1..Len(b) : b[j] = s[n - Len(b) + j]
      /\ \A j \in 1..n - Len(b) : mem[s[j].at] = s[j].value
  BY Zenon DEF Issued
<1>3. Read(c, s[k].at) = IF own = {} THEN mem[s[k].at]
                         ELSE b[CHOOSE j \in own : \A i \in own : i <= j].value
  BY DEF Read
<1> HIDE DEF b
<1>4. ASSUME NEW j \in own PROVE j = q
  <2>1. j \in 1..Len(b) /\ s[n - Len(b) + j].at = s[k].at
    BY <1>2
  <2>2. n - Len(b) + j \in 1..n
    BY <1>1, <1>2, <2>1
  <2>3. n - Len(b) + j = k
    BY <2>1, <2>2 DEF Proper
  <2> QED BY <1>1, <2>1, <2>3
<1>5. CASE k <= n - Len(b)
  <2>1. own = {}
    BY <1>1, <1>4, <1>5
  <2>2. k \in 1..n - Len(b)
    BY <1>1, <1>5
  <2> QED BY <1>2, <1>3, <2>1, <2>2
<1>6. CASE k > n - Len(b)
  <2>1. q \in 1..Len(b) /\ n - Len(b) + q = k
    BY <1>1, <1>2, <1>6
  <2>2. b[q] = s[k]
    BY <1>2, <2>1
  <2>3. q \in own /\ own # {}
    BY <2>1, <2>2
  <2>4. own = {q} /\ q <= q
    BY <1>4, <2>3, <2>1
  <2> HIDE DEF own, q
  <2>5. (CHOOSE j \in own : \A i \in own : i <= j) = q
    BY <2>4
  <2> QED BY Zenon, <1>3, <2>2, <2>3, <2>5
<1> QED BY <1>1, <1>5, <1>6

\* ... and memory where it has stored nothing.
LEMMA ReadMemory ==
  ASSUME Types, NEW c \in CPU, NEW n \in Nat, NEW s, Issued(c, s, n),
         NEW l, \A k \in 1..n : s[k].at # l
  PROVE  Read(c, l) = mem[l]
<1> DEFINE b == buffer[c]
<1>1. Len(b) \in Nat
  BY DEF Types
<1>2. Len(b) <= n /\ \A j \in 1..Len(b) : b[j] = s[n - Len(b) + j]
  BY Zenon DEF Issued
<1>3. \A j \in 1..Len(b) : b[j].at # l
  <2> HIDE DEF b
  <2>1. \A j \in 1..Len(b) : n - Len(b) + j \in 1..n
    BY <1>1, <1>2
  <2> QED BY Zenon, <1>2, <2>1
<1> QED BY <1>3 DEF Read

\* No sequence of the protocol stores twice to a location.
LEMMA ProperSequences ==
  ASSUME NEW f \in Friends
  PROVE  /\ Proper(Enter(f), 0) /\ Proper(Enter(f), 1)
         /\ \A n \in 0..3 : Proper(Post(f), n) /\ Proper(Leave(f), n)
         /\ \A n \in 0..7 : Proper(Serve(f), n)
<1> DEFINE D == {"lock", "friend_frame", "friend_rip", "request", "resume", "hakase_frame",
                 "hakase_rip"}
<1>1. f \in Locations /\ Hakase \in Value /\ f \in Value /\ {0, 1} \subseteq Value
  BY DEF Locations, CPU, Value
<1>2. \A l \in D : l \in Locations /\ l # f
  BY TSOAssumption DEF Locations, Words, CPU
<1>3. {"wait_ret", "set_ret", "try_ret"} \subseteq Value
  BY DEF Value, ReturnAddress
<1>4. Proper(Enter(f), 0) /\ Proper(Enter(f), 1)
  BY <1>1 DEF Proper, Enter, To, Entry
<1>5. Proper(Post(f), 3)
  BY <1>1, <1>2, <1>3 DEF Proper, Post, To, Entry
<1>6. Proper(Leave(f), 3)
  BY <1>1, <1>2, <1>3 DEF Proper, Leave, To, Entry
<1>7. Proper(Serve(f), 7)
  <2>1. \A k \in 1..7 : Serve(f)[k] \in Entry
    BY <1>1, <1>2, <1>3 DEF Serve, To, Entry
  <2>2. \A j, k \in 1..7 : Serve(f)[j].at = Serve(f)[k].at => j = k
    BY <1>2 DEF Serve, To
  <2> QED BY <2>1, <2>2 DEF Proper
<1> QED BY <1>4, <1>5, <1>6, <1>7 DEF Proper

\* What a CPU has issued depends on its buffer and on the words it stores to.
LEMMA IssuedKept ==
  ASSUME NEW c \in CPU, NEW s, NEW n \in Nat, Types, Issued(c, s, n), buffer'[c] = buffer[c],
         \A k \in 1..n : mem'[s[k].at] = mem[s[k].at]
  PROVE  Issued(c, s, n)'
<1>1. Len(buffer[c]) \in Nat
  BY DEF Types
<1>2. \A k \in 1..n - Len(buffer[c]) : k \in 1..n
  BY <1>1
<1> QED BY Zenon, <1>2 DEF Issued

\* Nothing is issued between an empty buffer and the first store.
LEMMA IssuedNone ==
  ASSUME NEW c \in CPU, NEW s, Types
  PROVE  Issued(c, s, 0) <=> buffer[c] = <<>>
<1>1. buffer[c] \in Seq(Entry)
  BY DEF Types
<1>2. Len(buffer[c]) \in Nat /\ (Len(buffer[c]) = 0 <=> buffer[c] = <<>>)
  BY <1>1
<1> QED BY <1>2 DEF Issued

\* All stores are in memory when the buffer is empty.
LEMMA IssuedAll ==
  ASSUME NEW c \in CPU, NEW s, NEW n \in Nat, Issued(c, s, n), buffer[c] = <<>>
  PROVE  \A k \in 1..n : mem[s[k].at] = s[k].value
BY DEF Issued

\* A core stays idle while nobody stores into its frame.
LEMMA IdleKept ==
  ASSUME Types, NEW g \in Friends, Idle(g), pc'[g] = pc[g], ran'[g] = ran[g],
         buffer'[g] = buffer[g], mem'[g] = mem[g]
  PROVE  Idle(g)'
<1>1. g \in CPU /\ Enter(g)[1].at = g
  BY DEF CPU, Enter, To
<1>2. Issued(g, Enter(g), 0) => Issued(g, Enter(g), 0)'
  BY <1>1, IssuedKept
<1>3. Issued(g, Enter(g), 1) => Issued(g, Enter(g), 1)'
  BY <1>1, IssuedKept
<1> QED BY <1>2, <1>3 DEF Idle

\* The stage of a hand-shake depends on its two CPUs, on the words of the
\* object and on the frame of the core.
LEMMA StageKept ==
  ASSUME Types, NEW f \in Friends, Stage(f),
         pc'[f] = pc[f], ran'[f] = ran[f], target'[f] = target[f], buffer'[f] = buffer[f],
         pc'[Hakase] = pc[Hakase], frame'[Hakase] = frame[Hakase],
         buffer'[Hakase] = buffer[Hakase],
         \A l \in Words \cup {f} : mem'[l] = mem[l]
  PROVE  Stage(f)'
<1>1. f \in CPU /\ Hakase \in CPU
  BY Zenon DEF CPU
<1>2. /\ \A k \in 1..3 : Post(f)[k].at \in Words \cup {f} /\ Leave(f)[k].at \in Words \cup {f}
      /\ \A k \in 1..7 : Serve(f)[k].at \in Words \cup {f}
  BY DEF Post, Leave, Serve, To, Words
<1>3. \A n \in 0..3 : /\ Issued(f, Post(f), n) => Issued(f, Post(f), n)'
                      /\ Issued(f, Leave(f), n) => Issued(f, Leave(f), n)'
  BY <1>1, <1>2, IssuedKept
<1>4. \A n \in 0..7 : Issued(Hakase, Serve(f), n) => Issued(Hakase, Serve(f), n)'
  BY <1>1, <1>2, IssuedKept
<1>5. UNCHANGED <<mem["request"], mem["resume"], mem["friend_frame"], mem["friend_rip"], mem[f]>>
  BY DEF Words
<1>6. CASE Preparing(f)
  BY <1>3, <1>5, <1>6 DEF Preparing, Quiet, Drained, Home, Stage
<1>7. CASE Posted(f)
  BY <1>3, <1>5, <1>7 DEF Posted, Stage
<1>8. CASE Serving(f)
  BY <1>4, <1>5, <1>8 DEF Serving, Stage
<1>9. CASE Served(f)
  BY <1>4, <1>5, <1>9 DEF Served, Home, Stage
<1>10. CASE Waking(f)
  BY <1>3, <1>5, <1>10 DEF Waking, Drained, Home, Stage
<1>11. CASE Releasing(f)
  BY <1>3, <1>5, <1>11 DEF Releasing, Drained, Home, Stage
<1> QED BY <1>6, <1>7, <1>8, <1>9, <1>10, <1>11 DEF Stage

-----------------------------------------------------------------------------
(* Steps of cores that do not hold the lock *)

\* A step of c leaves the statement, the stack, the return address, the counter
\* and the buffer of CPU d alone.
Apart(d) ==
  /\ pc'[d] = pc[d] /\ frame'[d] = frame[d] /\ target'[d] = target[d] /\ ran'[d] = ran[d]
  /\ buffer'[d] = buffer[d]

\* A statement without a store.
LEMMA LocalEffect ==
  ASSUME Types, NEW c \in CPU, NEW a, NEW STATE b, b \in PC, Local(c, a, b)
  PROVE  /\ pc[c] = a /\ pc'[c] = b /\ pc' \in [CPU -> PC]
         /\ \A d \in CPU \ {c} : pc'[d] = pc[d]
         /\ mem' = mem /\ buffer' = buffer
BY DEF Types, Local, Step

\* CPU c issues store m of sequence s and goes on to statement b.
Issues(c, b, s, m) ==
  /\ pc'[c] = b /\ pc' \in [CPU -> PC]
  /\ \A d \in CPU \ {c} : pc'[d] = pc[d] /\ buffer'[d] = buffer[d]
  /\ mem' = mem /\ buffer' \in [CPU -> Seq(Entry)]
  /\ Issued(c, s, m)' /\ Len(buffer'[c]) = Len(buffer[c]) + 1

\* A statement that issues the next store of a sequence.
LEMMA StoreEffect ==
  ASSUME Types, NEW c \in CPU, NEW a, NEW b \in PC, NEW l, NEW STATE v, Store(c, a, b, l, v),
         NEW s, NEW n \in Nat, NEW m \in Nat, m = n + 1, Issued(c, s, n), Proper(s, m),
         s[m] = To(l, v)
  PROVE  Issues(c, b, s, m)
<1>0. s[n + 1] \in Entry /\ s[n + 1] = To(l, v)
  BY DEF Proper
<1>1. /\ buffer' = [buffer EXCEPT ![c] = Append(@, s[n + 1])] /\ mem' = mem
      /\ pc[c] = a /\ pc' = [pc EXCEPT ![c] = b]
  BY <1>0 DEF Store, Step, To
<1>2. /\ Issued(c, s, n + 1)' /\ buffer' \in [CPU -> Seq(Entry)]
      /\ Len(buffer'[c]) = Len(buffer[c]) + 1
  BY Zenon, <1>0, <1>1, StoreIssues
<1>3. pc'[c] = b /\ pc' \in [CPU -> PC] /\ \A d \in CPU \ {c} : pc'[d] = pc[d]
  BY <1>1 DEF Types
<1>4. \A d \in CPU \ {c} : buffer'[d] = buffer[d]
  BY Zenon, <1>1 DEF Types
<1> QED BY <1>1, <1>2, <1>3, <1>4 DEF Issues

\* Whoever is at the entry executes the entry.
LEMMA EntrySteps ==
  ASSUME NEW f \in Friends, pc[f] \in EntryPC, CpuStep(f)
  PROVE  EnterOffload(f) \/ TestLock(f) \/ CasLock(f)
BY Zenon DEF EntryPC, CpuStep, Step, Store, Local, LoadFrame, WaitFrame, WaitRip, WaitPost, Spin,
   WakeFrame, WakeRip, WakeClear, WakeRet, Code, SetFrame, SetRip, BackFrame, BackRip, Unlock,
   CallTryReceive, Poll, Take, TryFrame, TryRip, JumpFrame, JumpRip, Finish

\* An idle core stays idle unless its compare-and-swap succeeds.
LEMMA IdleStep ==
  ASSUME Types, OwnFrames, NEW f \in Friends, Idle(f), CpuStep(f),
         pc[f] = "cas" => mem["lock"] # 0
  PROVE  /\ Idle(f)' /\ Types' /\ frame' = frame /\ mem' = mem
         /\ \A d \in CPU \ {f} : Apart(d)
<1> USE DEF Apart
<1>1. f \in CPU /\ frame[f] = f /\ Enter(f)[1] = To(f, 0)
      /\ Proper(Enter(f), 1) /\ "test" \in PC
  BY Zenon, ProperSequences DEF CPU, OwnFrames, Enter, PC
<1>2. CASE EnterOffload(f)
  <2>1. /\ Store(f, "main", "test", f, 0) /\ left[f] \in Nat /\ left[f] > 0
        /\ left' = [left EXCEPT ![f] = @ - 1] /\ ran' = [ran EXCEPT ![f] = 0]
        /\ UNCHANGED <<frame, target>>
    BY Zenon, <1>1, <1>2 DEF EnterOffload, Types
  <2>2. pc[f] = "main" /\ Issued(f, Enter(f), 0)
    BY Zenon, <2>1 DEF Store, Step, Idle
  <2>3. /\ pc'[f] = "test" /\ pc' \in [CPU -> PC]
        /\ \A d \in CPU \ {f} : pc'[d] = pc[d] /\ buffer'[d] = buffer[d]
        /\ mem' = mem /\ buffer' \in [CPU -> Seq(Entry)] /\ Issued(f, Enter(f), 1)'
    <3>1. 0 \in Nat /\ 1 \in Nat /\ 1 = 0 + 1
      OBVIOUS
    <3>2. Issues(f, "test", Enter(f), 1)
      BY Zenon, <1>1, <2>1, <2>2, <3>1, StoreEffect
    <3> QED BY <3>2 DEF Issues
  <2>4. /\ left' \in [CPU -> Nat] /\ ran' \in [CPU -> Nat] /\ ran'[f] = 0
        /\ \A d \in CPU \ {f} : ran'[d] = ran[d]
    BY <1>1, <2>1 DEF Types
  <2>5. Types'
    BY Zenon, <2>1, <2>3, <2>4 DEF Types
  <2>6. Idle(f)'
    BY Zenon, <2>3, <2>4 DEF Idle, EntryPC
  <2> QED BY Zenon, <2>1, <2>3, <2>4, <2>5, <2>6
<1>3. CASE TestLock(f) \/ CasLock(f)
  <2>1. /\ pc[f] \in {"test", "cas"} /\ \E b \in {"test", "cas"} : pc' = [pc EXCEPT ![f] = b]
        /\ UNCHANGED <<mem, buffer, frame, target, left, ran>>
    BY Zenon, <1>3 DEF TestLock, CasLock, Local, Step, registers
  <2>2. /\ pc' \in [CPU -> PC] /\ pc'[f] \in {"test", "cas"}
        /\ \A d \in CPU \ {f} : pc'[d] = pc[d]
    BY <1>1, <2>1 DEF Types, PC
  <2>3. Types'
    BY <2>1, <2>2 DEF Types
  <2>4. Issued(f, Enter(f), 1)' /\ ran'[f] = 0
    BY Zenon, <2>1 DEF Idle, Issued
  <2>5. Idle(f)'
    BY Zenon, <2>2, <2>4 DEF Idle, EntryPC
  <2> QED BY Zenon, <2>1, <2>2, <2>3, <2>5
<1> QED BY Zenon, <1>2, <1>3, EntrySteps DEF Idle

\* The compare-and-swap succeeds: the buffer is empty, and the hand-shake begins.
LEMMA Acquires ==
  ASSUME Types, OwnFrames, Free, NEW f \in Friends, CpuStep(f), pc[f] = "cas"
  PROVE  Types' /\ OwnFrames' /\ Held(f)'
<1>1. f \in CPU /\ Idle(f) /\ "lock" \in Locations /\ mem["lock"] = 0
  BY DEF CPU, Free, Locations, Words
<1>2. CasLock(f)
  BY Zenon, <1>1, EntrySteps DEF Idle, EnterOffload, TestLock, Local, Store, Step
<1>3. /\ buffer[f] = <<>> /\ mem' = [mem EXCEPT !["lock"] = 1]
      /\ pc' = [pc EXCEPT ![f] = "wait_frame"]
      /\ UNCHANGED <<buffer, frame, target, left, ran>>
  BY Zenon, <1>1, <1>2 DEF CasLock, Step, registers
<1>4. /\ mem' \in [Locations -> Value] /\ mem'["lock"] = 1
      /\ \A l \in Locations \ {"lock"} : mem'[l] = mem[l]
  BY Zenon, <1>1, <1>3 DEF Types, Value
<1>5. /\ pc' \in [CPU -> PC] /\ pc'[f] = "wait_frame"
      /\ \A d \in CPU \ {f} : pc'[d] = pc[d]
  BY Zenon, <1>1, <1>3 DEF Types, PC
<1>6. Types'
  BY Zenon, <1>3, <1>4, <1>5 DEF Types
<1>7. Quiet'
  <2>1. Hakase \in CPU \ {f} /\ {"request", "resume"} \subseteq Locations \ {"lock"}
    BY Zenon, TSOAssumption DEF CPU, Locations, Words
  <2> QED BY <1>3, <1>4, <1>5, <2>1 DEF Free, Quiet, Drained, Home
<1>8. Issued(f, Post(f), 0)'
  BY <1>1, <1>3, <1>6, IssuedNone DEF Issued
<1>9. Preparing(f)'
  <2>1. ran'[f] = 0
    BY Zenon, <1>1, <1>3 DEF Idle
  <2> QED BY Zenon, <1>5, <1>7, <1>8, <2>1 DEF Preparing
<1>10. ASSUME NEW g \in Friends \ {f} PROVE Idle(g)'
  <2>1. g \in Friends /\ g \in CPU \ {f} /\ g \in Locations \ {"lock"} /\ Idle(g)
    BY Zenon, TSOAssumption DEF CPU, Locations, Words, Free
  <2> QED BY Zenon, <1>3, <1>4, <1>5, <2>1, IdleKept
<1> QED BY <1>3, <1>4, <1>6, <1>9, <1>10 DEF OwnFrames, Held, Stage

\* The only store in the buffer of an idle core is to its own frame.
LEMMA IdleFlush ==
  ASSUME Types, NEW f \in Friends, Idle(f), Flush(f)
  PROVE  /\ Idle(f)' /\ Types' /\ frame' = frame
         /\ \A l \in Locations \ {f} : mem'[l] = mem[l]
         /\ \A d \in CPU \ {f} : Apart(d)
<1>1. f \in CPU /\ Enter(f)[1] = To(f, 0) /\ f \in Locations
  BY DEF CPU, Enter, Locations
<1>2. UNCHANGED <<pc, frame, target, left, ran>> /\ buffer[f] # <<>>
  BY Zenon DEF Flush
<1>3. Issued(f, Enter(f), 1) /\ pc[f] # "main" /\ ran[f] = 0
  BY Zenon, <1>1, <1>2, IssuedNone DEF Idle
<1>4. PICK k \in 1..1 : Lands(f, Enter(f), 1, k)
  <2>1. 1 \in Nat /\ Proper(Enter(f), 1)
    BY Zenon, ProperSequences
  <2> QED BY Zenon, <1>1, <1>3, <2>1, FlushIssued
<1>5. /\ mem' = [mem EXCEPT ![f] = 0] /\ Issued(f, Enter(f), 1)'
      /\ mem' \in [Locations -> Value] /\ buffer' \in [CPU -> Seq(Entry)]
      /\ \A d \in CPU \ {f} : buffer'[d] = buffer[d]
  <2>1. Enter(f)[k].at = f /\ Enter(f)[k].value = 0
    BY <1>1 DEF To
  <2> QED BY Zenon, <1>4, <2>1 DEF Lands
<1>6. Types'
  BY Zenon, <1>2, <1>5 DEF Types
<1>7. Idle(f)'
  BY Zenon, <1>2, <1>3, <1>5 DEF Idle
<1>8. \A l \in Locations \ {f} : mem'[l] = mem[l]
  BY Zenon, <1>5 DEF Types
<1> QED BY Zenon, <1>2, <1>5, <1>6, <1>7, <1>8 DEF Apart

-----------------------------------------------------------------------------
(* Steps of the core that holds the lock *)

\* A CPU executes the statement it is at.
LEMMA StatementOf ==
  ASSUME NEW c \in CPU, CpuStep(c)
  PROVE  /\ pc[c] = "wait_frame" => WaitFrame(c)
         /\ pc[c] = "wait_rip" => WaitRip(c)
         /\ pc[c] = "wait_post" => WaitPost(c)
         /\ pc[c] = "spin" => Spin(c)
         /\ pc[c] = "wake_frame" => WakeFrame(c)
         /\ pc[c] = "wake_rip" => WakeRip(c)
         /\ pc[c] = "wake_clear" => WakeClear(c)
         /\ pc[c] = "wake_ret" => WakeRet(c)
         /\ pc[c] = "unlock" => Unlock(c)
         /\ pc[c] = "app" => CallTryReceive(c)
         /\ pc[c] = "poll" => Poll(c)
         /\ pc[c] = "take" => Take(c)
         /\ pc[c] = "try_frame" => TryFrame(c)
         /\ pc[c] = "try_rip" => TryRip(c)
         /\ pc[c] = "jump_frame" => JumpFrame(c)
         /\ pc[c] = "jump_rip" => JumpRip(c)
         /\ pc[c] = "code" => Code(c)
         /\ pc[c] = "set_frame" => SetFrame(c)
         /\ pc[c] = "set_rip" => SetRip(c)
         /\ pc[c] = "back_frame" => BackFrame(c)
         /\ pc[c] = "back_rip" => BackRip(c)
         /\ pc[c] = "finish" => Finish(c)
<1>1. /\ EnterOffload(c) => pc[c] = "main"
      /\ TestLock(c) => pc[c] = "test"
      /\ CasLock(c) => pc[c] = "cas"
      /\ WaitFrame(c) => pc[c] = "wait_frame"
      /\ WaitRip(c) => pc[c] = "wait_rip"
      /\ WaitPost(c) => pc[c] = "wait_post"
      /\ Spin(c) => pc[c] = "spin"
      /\ WakeFrame(c) => pc[c] = "wake_frame"
      /\ WakeRip(c) => pc[c] = "wake_rip"
      /\ WakeClear(c) => pc[c] = "wake_clear"
      /\ WakeRet(c) => pc[c] = "wake_ret"
      /\ Unlock(c) => pc[c] = "unlock"
      /\ CallTryReceive(c) => pc[c] = "app"
  BY Zenon DEF Step, Store, Local, LoadFrame, EnterOffload, TestLock, CasLock, WaitFrame, WaitRip,
     WaitPost, Spin, WakeFrame, WakeRip, WakeClear, WakeRet, Unlock, CallTryReceive
<1>2. /\ Poll(c) => pc[c] = "poll"
      /\ Take(c) => pc[c] = "take"
      /\ TryFrame(c) => pc[c] = "try_frame"
      /\ TryRip(c) => pc[c] = "try_rip"
      /\ JumpFrame(c) => pc[c] = "jump_frame"
      /\ JumpRip(c) => pc[c] = "jump_rip"
      /\ Code(c) => pc[c] = "code"
      /\ SetFrame(c) => pc[c] = "set_frame"
      /\ SetRip(c) => pc[c] = "set_rip"
      /\ BackFrame(c) => pc[c] = "back_frame"
      /\ BackRip(c) => pc[c] = "back_rip"
      /\ Finish(c) => pc[c] = "finish"
  BY Zenon DEF Step, Store, Local, LoadFrame, Poll, Take, TryFrame, TryRip, JumpFrame, JumpRip, Code,
     SetFrame, SetRip, BackFrame, BackRip, Finish
<1> QED BY Zenon, <1>1, <1>2 DEF CpuStep

\* The core goes on in its hand-shake, and everything else is as before.
Proceeds(f) ==
  /\ Stage(f)' /\ Types' /\ frame' = frame /\ mem' = mem
  /\ \A d \in CPU \ {f} : Apart(d)

\* What a store of the holder leaves alone.
LEMMA HolderStores ==
  ASSUME Types, NEW f \in Friends, UNCHANGED <<mem, frame, target, left, ran>>,
         pc' \in [CPU -> PC], buffer' \in [CPU -> Seq(Entry)],
         \A d \in CPU \ {f} : pc'[d] = pc[d] /\ buffer'[d] = buffer[d]
  PROVE  /\ Types' /\ \A d \in CPU \ {f} : Apart(d)
         /\ Drained' = Drained /\ Quiet' = Quiet
<1>1. Types'
  BY Zenon DEF Types
<1>2. Hakase \in CPU \ {f}
  BY Zenon, TSOAssumption DEF CPU
<1> QED BY Zenon, <1>1, <1>2 DEF Apart, Drained, Quiet, Home

\* The stores of the context and of the request.
LEMMA PreparingStep ==
  ASSUME Types, OwnFrames, NEW f \in Friends, Preparing(f), CpuStep(f)
  PROVE  Proceeds(f)
<1>1. /\ f \in CPU /\ frame[f] = f /\ {"wait_rip", "wait_post", "spin"} \subseteq PC
      /\ Proper(Post(f), 1) /\ Proper(Post(f), 2) /\ Proper(Post(f), 3)
      /\ Post(f)[1] = To("friend_frame", f) /\ Post(f)[2] = To("friend_rip", "wait_ret")
      /\ Post(f)[3] = To("request", 1)
  BY ProperSequences DEF CPU, OwnFrames, PC, Post
<1>3. CASE pc[f] = "wait_frame"
  <2>1. /\ Store(f, "wait_frame", "wait_rip", "friend_frame", f)
        /\ UNCHANGED <<frame, target, left, ran>> /\ Issued(f, Post(f), 0)
    BY ZenonT(40), <1>1, <1>3, StatementOf DEF WaitFrame, registers, Preparing
  <2>2. /\ pc'[f] = "wait_rip" /\ pc' \in [CPU -> PC] /\ mem' = mem
        /\ \A d \in CPU \ {f} : pc'[d] = pc[d] /\ buffer'[d] = buffer[d]
        /\ buffer' \in [CPU -> Seq(Entry)] /\ Issued(f, Post(f), 1)'
    <3>1. 0 \in Nat /\ 1 \in Nat /\ 1 = 0 + 1
      OBVIOUS
    <3>2. Issues(f, "wait_rip", Post(f), 1)
      BY Zenon, <1>1, <2>1, <3>1, StoreEffect
    <3> QED BY <3>2 DEF Issues
  <2>3. Types' /\ (\A d \in CPU \ {f} : Apart(d)) /\ Quiet' = Quiet
    BY Zenon, <1>1, <2>1, <2>2, HolderStores
  <2>4. Preparing(f)'
    BY Zenon, <2>1, <2>2, <2>3 DEF Preparing
  <2> QED BY <2>1, <2>2, <2>3, <2>4 DEF Proceeds, Stage
<1>4. CASE pc[f] = "wait_rip"
  <2>1. /\ Store(f, "wait_rip", "wait_post", "friend_rip", "wait_ret")
        /\ UNCHANGED <<frame, target, left, ran>> /\ Issued(f, Post(f), 1)
    BY Zenon, <1>1, <1>4, StatementOf DEF WaitRip, registers, Preparing
  <2>2. /\ pc'[f] = "wait_post" /\ pc' \in [CPU -> PC] /\ mem' = mem
        /\ \A d \in CPU \ {f} : pc'[d] = pc[d] /\ buffer'[d] = buffer[d]
        /\ buffer' \in [CPU -> Seq(Entry)] /\ Issued(f, Post(f), 2)'
    <3>1. 1 \in Nat /\ 2 \in Nat /\ 2 = 1 + 1
      OBVIOUS
    <3>2. Issues(f, "wait_post", Post(f), 2)
      BY Zenon, <1>1, <2>1, <3>1, StoreEffect
    <3> QED BY <3>2 DEF Issues
  <2>3. Types' /\ (\A d \in CPU \ {f} : Apart(d)) /\ Quiet' = Quiet
    BY Zenon, <1>1, <2>1, <2>2, HolderStores
  <2>4. Preparing(f)'
    BY Zenon, <2>1, <2>2, <2>3 DEF Preparing
  <2> QED BY Zenon, <2>1, <2>2, <2>3, <2>4 DEF Proceeds, Stage
<1>5. CASE pc[f] = "wait_post"
  <2>1. /\ Store(f, "wait_post", "spin", "request", 1)
        /\ UNCHANGED <<frame, target, left, ran>> /\ Issued(f, Post(f), 2)
    BY Zenon, <1>1, <1>5, StatementOf DEF WaitPost, registers, Preparing
  <2>2. /\ pc'[f] = "spin" /\ pc' \in [CPU -> PC] /\ mem' = mem
        /\ \A d \in CPU \ {f} : pc'[d] = pc[d] /\ buffer'[d] = buffer[d]
        /\ buffer' \in [CPU -> Seq(Entry)] /\ Issued(f, Post(f), 3)'
    <3>1. 2 \in Nat /\ 3 \in Nat /\ 3 = 2 + 1
      OBVIOUS
    <3>2. Issues(f, "spin", Post(f), 3)
      BY <1>1, <2>1, <3>1, StoreEffect
    <3> QED BY <3>2 DEF Issues
  <2>3. Types' /\ (\A d \in CPU \ {f} : Apart(d)) /\ Quiet'
    BY ZenonT(40), <1>1, <2>1, <2>2, HolderStores DEF Preparing
  <2>4. Posted(f)'
    BY <2>1, <2>2, <2>3 DEF Preparing, Posted, Quiet, Drained, Home
  <2> QED BY Zenon, <2>1, <2>2, <2>3, <2>4 DEF Proceeds, Stage
<1> QED BY Zenon, <1>3, <1>4, <1>5 DEF Preparing

\* A core that has posted, or whose request is being served, keeps spinning.
LEMMA SpinWaits ==
  ASSUME Types, NEW f \in Friends, Posted(f) \/ Serving(f), CpuStep(f)
  PROVE  FALSE
<1>1. f \in CPU /\ Read(f, "resume") # 0 /\ mem["resume"] = 0
  BY Zenon, StatementOf DEF Posted, Serving, Spin, CPU
<1>2. CASE Posted(f)
  <2>1. Issued(f, Post(f), 3) /\ 3 \in Nat /\ \A k \in 1..3 : Post(f)[k].at # "resume"
    BY <1>2 DEF Posted, Post, To
  <2> QED BY <1>1, <2>1, ReadMemory
<1>3. CASE Serving(f)
  <2>1. Issued(f, Post(f), 0) /\ 0 \in Nat /\ \A k \in 1..0 : Post(f)[k].at # "resume"
    BY <1>1, <1>3, IssuedNone DEF Serving
  <2> QED BY <1>1, <2>1, ReadMemory
<1> QED BY <1>2, <1>3

\* Seeing resume, the core sees all that hakase has stored before.
LEMMA ServedStep ==
  ASSUME Types, NEW f \in Friends, Served(f), CpuStep(f)
  PROVE  Proceeds(f)
<1>1. f \in CPU /\ Hakase \in CPU \ {f} /\ "wake_frame" \in PC
  BY TSOAssumption DEF CPU, PC
<1>2. /\ Local(f, "spin", "wake_frame") /\ UNCHANGED <<frame, target, left, ran>>
      /\ Read(f, "resume") # 0 /\ buffer[f] = <<>>
  BY ZenonT(40), <1>1, StatementOf DEF Served, Spin, registers
<1>3. /\ pc'[f] = "wake_frame" /\ pc' \in [CPU -> PC] /\ mem' = mem /\ buffer' = buffer
      /\ \A d \in CPU \ {f} : pc'[d] = pc[d]
  BY Zenon, <1>1, <1>2, LocalEffect
<1>4. Types' /\ \A d \in CPU \ {f} : Apart(d)
  BY Zenon, <1>2, <1>3 DEF Types, Apart
<1>5. mem["resume"] = 1 /\ buffer[Hakase] = <<>>
  <2>1. Issued(f, Leave(f), 0) /\ 0 \in Nat /\ \A k \in 1..0 : Leave(f)[k].at # "resume"
    BY <1>1, <1>2, IssuedNone
  <2>2. Read(f, "resume") = mem["resume"]
    BY <1>1, <2>1, ReadMemory
  <2> QED BY Zenon, <1>2, <2>2 DEF Served
<1>6. \A k \in 1..7 : mem[Serve(f)[k].at] = Serve(f)[k].value
  BY <1>1, <1>5, IssuedAll DEF Served
<1>7. /\ mem["request"] = 0 /\ mem[f] = 1 /\ mem["friend_frame"] = f
      /\ mem["friend_rip"] = "set_ret"
  <2>1. /\ Serve(f)[1] = To("request", 0) /\ Serve(f)[4] = To(f, 1)
        /\ Serve(f)[5] = To("friend_frame", f) /\ Serve(f)[6] = To("friend_rip", "set_ret")
    BY Zenon DEF Serve
  <2> QED BY <1>6, <2>1 DEF To
<1>8. Issued(f, Leave(f), 0)'
  BY <1>1, <1>2, <1>3, <1>4, IssuedNone DEF Issued
<1>9. Waking(f)'
  BY Zenon, <1>1, <1>2, <1>3, <1>5, <1>7, <1>8 DEF Waking, Served, Drained, Home
<1> QED BY Zenon, <1>2, <1>3, <1>4, <1>9 DEF Proceeds, Stage

\* The core goes on in setjmp_with_wait, with what hakase has left in the
\* context, and gives the lock back.
LEMMA WakingStep ==
  ASSUME Types, OwnFrames, NEW f \in Friends, Waking(f), CpuStep(f)
  PROVE  Proceeds(f)
<1>1. /\ f \in CPU /\ frame[f] = f /\ Hakase \in CPU \ {f}
      /\ {"wake_rip", "wake_clear", "wake_ret", "unlock", "main"} \subseteq PC
      /\ Proper(Leave(f), 1) /\ Proper(Leave(f), 2)
      /\ Leave(f)[1] = To("resume", 0) /\ Leave(f)[2] = To("lock", 0)
  BY TSOAssumption, ProperSequences DEF CPU, OwnFrames, PC, Leave
<1>2. ASSUME Issued(f, Leave(f), 0), NEW l PROVE Read(f, l) = mem[l]
  <2>1. 0 \in Nat /\ \A k \in 1..0 : Leave(f)[k].at # l
    OBVIOUS
  <2> QED BY <1>1, <1>2, <2>1, ReadMemory
<1>3. CASE pc[f] = "wake_frame"
  <2>1. /\ Local(f, "wake_frame", "wake_rip") /\ UNCHANGED <<target, left, ran>>
        /\ frame' = [frame EXCEPT ![f] = Read(f, "friend_frame")]
    BY Zenon, <1>1, <1>3, StatementOf DEF WakeFrame, LoadFrame
  <2>2. /\ pc'[f] = "wake_rip" /\ pc' \in [CPU -> PC] /\ mem' = mem /\ buffer' = buffer
        /\ \A d \in CPU \ {f} : pc'[d] = pc[d]
    BY <1>1, <2>1, LocalEffect
  <2>3. frame' = frame
    <3>1. Read(f, "friend_frame") = f
      BY <1>2, <1>3 DEF Waking
    <3> QED BY Zenon, <1>1, <2>1, <3>1 DEF Types
  <2>4. Types' /\ (\A d \in CPU \ {f} : Apart(d)) /\ Drained' = Drained
    BY ZenonT(40), <2>1, <2>2, <2>3, HolderStores DEF Types
  <2>5. Issued(f, Leave(f), 0)'
    BY Zenon, <1>3, <2>2 DEF Waking, Issued
  <2>6. Waking(f)'
    BY Zenon, <1>3, <2>1, <2>2, <2>4, <2>5 DEF Waking
  <2> QED BY Zenon, <2>2, <2>3, <2>4, <2>6 DEF Proceeds, Stage
<1>4. CASE pc[f] = "wake_rip"
  <2>1. /\ Local(f, "wake_rip", "wake_clear") /\ UNCHANGED <<frame, left, ran>>
        /\ target' = [target EXCEPT ![f] = Read(f, "friend_rip")]
    BY Zenon, <1>1, <1>4, StatementOf DEF WakeRip
  <2>2. /\ pc'[f] = "wake_clear" /\ pc' \in [CPU -> PC] /\ mem' = mem /\ buffer' = buffer
        /\ \A d \in CPU \ {f} : pc'[d] = pc[d]
    BY <1>1, <2>1, LocalEffect
  <2>3. /\ target' \in [CPU -> Value] /\ target'[f] = "set_ret"
        /\ \A d \in CPU \ {f} : target'[d] = target[d]
    <3>1. Read(f, "friend_rip") = "set_ret" /\ "set_ret" \in Value
      BY Zenon, <1>2, <1>4 DEF Waking, Value, ReturnAddress
    <3> QED BY Zenon, <1>1, <2>1, <3>1 DEF Types
  <2>4. Types' /\ (\A d \in CPU \ {f} : Apart(d)) /\ Drained' = Drained
    BY Zenon, <1>1, <2>1, <2>2, <2>3 DEF Types, Apart, Drained, Home
  <2>5. Issued(f, Leave(f), 0)'
    BY Zenon, <1>4, <2>2 DEF Waking, Issued
  <2>6. Waking(f)'
    BY Zenon, <1>4, <2>1, <2>2, <2>3, <2>4, <2>5 DEF Waking
  <2> QED BY Zenon, <2>1, <2>2, <2>4, <2>6 DEF Proceeds, Stage
<1>5. CASE pc[f] = "wake_clear"
  <2>1. /\ Store(f, "wake_clear", "wake_ret", "resume", 0)
        /\ UNCHANGED <<frame, target, left, ran>> /\ Issued(f, Leave(f), 0)
    BY ZenonT(40), <1>1, <1>5, StatementOf DEF WakeClear, registers, Waking
  <2>2. Issues(f, "wake_ret", Leave(f), 1)
    <3>1. 0 \in Nat /\ 1 \in Nat /\ 1 = 0 + 1
      OBVIOUS
    <3> QED BY ZenonT(40), <1>1, <2>1, <3>1, StoreEffect
  <2>3. Types' /\ (\A d \in CPU \ {f} : Apart(d)) /\ Drained' = Drained
    BY Zenon, <2>1, <2>2, HolderStores DEF Issues
  <2>4. Waking(f)'
    BY Zenon, <1>5, <2>1, <2>2, <2>3 DEF Waking, Issues
  <2> QED BY Zenon, <2>1, <2>2, <2>3, <2>4 DEF Proceeds, Stage, Issues
<1>6. CASE pc[f] = "wake_ret"
  <2>1. Local(f, "wake_ret", Resumed(target[f], 1)) /\ UNCHANGED <<frame, target, left, ran>>
    BY Zenon, <1>1, <1>6, StatementOf DEF WakeRet, registers
  <2>2. Resumed(target[f], 1) = "unlock"
    BY <1>6 DEF Waking, Resumed
  <2>3. /\ pc'[f] = "unlock" /\ pc' \in [CPU -> PC] /\ mem' = mem /\ buffer' = buffer
        /\ \A d \in CPU \ {f} : pc'[d] = pc[d]
    BY <1>1, <2>1, <2>2, LocalEffect
  <2>4. Types' /\ (\A d \in CPU \ {f} : Apart(d)) /\ Drained' = Drained
    BY ZenonT(40), <2>1, <2>3, HolderStores DEF Types
  <2>5. Issued(f, Leave(f), 1)'
    BY Zenon, <1>6, <2>3 DEF Waking, Issued
  <2>6. Waking(f)'
    BY <1>6, <2>1, <2>3, <2>4, <2>5 DEF Waking
  <2> QED BY Zenon, <2>1, <2>3, <2>4, <2>6 DEF Proceeds, Stage
<1>7. CASE pc[f] = "unlock"
  <2>1. /\ Store(f, "unlock", "main", "lock", 0)
        /\ UNCHANGED <<frame, target, left, ran>> /\ Issued(f, Leave(f), 1)
    BY ZenonT(40), <1>1, <1>7, StatementOf DEF Unlock, registers, Waking
  <2>2. Issues(f, "main", Leave(f), 2)
    <3>1. 1 \in Nat /\ 2 \in Nat /\ 2 = 1 + 1
      OBVIOUS
    <3> QED BY Zenon, <1>1, <2>1, <3>1, StoreEffect
  <2>3. Types' /\ (\A d \in CPU \ {f} : Apart(d)) /\ Drained' = Drained
    BY Zenon, <2>1, <2>2, HolderStores DEF Issues
  <2>4. Len(buffer'[f]) >= 1
    <3>1. Len(buffer[f]) \in Nat
      BY <1>1 DEF Types
    <3> QED BY <2>2, <3>1 DEF Issues
  <2>5. Releasing(f)'
    BY Zenon, <1>7, <2>2, <2>3, <2>4 DEF Waking, Releasing, EntryPC, Issues
  <2> QED BY <2>1, <2>2, <2>3, <2>5 DEF Proceeds, Stage, Issues
<1> QED BY Zenon, <1>3, <1>4, <1>5, <1>6, <1>7 DEF Waking

\* While the lock is not free in memory the core can enter its next OFFLOAD,
\* and even sees the lock free, but its compare-and-swap must wait.
LEMMA ReleasingStep ==
  ASSUME Types, OwnFrames, NEW f \in Friends, Releasing(f), CpuStep(f)
  PROVE  Proceeds(f)
<1>1. /\ f \in CPU /\ frame[f] = f /\ Hakase \in CPU \ {f} /\ {"test", "cas"} \subseteq PC
      /\ Proper(Leave(f), 3) /\ Leave(f)[3] = To(f, 0) /\ Len(buffer[f]) \in Nat
  <2>1. f \in CPU /\ frame[f] = f /\ Hakase \in CPU \ {f} /\ {"test", "cas"} \subseteq PC
    BY Zenon, TSOAssumption DEF CPU, OwnFrames, PC
  <2>2. Proper(Leave(f), 3) /\ Leave(f)[3] = To(f, 0)
    BY ProperSequences DEF Leave
  <2>3. Len(buffer[f]) \in Nat
    BY <2>1 DEF Types
  <2> QED BY Zenon, <2>1, <2>2, <2>3
<1>2. CASE EnterOffload(f)
  <2>1. /\ Store(f, "main", "test", f, 0) /\ left[f] \in Nat /\ left[f] > 0
        /\ left' = [left EXCEPT ![f] = @ - 1] /\ ran' = [ran EXCEPT ![f] = 0]
        /\ UNCHANGED <<frame, target>>
    BY Zenon, <1>1, <1>2 DEF EnterOffload, Types
  <2>2. pc[f] = "main" /\ Issued(f, Leave(f), 2) /\ Len(buffer[f]) >= 1
    BY <2>1 DEF Store, Step, Releasing
  <2>3. Issues(f, "test", Leave(f), 3)
    <3>1. 2 \in Nat /\ 3 \in Nat /\ 3 = 2 + 1
      OBVIOUS
    <3> QED BY Zenon, <1>1, <2>1, <2>2, <3>1, StoreEffect
  <2>4. /\ left' \in [CPU -> Nat] /\ ran' \in [CPU -> Nat] /\ ran'[f] = 0
        /\ \A d \in CPU \ {f} : ran'[d] = ran[d]
    BY <1>1, <2>1 DEF Types
  <2>5. Types' /\ (\A d \in CPU \ {f} : Apart(d)) /\ Drained' = Drained
    BY Zenon, <1>1, <2>1, <2>3, <2>4 DEF Types, Apart, Drained, Home, Issues
  <2>6. Len(buffer'[f]) >= 2
    BY <1>1, <2>2, <2>3 DEF Issues
  <2>7. Releasing(f)'
    BY Zenon, <2>3, <2>4, <2>5, <2>6 DEF Releasing, EntryPC, Issues
  <2> QED BY Zenon, <2>1, <2>3, <2>5, <2>7 DEF Proceeds, Stage, Issues
<1>3. CASE TestLock(f)
  <2>1. Local(f, "test", "cas") /\ UNCHANGED <<frame, target, left, ran>>
    BY Zenon, <1>3 DEF TestLock, registers
  <2>2. /\ pc[f] = "test" /\ pc'[f] = "cas" /\ pc' \in [CPU -> PC] /\ mem' = mem
        /\ buffer' = buffer /\ \A d \in CPU \ {f} : pc'[d] = pc[d]
    BY <1>1, <2>1, LocalEffect
  <2>3. Types' /\ (\A d \in CPU \ {f} : Apart(d)) /\ Drained' = Drained
    BY Zenon, <2>1, <2>2, HolderStores DEF Types
  <2>4. Issued(f, Leave(f), 3)'
    BY ZenonT(40), <2>2 DEF Releasing, Issued
  <2>5. Releasing(f)'
    BY Zenon, <2>1, <2>2, <2>3, <2>4 DEF Releasing, EntryPC
  <2> QED BY Zenon, <2>1, <2>2, <2>3, <2>5 DEF Proceeds, Stage
<1>4. CASE CasLock(f)
  <2>1. buffer[f] = <<>> /\ pc[f] = "cas"
    BY Zenon, <1>4 DEF CasLock, Step
  <2>2. Len(buffer[f]) >= 2
    BY Zenon, <2>1 DEF Releasing
  <2> QED BY <2>1, <2>2
<1> QED BY Zenon, <1>2, <1>3, <1>4, EntrySteps DEF Releasing

-----------------------------------------------------------------------------
(* The store buffer of the core that holds the lock *)

\* Value v gets to word l of memory, and all else stays as it is.
Writes(c, l, v) ==
  /\ Types' /\ UNCHANGED <<pc, frame, target, left, ran>>
  /\ \A d \in CPU \ {c} : Apart(d)
  /\ \A m \in Locations \ {l} : mem'[m] = mem[m]
  /\ l \in Locations => mem'[l] = v

\* A store that lands writes one word.
LEMMA FlushKeeps ==
  ASSUME Types, NEW c \in CPU, Flush(c), NEW s, NEW n \in Nat, NEW k \in 1..n,
         Lands(c, s, n, k)
  PROVE  Writes(c, s[k].at, s[k].value) /\ Issued(c, s, n)'
<1> DEFINE l == s[k].at
           v == s[k].value
<1>1. /\ mem \in [Locations -> Value] /\ mem' = [mem EXCEPT ![l] = v]
      /\ mem' \in [Locations -> Value] /\ buffer' \in [CPU -> Seq(Entry)]
      /\ \A d \in CPU \ {c} : buffer'[d] = buffer[d]
      /\ Issued(c, s, n)'
  BY Zenon DEF Lands, Types
<1>2. UNCHANGED <<pc, frame, target, left, ran>>
  BY Zenon DEF Flush
<1>3. Types'
  BY Zenon, <1>1, <1>2 DEF Types
<1>4. \A d \in CPU \ {c} : Apart(d)
  BY Zenon, <1>1, <1>2 DEF Apart
<1>5. (\A m \in Locations \ {l} : mem'[m] = mem[m]) /\ (l \in Locations => mem'[l] = v)
  BY Zenon, <1>1
<1> QED BY Zenon, <1>1, <1>2, <1>3, <1>4, <1>5 DEF Writes

\* What a store of core f to word l disturbs.
Lets(f, l) ==
  /\ Types' /\ frame' = frame /\ \A d \in CPU \ {f} : Apart(d)
  /\ \A m \in Locations \ {l} : mem'[m] = mem[m]

\* The context gets to memory before the request.
LEMMA PostFlush ==
  ASSUME Types, NEW f \in Friends, Preparing(f) \/ Posted(f), Flush(f)
  PROVE  Stage(f)' /\ \E l \in {"friend_frame", "friend_rip", "request"} : Lets(f, l)
<1>1. /\ f \in CPU /\ Hakase \in CPU \ {f} /\ f \in Locations
      /\ {"friend_frame", "friend_rip", "request", "resume"} \subseteq Locations
      /\ \A n \in 0..3 : Proper(Post(f), n)
  BY Zenon, TSOAssumption, ProperSequences DEF CPU, Locations, Words
<1>2. /\ Post(f)[1] = To("friend_frame", f) /\ Post(f)[2] = To("friend_rip", "wait_ret")
      /\ Post(f)[3] = To("request", 1)
  BY Zenon DEF Post
<1>3. PICK n \in 0..3 : /\ Issued(f, Post(f), n) /\ (Posted(f) => n = 3)
                        /\ Preparing(f) /\ pc[f] = "wait_frame" => n = 0
                        /\ Preparing(f) /\ pc[f] = "wait_rip" => n = 1
                        /\ Preparing(f) /\ pc[f] = "wait_post" => n = 2
  <2>1. Preparing(f) => pc[f] # "spin"
    BY Zenon DEF Preparing
  <2>2. Posted(f) => pc[f] = "spin" /\ Issued(f, Post(f), 3)
    BY Zenon DEF Posted
  <2> QED BY <2>1, <2>2 DEF Preparing
<1>4. PICK k \in 1..n : Lands(f, Post(f), n, k)
  BY <1>1, <1>3, FlushIssued
<1> DEFINE l == Post(f)[k].at
           v == Post(f)[k].value
<1>5. /\ l \in {"friend_frame", "friend_rip", "request"} /\ (l = "request" => k = 3 /\ v = 1)
  BY <1>2, <1>3, <1>4 DEF To
<1>6. /\ Types' /\ UNCHANGED <<pc, frame, target, left, ran>>
      /\ \A d \in CPU \ {f} : Apart(d)
      /\ \A m \in Locations \ {l} : mem'[m] = mem[m]
      /\ l \in Locations => mem'[l] = v
      /\ Issued(f, Post(f), n)'
  <2>1. Writes(f, Post(f)[k].at, Post(f)[k].value) /\ Issued(f, Post(f), n)'
    BY <1>1, <1>4, FlushKeeps
  <2> QED BY Zenon, <2>1 DEF Writes
<1> HIDE DEF l, v
<1>7. mem'["resume"] = mem["resume"] /\ (l # "request" => mem'["request"] = mem["request"])
  BY Zenon, <1>1, <1>5, <1>6
<1>8. CASE Preparing(f)
  <2>1. n # 3 /\ l # "request"
    BY <1>3, <1>4, <1>5, <1>8 DEF Preparing
  <2>2. Quiet'
    BY Zenon, <1>1, <1>6, <1>7, <1>8, <2>1 DEF Preparing, Quiet, Drained, Home, Apart
  <2>3. Preparing(f)'
    BY Zenon, <1>3, <1>6, <1>8, <2>2 DEF Preparing
  <2> QED BY Zenon, <1>5, <1>6, <2>3 DEF Stage, Lets
<1>9. CASE Posted(f)
  <2>1. n = 3 /\ buffer[f] # <<>> /\ mem["request"] = 0
    BY Zenon, <1>3, <1>9 DEF Posted, Flush
  <2>2. l = "request" => mem'["request"] = 1 /\ buffer'[f] = <<>>
    <3>1. buffer'[f] \in Seq(Entry)
      BY Zenon, <1>1, <1>6 DEF Types
    <3>2. l = "request" => Len(buffer'[f]) = 0
      BY <1>4, <1>5, <2>1, <3>1 DEF Lands
    <3> QED BY <1>1, <1>5, <1>6, <3>1, <3>2
  <2>3. Posted(f)'
    BY Zenon, <1>1, <1>6, <1>7, <1>9, <2>1, <2>2 DEF Posted, Apart
  <2> QED BY Zenon, <1>5, <1>6, <2>3 DEF Stage, Lets
<1> QED BY Zenon, <1>8, <1>9

\* A core that waits for hakase, or has just been woken, has an empty buffer.
LEMMA NothingToFlush ==
  ASSUME NEW f \in Friends, Serving(f) \/ Served(f), Flush(f)
  PROVE  FALSE
BY Zenon DEF Serving, Served, Flush

\* resume is lowered in memory.
LEMMA WakingFlush ==
  ASSUME Types, NEW f \in Friends, Waking(f), Flush(f)
  PROVE  Stage(f)' /\ Lets(f, "resume")
<1>1. /\ f \in CPU /\ Hakase \in CPU \ {f} /\ f \in Locations \ {"resume"}
      /\ {"friend_frame", "friend_rip", "request"} \subseteq Locations \ {"resume"}
      /\ Proper(Leave(f), 1)
  BY TSOAssumption, ProperSequences DEF CPU, Locations, Words
<1>2. Leave(f)[1].at = "resume" /\ Leave(f)[1].value = 0
  BY Zenon DEF Leave, To
<1>3. Issued(f, Leave(f), 1) /\ pc[f] \in {"wake_ret", "unlock"}
  BY Zenon, <1>1, IssuedNone DEF Waking, Flush
<1>4. PICK k \in 1..1 : Lands(f, Leave(f), 1, k)
  <2>1. 1 \in Nat
    OBVIOUS
  <2> QED BY <1>1, <1>3, <2>1, FlushIssued
<1>5. k = 1
  OBVIOUS
<1>6. /\ Types' /\ UNCHANGED <<pc, frame, target, left, ran>>
      /\ \A d \in CPU \ {f} : Apart(d)
      /\ \A m \in Locations \ {"resume"} : mem'[m] = mem[m]
      /\ Issued(f, Leave(f), 1)'
  <2>1. 1 \in Nat /\ 1 \in 1..1 /\ Lands(f, Leave(f), 1, 1)
    BY Zenon, <1>4, <1>5
  <2>2. Writes(f, Leave(f)[1].at, Leave(f)[1].value) /\ Issued(f, Leave(f), 1)'
    BY Zenon, <1>1, <2>1, FlushKeeps
  <2> QED BY Zenon, <1>2, <2>2 DEF Writes
<1>7. Drained'
  BY Zenon, <1>1, <1>6 DEF Waking, Drained, Home, Apart
<1>8. Waking(f)'
  BY Zenon, <1>1, <1>3, <1>6, <1>7 DEF Waking
<1> QED BY Zenon, <1>6, <1>8 DEF Stage, Lets

\* The lock gets free in memory after resume is lowered there: then the core is
\* idle, and nothing of the hand-shake is left.
LEMMA ReleasingFlush ==
  ASSUME Types, NEW f \in Friends, Releasing(f), Flush(f)
  PROVE  \/ Stage(f)' /\ Lets(f, "resume")
         \/ Idle(f)' /\ Quiet' /\ mem'["lock"] = 0 /\ Lets(f, "lock")
<1>1. /\ f \in CPU /\ Hakase \in CPU \ {f} /\ f \in Locations
      /\ {"request", "resume", "lock"} \subseteq Locations
      /\ Proper(Leave(f), 2) /\ Proper(Leave(f), 3)
  BY TSOAssumption, ProperSequences DEF CPU, Locations, Words
<1>2. /\ Leave(f)[1] = To("resume", 0) /\ Leave(f)[2] = To("lock", 0)
      /\ Leave(f)[3] = To(f, 0) /\ Enter(f)[1] = To(f, 0)
  BY Zenon DEF Leave, Enter
<1>3. PICK n \in {2, 3} : /\ Issued(f, Leave(f), n) /\ Len(buffer[f]) >= n - 1
                          /\ pc[f] = "main" => n = 2
                          /\ pc[f] # "main" => n = 3
  BY DEF Releasing
<1>4. PICK k \in 1..n : Lands(f, Leave(f), n, k)
  <2>1. n \in Nat /\ Proper(Leave(f), n)
    BY <1>1
  <2> QED BY Zenon, <1>1, <1>3, <2>1, FlushIssued
<1>5. /\ k \in {1, 2} /\ Len(buffer'[f]) = n - k
      /\ Leave(f)[k].at \in {"resume", "lock"} /\ Leave(f)[k].value = 0
  <2>1. Len(buffer[f]) = n - k + 1 /\ k = n - Len(buffer'[f])
    BY Zenon, <1>4 DEF Lands
  <2>2. Len(buffer[f]) \in Nat
    BY <1>1 DEF Types
  <2>3. Len(buffer'[f]) \in Nat
    BY <1>1, <1>4 DEF Lands
  <2>4. k \in {1, 2} /\ Len(buffer'[f]) = n - k
    BY <1>3, <2>1, <2>2, <2>3
  <2> QED BY <1>2, <2>4 DEF To
<1>6. /\ Types' /\ UNCHANGED <<pc, frame, target, left, ran>>
      /\ \A d \in CPU \ {f} : Apart(d)
      /\ \A m \in Locations \ {Leave(f)[k].at} : mem'[m] = mem[m]
      /\ mem'[Leave(f)[k].at] = 0
      /\ Issued(f, Leave(f), n)'
  <2>1. n \in Nat /\ Leave(f)[k].at \in Locations
    BY <1>1, <1>5
  <2>2. Writes(f, Leave(f)[k].at, Leave(f)[k].value) /\ Issued(f, Leave(f), n)'
    BY Zenon, <1>1, <1>4, <2>1, FlushKeeps
  <2> QED BY Zenon, <1>5, <2>1, <2>2 DEF Writes
<1>7. Drained'
  <2>1. "request" \in Locations \ {Leave(f)[k].at}
    BY Zenon, <1>1, <1>5
  <2> QED BY Zenon, <1>1, <1>6, <2>1 DEF Releasing, Drained, Home, Apart
<1>8. CASE k = 1
  <2>1. Leave(f)[k].at = "resume"
    BY <1>2, <1>8 DEF To
  <2>2. Len(buffer'[f]) = n - 1
    BY Zenon, <1>5, <1>8
  <2>3. Releasing(f)'
    BY <1>3, <1>6, <1>7, <2>2 DEF Releasing
  <2> QED BY Zenon, <1>6, <2>1, <2>3 DEF Stage, Lets
<1>9. CASE k = 2
  <2>1. Leave(f)[k].at = "lock"
    BY <1>2, <1>9 DEF To
  <2>2. mem'["resume"] = 0 /\ Len(buffer'[f]) = n - 2
    <3>1. Len(buffer'[f]) = n - 2 /\ 1 \in 1..n - Len(buffer'[f])
      BY <1>3, <1>5, <1>9
    <3> QED BY <1>2, <1>6, <3>1 DEF Issued, To
  <2>3. Quiet'
    BY Zenon, <1>7, <2>2 DEF Quiet
  <2>4. Idle(f)'
    <3>1. CASE pc[f] = "main"
      <4>1. Len(buffer'[f]) = 0 /\ buffer'[f] \in Seq(Entry)
        BY <1>1, <1>3, <1>6, <2>2, <3>1 DEF Types
      <4>2. Issued(f, Enter(f), 0)'
        BY <4>1 DEF Issued
      <4> QED BY Zenon, <1>6, <3>1, <4>2 DEF Idle, EntryPC
    <3>2. CASE pc[f] # "main"
      <4>1. n = 3 /\ Len(buffer'[f]) = 1 /\ ran[f] = 0 /\ pc[f] \in EntryPC
        BY <1>3, <2>2, <3>2 DEF Releasing
      <4>2. buffer'[f][1] = To(f, 0)
        BY <1>2, <1>6, <4>1 DEF Issued
      <4>3. Issued(f, Enter(f), 1)'
        BY <1>2, <4>1, <4>2 DEF Issued
      <4> QED BY Zenon, <1>6, <3>2, <4>1, <4>3 DEF Idle
    <3> QED BY Zenon, <3>1, <3>2
  <2> QED BY Zenon, <1>6, <2>1, <2>3, <2>4 DEF Lets
<1> QED BY Zenon, <1>5, <1>8, <1>9

=============================================================================
