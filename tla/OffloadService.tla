--------------------------- MODULE OffloadService ---------------------------
(***************************************************************************)
(* What OFFLOAD promises to friend code: a block handed over by a friend   *)
(* core is executed by hakase exactly once, blocks of different cores are  *)
(* executed one at a time, and the core continues only after its block     *)
(* has been executed.  How lock, context buffers and flags achieve this is *)
(* the business of module Offload, which implements this one.              *)
(***************************************************************************)
EXTENDS Naturals

CONSTANT Friends    \* the friend cores

VARIABLES
  call,   \* call[f]: progress of the OFFLOAD core f is in, if any
  ran     \* ran[f]: executions of the block of f's latest OFFLOAD

vars == <<call, ran>>

Init ==
  /\ call = [f \in Friends |-> "idle"]
  /\ ran = [f \in Friends |-> 0]

\* Core f reaches an OFFLOAD statement.
Issue(f) ==
  /\ call[f] = "idle"
  /\ call' = [call EXCEPT ![f] = "pending"]
  /\ ran' = [ran EXCEPT ![f] = 0]

\* Hakase takes up the block of f; it serves one block at a time.
Begin(f) ==
  /\ call[f] = "pending"
  /\ \A g \in Friends : call[g] # "running"
  /\ call' = [call EXCEPT ![f] = "running"]
  /\ UNCHANGED ran

\* Hakase executes the block of f.
Execute(f) ==
  /\ call[f] = "running"
  /\ call' = [call EXCEPT ![f] = "executed"]
  /\ ran' = [ran EXCEPT ![f] = @ + 1]

\* Core f continues after the OFFLOAD statement.
Return(f) ==
  /\ call[f] = "executed"
  /\ call' = [call EXCEPT ![f] = "idle"]
  /\ UNCHANGED ran

Next == \E f \in Friends : Issue(f) \/ Begin(f) \/ Execute(f) \/ Return(f)

Spec == Init /\ [][Next]_vars
=============================================================================
